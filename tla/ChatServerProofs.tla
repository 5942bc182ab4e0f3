-------------------------- MODULE ChatServerProofs --------------------------
(***************************************************************************)
(* Proofs about ChatServer, for any number of senders, wallets and calls.  *)
(***************************************************************************)
EXTENDS ChatServer, SequenceTheorems, TLAPS

\* A call that a client can make.
CallOf(c) == [kind : KindsOf(c), num : 1 .. MaxCalls(c)]

\* A client waits for its last call, or for none.
ClientsOK ==
    /\ call \in [Client -> [kind : Kind \cup {"none"}, num : Nat]]
    /\ made \in [Client -> Nat]
    /\ \A c \in Client :
          /\ made[c] <= MaxCalls(c)
          /\ call[c] # Idle => call[c] \in CallOf(c) /\ call[c].num = made[c]

\* HandleRpcs processes the call of some client, and only a call of Sync is
\* answered from the map.
ServingOK ==
    spc # "next" =>
        \E c \in Client :
            /\ call[c] # Idle
            /\ cur = <<c, call[c]>>
            /\ spc = "read" => call[c].kind = "Sync"
            /\ spc \in {"push", "notify"} => call[c].kind # "Sync"

\* msg_list is empty but between getMessages and updateRecvMessages, and there
\* has been a version before the one that is being assigned.
Typed ==
    /\ TypeOK
    /\ ClientsOK
    /\ ServingOK
    /\ npc # "update" => batch = <<>>
    /\ version >= 1

-----------------------------------------------------------------------------
(* Types.                                                                  *)

\* The server starts with the types of its variables.
LEMMA InitTyped == Init => Typed
  <1> SUFFICES ASSUME Init PROVE Typed
    OBVIOUS
  <1>1. Idle \in [kind : Kind \cup {"none"}, num : Nat]
    BY DEF Idle
  <1>2. \A c \in Client : MaxCalls(c) \in Nat
    BY ServerAssumption DEF MaxCalls
  <1>3. ClientsOK
    BY <1>1, <1>2 DEF Init, ClientsOK
  <1>4. TypeOK
    BY <1>2, ServerAssumption DEF Init, TypeOK
  <1> QED
    BY <1>3, <1>4 DEF Init, Typed, ServingOK

\* A call that a client waits for is of a kind that the server serves.
LEMMA CallTypes ==
    ASSUME Typed, NEW c \in Client, call[c] # Idle
    PROVE  /\ call[c].kind \in KindsOf(c)
           /\ call[c].kind \in Kind
           /\ call[c].num \in 1 .. MaxCalls(c)
           /\ call[c].num = made[c]
  BY DEF Typed, ClientsOK, CallOf, KindsOf, Kind

\* A client that makes a call keeps the types.
LEMMA MakeCallTyped ==
    ASSUME Typed, NEW c \in Client, NEW k \in Kind, MakeCall(c, k)
    PROVE  Typed'
  <1> DEFINE new == [kind |-> k, num |-> made[c] + 1]
  <1>1. \A b \in Client : MaxCalls(b) \in Nat
    BY ServerAssumption DEF MaxCalls
  <1>2. made[c] + 1 \in 1 .. MaxCalls(c) /\ made[c] \in Nat
    BY <1>1 DEF MakeCall, Typed, ClientsOK
  <1>3. /\ new \in CallOf(c) /\ new \in [kind : Kind, num : 1 .. MaxCalls(c)]
        /\ new \in [kind : Kind \cup {"none"}, num : Nat]
        /\ new.num = made[c] + 1
    BY <1>2 DEF CallOf, MakeCall
  <1>4. /\ call' = [call EXCEPT ![c] = new]
        /\ made' = [made EXCEPT ![c] = made[c] + 1]
        /\ call[c] = Idle
        /\ UNCHANGED <<reply, serverVars, mq, txq, nodeVars, listenVars, utxoVars>>
    BY DEF MakeCall
  <1> HIDE DEF new
  <1>5. ClientsOK'
    BY <1>2, <1>3, <1>4 DEF Typed, ClientsOK
  <1>6. asOf' \in [Client -> Nat]
    <2>1. version - 1 \in Nat /\ version \in Nat
      BY DEF Typed, TypeOK
    <2> QED
      BY <2>1 DEF MakeCall, Typed, TypeOK
  <1>7. ServingOK'
    <2>1. \A b \in Client : call[b] # Idle => call'[b] = call[b]
      BY <1>4 DEF Typed, ClientsOK
    <2> QED
      BY <1>4, <2>1 DEF Typed, ServingOK, serverVars
  <1>8. \A b \in Client : /\ call'[b] \in {Idle} \cup [kind : Kind, num : 1 .. MaxCalls(b)]
                          /\ made'[b] \in 0 .. MaxCalls(b)
    BY <1>2, <1>3, <1>4 DEF Typed, TypeOK, ClientsOK
  <1>9. spc' # "next" => cur'[2] = call'[cur'[1]] /\ cur'[2].kind \in Kind
    <2>1. \A b \in Client : call[b] # Idle => call'[b] = call[b] /\ call[b].kind \in Kind
      BY <1>4, CallTypes DEF Typed, ClientsOK
    <2> QED
      BY <1>4, <2>1 DEF Typed, ServingOK, serverVars
  <1>10. TypeOK'
    BY <1>4, <1>6, <1>8, <1>9 DEF Typed, TypeOK, serverVars, nodeVars, listenVars, utxoVars
  <1> QED
    BY <1>4, <1>5, <1>7, <1>10 DEF Typed, nodeVars, utxoVars

\* HandleRpcs keeps the types.
LEMMA HandleRpcsTyped ==
    ASSUME Typed, HandleRpcs
    PROVE  Typed'
  <1> USE DEF clientVars, nodeVars, listenVars, utxoVars
  <1>1. ASSUME NEW c \in Client, Proceed(c) PROVE Typed'
    <2>1. call[c] # Idle /\ call[c].kind \in Kind
      BY <1>1 DEF Proceed, Idle, Kind
    <2>2. armed' \in [Kind -> Nat]
      BY <1>1, <2>1 DEF Proceed, Typed, TypeOK
    <2>3. /\ spc' = IF call[c].kind = "Sync" THEN "read" ELSE "push"
          /\ cur' = <<c, call[c]>>
          /\ UNCHANGED <<clientVars, finishing, mq, txq, nodeVars, listenVars, utxoVars>>
      BY <1>1 DEF Proceed
    <2>4. ServingOK'
      BY <2>1, <2>3 DEF ServingOK
    <2>5. TypeOK'
      <3>1. /\ spc' \in {"push", "read"}
            /\ cur'[2] = call'[cur'[1]] /\ cur'[2].kind \in Kind
        BY <2>1, <2>3
      <3> QED
        BY <2>2, <2>3, <3>1 DEF Typed, TypeOK
    <2> QED
      BY <2>3, <2>4, <2>5 DEF Typed, ClientsOK
  <1>2. ASSUME ProceedPush PROVE Typed'
    <2>1. PICK c \in Client : call[c] # Idle /\ cur = <<c, call[c]>> /\ call[c].kind # "Sync"
      BY <1>2 DEF ProceedPush, Typed, ServingOK
    <2>2. cur \in Entry
      <3>1. call[c] \in [kind : KindsOf(c) \ {"Sync"}, num : 1 .. MaxCalls(c)]
        BY <2>1 DEF Typed, ClientsOK, CallOf
      <3> QED
        BY <2>1, <3>1 DEF Entry
    <2>3. mq' \in Seq(Entry) /\ txq' \in Seq(Entry)
      <3>1. mq \in Seq(Entry) /\ txq \in Seq(Entry)
        BY DEF Typed, TypeOK
      <3>2. Append(mq, cur) \in Seq(Entry) /\ Append(txq, cur) \in Seq(Entry)
        BY <2>2, <3>1
      <3> QED
        BY <1>2, <3>1, <3>2 DEF ProceedPush
    <2>4. /\ spc = "push" /\ spc' = "notify"
          /\ UNCHANGED <<clientVars, armed, finishing, cur, nodeVars, listenVars, utxoVars>>
      BY <1>2 DEF ProceedPush
    <2>5. ServingOK'
      BY <2>1, <2>4 DEF ServingOK
    <2>6. TypeOK'
      <3>1. cur'[2] = call'[cur'[1]] /\ cur'[2].kind \in Kind
        BY <2>1, <2>4, CallTypes
      <3> QED
        BY <2>3, <2>4, <3>1 DEF Typed, TypeOK
    <2> QED
      BY <2>4, <2>5, <2>6 DEF Typed, ClientsOK
  <1>3. ASSUME ProceedNotify PROVE Typed'
    <2>1. ServingOK'
      BY <1>3 DEF ProceedNotify, Typed, ServingOK
    <2>2. TypeOK'
      BY <1>3 DEF ProceedNotify, Typed, TypeOK
    <2> QED
      BY <1>3, <2>1, <2>2 DEF ProceedNotify, Typed, ClientsOK
  <1>4. ASSUME ProceedRead PROVE Typed'
    <2>1. ServingOK'
      BY <1>4 DEF ProceedRead, Typed, ServingOK
    <2>2. TypeOK'
      <3>1. utxolists \in Nat
        BY DEF Typed, TypeOK
      <3>2. reply' \in [Client -> Nat]
        BY <1>4, <3>1 DEF ProceedRead, Typed, TypeOK
      <3> QED
        BY <1>4, <3>2 DEF ProceedRead, Typed, TypeOK
    <2> QED
      BY <1>4, <2>1, <2>2 DEF ProceedRead, Typed, ClientsOK
  <1>5. ASSUME ProceedFinish PROVE Typed'
    <2>1. PICK c \in Client : call[c] # Idle /\ cur = <<c, call[c]>>
      BY <1>5 DEF ProceedFinish, Typed, ServingOK
    <2>2. cur[1] = c /\ cur[2].kind \in Kind
      BY <2>1, CallTypes
    <2>3. finishing' \in [Kind -> Nat]
      BY <1>5, <2>2 DEF ProceedFinish, Typed, TypeOK
    <2>4. Idle \in [kind : Kind \cup {"none"}, num : Nat]
      BY DEF Idle
    <2>5. /\ call' = [call EXCEPT ![c] = Idle]
          /\ spc' = "next" /\ cur' = <<>>
          /\ UNCHANGED <<made, reply, asOf, armed, mq, txq, nodeVars, listenVars, utxoVars>>
      BY <1>5, <2>2 DEF ProceedFinish
    <2>6. ClientsOK'
      BY <2>4, <2>5 DEF Typed, ClientsOK
    <2>7. \A b \in Client : call'[b] \in {Idle} \cup [kind : Kind, num : 1 .. MaxCalls(b)]
      BY <2>5 DEF Typed, TypeOK, ClientsOK
    <2>8. TypeOK'
      BY <2>3, <2>5, <2>7 DEF Typed, TypeOK
    <2> QED
      BY <2>5, <2>6, <2>8 DEF Typed, ServingOK
  <1>6. ASSUME NEW k \in Kind, ProceedDelete(k) PROVE Typed'
    <2>1. finishing' \in [Kind -> Nat]
      BY <1>6 DEF ProceedDelete, Typed, TypeOK
    <2>2. TypeOK'
      BY <1>6, <2>1 DEF ProceedDelete, Typed, TypeOK
    <2> QED
      BY <1>6, <2>2 DEF ProceedDelete, Typed, ClientsOK, ServingOK
  <1> QED
    BY <1>1, <1>2, <1>3, <1>4, <1>5, <1>6 DEF HandleRpcs

\* The consensus thread, Listen, the TX task and setUTXOlists keep the types.
LEMMA OthersTyped ==
    ASSUME Typed, RunTaskInWait \/ Listen \/ GetTransactions \/ SetClear \/ SetAssign
    PROVE  Typed'
  <1> USE DEF clientVars, serverVars, nodeVars, listenVars, utxoVars
  <1>1. ClientsOK' /\ ServingOK'
    BY DEF RunTaskInWait, NewConsensusMessages, NodeBlocks, GetMessages, UpdateRecvMessages,
           Listen, NewRequests, ListenBlocks, OnRequest, GetTransactions, SetClear,
           SetAssign, Typed, ClientsOK, ServingOK
  <1>2. <<>> \in Seq(Entry)
    OBVIOUS
  <1>3. CASE NewConsensusMessages \/ NodeBlocks
    BY <1>1, <1>3 DEF NewConsensusMessages, NodeBlocks, Typed, TypeOK
  <1>4. CASE GetMessages
    BY <1>1, <1>2, <1>4 DEF GetMessages, Typed, TypeOK
  <1>5. CASE UpdateRecvMessages
    <2>1. handled \o batch \in Seq(Entry)
      BY DEF Typed, TypeOK
    <2> QED
      BY <1>1, <1>2, <1>5, <2>1 DEF UpdateRecvMessages, Typed, TypeOK
  <1>6. CASE NewRequests \/ ListenBlocks
    BY <1>1, <1>6 DEF NewRequests, ListenBlocks, Typed, TypeOK
  <1>7. CASE OnRequest
    <2>1. txTasks' \in 0 .. MaxTasks
      BY <1>7, ServerAssumption DEF OnRequest, Typed, TypeOK
    <2> QED
      BY <1>1, <1>7, <2>1 DEF OnRequest, Typed, TypeOK
  <1>8. CASE GetTransactions
    <2>1. taken \o txq \in Seq(Entry)
      BY DEF Typed, TypeOK
    <2>2. txTasks' \in 0 .. MaxTasks
      BY <1>8, ServerAssumption DEF GetTransactions, Typed, TypeOK
    <2> QED
      BY <1>1, <1>2, <1>8, <2>1, <2>2 DEF GetTransactions, Typed, TypeOK
  <1>9. CASE SetClear \/ SetAssign
    BY <1>1, <1>9, SMTT(30) DEF SetClear, SetAssign, Typed, TypeOK
  <1> QED
    BY <1>3, <1>4, <1>5, <1>6, <1>7, <1>8, <1>9 DEF RunTaskInWait, Listen

\* Every step keeps the types.
LEMMA NextTyped ==
    ASSUME Typed, [Next]_vars
    PROVE  Typed'
  <1>1. CASE UNCHANGED vars
    BY <1>1 DEF vars, clientVars, serverVars, nodeVars, listenVars, utxoVars, Typed,
                TypeOK, ClientsOK, ServingOK
  <1> QED
    BY <1>1, MakeCallTyped, HandleRpcsTyped, OthersTyped DEF Next

\* The types hold throughout.
LEMMA AlwaysTyped == Spec => []Typed
  BY InitTyped, NextTyped, PTL DEF Spec

\* Every variable of ChatServiceImpl and of its waiters keeps its type, and
\* HandleRpcs has a call in hand exactly while it is not waiting for one.
THEOREM ServerTypeCorrect == Spec => []TypeOK
  <1>1. Typed => TypeOK
    BY DEF Typed
  <1> QED
    BY <1>1, AlwaysTyped, PTL

-----------------------------------------------------------------------------
(* Order.                                                                  *)

\* The message of the call that c waits for may be in a queue.
Queued(c) == spc \in {"notify", "finish"} /\ cur[1] = c

\* The entries of a client have the numbers of calls it has made, and do not
\* reach the call it waits for before that one is queued.
NumbersOK(s) ==
    \A i \in 1 .. Len(s) :
        LET c == s[i][1]
        IN  /\ s[i][2].num <= made[c]
            /\ (call[c] # Idle /\ ~Queued(c)) => s[i][2].num < made[c]

\* The call in hand is in a queue when the waiters are notified.
QueuedIsThere ==
    (spc \in {"notify", "finish"} /\ cur[2].kind # "Sync") =>
        Has(Messages \o Transactions, cur)

OrderInv ==
    /\ InOrder(Messages) /\ NumbersOK(Messages)
    /\ InOrder(Transactions) /\ NumbersOK(Transactions)
    /\ QueuedIsThere


\* The messages and the transactions are sequences of entries.
LEMMA LinkTypes ==
    ASSUME Typed
    PROVE  /\ handled \o batch \in Seq(Entry) /\ mq \in Seq(Entry)
           /\ taken \in Seq(Entry) /\ txq \in Seq(Entry)
           /\ Messages \in Seq(Entry)
           /\ Transactions \in Seq(Entry)
  BY DEF Typed, TypeOK, Messages, Transactions

\* What is put at the end of a queue is put at the end of the link.
LEMMA AppendToLink ==
    ASSUME NEW S, NEW a \in Seq(S), NEW q \in Seq(S), NEW e \in S
    PROVE  a \o Append(q, e) = Append(a \o q, e)
  <1>1. <<e>> \in Seq(S) /\ Append(q, e) = q \o <<e>> /\ Append(a \o q, e) = (a \o q) \o <<e>>
    BY AppendIsConcat
  <1> QED
    BY <1>1, ConcatAssociative

\* The call in hand may follow smaller numbers of its client.
LEMMA AppendInOrder ==
    ASSUME NEW s \in Seq(Entry), NEW e \in Entry, InOrder(s),
           \A i \in 1 .. Len(s) : s[i][1] = e[1] => s[i][2].num < e[2].num
    PROVE  InOrder(Append(s, e))
  <1>1. /\ Append(s, e) \in Seq(Entry)
        /\ Len(Append(s, e)) = Len(s) + 1 /\ Len(s) \in Nat
        /\ \A i \in 1 .. Len(s) : Append(s, e)[i] = s[i]
        /\ Append(s, e)[Len(s) + 1] = e
    BY AppendProperties, LenProperties
  <1>2. DOMAIN Append(s, e) = 1 .. Len(s) + 1 /\ DOMAIN s = 1 .. Len(s)
    BY <1>1, LenProperties
  <1> DEFINE r == Append(s, e)
  <1> HIDE DEF r
  <1>3. SUFFICES ASSUME NEW i \in 1 .. Len(s) + 1, NEW j \in 1 .. Len(s) + 1,
                        i < j, r[i][1] = r[j][1]
                 PROVE  r[i][2].num < r[j][2].num
    BY <1>2 DEF InOrder, r
  <1>4. i \in 1 .. Len(s) /\ r[i] = s[i]
    BY <1>1, <1>3 DEF r
  <1>5. CASE j = Len(s) + 1
    BY <1>1, <1>3, <1>4, <1>5 DEF r
  <1>6. CASE j # Len(s) + 1
    <2>1. j \in 1 .. Len(s) /\ r[j] = s[j]
      BY <1>1, <1>6 DEF r
    <2> QED
      BY <1>2, <1>3, <1>4, <2>1 DEF InOrder
  <1> QED
    BY <1>5, <1>6

\* What is in one of two sequences is in both together.
LEMMA HasConcat ==
    ASSUME NEW S, NEW s \in Seq(S), NEW t \in Seq(S), NEW e, Has(s, e) \/ Has(t, e)
    PROVE  Has(s \o t, e)
  <1>1. /\ Len(s) \in Nat /\ Len(t) \in Nat
        /\ DOMAIN s = 1 .. Len(s) /\ DOMAIN t = 1 .. Len(t)
        /\ DOMAIN (s \o t) = 1 .. Len(s) + Len(t)
    BY LenProperties, ConcatProperties
  <1>2. CASE Has(s, e)
    <2>1. PICK i \in 1 .. Len(s) : s[i] = e
      BY <1>1, <1>2 DEF Has
    <2>2. i \in 1 .. Len(s) + Len(t) /\ (s \o t)[i] = e
      BY <1>1, <2>1, ConcatProperties
    <2> QED
      BY <1>1, <2>2 DEF Has
  <1>3. CASE Has(t, e)
    <2>1. PICK i \in 1 .. Len(t) : t[i] = e
      BY <1>1, <1>3 DEF Has
    <2>2. Len(s) + i \in 1 .. Len(s) + Len(t) /\ (s \o t)[Len(s) + i] = e
      BY <1>1, <2>1, ConcatProperties
    <2> QED
      BY <1>1, <2>2 DEF Has
  <1> QED
    BY <1>2, <1>3

\* getMessages, updateRecvMessages and getTransactions move what has come in
\* on, in its order; nothing but a push adds to it.
LEMMA LinkMoves ==
    ASSUME Typed, [Next]_vars, ~ProceedPush
    PROVE  Messages' = Messages /\ Transactions' = Transactions
  <1> USE DEF clientVars, serverVars, nodeVars, listenVars, utxoVars
  <1>1. CASE GetMessages
    <2>1. batch = <<>> /\ batch' = mq /\ mq' = <<>> /\ handled' = handled
      BY <1>1 DEF GetMessages, Typed
    <2>2. handled \in Seq(Entry) /\ mq \in Seq(Entry) /\ handled \o mq \in Seq(Entry)
      BY DEF Typed, TypeOK
    <2>3. (handled \o mq) \o <<>> = handled \o mq /\ handled \o <<>> = handled
      BY <2>2, ConcatEmptySeq
    <2>4. Messages' = (handled \o mq) \o <<>> /\ Messages = (handled \o <<>>) \o mq
      BY <2>1 DEF Messages
    <2> QED
      BY <1>1, <2>3, <2>4 DEF GetMessages, Transactions
  <1>2. CASE UpdateRecvMessages
    <2>1. batch' = <<>> /\ mq' = mq /\ handled' = handled \o batch
      BY <1>2 DEF UpdateRecvMessages
    <2>2. (handled \o batch) \o <<>> = handled \o batch
      BY LinkTypes, ConcatEmptySeq
    <2>3. Messages' = ((handled \o batch) \o <<>>) \o mq
      BY <2>1 DEF Messages
    <2> QED
      BY <1>2, <2>2, <2>3 DEF UpdateRecvMessages, Messages, Transactions
  <1>3. CASE GetTransactions
    <2>1. txq' = <<>> /\ taken' = taken \o txq
      BY <1>3 DEF GetTransactions
    <2>2. (taken \o txq) \o <<>> = taken \o txq
      BY LinkTypes, ConcatEmptySeq DEF Transactions
    <2> QED
      BY <1>3, <2>1, <2>2 DEF GetTransactions, Messages, Transactions
  <1>4. CASE UNCHANGED <<handled, batch, mq, taken, txq>>
    BY <1>4 DEF Messages, Transactions
  <1>5. \/ UNCHANGED <<handled, batch, mq, taken, txq>>
        \/ GetMessages \/ UpdateRecvMessages \/ GetTransactions
    BY DEF Next, vars, MakeCall, HandleRpcs, Proceed, ProceedNotify, ProceedRead,
           ProceedFinish, ProceedDelete, RunTaskInWait, NewConsensusMessages, NodeBlocks,
           Listen, NewRequests, ListenBlocks, OnRequest, SetClear, SetAssign
  <1> QED
    BY <1>1, <1>2, <1>3, <1>4, <1>5

\* The steps of a client and of HandleRpcs, as the numbers see them: a client
\* has one call at a time.
LEMMA NumbersStep ==
    ASSUME Typed, [Next]_vars, ~ProceedPush, NEW s \in Seq(Entry), NumbersOK(s)
    PROVE  NumbersOK(s)'
  <1> SUFFICES ASSUME NEW i \in 1 .. Len(s)
               PROVE  /\ s[i][2].num <= made'[s[i][1]]
                      /\ (call'[s[i][1]] # Idle /\ ~Queued(s[i][1])')
                              => s[i][2].num < made'[s[i][1]]
    BY DEF NumbersOK
  <1>1. PICK b \in Client : b = s[i][1] /\ s[i][2].num \in Nat
    <2>1. s[i] \in Entry
      OBVIOUS
    <2> QED
      BY <2>1 DEF Entry
  <1>2. PICK n \in Nat : n = s[i][2].num
    BY <1>1
  <1>3. n <= made[b] /\ ((call[b] # Idle /\ ~Queued(b)) => n < made[b]) /\ made[b] \in Nat
    BY <1>1, <1>2 DEF NumbersOK, Typed, ClientsOK
  <1>4. n <= made'[b] /\ ((call'[b] # Idle /\ ~Queued(b)') => n < made'[b])
    <2>1. ASSUME NEW c \in Client, NEW k \in Kind, MakeCall(c, k)
          PROVE  n <= made'[b] /\ ((call'[b] # Idle /\ ~Queued(b)') => n < made'[b])
      <3>1. /\ made'[b] = IF b = c THEN made[b] + 1 ELSE made[b]
            /\ b # c => call'[b] = call[b]
            /\ Queued(b)' <=> Queued(b)
        BY <2>1 DEF MakeCall, Typed, ClientsOK, Queued, serverVars
      <3> QED
        BY <1>3, <3>1
    <2>2. CASE \E c \in Client : Proceed(c)
      BY <1>3, <2>2 DEF Proceed, Queued, clientVars
    <2>3. CASE ProceedNotify
      BY <1>3, <2>3 DEF ProceedNotify, Queued, clientVars
    <2>4. CASE ProceedRead
      BY <1>3, <2>4 DEF ProceedRead, Queued
    <2>5. CASE ProceedFinish
      <3>1. PICK c \in Client : call[c] # Idle /\ cur = <<c, call[c]>>
        BY <2>5 DEF ProceedFinish, Typed, ServingOK
      <3>2. /\ made' = made
            /\ call'[b] = IF b = c THEN Idle ELSE call[b]
            /\ Queued(b) => b = c
        BY <2>5, <3>1 DEF ProceedFinish, Typed, ClientsOK, Queued
      <3> QED
        BY <1>3, <3>2
    <2>6. CASE UNCHANGED <<made, call, spc, cur>>
      BY <1>3, <2>6 DEF Queued
    <2>7. \/ \E c \in Client, k \in Kind : MakeCall(c, k)
          \/ \E c \in Client : Proceed(c)
          \/ ProceedNotify \/ ProceedRead \/ ProceedFinish
          \/ UNCHANGED <<made, call, spc, cur>>
      BY DEF Next, vars, HandleRpcs, ProceedDelete, RunTaskInWait, NewConsensusMessages,
             NodeBlocks, GetMessages, UpdateRecvMessages, Listen, NewRequests, ListenBlocks,
             OnRequest, GetTransactions, SetClear, SetAssign, clientVars, serverVars
    <2> QED
      BY <2>1, <2>2, <2>3, <2>4, <2>5, <2>6, <2>7
  <1> QED
    BY <1>1, <1>2, <1>4

\* A push puts the call in hand behind smaller numbers of its client.
LEMMA PushNumbers ==
    ASSUME Typed, ProceedPush, NEW s \in Seq(Entry), NumbersOK(s), InOrder(s)
    PROVE  /\ cur \in Entry
           /\ InOrder(Append(s, cur))
           /\ NumbersOK(s)'
           /\ NumbersOK(Append(s, cur))'
  <1>1. PICK c \in Client : call[c] # Idle /\ cur = <<c, call[c]>> /\ call[c].kind # "Sync"
    BY DEF ProceedPush, Typed, ServingOK
  <1>2. call[c] \in [kind : KindsOf(c) \ {"Sync"}, num : 1 .. MaxCalls(c)]
    BY <1>1 DEF Typed, ClientsOK, CallOf
  <1>3. cur \in Entry
    BY <1>1, <1>2 DEF Entry
  <1>4. /\ spc = "push" /\ spc' = "notify"
        /\ UNCHANGED <<call, made, cur>>
    BY DEF ProceedPush, clientVars
  <1>5. call[c].num = made[c] /\ made[c] \in Nat
    BY <1>1 DEF Typed, ClientsOK
  <1>6. \A b : ~Queued(b) /\ (Queued(b)' <=> b = c)
    BY <1>1, <1>4 DEF Queued
  <1>7. \A i \in 1 .. Len(s) : s[i][1] = cur[1] => s[i][2].num < cur[2].num
    BY <1>1, <1>5, <1>6 DEF NumbersOK
  <1>8. InOrder(Append(s, cur))
    BY <1>3, <1>7, AppendInOrder
  <1>9. NumbersOK(s)'
    BY <1>4, <1>6 DEF NumbersOK
  <1>10. PICK e \in Entry : e = cur /\ e[1] = c /\ e[2].num = made[c]
    BY <1>1, <1>3, <1>5
  <1>11. NumbersOK(Append(s, e))'
    <2>1. /\ Len(Append(s, e)) = Len(s) + 1 /\ Len(s) \in Nat
          /\ \A i \in 1 .. Len(s) : Append(s, e)[i] = s[i]
          /\ Append(s, e)[Len(s) + 1] = e
      BY AppendProperties, LenProperties
    <2>2. e[2].num <= made'[e[1]] /\ Queued(e[1])'
      BY <1>4, <1>5, <1>6, <1>10
    <2>3. ASSUME NEW i \in 1 .. Len(Append(s, e)), NEW f, f = Append(s, e)[i]
          PROVE  /\ f[2].num <= made'[f[1]]
                 /\ (call'[f[1]] # Idle /\ ~Queued(f[1])') => f[2].num < made'[f[1]]
      <3>1. CASE i = Len(s) + 1
        BY <2>1, <2>2, <2>3, <3>1
      <3>2. CASE i # Len(s) + 1
        <4>1. i \in 1 .. Len(s) /\ f = s[i]
          BY <2>1, <2>3, <3>2
        <4> QED
          BY <4>1, <1>9 DEF NumbersOK
      <3> QED
        BY <3>1, <3>2
    <2> QED
      BY <2>3 DEF NumbersOK
  <1> QED
    BY <1>3, <1>4, <1>8, <1>9, <1>10, <1>11

\* Every step keeps the order of the links.
LEMMA NextKeepsOrder ==
    ASSUME Typed, OrderInv, [Next]_vars
    PROVE  OrderInv'
  <1>1. PICK m \in Seq(Entry), t \in Seq(Entry) : m = Messages /\ t = Transactions
    BY LinkTypes
  <1>2. InOrder(m) /\ NumbersOK(m) /\ InOrder(t) /\ NumbersOK(t)
    BY <1>1 DEF OrderInv
  <1>3. CASE ~ProceedPush
    <2>1. Messages' = m /\ Transactions' = t
      BY <1>1, <1>3, LinkMoves
    <2>2. NumbersOK(m)' /\ NumbersOK(t)'
      BY <1>2, <1>3, NumbersStep
    <2>3. QueuedIsThere'
      <3> SUFFICES ASSUME spc' \in {"notify", "finish"}, cur'[2].kind # "Sync"
                   PROVE  spc \in {"notify", "finish"} /\ cur' = cur
        BY <1>1, <2>1 DEF QueuedIsThere, OrderInv
      <3>1. ~ProceedRead
        <4>1. ProceedRead => cur[2].kind = "Sync" /\ cur' = cur
          BY DEF ProceedRead, Typed, ServingOK
        <4> QED
          BY <4>1
      <3> QED
        BY <1>3, <3>1
           DEF Next, vars, MakeCall, HandleRpcs, Proceed, ProceedNotify, ProceedFinish,
               ProceedDelete, RunTaskInWait, NewConsensusMessages, NodeBlocks, GetMessages,
               UpdateRecvMessages, Listen, NewRequests, ListenBlocks, OnRequest,
               GetTransactions, SetClear, SetAssign, serverVars
    <2> QED
      BY <1>2, <2>1, <2>2, <2>3 DEF OrderInv, NumbersOK
  <1>4. CASE ProceedPush
    <2>1. PICK e \in Entry : e = cur
      BY <1>2, <1>4, PushNumbers
    <2>2. /\ InOrder(Append(m, e)) /\ NumbersOK(Append(m, e))' /\ NumbersOK(m)'
          /\ InOrder(Append(t, e)) /\ NumbersOK(Append(t, e))' /\ NumbersOK(t)'
          /\ cur' = cur
      <3>1. cur' = cur
        BY <1>4 DEF ProceedPush
      <3> QED
        BY <1>2, <1>4, <2>1, <3>1, PushNumbers DEF NumbersOK
    <2>3. \/ Messages' = Append(m, e) /\ Transactions' = t
          \/ Messages' = m /\ Transactions' = Append(t, e)
      <3>1. UNCHANGED <<handled, batch, taken>>
        BY <1>4 DEF ProceedPush, nodeVars, listenVars
      <3>2. /\ (handled \o batch) \o Append(mq, e) = Append((handled \o batch) \o mq, e)
            /\ taken \o Append(txq, e) = Append(taken \o txq, e)
        <4>1. PICK a \in Seq(Entry), q \in Seq(Entry), b \in Seq(Entry), r \in Seq(Entry) :
                  a = handled \o batch /\ q = mq /\ b = taken /\ r = txq
          BY LinkTypes, Zenon
        <4>2. a \o Append(q, e) = Append(a \o q, e) /\ b \o Append(r, e) = Append(b \o r, e)
          BY AppendToLink, SMTT(30)
        <4> QED
          BY <4>1, <4>2, Zenon
      <3>3. CASE mq' = Append(mq, e) /\ UNCHANGED txq
        BY <1>1, <3>1, <3>2, <3>3 DEF Messages, Transactions
      <3>4. CASE txq' = Append(txq, e) /\ UNCHANGED mq
        BY <1>1, <3>1, <3>2, <3>4 DEF Messages, Transactions
      <3> QED
        BY <1>4, <2>1, <3>3, <3>4 DEF ProceedPush
    <2>4. Has(Messages' \o Transactions', e)
      <3>1. Has(Append(m, e), e) /\ Has(Append(t, e), e)
        <4>1. \A q \in Seq(Entry) : /\ DOMAIN Append(q, e) = 1 .. Len(q) + 1
                                    /\ Len(q) + 1 \in 1 .. Len(q) + 1
                                    /\ Append(q, e)[Len(q) + 1] = e
          BY AppendProperties, LenProperties
        <4> QED
          BY <4>1 DEF Has
      <3>2. Append(m, e) \in Seq(Entry) /\ Append(t, e) \in Seq(Entry)
        OBVIOUS
      <3> QED
        BY <2>3, <3>1, <3>2, HasConcat
    <2>5. QueuedIsThere'
      BY <2>1, <2>2, <2>4 DEF QueuedIsThere
    <2> QED
      BY <1>2, <2>2, <2>3, <2>5 DEF OrderInv, NumbersOK
  <1> QED
    BY <1>3, <1>4

\* What one client sends by Talk or NewTx reaches updateRecvMessages or the TX
\* task in the order it was sent in, nothing twice, and HandleRpcs answers no
\* call whose message is not in a queue.
THEOREM LinksInOrder == Spec => []LinkOrder
  <1>1. Init => OrderInv
    <2> SUFFICES ASSUME Init PROVE OrderInv
      OBVIOUS
    <2>1. Messages = <<>> /\ Transactions = <<>>
      BY DEF Init, Messages, Transactions
    <2> QED
      BY <2>1 DEF Init, OrderInv, InOrder, NumbersOK, QueuedIsThere
  <1>2. OrderInv => LinkOrder
    BY DEF OrderInv, LinkOrder, QueuedIsThere
  <1> QED
    BY <1>1, <1>2, NextKeepsOrder, AlwaysTyped, PTL DEF Spec

-----------------------------------------------------------------------------
(* Sync.                                                                   *)

\* No reply is older than the lists that were complete when the call was made.
SyncInv ==
    /\ \A c \in Client : asOf[c] <= version
    /\ SyncCurrent

\* Every step keeps it: the lists only get newer, and a client makes no call
\* while one is being answered.
LEMMA NextKeepsSync ==
    ASSUME Typed, SyncInv, [Next]_vars
    PROVE  SyncInv'
  <1>1. \A c \in Client : asOf[c] \in Nat /\ reply[c] \in Nat
    BY DEF Typed, TypeOK
  <1>2. version \in Nat /\ version >= 1 /\ utxolists \in {0, version}
    BY DEF Typed, TypeOK
  <1>3. ASSUME NEW c \in Client, NEW k \in Kind, MakeCall(c, k) PROVE SyncInv'
    <2>1. \A b \in Client : asOf'[b] <= version'
      BY <1>1, <1>2, <1>3 DEF MakeCall, SyncInv, Typed, TypeOK, utxoVars
    <2>2. ASSUME spc = "finish" PROVE cur[1] # c
      BY <1>3, <2>2 DEF MakeCall, Typed, ServingOK
    <2>3. /\ UNCHANGED <<spc, cur, reply, version>>
          /\ \A b \in Client : b # c => asOf'[b] = asOf[b]
      BY <1>3 DEF MakeCall, Typed, TypeOK, serverVars, utxoVars
    <2> QED
      BY <2>1, <2>2, <2>3 DEF SyncInv, SyncCurrent
  <1>4. ASSUME ProceedRead PROVE SyncInv'
    <2>1. UNCHANGED <<asOf, version, utxolists, cur>> /\ reply' = [reply EXCEPT ![cur[1]] = utxolists]
      BY <1>4 DEF ProceedRead, utxoVars
    <2>2. \A c \in Client : c = cur[1] => reply'[c] = utxolists
      BY <2>1 DEF Typed, TypeOK
    <2> QED
      BY <1>1, <1>2, <2>1, <2>2 DEF SyncInv, SyncCurrent
  <1>5. ASSUME ProceedNotify PROVE SyncInv'
    <2>1. cur[2].kind # "Sync" /\ cur' = cur /\ UNCHANGED <<asOf, version>>
      BY <1>5 DEF ProceedNotify, Typed, ServingOK, clientVars, utxoVars
    <2> QED
      BY <2>1 DEF SyncInv, SyncCurrent
  <1>6. ASSUME spc' # "finish" \/ UNCHANGED <<spc, cur>>,
               UNCHANGED <<asOf, reply>>, version' \in Nat, version <= version'
        PROVE  SyncInv'
    <2>1. \A c \in Client : asOf'[c] <= version'
      BY <1>1, <1>2, <1>6 DEF SyncInv
    <2>2. SyncCurrent'
      BY <1>1, <1>2, <1>6 DEF SyncInv, SyncCurrent
    <2> QED
      BY <2>1, <2>2 DEF SyncInv
  <1>7. \/ \E c \in Client, k \in Kind : MakeCall(c, k)
        \/ ProceedRead \/ ProceedNotify
        \/ /\ spc' # "finish" \/ UNCHANGED <<spc, cur>>
           /\ UNCHANGED <<asOf, reply>>
           /\ version' \in {version, version + 1}
    BY DEF Next, vars, HandleRpcs, Proceed, ProceedPush, ProceedFinish, ProceedDelete,
           RunTaskInWait, NewConsensusMessages, NodeBlocks, GetMessages, UpdateRecvMessages,
           Listen, NewRequests, ListenBlocks, OnRequest, GetTransactions, SetClear,
           SetAssign, clientVars, serverVars, utxoVars
  <1> QED
    BY <1>2, <1>3, <1>4, <1>5, <1>6, <1>7

\* CallDataSync answers with lists that were complete at some moment of the
\* call or with none at all, although setUTXOlists replaces them under a mutex
\* that the reader does not take.
THEOREM SyncIsCurrent == Spec => []SyncCurrent
  <1>1. Init => SyncInv
    BY DEF Init, SyncInv, SyncCurrent
  <1>2. SyncInv => SyncCurrent
    BY DEF SyncInv
  <1> QED
    BY <1>1, <1>2, NextKeepsSync, AlwaysTyped, PTL DEF Spec
=============================================================================
