----------------------------- MODULE ChatServer -----------------------------
(***************************************************************************)
(* comms::ChatServiceImpl (lib/comms/server.cc) between the clients that   *)
(* call it and the two threads that sleep on its condition variable: the   *)
(* consensus thread (Node::RunTaskInWait) and the validator's Listen.      *)
(*                                                                         *)
(* One thread runs HandleRpcs.  The queues have mutexes of their own, and  *)
(* neither waiter holds one of them when it goes to sleep: each waits with *)
(* a private mutex that the server never takes, so no lock joins the test  *)
(* of the predicate to the wait.                                           *)
(*                                                                         *)
(* should_broadcast_ stays true while RunTaskInWait waits (module Bracha)  *)
(* and _listen is never set to false.                                      *)
(***************************************************************************)
EXTENDS Integers, Sequences, FiniteSets

CONSTANTS
    Sender,     \* the sender threads of the validators, which call Talk
    Wallet,     \* the wallets, which call Sync and NewTx
    MaxTalks,   \* bound: calls of Talk per sender, one at a time
    MaxRequests,\* bound: calls of Sync and NewTx per wallet, one at a time
    MaxSets,    \* bound: calls of setUTXOlists
    MaxTasks    \* bound: TX tasks that wait to run

ASSUME ServerAssumption ==
    /\ Sender \cap Wallet = {}
    /\ MaxTalks \in Nat
    /\ MaxRequests \in Nat
    /\ MaxSets \in Nat
    /\ MaxTasks \in Nat

Client == Sender \cup Wallet

Kind == {"Talk", "NewTx", "Sync"}

KindsOf(c) == IF c \in Sender THEN {"Talk"} ELSE {"NewTx", "Sync"}

MaxCalls(c) == IF c \in Sender THEN MaxTalks ELSE MaxRequests

Idle == [kind |-> "none", num |-> 0]

VARIABLES
    call,       \* call[c]: the call c is waiting for
    made,       \* how many calls c has made
    armed,      \* armed[k]: CallData objects that wait for a request
    finishing,  \* finishing[k]: those that wait for their reply to be sent
    spc,        \* where HandleRpcs is
    cur,        \* the client and the call that are being processed
    mq, txq,    \* the queues
    npc, batch, \* RunTaskInWait and its msg_list
    handled,    \* what updateRecvMessages was given
    lpc,        \* Listen
    txTasks,    \* TX tasks that Listen has registered and that have not run
    taken,      \* what getTransactions has returned to them
    utxolists,  \* the version of utxolists_; 0 when it is empty
    version,    \* the version that was set last
    reply,      \* reply[c]: the version in the last reply to c
    \* History: the version that was complete when c made its last call.
    asOf

clientVars == <<call, made, reply, asOf>>
serverVars == <<armed, finishing, spc, cur>>
nodeVars   == <<npc, batch, handled>>
listenVars == <<lpc, txTasks, taken>>
utxoVars   == <<utxolists, version>>
vars == <<clientVars, serverVars, mq, txq, nodeVars, listenVars, utxoVars>>

Init ==
    /\ call = [c \in Client |-> Idle]
    /\ made = [c \in Client |-> 0]
    /\ reply = [c \in Client |-> 1]
    /\ asOf = [c \in Client |-> 1]
    /\ armed = [k \in Kind |-> 1]
    /\ finishing = [k \in Kind |-> 0]
    /\ spc = "next"
    /\ cur = <<>>
    /\ mq = <<>>
    /\ txq = <<>>
    /\ npc = "check"
    /\ batch = <<>>
    /\ handled = <<>>
    /\ lpc = "check"
    /\ txTasks = 0
    /\ taken = <<>>
    /\ utxolists = 1
    /\ version = 1

-----------------------------------------------------------------------------
(* The clients: ChatClient::Talk, NewTx and Sync, which return when the    *)
(* reply comes.                                                            *)

MakeCall(c, k) ==
    /\ k \in KindsOf(c)
    /\ call[c] = Idle
    /\ made[c] < MaxCalls(c)
    /\ made' = [made EXCEPT ![c] = @ + 1]
    /\ call' = [call EXCEPT ![c] = [kind |-> k, num |-> made[c] + 1]]
    /\ asOf' = [asOf EXCEPT ![c] = IF utxolists = 0 THEN version - 1 ELSE version]
    /\ UNCHANGED <<reply, serverVars, mq, txq, nodeVars, listenVars, utxoVars>>

-----------------------------------------------------------------------------
(* HandleRpcs and the Proceed methods.                                     *)

\* Mutant: the CallData that replaces the one in use is not created.
ProceedWithoutSuccessor(c) ==
    LET k == call[c].kind
    IN  /\ spc = "next"
        /\ k \in Kind
        /\ armed[k] > 0
        /\ armed' = [armed EXCEPT ![k] = @ - 1]
        /\ spc' = IF k = "Sync" THEN "read" ELSE "push"
        /\ cur' = <<c, call[c]>>
        /\ UNCHANGED <<clientVars, finishing, mq, txq, nodeVars, listenVars,
                       utxoVars>>

\* START_PROCESS, up to the queue or the map: the object in use creates the
\* one that will take the next call of its kind.
Proceed(c) ==
    LET k == call[c].kind
    IN  /\ spc = "next"
        /\ k \in Kind
        /\ armed[k] > 0
        /\ armed' = [armed EXCEPT ![k] = (@ - 1) + 1]
        /\ spc' = IF k = "Sync" THEN "read" ELSE "push"
        /\ cur' = <<c, call[c]>>
        /\ UNCHANGED <<clientVars, finishing, mq, txq, nodeVars, listenVars,
                       utxoVars>>

ProceedPush ==
    /\ spc = "push"
    /\ \/ cur[2].kind = "Talk" /\ mq' = Append(mq, cur) /\ UNCHANGED txq
       \/ cur[2].kind = "NewTx" /\ txq' = Append(txq, cur) /\ UNCHANGED mq
    /\ spc' = "notify"
    /\ UNCHANGED <<clientVars, armed, finishing, cur, nodeVars, listenVars,
                   utxoVars>>

\* Mutant: notify_one.
ProceedNotifyOne ==
    /\ spc = "notify"
    /\ \/ npc = "asleep" /\ npc' = "check" /\ UNCHANGED lpc
       \/ lpc = "asleep" /\ lpc' = "check" /\ UNCHANGED npc
       \/ npc # "asleep" /\ lpc # "asleep" /\ UNCHANGED <<npc, lpc>>
    /\ spc' = "finish"
    /\ UNCHANGED <<clientVars, armed, finishing, cur, mq, txq, batch, handled,
                   txTasks, taken, utxoVars>>

\* notify_all wakes both waiters, whichever queue the call went to.
ProceedNotify ==
    /\ spc = "notify"
    /\ npc' = IF npc = "asleep" THEN "check" ELSE npc
    /\ lpc' = IF lpc = "asleep" THEN "check" ELSE lpc
    /\ spc' = "finish"
    /\ UNCHANGED <<clientVars, armed, finishing, cur, mq, txq, batch, handled,
                   txTasks, taken, utxoVars>>

\* Mutant: the reply is filled when the CallData object is created.
ProceedReadEarly ==
    /\ spc = "read"
    /\ UNCHANGED reply
    /\ spc' = "finish"
    /\ UNCHANGED <<call, made, asOf, armed, finishing, cur, mq, txq, nodeVars,
                   listenVars, utxoVars>>

\* CallDataSync reads the map without utxolists_mutex_.  If it is cleared
\* between find and operator[], the latter inserts an empty list: the reply is
\* the same as when it is cleared before.
ProceedRead ==
    /\ spc = "read"
    /\ reply' = [reply EXCEPT ![cur[1]] = utxolists]
    /\ spc' = "finish"
    /\ UNCHANGED <<call, made, asOf, armed, finishing, cur, mq, txq, nodeVars,
                   listenVars, utxoVars>>

\* Mutant: the CallData stays current when its reply is sent.
ProceedFinishKeepsCall ==
    /\ spc = "finish"
    /\ call' = [call EXCEPT ![cur[1]] = Idle]
    /\ finishing' = [finishing EXCEPT ![cur[2].kind] = @ + 1]
    /\ spc' = "next"
    /\ UNCHANGED <<made, reply, asOf, armed, cur, mq, txq, nodeVars,
                   listenVars, utxoVars>>

ProceedFinish ==
    /\ spc = "finish"
    /\ call' = [call EXCEPT ![cur[1]] = Idle]
    /\ finishing' = [finishing EXCEPT ![cur[2].kind] = @ + 1]
    /\ spc' = "next"
    /\ cur' = <<>>
    /\ UNCHANGED <<made, reply, asOf, armed, mq, txq, nodeVars, listenVars,
                   utxoVars>>

\* FINISH: delete this.
ProceedDelete(k) ==
    /\ spc = "next"
    /\ finishing[k] > 0
    /\ finishing' = [finishing EXCEPT ![k] = @ - 1]
    /\ UNCHANGED <<clientVars, armed, spc, cur, mq, txq, nodeVars, listenVars,
                   utxoVars>>

HandleRpcs ==
    \/ \E c \in Client : Proceed(c)
    \/ ProceedPush \/ ProceedNotify \/ ProceedRead \/ ProceedFinish
    \/ \E k \in Kind : ProceedDelete(k)

-----------------------------------------------------------------------------
(* Node::RunTaskInWait, and updateRecvMessages after it.                   *)

NewConsensusMessages ==
    /\ npc = "check"
    /\ npc' = IF mq # <<>> THEN "get" ELSE "block"
    /\ UNCHANGED <<clientVars, serverVars, mq, txq, batch, handled, listenVars,
                   utxoVars>>

NodeBlocks ==
    /\ npc = "block"
    /\ npc' = "asleep"
    /\ UNCHANGED <<clientVars, serverVars, mq, txq, batch, handled, listenVars,
                   utxoVars>>

\* Mutant: the messages stay in the queue.
GetMessagesCopies ==
    /\ npc = "get"
    /\ batch' = mq
    /\ npc' = "update"
    /\ UNCHANGED <<clientVars, serverVars, mq, txq, handled, listenVars, utxoVars>>

GetMessages ==
    /\ npc = "get"
    /\ batch' = mq
    /\ mq' = <<>>
    /\ npc' = "update"
    /\ UNCHANGED <<clientVars, serverVars, txq, handled, listenVars, utxoVars>>

UpdateRecvMessages ==
    /\ npc = "update"
    /\ handled' = handled \o batch
    /\ batch' = <<>>
    /\ npc' = "check"
    /\ UNCHANGED <<clientVars, serverVars, mq, txq, listenVars, utxoVars>>

RunTaskInWait ==
    NewConsensusMessages \/ NodeBlocks \/ GetMessages \/ UpdateRecvMessages

-----------------------------------------------------------------------------
(* Validator::Listen, and the TX task in the event thread.                 *)

NewRequests ==
    /\ lpc = "check"
    /\ lpc' = IF txq # <<>> THEN "register" ELSE "block"
    /\ UNCHANGED <<clientVars, serverVars, mq, txq, nodeVars, txTasks, taken,
                   utxoVars>>

ListenBlocks ==
    /\ lpc = "block"
    /\ lpc' = "asleep"
    /\ UNCHANGED <<clientVars, serverVars, mq, txq, nodeVars, txTasks, taken,
                   utxoVars>>

\* Listen may find the same requests again before the task has run.
OnRequest ==
    /\ lpc = "register"
    /\ txTasks < MaxTasks
    /\ txTasks' = txTasks + 1
    /\ lpc' = "check"
    /\ UNCHANGED <<clientVars, serverVars, mq, txq, nodeVars, taken, utxoVars>>

GetTransactions ==
    /\ txTasks > 0
    /\ txTasks' = txTasks - 1
    /\ taken' = taken \o txq
    /\ txq' = <<>>
    /\ UNCHANGED <<clientVars, serverVars, mq, nodeVars, lpc, utxoVars>>

Listen == NewRequests \/ ListenBlocks \/ OnRequest

-----------------------------------------------------------------------------
(* setUTXOlists: clear and assign, under a mutex nobody else takes.        *)

SetClear ==
    /\ utxolists = version
    /\ version <= MaxSets
    /\ version' = version + 1
    /\ utxolists' = 0
    /\ UNCHANGED <<clientVars, serverVars, mq, txq, nodeVars, listenVars>>

SetAssign ==
    /\ utxolists # version
    /\ utxolists' = version
    /\ UNCHANGED <<clientVars, serverVars, mq, txq, nodeVars, listenVars,
                   version>>

-----------------------------------------------------------------------------
Next ==
    \/ \E c \in Client, k \in Kind : MakeCall(c, k)
    \/ HandleRpcs
    \/ RunTaskInWait
    \/ Listen
    \/ GetTransactions
    \/ SetClear
    \/ SetAssign

Spec == Init /\ [][Next]_vars

\* Every thread that can run does; nobody has to make a call.
Fairness ==
    /\ WF_vars(\E c \in Client : Proceed(c))
    /\ WF_vars(ProceedPush \/ ProceedNotify \/ ProceedRead \/ ProceedFinish)
    /\ WF_vars(RunTaskInWait)
    /\ WF_vars(Listen)
    /\ WF_vars(GetTransactions)

FairSpec == Spec /\ Fairness

-----------------------------------------------------------------------------
(* Properties.                                                             *)

Entry == UNION {{c} \X [kind : KindsOf(c) \ {"Sync"}, num : 1 .. MaxCalls(c)] :
                  c \in Client}

\* Every variable has its type, and HandleRpcs has a call in hand exactly
\* while it is not waiting for one.
TypeOK ==
    /\ \A c \in Client :
          /\ call[c] \in {Idle} \cup [kind : Kind, num : 1 .. MaxCalls(c)]
          /\ made[c] \in 0 .. MaxCalls(c)
    /\ asOf \in [Client -> Nat]
    /\ reply \in [Client -> Nat]
    /\ armed \in [Kind -> Nat]
    /\ finishing \in [Kind -> Nat]
    /\ spc \in {"next", "push", "notify", "read", "finish"}
    /\ IF spc = "next" THEN cur = <<>>
                       ELSE cur[2] = call[cur[1]] /\ cur[2].kind \in Kind
    /\ mq \in Seq(Entry)
    /\ txq \in Seq(Entry)
    /\ npc \in {"check", "block", "asleep", "get", "update"}
    /\ batch \in Seq(Entry)
    /\ handled \in Seq(Entry)
    /\ lpc \in {"check", "block", "asleep", "register"}
    /\ txTasks \in 0 .. MaxTasks
    /\ taken \in Seq(Entry)
    /\ utxolists \in {0, version}
    /\ version \in Nat

\* The consensus messages and the transactions that have come in, in order.
Messages     == handled \o batch \o mq
Transactions == taken \o txq

InOrder(s) ==
    \A i, j \in DOMAIN s :
        (i < j /\ s[i][1] = s[j][1]) => s[i][2].num < s[j][2].num

Has(s, e) == \E i \in DOMAIN s : s[i] = e

\* What one client sends is received in the order it was sent in, nothing
\* twice, and a call is not answered before its message is in a queue.  The
\* logs and cursors of module Bracha rest on this.
LinkOrder ==
    /\ InOrder(Messages)
    /\ InOrder(Transactions)
    /\ (spc = "finish" /\ cur[2].kind # "Sync") =>
          Has(Messages \o Transactions, cur)

\* Every call is answered: the objects that take the calls replace each other
\* (Proceed), so the server never goes deaf.
CallsReturn == \A c \in Client : (call[c] # Idle) ~> (call[c] = Idle)

\* A message is handled if, when it is queued, the thread it is for is either
\* asleep or has still to test its predicate: notify_all reaches the right
\* one of two threads on one condition variable.
WakeupReaches ==
    /\ \A e \in {e \in Entry : e[1] \in Sender} :
          (/\ Has(mq, e)
           /\ \/ npc \in {"check", "get", "update"}
              \/ npc = "asleep" /\ spc = "notify")
          ~> Has(handled, e)
    /\ \A e \in {e \in Entry : e[1] \in Wallet} :
          (/\ Has(txq, e)
           /\ \/ lpc \in {"check", "register"}
              \/ lpc = "asleep" /\ spc = "notify")
          ~> Has(taken, e)

\* Sync answers with lists that were complete at some moment of the call, or
\* with no list at all (CallDataSync reads the map that setUTXOlists is
\* replacing): never with lists that were replaced before the call.
SyncCurrent ==
    \A c \in Client :
        (spc = "finish" /\ cur[1] = c /\ cur[2].kind = "Sync") =>
            \/ reply[c] = 0
            \/ reply[c] \in asOf[c] .. version
=============================================================================
