-------------------------- MODULE SenderPoolProofs --------------------------
(***************************************************************************)
(* Proofs about SenderPool, for any number of servers, callers and calls:  *)
(* types, the mutex, and that the pool is a log until there is a race.     *)
(***************************************************************************)
EXTENDS SenderPool, SequenceTheorems, FiniteSetTheorems, TLAPS

-----------------------------------------------------------------------------
(* Types.                                                                  *)

\* TypeOK and what it needs to be inductive: a call of Broadcast that is under
\* way is one that the bound allows.
Typed ==
    /\ TypeOK
    /\ \A c \in Caller : cpc[c] # "idle" => count[c] + 1 \in 1 .. MaxBroadcasts

\* The pool starts with the types of its variables.
LEMMA InitTyped == Init => Typed
  <1> SUFFICES ASSUME Init PROVE Typed
    OBVIOUS
  <1>1. /\ queue \in [Server -> Seq(Message)]
        /\ hand \in [Server -> Seq(Message)]
        /\ calls \in [Server -> Seq(Message)]
    BY DEF Init
  <1>2. /\ next \in [Caller -> Server]
        /\ count \in [Caller -> 0 .. MaxBroadcasts]
    BY PoolAssumption DEF Init, Server
  <1>3. TypeOK
    BY <1>1, <1>2 DEF Init, TypeOK
  <1> QED
    BY <1>3 DEF Init, Typed

\* A step of a sender thread keeps the types.
LEMMA ThreadTyped ==
    ASSUME Typed, NEW d \in Server, RunThread(d) \/ SpuriousWake(d)
    PROVE  Typed'
  <1> SUFFICES ASSUME UNCHANGED <<stop, calVars, dpc>> PROVE TypeOK'
    BY DEF RunThread, SpuriousWake, Enter, Check, Block, Take, TakeNothing,
           SendMessage, Loop, Typed, calVars
  <1> USE DEF calVars
  <1>1. CASE Enter(d)
    BY <1>1 DEF Enter, Typed, TypeOK
  <1>2. CASE Check(d)
    BY <1>2 DEF Check, Typed, TypeOK
  <1>3. CASE Block(d)
    BY <1>3 DEF Block, Typed, TypeOK
  <1>4. CASE SpuriousWake(d)
    BY <1>4 DEF SpuriousWake, Typed, TypeOK
  <1>5. CASE Take(d)
    <2>1. /\ queue[d] \in Seq(Message)
          /\ Head(queue[d]) \in Message
          /\ Tail(queue[d]) \in Seq(Message)
      BY <1>5 DEF Take, Typed, TypeOK
    <2>2. <<Head(queue[d])>> \in Seq(Message) /\ Len(<<Head(queue[d])>>) = 1
      BY <2>1
    <2>3. /\ queue' \in [Server -> Seq(Message)]
          /\ hand' \in [Server -> Seq(Message)]
          /\ \A e \in Server : Len(hand'[e]) = IF tpc'[e] = "send" THEN 1 ELSE 0
      BY <1>5, <2>1, <2>2 DEF Take, Typed, TypeOK
    <2>4. /\ tpc' \in [Server -> {"start", "top", "check", "block", "asleep", "woken",
                                   "take", "send", "sent", "leave", "done"}]
          /\ held' = FALSE
          /\ UNCHANGED <<stop, calls, cpc, next, count, dpc>>
      BY <1>5 DEF Take, Typed, TypeOK
    <2> QED
      BY <2>3, <2>4 DEF Typed, TypeOK
  <1>6. CASE TakeNothing(d)
    BY <1>6 DEF TakeNothing, Typed, TypeOK
  <1>7. CASE SendMessage(d)
    <2>1. calls[d] \o hand[d] \in Seq(Message)
      BY DEF Typed, TypeOK
    <2>2. <<>> \in Seq(Message) /\ Len(<<>>) = 0
      OBVIOUS
    <2>3. calls' \in [Server -> Seq(Message)]
      BY <1>7, <2>1 DEF SendMessage, Typed, TypeOK
    <2>4. hand' \in [Server -> Seq(Message)]
      BY <1>7, <2>2 DEF SendMessage, Typed, TypeOK
    <2>5. \A e \in Server : Len(hand'[e]) = IF tpc'[e] = "send" THEN 1 ELSE 0
      <3>1. /\ hand'[d] = <<>> /\ tpc'[d] = "sent"
            /\ \A e \in Server : e # d => hand'[e] = hand[e] /\ tpc'[e] = tpc[e]
        BY <1>7 DEF SendMessage, Typed, TypeOK
      <3> QED
        BY <3>1, <2>2 DEF Typed, TypeOK
    <2> QED
      BY <1>7, <2>3, <2>4, <2>5 DEF SendMessage, Typed, TypeOK
  <1>8. CASE Loop(d)
    BY <1>8 DEF Loop, Typed, TypeOK
  <1> QED
    BY <1>1, <1>2, <1>3, <1>4, <1>5, <1>6, <1>7, <1>8 DEF RunThread

\* notify_all wakes sleepers, and nobody with a message in hand.
LEMMA NotifyTyped ==
    ASSUME Typed, NotifyAll, UNCHANGED hand
    PROVE  /\ tpc' \in [Server -> {"start", "top", "check", "block", "asleep", "woken",
                                   "take", "send", "sent", "leave", "done"}]
           /\ \A d \in Server : Len(hand'[d]) = IF tpc'[d] = "send" THEN 1 ELSE 0
  BY DEF NotifyAll, Typed, TypeOK

\* A step of Broadcast keeps the types.
LEMMA BroadcastTyped ==
    ASSUME Typed, NEW c \in Caller, BroadcastLock(c) \/ Broadcasting(c)
    PROVE  Typed'
  <1> USE DEF thrVars, calVars
  <1>1. CASE BroadcastLock(c)
    <2>1. 1 \in Server
      BY PoolAssumption DEF Server
    <2>2. /\ next' \in [Caller -> Server]
          /\ cpc' \in [Caller -> {"idle", "push", "unlock", "notify"}]
          /\ held' = TRUE
          /\ UNCHANGED <<queue, stop, tpc, hand, calls, count, dpc>>
      BY <1>1, <2>1 DEF BroadcastLock, Typed, TypeOK
    <2>3. \A b \in Caller : cpc'[b] # "idle" => count[b] + 1 \in 1 .. MaxBroadcasts
      BY <1>1, PoolAssumption DEF BroadcastLock, Typed, TypeOK
    <2> QED
      BY <2>2, <2>3 DEF Typed, TypeOK
  <1>2. CASE BroadcastPush(c)
    <2>1. <<c, count[c] + 1>> \in Message /\ next[c] \in Server
      BY <1>2 DEF BroadcastPush, Typed, TypeOK, Message
    <2>2. queue' \in [Server -> Seq(Message)]
      BY <1>2, <2>1 DEF BroadcastPush, Typed, TypeOK
    <2>3. /\ next' \in [Caller -> Server]
          /\ cpc' \in [Caller -> {"idle", "push", "unlock", "notify"}]
      <3>1. next[c] < NumServers => next[c] + 1 \in Server
        BY <2>1, PoolAssumption DEF Server
      <3>2. \/ /\ next[c] < NumServers
               /\ next' = [next EXCEPT ![c] = next[c] + 1]
               /\ UNCHANGED cpc
            \/ /\ cpc' = [cpc EXCEPT ![c] = "unlock"]
               /\ UNCHANGED next
        BY <1>2 DEF BroadcastPush
      <3> QED
        BY <3>1, <3>2 DEF Typed, TypeOK
    <2>4. \A b \in Caller : cpc'[b] # "idle" => cpc[b] # "idle"
      BY <1>2 DEF BroadcastPush, Typed, TypeOK
    <2> QED
      BY <1>2, <2>2, <2>3, <2>4 DEF BroadcastPush, Typed, TypeOK
  <1>3. CASE BroadcastUnlock(c)
    BY <1>3 DEF BroadcastUnlock, Typed, TypeOK
  <1>4. CASE BroadcastReturn(c)
    <2>1. /\ tpc' \in [Server -> {"start", "top", "check", "block", "asleep", "woken",
                                   "take", "send", "sent", "leave", "done"}]
          /\ \A d \in Server : Len(hand'[d]) = IF tpc'[d] = "send" THEN 1 ELSE 0
      BY <1>4, NotifyTyped DEF BroadcastReturn
    <2>2. count' \in [Caller -> 0 .. MaxBroadcasts]
      BY <1>4, PoolAssumption DEF BroadcastReturn, Typed, TypeOK
    <2>3. \A b \in Caller : cpc'[b] # "idle" => cpc[b] # "idle" /\ count'[b] = count[b]
      BY <1>4 DEF BroadcastReturn, Typed, TypeOK
    <2> QED
      BY <1>4, <2>1, <2>2, <2>3 DEF BroadcastReturn, Typed, TypeOK
  <1> QED
    BY <1>1, <1>2, <1>3, <1>4 DEF Broadcasting

\* Every step of the pool keeps the types.
LEMMA NextTyped ==
    ASSUME Typed, [Next]_vars
    PROVE  Typed'
  <1>1. CASE DestroyStop
    BY <1>1 DEF DestroyStop, Typed, TypeOK, thrVars, calVars
  <1>2. CASE DestroyNotify
    BY <1>2, NotifyTyped DEF DestroyNotify, Typed, TypeOK, calVars
  <1>3. CASE DestroyJoin
    BY <1>3 DEF DestroyJoin, Typed, TypeOK, thrVars, calVars
  <1>4. CASE UNCHANGED vars
    BY <1>4 DEF vars, Typed, TypeOK, thrVars, calVars
  <1> QED
    BY <1>1, <1>2, <1>3, <1>4, ThreadTyped, BroadcastTyped DEF Next, Destroying

\* The types hold throughout.
LEMMA AlwaysTyped == Spec => []Typed
  BY InitTyped, NextTyped, PTL DEF Spec

\* Every variable of the pool keeps its type: a thread has a message in hand
\* exactly while it is about to send it, and Broadcast stays in servers_.
THEOREM PoolTypeCorrect == Spec => []TypeOK
  <1>1. Typed => TypeOK
    BY DEF Typed
  <1> QED
    BY <1>1, AlwaysTyped, PTL

-----------------------------------------------------------------------------
(* The mutex.                                                              *)

\* Whoever takes mq_mtx_ is in its critical section, and whoever leaves that
\* section leaves the mutex free, his own or another's.
LEMMA NextKeepsMutex ==
    ASSUME Typed, MutexNotLeaked, [Next]_vars
    PROVE  MutexNotLeaked'
  <1> USE DEF MutexNotLeaked
  <1>1. ASSUME NEW d \in Server, RunThread(d) \/ SpuriousWake(d) PROVE MutexNotLeaked'
    <2>1. CASE Enter(d)
      BY <2>1 DEF Enter, Typed, TypeOK
    <2>2. CASE Check(d)
      BY <2>2 DEF Check, Typed, TypeOK, calVars
    <2>3. CASE Block(d) \/ Take(d)
      BY <2>3 DEF Block, Take
    <2>4. CASE SpuriousWake(d)
      BY <2>4 DEF SpuriousWake, Typed, TypeOK, calVars
    <2>5. CASE TakeNothing(d)
      BY <2>5 DEF TakeNothing, Typed, TypeOK, calVars
    <2>6. CASE SendMessage(d)
      BY <2>6 DEF SendMessage, Typed, TypeOK, calVars
    <2>7. CASE Loop(d)
      BY <2>7 DEF Loop, Typed, TypeOK, calVars
    <2> QED
      BY <1>1, <2>1, <2>2, <2>3, <2>4, <2>5, <2>6, <2>7 DEF RunThread
  <1>2. ASSUME NEW c \in Caller, BroadcastLock(c) \/ Broadcasting(c) PROVE MutexNotLeaked'
    <2>1. CASE BroadcastLock(c)
      BY <2>1 DEF BroadcastLock, Typed, TypeOK
    <2>2. CASE BroadcastPush(c)
      BY <2>2 DEF BroadcastPush, Typed, TypeOK, thrVars
    <2>3. CASE BroadcastUnlock(c)
      BY <2>3 DEF BroadcastUnlock
    <2>4. CASE BroadcastReturn(c)
      BY <2>4 DEF BroadcastReturn, NotifyAll, Typed, TypeOK
    <2> QED
      BY <1>2, <2>1, <2>2, <2>3, <2>4 DEF Broadcasting
  <1>3. CASE DestroyStop \/ DestroyJoin
    BY <1>3 DEF DestroyStop, DestroyJoin, thrVars, calVars
  <1>4. CASE DestroyNotify
    BY <1>4 DEF DestroyNotify, NotifyAll, Typed, TypeOK, calVars
  <1>5. CASE UNCHANGED vars
    BY <1>5 DEF vars, thrVars, calVars
  <1> QED
    BY <1>1, <1>2, <1>3, <1>4, <1>5 DEF Next, Destroying

\* mq_mtx_ is never left locked by a thread that is past its critical section,
\* however often the unique_lock of RunThread_ unlocks it once too often.
THEOREM MutexIsNotLeaked == Spec => []MutexNotLeaked
  <1>1. Init => MutexNotLeaked
    BY DEF Init, MutexNotLeaked
  <1> QED
    BY <1>1, NextKeepsMutex, AlwaysTyped, PTL DEF Spec

-----------------------------------------------------------------------------
(* The log.                                                                *)

\* What caller c is about to put in a queue.
Msg(c) == <<c, count[c] + 1>>

\* A server has the same messages as the one before it, but for the message
\* of the caller that is on its way from that one to this one.
Chain ==
    \A d \in 1 .. NumServers - 1 :
        \/ Pushing(d + 1) = {} /\ Pushed(d) = Pushed(d + 1)
        \/ \E c \in Pushing(d + 1) : Pushed(d) = Append(Pushed(d + 1), Msg(c))

\* What was put in the queue of a server is how the log begins.
Prefixes ==
    \A d \in Server :
        /\ Len(Pushed(d)) <= Len(Pushed(1))
        /\ \A i \in 1 .. Len(Pushed(d)) : Pushed(d)[i] = Pushed(1)[i]

LogInv == Racing \/ (Chain /\ Prefixes)

\* Taking the front of a queue in hand changes nothing of what was pushed.
LEMMA TakeKeepsOrder ==
    ASSUME NEW S, NEW a \in Seq(S), NEW q \in Seq(S), q # <<>>
    PROVE  (a \o <<>>) \o q = (a \o <<Head(q)>>) \o Tail(q)
  <1>1. Head(q) \in S /\ Tail(q) \in Seq(S) /\ <<Head(q)>> \in Seq(S)
    OBVIOUS
  <1>2. q = <<Head(q)>> \o Tail(q)
    OBVIOUS
  <1>3. (a \o <<Head(q)>>) \o Tail(q) = a \o (<<Head(q)>> \o Tail(q))
    BY <1>1, ConcatAssociative
  <1>4. a \o <<>> = a
    BY ConcatEmptySeq
  <1> QED
    BY <1>2, <1>3, <1>4

\* What is put at the end of a queue is put at the end of what was pushed.
LEMMA AppendKeepsOrder ==
    ASSUME NEW S, NEW a \in Seq(S), NEW q \in Seq(S), NEW m \in S
    PROVE  a \o Append(q, m) = Append(a \o q, m)
  <1>1. <<m>> \in Seq(S) /\ Append(q, m) = q \o <<m>> /\ Append(a \o q, m) = (a \o q) \o <<m>>
    BY AppendIsConcat
  <1> QED
    BY <1>1, ConcatAssociative

\* The message in hand is the one after those that were sent.
LEMMA HandIsNext ==
    ASSUME NEW S, NEW a \in Seq(S), NEW h \in Seq(S), NEW q \in Seq(S), Len(h) = 1
    PROVE  /\ Len(a) + 1 <= Len((a \o h) \o q)
           /\ ((a \o h) \o q)[Len(a) + 1] = h[1]
           /\ a \o h = Append(a, h[1])
  <1>1. PICK x \in S : h[1] = x
    <2>1. 1 \in 1 .. Len(h)
      OBVIOUS
    <2> QED
      BY <2>1, ElementOfSeq
  <1>2. h = <<x>>
    <2>1. <<x>> \in Seq(S) /\ Len(<<x>>) = 1 /\ <<x>>[1] = x
      OBVIOUS
    <2> QED
      BY <1>1, <2>1, SeqEqual
  <1>3. Len(a) \in Nat /\ Len(q) \in Nat
    BY LenProperties
  <1>4. a \o h \in Seq(S) /\ Len(a \o h) = Len(a) + 1
    <2>1. a \o h \in Seq(S) /\ Len(a \o h) = Len(a) + Len(h)
      BY ConcatProperties, Zenon
    <2> QED
      BY <2>1
  <1>5. (a \o h)[Len(a) + 1] = x
    <2>1. Len(a) + 1 \in 1 .. Len(a) + Len(h)
      BY <1>3
    <2>2. (a \o h)[Len(a) + 1] = IF Len(a) + 1 <= Len(a) THEN a[Len(a) + 1]
                                                        ELSE h[(Len(a) + 1) - Len(a)]
      BY <2>1, ConcatProperties, Zenon
    <2>3. ~(Len(a) + 1 <= Len(a)) /\ (Len(a) + 1) - Len(a) = 1
      BY <1>3
    <2> QED
      BY <1>1, <2>2, <2>3, Zenon
  <1>6. /\ Len((a \o h) \o q) = Len(a) + 1 + Len(q)
        /\ ((a \o h) \o q)[Len(a) + 1] = (a \o h)[Len(a) + 1]
    <2>1. Len((a \o h) \o q) = Len(a \o h) + Len(q)
      BY <1>4, ConcatProperties, Zenon
    <2>2. Len(a) + 1 \in 1 .. Len(a \o h) + Len(q) /\ Len(a) + 1 <= Len(a \o h)
      BY <1>3, <1>4
    <2>3. ((a \o h) \o q)[Len(a) + 1] = (a \o h)[Len(a) + 1]
      BY <1>4, <2>2, ConcatProperties, Zenon
    <2> QED
      BY <1>4, <2>1, <2>3
  <1>7. Append(a, x) = a \o <<x>>
    BY AppendIsConcat
  <1>8. Len(a) + 1 <= Len(a) + 1 + Len(q)
    BY <1>3
  <1> QED
    BY <1>1, <1>2, <1>5, <1>6, <1>7, <1>8, Zenon

\* What was pushed is a sequence of messages.
LEMMA PushedType ==
    ASSUME Typed, NEW d \in Server
    PROVE  calls[d] \o hand[d] \in Seq(Message) /\ Pushed(d) \in Seq(Message)
  BY DEF Typed, TypeOK, Pushed

\* A set with two elements is larger than one.
LEMMA TwoElements ==
    ASSUME NEW S, IsFiniteSet(S), NEW a \in S, NEW b \in S, a # b
    PROVE  Cardinality(S) > 1
  <1>1. IsFiniteSet({a}) /\ Cardinality({a}) = 1
    BY FS_Singleton
  <1>2. Cardinality({a} \cup {b}) = 2
    BY <1>1, FS_AddElement
  <1>3. Cardinality({a} \cup {b}) <= Cardinality(S)
    BY FS_Subset
  <1>4. Cardinality(S) \in Nat
    BY FS_CardinalityType
  <1> QED
    BY <1>2, <1>3, <1>4

\* Only finitely many callers are at one queue.
LEMMA PushingFinite ==
    ASSUME NEW d
    PROVE  IsFiniteSet(Pushing(d)) /\ IsFiniteSet(Pushing(d)')
  BY PoolAssumption, FS_Subset DEF Pushing

\* A step that leaves alone what was pushed and who is beyond the first queue
\* keeps the invariant of the log.
LEMMA QuietKeepsLog ==
    ASSUME Typed, Chain, Prefixes,
           \A d \in Server : Pushed(d)' = Pushed(d),
           \A d \in Server : d > 1 => Pushing(d)' = Pushing(d),
           \A c \in Caller : cpc[c] = "push" => count'[c] = count[c]
    PROVE  Chain' /\ Prefixes'
  <1>1. 1 \in Server /\ \A d \in 1 .. NumServers - 1 : d \in Server /\ d + 1 \in Server /\ d + 1 > 1
    BY PoolAssumption DEF Server
  <1>2. Prefixes'
    BY <1>1 DEF Prefixes
  <1>3. ASSUME NEW d \in 1 .. NumServers - 1
        PROVE  \/ Pushing(d + 1)' = {} /\ Pushed(d)' = Pushed(d + 1)'
               \/ \E c \in Pushing(d + 1)' : Pushed(d)' = Append(Pushed(d + 1)', Msg(c)')
    <2>1. Pushing(d + 1)' = Pushing(d + 1) /\ Pushed(d)' = Pushed(d) /\ Pushed(d + 1)' = Pushed(d + 1)
      BY <1>1
    <2>2. \A c \in Pushing(d + 1) : Msg(c)' = Msg(c)
      BY DEF Pushing, Msg
    <2> QED
      BY <2>1, <2>2 DEF Chain
  <1> QED
    BY <1>2, <1>3 DEF Chain

\* A sender thread only moves a message on from its queue to its server.
LEMMA ThreadKeepsPushed ==
    ASSUME Typed, NEW d \in Server, RunThread(d) \/ SpuriousWake(d)
    PROVE  \A e \in Server : Pushed(e)' = Pushed(e)
  <1>1. CASE Take(d)
    <2>1. /\ hand[d] = <<>>
          /\ calls[d] \in Seq(Message) /\ queue[d] \in Seq(Message) /\ queue[d] # <<>>
      BY <1>1 DEF Take, Typed, TypeOK
    <2>2. /\ calls' = calls
          /\ hand'[d] = <<Head(queue[d])>> /\ queue'[d] = Tail(queue[d])
          /\ \A e \in Server : e # d => hand'[e] = hand[e] /\ queue'[e] = queue[e]
      BY <1>1 DEF Take, Typed, TypeOK
    <2>3. Pushed(d)' = Pushed(d)
      BY <2>1, <2>2, TakeKeepsOrder DEF Pushed
    <2> QED
      BY <2>2, <2>3 DEF Pushed
  <1>2. CASE SendMessage(d)
    <2>1. /\ queue' = queue
          /\ hand'[d] = <<>> /\ calls'[d] = calls[d] \o hand[d]
          /\ \A e \in Server : e # d => hand'[e] = hand[e] /\ calls'[e] = calls[e]
      BY <1>2 DEF SendMessage, Typed, TypeOK
    <2>2. (calls[d] \o hand[d]) \o <<>> = calls[d] \o hand[d]
      BY PushedType, ConcatEmptySeq
    <2>3. Pushed(d)' = Pushed(d)
      BY <2>1, <2>2 DEF Pushed
    <2> QED
      BY <2>1, <2>3 DEF Pushed
  <1>3. CASE UNCHANGED <<queue, hand, calls>>
    BY <1>3 DEF Pushed
  <1> QED
    BY <1>1, <1>2, <1>3 DEF RunThread, SpuriousWake, Enter, Check, Block, TakeNothing, Loop

\* Broadcast puts its message at the end of one queue.
LEMMA PushAppends ==
    ASSUME Typed, NEW c \in Caller, BroadcastPush(c), NEW d \in Server, d = next[c]
    PROVE  /\ Msg(c) \in Message
           /\ Pushed(d)' = Append(Pushed(d), Msg(c))
           /\ \A e \in Server : e # d => Pushed(e)' = Pushed(e)
  <1>1. Msg(c) \in Message
    BY DEF BroadcastPush, Typed, TypeOK, Msg, Message
  <1>2. /\ queue'[d] = Append(queue[d], Msg(c))
        /\ \A e \in Server : e # d => queue'[e] = queue[e]
        /\ UNCHANGED <<hand, calls>>
    BY DEF BroadcastPush, Typed, TypeOK, Msg, thrVars
  <1>3. \A e \in Server : /\ calls[e] \o hand[e] \in Seq(Message)
                          /\ queue[e] \in Seq(Message)
    BY PushedType DEF Typed, TypeOK
  <1>4. Pushed(d)' = Append(Pushed(d), Msg(c))
    <2>1. PICK a \in Seq(Message), q \in Seq(Message), m \in Message :
              a = calls[d] \o hand[d] /\ q = queue[d] /\ m = Msg(c)
      BY <1>1, <1>3, Zenon
    <2>2. hand'[d] = hand[d] /\ calls'[d] = calls[d] /\ queue'[d] = Append(q, m)
      BY <1>2, <2>1
    <2>3. Pushed(d)' = a \o Append(q, m) /\ Pushed(d) = a \o q
      BY <2>1, <2>2, Zenon DEF Pushed
    <2>4. a \o Append(q, m) = Append(a \o q, m)
      BY AppendKeepsOrder
    <2> QED
      BY <2>1, <2>3, <2>4, Zenon
  <1> QED
    BY <1>1, <1>2, <1>4 DEF Pushed

\* Unless it ends in a race, a push keeps the invariant of the log: the caller
\* is alone at its queue, and nobody is at the one it goes to.
LEMMA PushKeepsLog ==
    ASSUME Typed, ~Racing, ~Racing', Chain, Prefixes,
           NEW c \in Caller, BroadcastPush(c)
    PROVE  Chain' /\ Prefixes'
  <1>1. PICK d \in Server : d = next[c]
    BY DEF Typed, TypeOK
  <1>2. /\ Msg(c) \in Message /\ Msg(c)' = Msg(c)
        /\ Pushed(d)' = Append(Pushed(d), Msg(c))
        /\ \A e \in Server : e # d => Pushed(e)' = Pushed(e)
        /\ \A e \in Server : Pushed(e) \in Seq(Message)
    BY <1>1, PushAppends, PushedType DEF BroadcastPush, Msg
  <1>3. /\ \A b \in Caller : b # c => cpc'[b] = cpc[b] /\ next'[b] = next[b]
        /\ cpc[c] = "push" /\ count' = count
        /\ \/ d < NumServers /\ cpc'[c] = "push" /\ next'[c] = d + 1
           \/ d = NumServers /\ cpc'[c] = "unlock"
    BY <1>1 DEF BroadcastPush, Typed, TypeOK
  <1>4. Pushing(d) = {c}
    <2>1. c \in Pushing(d)
      BY <1>1, <1>3 DEF Pushing
    <2> QED
      BY <2>1, TwoElements, PushingFinite DEF Racing
  <1>5. NumServers \in Nat /\ d \in 1 .. NumServers /\ Server = 1 .. NumServers
    BY PoolAssumption DEF Server
  <1>6. Pushing(d)' = {}
    BY <1>3, <1>4, <1>5 DEF Pushing
  <1>7. d < NumServers => Pushing(d + 1)' = {c} /\ Pushing(d + 1) = {}
    <2> SUFFICES ASSUME d < NumServers PROVE Pushing(d + 1)' = {c} /\ Pushing(d + 1) = {}
      OBVIOUS
    <2>1. d + 1 \in Server /\ d # d + 1
      BY <1>5
    <2>2. c \in Pushing(d + 1)' /\ c \notin Pushing(d + 1)
      BY <1>1, <1>3, <2>1, <1>5 DEF Pushing
    <2>3. Pushing(d + 1)' = {c}
      BY <2>1, <2>2, TwoElements, PushingFinite DEF Racing
    <2>4. \A b \in Pushing(d + 1) : b # c /\ b \in Pushing(d + 1)'
      BY <1>3, <2>2 DEF Pushing
    <2> QED
      BY <2>3, <2>4
  <1>8. \A e \in Server : (e # d /\ e # d + 1) => Pushing(e)' = Pushing(e)
    BY <1>1, <1>3, <1>5 DEF Pushing
  <1>9. d > 1 => Pushed(d)' = Pushed(d - 1)
    <2> SUFFICES ASSUME d > 1 PROVE Pushed(d)' = Pushed(d - 1)
      OBVIOUS
    <2>1. d - 1 \in 1 .. NumServers - 1 /\ (d - 1) + 1 = d
      BY <1>5
    <2>2. PICK e \in 1 .. NumServers - 1 : e = d - 1
      BY <2>1
    <2>3. Pushed(e) = Append(Pushed(d), Msg(c))
      BY <2>1, <2>2, <1>4 DEF Chain
    <2> QED
      BY <2>2, <2>3, <1>2
  <1>10. ASSUME NEW e \in 1 .. NumServers - 1
         PROVE  \/ Pushing(e + 1)' = {} /\ Pushed(e)' = Pushed(e + 1)'
                \/ \E b \in Pushing(e + 1)' : Pushed(e)' = Append(Pushed(e + 1)', Msg(b)')
    <2>1. e \in Server /\ e + 1 \in Server
      BY <1>5
    <2>2. CASE e = d
      <3>1. Pushed(d) = Pushed(d + 1) /\ c \in Pushing(d + 1)'
        BY <2>2, <1>5, <1>7 DEF Chain
      <3>2. Pushed(d + 1)' = Pushed(d + 1)
        BY <2>1, <2>2, <1>2, <1>5
      <3> QED
        BY <2>2, <3>1, <3>2, <1>2
    <2>3. CASE e + 1 = d
      <3>1. Pushed(d)' = Pushed(e) /\ Pushed(e)' = Pushed(e)
        BY <2>1, <2>3, <1>2, <1>5, <1>9
      <3> QED
        BY <2>3, <3>1, <1>6
    <2>4. CASE e # d /\ e + 1 # d
      <3>1. /\ Pushed(e)' = Pushed(e) /\ Pushed(e + 1)' = Pushed(e + 1)
            /\ Pushing(e + 1)' = Pushing(e + 1)
        BY <2>1, <2>4, <1>2, <1>5, <1>8
      <3>2. \A b \in Caller : Msg(b)' = Msg(b)
        BY <1>3 DEF Msg
      <3> QED
        BY <3>1, <3>2 DEF Chain, Pushing
    <2> QED
      BY <2>2, <2>3, <2>4
  <1>11. Prefixes'
    <2>1. 1 \in Server
      BY <1>5
    <2>2. CASE d = 1
      <3> SUFFICES ASSUME NEW e \in Server, e # 1
                   PROVE  /\ Len(Pushed(e)') <= Len(Pushed(1)')
                          /\ \A i \in 1 .. Len(Pushed(e)') : Pushed(e)'[i] = Pushed(1)'[i]
        BY <2>2, <1>2 DEF Prefixes
      <3>1. /\ Len(Pushed(e)) <= Len(Pushed(1))
            /\ \A i \in 1 .. Len(Pushed(e)) : Pushed(e)[i] = Pushed(1)[i]
            /\ Pushed(e) \in Seq(Message) /\ Pushed(1) \in Seq(Message)
        BY <2>1, <1>2 DEF Prefixes
      <3>2. /\ Pushed(e)' = Pushed(e)
            /\ Pushed(1)' = Append(Pushed(1), Msg(c))
        BY <2>2, <1>2
      <3> QED
        BY <3>1, <3>2, <1>2
    <2>3. CASE d # 1
      <3>1. Pushed(1)' = Pushed(1)
        BY <2>1, <2>3, <1>2
      <3>2. PICK f \in Server : Pushed(d)' = Pushed(f)
        BY <2>3, <1>5, <1>9
      <3>3. \A e \in Server : \E g \in Server : Pushed(e)' = Pushed(g)
        BY <3>2, <1>2
      <3>4. ASSUME NEW e \in Server
            PROVE  /\ Len(Pushed(e)') <= Len(Pushed(1)')
                   /\ \A i \in 1 .. Len(Pushed(e)') : Pushed(e)'[i] = Pushed(1)'[i]
        <4>1. PICK g \in Server : Pushed(e)' = Pushed(g)
          BY <3>3
        <4> QED
          BY <3>1, <4>1 DEF Prefixes
      <3> QED
        BY <3>4 DEF Prefixes
    <2> QED
      BY <2>2, <2>3
  <1> QED
    BY <1>10, <1>11 DEF Chain

\* Every step keeps the invariant of the log.
LEMMA NextKeepsLog ==
    ASSUME Typed, LogInv, [Next]_vars
    PROVE  LogInv'
  <1>1. CASE UNCHANGED vars
    BY <1>1 DEF vars, thrVars, calVars, LogInv, Racing, Pushing, Chain, Prefixes, Pushed, Msg
  <1>2. CASE Next
    <2>1. ~Racing /\ Chain /\ Prefixes
      BY <1>2 DEF Next, LogInv
    <2>2. SUFFICES ASSUME ~Racing' PROVE Chain' /\ Prefixes'
      BY DEF LogInv
    <2>3. ASSUME NEW d \in Server, RunThread(d) \/ SpuriousWake(d) PROVE Chain' /\ Prefixes'
      <3>1. UNCHANGED <<cpc, next, count>>
        BY <2>3 DEF RunThread, SpuriousWake, Enter, Check, Block, Take, TakeNothing,
                    SendMessage, Loop, calVars
      <3> QED
        BY <2>1, <2>3, <3>1, ThreadKeepsPushed, QuietKeepsLog DEF Pushing
    <2>4. ASSUME NEW c \in Caller, BroadcastLock(c) PROVE Chain' /\ Prefixes'
      <3>1. \A e \in Server : Pushed(e)' = Pushed(e)
        BY <2>4 DEF BroadcastLock, Pushed, thrVars
      <3>2. \A e \in Server : e > 1 => Pushing(e)' = Pushing(e)
        BY <2>4, PoolAssumption DEF BroadcastLock, Pushing, Typed, TypeOK, Server
      <3> QED
        BY <2>1, <2>4, <3>1, <3>2, QuietKeepsLog DEF BroadcastLock
    <2>5. ASSUME NEW c \in Caller, BroadcastPush(c) PROVE Chain' /\ Prefixes'
      BY <2>1, <2>2, <2>5, PushKeepsLog
    <2>6. ASSUME NEW c \in Caller, BroadcastUnlock(c) \/ BroadcastReturn(c)
          PROVE  Chain' /\ Prefixes'
      <3>1. \A e \in Server : Pushed(e)' = Pushed(e)
        BY <2>6 DEF BroadcastUnlock, BroadcastReturn, Pushed, thrVars
      <3>2. \A e \in Server : Pushing(e)' = Pushing(e)
        BY <2>6 DEF BroadcastUnlock, BroadcastReturn, Pushing, Typed, TypeOK
      <3>3. \A b \in Caller : cpc[b] = "push" => count'[b] = count[b]
        BY <2>6 DEF BroadcastUnlock, BroadcastReturn, Typed, TypeOK
      <3> QED
        BY <2>1, <3>1, <3>2, <3>3, QuietKeepsLog
    <2>7. ASSUME DestroyStop \/ Destroying PROVE Chain' /\ Prefixes'
      <3>1. UNCHANGED <<queue, hand, calls, cpc, next, count>>
        BY <2>7 DEF DestroyStop, Destroying, DestroyNotify, DestroyJoin, thrVars, calVars
      <3> QED
        BY <2>1, <3>1, QuietKeepsLog DEF Pushing, Pushed
    <2> QED
      BY <1>2, <2>3, <2>4, <2>5, <2>6, <2>7 DEF Next, Broadcasting
  <1> QED
    BY <1>1, <1>2

\* Nothing has been pushed at the start.
LEMMA InitLog == Init => LogInv
  <1> SUFFICES ASSUME Init PROVE Chain /\ Prefixes
    BY DEF LogInv
  <1>1. \A d \in Server : Pushed(d) = <<>>
    BY DEF Init, Pushed
  <1>2. \A d : Pushing(d) = {}
    BY DEF Init, Pushing
  <1>3. 1 \in Server /\ \A d \in 1 .. NumServers - 1 : d \in Server /\ d + 1 \in Server
    BY PoolAssumption DEF Server
  <1> QED
    BY <1>1, <1>2, <1>3 DEF Chain, Prefixes

-----------------------------------------------------------------------------
(* The refinement.                                                         *)

\* A step of the pool is a step of the log or changes nothing of it.
LEMMA StepRefines ==
    ASSUME Typed, LogInv, [Next]_vars
    PROVE  [Log!Next]_<<Pushed(1), calls>>
  <1>0. 1 \in Server
    BY PoolAssumption DEF Server
  <1>1. CASE UNCHANGED vars
    BY <1>1 DEF vars, thrVars, Pushed
  <1>2. CASE Next
    <2>1. Prefixes
      BY <1>2 DEF Next, LogInv
    <2>2. ASSUME NEW d \in Server, SendMessage(d) PROVE Log!Talk(d)
      <3>1. /\ calls' = [calls EXCEPT ![d] = calls[d] \o hand[d]]
            /\ hand[d] \in Seq(Message) /\ Len(hand[d]) = 1
            /\ calls[d] \in Seq(Message) /\ queue[d] \in Seq(Message)
        BY <2>2 DEF SendMessage, Typed, TypeOK
      <3>2. Pushed(1)' = Pushed(1)
        BY <1>0, <2>2, ThreadKeepsPushed DEF RunThread
      <3>3. /\ Len(calls[d]) + 1 <= Len(Pushed(d))
            /\ Pushed(d)[Len(calls[d]) + 1] = hand[d][1]
        BY <3>1, HandIsNext DEF Pushed
      <3>4. /\ Len(calls[d]) < Len(Pushed(1))
            /\ Pushed(1)[Len(calls[d]) + 1] = hand[d][1]
        <4>1. Len(Pushed(d)) \in Nat /\ Len(Pushed(1)) \in Nat /\ Len(calls[d]) \in Nat
          BY <1>0, <3>1, PushedType
        <4> QED
          BY <2>1, <3>3, <4>1 DEF Prefixes
      <3>5. calls[d] \o hand[d] = Append(calls[d], hand[d][1])
        BY <3>1, HandIsNext
      <3> QED
        BY <3>1, <3>2, <3>4, <3>5 DEF Log!Talk
    <2>3. ASSUME NEW d \in Server, RunThread(d) \/ SpuriousWake(d), ~SendMessage(d)
          PROVE  UNCHANGED <<Pushed(1), calls>>
      <3>1. Pushed(1)' = Pushed(1)
        BY <1>0, <2>3, ThreadKeepsPushed
      <3>2. calls' = calls
        BY <2>3 DEF RunThread, SpuriousWake, Enter, Check, Block, Take, TakeNothing, Loop
      <3> QED
        BY <3>1, <3>2
    <2>4. ASSUME NEW c \in Caller, BroadcastPush(c)
          PROVE  [Log!Next]_<<Pushed(1), calls>>
      <3>1. PICK d \in Server : d = next[c]
        BY DEF Typed, TypeOK
      <3>2. UNCHANGED calls
        BY <2>4 DEF BroadcastPush, thrVars
      <3>3. CASE d = 1
        <4>1. Log!Broadcast(Msg(c)) /\ Msg(c) \in Message
          BY <2>4, <3>1, <3>2, <3>3, PushAppends DEF Log!Broadcast
        <4> QED
          BY <4>1 DEF Log!Next
      <3>4. CASE d # 1
        BY <1>0, <2>4, <3>1, <3>2, <3>4, PushAppends
      <3> QED
        BY <3>3, <3>4
    <2>5. ASSUME \/ \E c \in Caller : BroadcastLock(c) \/ BroadcastUnlock(c) \/ BroadcastReturn(c)
                 \/ DestroyStop \/ Destroying
          PROVE  UNCHANGED <<Pushed(1), calls>>
      BY <2>5 DEF BroadcastLock, BroadcastUnlock, BroadcastReturn, DestroyStop, Destroying,
                  DestroyNotify, DestroyJoin, thrVars, Pushed
    <2> QED
      BY <1>2, <2>2, <2>3, <2>4, <2>5 DEF Next, Broadcasting, Log!Next
  <1> QED
    BY <1>1, <1>2

\* Until two threads race at a queue, ValidatorClientImpl is the log that
\* BroadcastLog specifies: every server is called with the same messages in
\* the same order, once each, although mq_mtx_ is released too often.
THEOREM PoolImplementsLog == Spec => ImplementsLog
  <1>1. Init => Log!Init
    <2> SUFFICES ASSUME Init PROVE Log!Init
      OBVIOUS
    <2>1. 1 \in Server
      BY PoolAssumption DEF Server
    <2>2. Pushed(1) = <<>>
      BY <2>1 DEF Init, Pushed
    <2> QED
      BY <2>2 DEF Init, Log!Init
  <1> QED
    BY <1>1, InitLog, NextKeepsLog, StepRefines, AlwaysTyped, PTL
       DEF Spec, ImplementsLog, Log!Spec
=============================================================================
