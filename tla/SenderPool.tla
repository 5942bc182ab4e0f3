----------------------------- MODULE SenderPool -----------------------------
(***************************************************************************)
(* comms::ValidatorClientImpl (lib/comms/client.cc): Broadcast puts a      *)
(* message in one queue per server, and one thread per server empties its  *)
(* queue.  The queues are guarded by mq_mtx_, the threads sleep on mq_cv_. *)
(*                                                                         *)
(* RunThread_ unlocks mq_mtx_ by hand (line 119) although its unique_lock  *)
(* still owns it: the destructor at the end of the loop body unlocks the   *)
(* mutex again, whoever holds it by then.  The mutex is therefore only     *)
(* free or held, as the default pthread mutex is.                          *)
(*                                                                         *)
(* Two threads at the same queue at the same time are a data race, after   *)
(* which the program may do anything: the model goes no further.           *)
(***************************************************************************)
EXTENDS Integers, Sequences, FiniteSets

CONSTANTS
    NumServers,     \* servers_.size(); a server is its index
    Caller,         \* the threads that call Broadcast
    Destroyed,      \* whether the destructor is called
    MaxBroadcasts   \* bound: calls of Broadcast per caller

ASSUME PoolAssumption ==
    /\ NumServers \in Nat \ {0}
    /\ IsFiniteSet(Caller)
    /\ Destroyed \in BOOLEAN
    /\ MaxBroadcasts \in Nat

Server == 1 .. NumServers

Message == Caller \X (1 .. MaxBroadcasts)

VARIABLES
    queue,   \* message_queues_
    held,    \* whether mq_mtx_ is locked
    stop,    \* stop_threads_
    tpc,     \* where thread d is in RunThread_
    hand,    \* the message thread d has taken from its queue, if any
    calls,   \* calls[d]: the messages that Talk was called with on server d
    cpc,     \* where a caller is in Broadcast
    next,    \* the loop counter of Broadcast
    count,   \* how many calls of Broadcast have returned
    dpc      \* where the destructor is

thrVars == <<tpc, hand, calls>>
calVars == <<cpc, next, count>>
vars    == <<queue, held, stop, thrVars, calVars, dpc>>

Init ==
    /\ queue = [d \in Server |-> <<>>]
    /\ held = FALSE
    /\ stop = FALSE
    /\ tpc = [d \in Server |-> "start"]
    /\ hand = [d \in Server |-> <<>>]
    /\ calls = [d \in Server |-> <<>>]
    /\ cpc = [c \in Caller |-> "idle"]
    /\ next = [c \in Caller |-> 1]
    /\ count = [c \in Caller |-> 0]
    /\ dpc = "live"

-----------------------------------------------------------------------------
(* RunThread_.                                                             *)

\* Lock mq_mtx_: on the way into the wait, and again after a wake-up.
Enter(d) ==
    /\ tpc[d] \in {"top", "woken"}
    /\ ~held
    /\ held' = TRUE
    /\ tpc' = [tpc EXCEPT ![d] = "check"]
    /\ UNCHANGED <<queue, stop, hand, calls, calVars, dpc>>

\* Mutant: the predicate of the wait looks at the queue alone.
CheckQueueOnly(d) ==
    /\ tpc[d] = "check"
    /\ tpc' = [tpc EXCEPT ![d] = IF queue[d] # <<>> THEN "take" ELSE "block"]
    /\ UNCHANGED <<queue, held, stop, hand, calls, calVars, dpc>>

\* The predicate of the wait; stop_threads_ is read without its mutex.
Check(d) ==
    /\ tpc[d] = "check"
    /\ tpc' = [tpc EXCEPT ![d] =
                  IF queue[d] # <<>> \/ stop THEN "take" ELSE "block"]
    /\ UNCHANGED <<queue, held, stop, hand, calls, calVars, dpc>>

Block(d) ==
    /\ tpc[d] = "block"
    /\ held' = FALSE
    /\ tpc' = [tpc EXCEPT ![d] = "asleep"]
    /\ UNCHANGED <<queue, stop, hand, calls, calVars, dpc>>

\* A condition variable may wake a thread for no reason.
SpuriousWake(d) ==
    /\ tpc[d] = "asleep"
    /\ tpc' = [tpc EXCEPT ![d] = "woken"]
    /\ UNCHANGED <<queue, held, stop, hand, calls, calVars, dpc>>

\* Mutant: front without pop.
TakeWithoutPop(d) ==
    /\ tpc[d] = "take"
    /\ queue[d] # <<>>
    /\ hand' = [hand EXCEPT ![d] = <<Head(queue[d])>>]
    /\ held' = FALSE
    /\ tpc' = [tpc EXCEPT ![d] = "send"]
    /\ UNCHANGED <<queue, stop, calls, calVars, dpc>>

\* front, pop and the unlock by hand.
Take(d) ==
    /\ tpc[d] = "take"
    /\ queue[d] # <<>>
    /\ hand' = [hand EXCEPT ![d] = <<Head(queue[d])>>]
    /\ queue' = [queue EXCEPT ![d] = Tail(@)]
    /\ held' = FALSE
    /\ tpc' = [tpc EXCEPT ![d] = "send"]
    /\ UNCHANGED <<stop, calls, calVars, dpc>>

\* Woken to stop, with nothing to send: mq_mtx_ stays locked.
TakeNothing(d) ==
    /\ tpc[d] = "take"
    /\ queue[d] = <<>>
    /\ tpc' = [tpc EXCEPT ![d] = "leave"]
    /\ UNCHANGED <<queue, held, stop, hand, calls, calVars, dpc>>

\* SendMessage_, which does not look at the outcome of the call.
SendMessage(d) ==
    /\ tpc[d] = "send"
    /\ calls' = [calls EXCEPT ![d] = @ \o hand[d]]
    /\ hand' = [hand EXCEPT ![d] = <<>>]
    /\ tpc' = [tpc EXCEPT ![d] = "sent"]
    /\ UNCHANGED <<queue, held, stop, calVars, dpc>>

\* Under st_mtx_: the destructor of the unique_lock, then the loop condition.
Loop(d) ==
    /\ tpc[d] \in {"start", "leave", "sent"}
    /\ held' = (held /\ tpc[d] = "start")
    /\ tpc' = [tpc EXCEPT ![d] = IF stop THEN "done" ELSE "top"]
    /\ UNCHANGED <<queue, stop, hand, calls, calVars, dpc>>

-----------------------------------------------------------------------------
(* Broadcast.                                                              *)

NotifyAll ==
    tpc' = [d \in Server |-> IF tpc[d] = "asleep" THEN "woken" ELSE tpc[d]]

BroadcastLock(c) ==
    /\ cpc[c] = "idle"
    /\ dpc = "live"
    /\ count[c] < MaxBroadcasts
    /\ ~held
    /\ held' = TRUE
    /\ cpc' = [cpc EXCEPT ![c] = "push"]
    /\ next' = [next EXCEPT ![c] = 1]
    /\ UNCHANGED <<queue, stop, thrVars, count, dpc>>

\* Mutant: the loop runs to "i <= servers_.size()".
BroadcastPushPastEnd(c) ==
    /\ cpc[c] = "push"
    /\ queue' = [d \in Server |-> IF d = next[c]
                                  THEN Append(queue[d], <<c, count[c] + 1>>)
                                  ELSE queue[d]]
    /\ next' = [next EXCEPT ![c] = @ + 1]
    /\ cpc' = [cpc EXCEPT ![c] = IF next[c] = NumServers + 1 THEN "unlock" ELSE "push"]
    /\ UNCHANGED <<held, stop, thrVars, count, dpc>>

BroadcastPush(c) ==
    /\ cpc[c] = "push"
    /\ queue' = [queue EXCEPT ![next[c]] = Append(@, <<c, count[c] + 1>>)]
    /\ \/ /\ next[c] < NumServers
          /\ next' = [next EXCEPT ![c] = @ + 1]
          /\ UNCHANGED cpc
       \/ /\ next[c] = NumServers
          /\ cpc' = [cpc EXCEPT ![c] = "unlock"]
          /\ UNCHANGED next
    /\ UNCHANGED <<held, stop, thrVars, count, dpc>>

\* Mutant: lock and unlock by hand, and the unlock is forgotten.
BroadcastUnlockForgotten(c) ==
    /\ cpc[c] = "unlock"
    /\ cpc' = [cpc EXCEPT ![c] = "notify"]
    /\ UNCHANGED <<queue, held, stop, thrVars, next, count, dpc>>

BroadcastUnlock(c) ==
    /\ cpc[c] = "unlock"
    /\ held' = FALSE
    /\ cpc' = [cpc EXCEPT ![c] = "notify"]
    /\ UNCHANGED <<queue, stop, thrVars, next, count, dpc>>

BroadcastReturn(c) ==
    /\ cpc[c] = "notify"
    /\ NotifyAll
    /\ cpc' = [cpc EXCEPT ![c] = "idle"]
    /\ count' = [count EXCEPT ![c] = @ + 1]
    /\ UNCHANGED <<queue, held, stop, hand, calls, next, dpc>>

-----------------------------------------------------------------------------
(* The destructor, once no thread is in Broadcast.                         *)

DestroyStop ==
    /\ Destroyed
    /\ dpc = "live"
    /\ \A c \in Caller : cpc[c] = "idle"
    /\ stop' = TRUE
    /\ dpc' = "notify"
    /\ UNCHANGED <<queue, held, thrVars, calVars>>

DestroyNotify ==
    /\ dpc = "notify"
    /\ NotifyAll
    /\ dpc' = "join"
    /\ UNCHANGED <<queue, held, stop, hand, calls, calVars>>

DestroyJoin ==
    /\ dpc = "join"
    /\ \A d \in Server : tpc[d] = "done"
    /\ dpc' = "done"
    /\ UNCHANGED <<queue, held, stop, thrVars, calVars>>

-----------------------------------------------------------------------------
\* The callers whose next step is at the queue of d.
Pushing(d) == {c \in Caller : cpc[c] = "push" /\ next[c] = d}

\* The next steps of two threads are at one queue.
Racing ==
    \E d \in Server :
        \/ Cardinality(Pushing(d)) > 1
        \/ Pushing(d) # {} /\ tpc[d] \in {"check", "take"}

RunThread(d) ==
    \/ Enter(d) \/ Check(d) \/ Block(d)
    \/ Take(d) \/ TakeNothing(d) \/ SendMessage(d) \/ Loop(d)

Broadcasting(c) == BroadcastPush(c) \/ BroadcastUnlock(c) \/ BroadcastReturn(c)

Destroying == DestroyNotify \/ DestroyJoin

Next ==
    /\ ~Racing
    /\ \/ \E d \in Server : RunThread(d) \/ SpuriousWake(d)
       \/ \E c \in Caller : BroadcastLock(c) \/ Broadcasting(c)
       \/ DestroyStop
       \/ Destroying

Spec == Init /\ [][Next]_vars

\* The operating system runs every thread that can run.  Nobody has to call
\* Broadcast or the destructor, and no thread has to wake up unnotified.
Fairness ==
    /\ \A d \in Server : WF_vars(~Racing /\ RunThread(d))
    /\ \A c \in Caller : WF_vars(~Racing /\ Broadcasting(c))
    /\ WF_vars(~Racing /\ Destroying)

FairSpec == Spec /\ Fairness

-----------------------------------------------------------------------------
(* Properties.                                                             *)

\* Every variable has its type; a thread holds a message exactly while it is
\* about to send it, and the loop of Broadcast stays in servers_.
TypeOK ==
    /\ queue \in [Server -> Seq(Message)]
    /\ held \in BOOLEAN
    /\ stop \in BOOLEAN
    /\ tpc \in [Server -> {"start", "top", "check", "block", "asleep", "woken",
                           "take", "send", "sent", "leave", "done"}]
    /\ hand \in [Server -> Seq(Message)]
    /\ \A d \in Server : Len(hand[d]) = IF tpc[d] = "send" THEN 1 ELSE 0
    /\ calls \in [Server -> Seq(Message)]
    /\ cpc \in [Caller -> {"idle", "push", "unlock", "notify"}]
    /\ next \in [Caller -> Server]
    /\ count \in [Caller -> 0 .. MaxBroadcasts]
    /\ dpc \in {"live", "notify", "join", "done"}

\* What was put in the queue of d, in order.
Pushed(d) == calls[d] \o hand[d] \o queue[d]

Log == INSTANCE BroadcastLog WITH log <- Pushed(1)

\* Until there is a race, the pool is a log: every server is called with the
\* same messages in the same order, once each, although the mutex that should
\* order the callers and the threads is released under their feet.
ImplementsLog == Log!Spec

\* mq_mtx_ is never left locked by a thread that is past its critical
\* section: all the extra unlock of RunThread_ does is free it too early.
MutexNotLeaked ==
    held => \/ \E d \in Server : tpc[d] \in {"check", "block", "take", "leave"}
            \/ \E c \in Caller : cpc[c] \in {"push", "unlock"}

\* The destructor comes back from joining the threads, with messages still
\* queued and mq_mtx_ unlocked once too often, unless its notify_all found a
\* thread between the test of stop_threads_ and the sleep: it sets the flag
\* under another mutex than the one the threads wait with.
DestructorReturns ==
    (dpc = "join" /\ \A d \in Server : tpc[d] \notin {"block", "asleep"})
        ~> (dpc = "done" \/ Racing)

\* client.h:73: Broadcast "Sends the specified message to all configured
\* servers": a message in a queue is sent, whatever happens next.
AllSent ==
    \A d \in Server, m \in Message :
        (\E i \in DOMAIN queue[d] : queue[d][i] = m)
            ~> (Racing \/ \E i \in DOMAIN calls[d] : calls[d][i] = m)
=============================================================================
