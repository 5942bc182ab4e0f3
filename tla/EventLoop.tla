------------------------------ MODULE EventLoop ------------------------------
(***************************************************************************)
(* cryptowallet::EventHandler (include/cryptowallet/validator.h): runInLoop *)
(* publishes an event and then subscribes a task to it; one thread takes   *)
(* the events and runs, for each, every task subscribed to its type.       *)
(*                                                                         *)
(* Publishers and subscribers share not only _mutexPublish but also the    *)
(* one std::unique_lock _pub_ulock around it, whose owns flag is an        *)
(* ordinary bool: lock() throws when the flag is set, unlock() when it is  *)
(* not.  Nobody catches: the exception ends the process.                   *)
(*                                                                         *)
(* The list of tasks is appended to under _mutexPublish and walked under   *)
(* _mutexSubscriber: the walk sees a task appended meanwhile, or not.      *)
(***************************************************************************)
EXTENDS Integers, Sequences, FiniteSets

CONSTANTS
    Producer,   \* the threads that call runInLoop: Listen, ProposeProcess
                \* and DBProcess
    Event,      \* the event types
    TypeOf,     \* TypeOf[p]: the type p publishes
    MaxTasks    \* bound: calls of runInLoop per producer

ASSUME LoopAssumption ==
    /\ TypeOf \in [Producer -> Event]
    /\ MaxTasks \in Nat

Task == Producer \X (1 .. MaxTasks)

None == <<>>

VARIABLES
    publist,    \* the published events
    subsMap,    \* subsMap[e]: the tasks subscribed to e, in order
    locked,     \* who holds _mutexPublish: a producer, "loop" or "nobody"
    owns,       \* the flag of _pub_ulock
    ppc,        \* where a producer is in runInLoop
    calls,      \* how often it has been called
    lpc,        \* where EventProcess is
    cur,        \* the event it has taken
    pos,        \* the task of that event it will run next
    runs,       \* runs[t]: how often task t was run
    thrown,     \* an exception has ended the process
    \* History: the events taken from publist, and for each task how many of
    \* its type had been taken when it was subscribed; whether two calls of
    \* runInLoop have overlapped.
    popped, since, overlapped

prodVars == <<ppc, calls, overlapped>>
loopVars == <<lpc, cur, pos, runs, popped>>
vars == <<publist, subsMap, locked, owns, prodVars, loopVars, thrown, since>>

Init ==
    /\ publist = <<>>
    /\ subsMap = [e \in Event |-> <<>>]
    /\ locked = "nobody"
    /\ owns = FALSE
    /\ ppc = [p \in Producer |-> "idle"]
    /\ calls = [p \in Producer |-> 0]
    /\ overlapped = FALSE
    /\ lpc = "poll"
    /\ cur = None
    /\ pos = 1
    /\ runs = [t \in Task |-> 0]
    /\ thrown = FALSE
    /\ popped = [e \in Event |-> 0]
    /\ since = [t \in Task |-> -1]

-----------------------------------------------------------------------------
(* std::unique_lock::lock and unlock on _pub_ulock.                        *)

\* lock() tests the flag, locks the mutex and sets the flag.
TestOwns(p, from, to) ==
    /\ ppc[p] = from
    /\ ~owns
    /\ ppc' = [ppc EXCEPT ![p] = to]
    /\ UNCHANGED <<publist, subsMap, locked, owns, calls, overlapped, loopVars, thrown,
                   since>>

LockThrows(p, from) ==
    /\ ppc[p] = from
    /\ owns
    /\ thrown' = TRUE
    /\ UNCHANGED <<publist, subsMap, locked, owns, prodVars, loopVars, since>>

LockMutex(p, from, to) ==
    /\ ppc[p] = from
    /\ locked = "nobody"
    /\ locked' = p
    /\ ppc' = [ppc EXCEPT ![p] = to]
    /\ UNCHANGED <<publist, subsMap, owns, calls, overlapped, loopVars, thrown, since>>

SetOwns(p, from, to) ==
    /\ ppc[p] = from
    /\ owns' = TRUE
    /\ ppc' = [ppc EXCEPT ![p] = to]
    /\ UNCHANGED <<publist, subsMap, locked, calls, overlapped, loopVars, thrown, since>>

\* unlock() tests the flag, unlocks the mutex and clears the flag.
UnlockThrows(p, from) ==
    /\ ppc[p] = from
    /\ ~owns
    /\ thrown' = TRUE
    /\ UNCHANGED <<publist, subsMap, locked, owns, prodVars, loopVars, since>>

UnlockMutex(p, from, to) ==
    /\ ppc[p] = from
    /\ owns
    /\ locked' = "nobody"
    /\ ppc' = [ppc EXCEPT ![p] = to]
    /\ UNCHANGED <<publist, subsMap, owns, calls, overlapped, loopVars, thrown, since>>

ClearOwns(p, from, to) ==
    /\ ppc[p] = from
    /\ owns' = FALSE
    /\ ppc' = [ppc EXCEPT ![p] = to]
    /\ UNCHANGED <<publist, subsMap, locked, calls, overlapped, loopVars, thrown, since>>

-----------------------------------------------------------------------------
(* runInLoop: PublishEvent, then SubscriberEvent.                          *)

RunInLoop(p) ==
    /\ ppc[p] = "idle"
    /\ calls[p] < MaxTasks
    /\ calls' = [calls EXCEPT ![p] = @ + 1]
    /\ ppc' = [ppc EXCEPT ![p] = "pTest"]
    /\ overlapped' = (overlapped \/ \E q \in Producer : ppc[q] # "idle")
    /\ UNCHANGED <<publist, subsMap, locked, owns, loopVars, thrown, since>>

\* Mutant: PublishEvent does not unlock.
PushEventKeepsLock(p) ==
    /\ ppc[p] = "pPush"
    /\ publist' = Append(publist, TypeOf[p])
    /\ ppc' = [ppc EXCEPT ![p] = "sTest"]
    /\ UNCHANGED <<subsMap, locked, owns, calls, overlapped, loopVars, thrown, since>>

PushEvent(p) ==
    /\ ppc[p] = "pPush"
    /\ publist' = Append(publist, TypeOf[p])
    /\ ppc' = [ppc EXCEPT ![p] = "pUnlock"]
    /\ UNCHANGED <<subsMap, locked, owns, calls, overlapped, loopVars, thrown, since>>

PublishEvent(p) ==
    \/ TestOwns(p, "pTest", "pLock")
    \/ LockThrows(p, "pTest")
    \/ LockMutex(p, "pLock", "pOwn")
    \/ SetOwns(p, "pOwn", "pPush")
    \/ PushEvent(p)
    \/ UnlockThrows(p, "pUnlock")
    \/ UnlockMutex(p, "pUnlock", "pClear")
    \/ ClearOwns(p, "pClear", "sTest")

PushTask(p) ==
    LET t == <<p, calls[p]>>
    IN  /\ ppc[p] = "sPush"
        /\ subsMap' = [subsMap EXCEPT ![TypeOf[p]] = Append(@, t)]
        /\ since' = [since EXCEPT ![t] = popped[TypeOf[p]]]
        /\ ppc' = [ppc EXCEPT ![p] = "sUnlock"]
        /\ UNCHANGED <<publist, locked, owns, calls, overlapped, loopVars, thrown>>

SubscriberEvent(p) ==
    \/ TestOwns(p, "sTest", "sLock")
    \/ LockThrows(p, "sTest")
    \/ LockMutex(p, "sLock", "sOwn")
    \/ SetOwns(p, "sOwn", "sPush")
    \/ PushTask(p)
    \/ UnlockThrows(p, "sUnlock")
    \/ UnlockMutex(p, "sUnlock", "sClear")
    \/ ClearOwns(p, "sClear", "idle")

-----------------------------------------------------------------------------
(* EventProcess.  It locks _mutexPublish itself, not through _pub_ulock.   *)

\* Mutant: the walk starts at the second task.
PopEventSkipsFirst ==
    /\ lpc = "poll"
    /\ locked = "nobody"
    /\ publist # <<>>
    /\ cur' = <<Head(publist)>>
    /\ publist' = Tail(publist)
    /\ popped' = [popped EXCEPT ![Head(publist)] = @ + 1]
    /\ pos' = 2
    /\ lpc' = "walk"
    /\ UNCHANGED <<subsMap, locked, owns, prodVars, runs, thrown, since>>

\* Mutant: the list is emptied, not popped.
PopEventClears ==
    /\ lpc = "poll"
    /\ locked = "nobody"
    /\ publist # <<>>
    /\ cur' = <<Head(publist)>>
    /\ publist' = <<>>
    /\ popped' = [popped EXCEPT ![Head(publist)] = @ + 1]
    /\ pos' = 1
    /\ lpc' = "walk"
    /\ UNCHANGED <<subsMap, locked, owns, prodVars, runs, thrown, since>>

PopEvent ==
    /\ lpc = "poll"
    /\ locked = "nobody"
    /\ publist # <<>>
    /\ cur' = <<Head(publist)>>
    /\ publist' = Tail(publist)
    /\ popped' = [popped EXCEPT ![Head(publist)] = @ + 1]
    /\ pos' = 1
    /\ lpc' = "walk"
    /\ UNCHANGED <<subsMap, locked, owns, prodVars, runs, thrown, since>>

RunTask ==
    /\ lpc = "walk"
    /\ pos <= Len(subsMap[cur[1]])
    /\ runs' = [runs EXCEPT ![subsMap[cur[1]][pos]] = @ + 1]
    /\ pos' = pos + 1
    /\ UNCHANGED <<publist, subsMap, locked, owns, prodVars, lpc, cur, popped,
                   thrown, since>>

\* Mutant: the walk stops before the last task.
EndWalkEarly ==
    /\ lpc = "walk"
    /\ pos >= Len(subsMap[cur[1]])
    /\ lpc' = "poll"
    /\ cur' = None
    /\ pos' = 1
    /\ UNCHANGED <<publist, subsMap, locked, owns, prodVars, runs, popped,
                   thrown, since>>

EndWalk ==
    /\ lpc = "walk"
    /\ pos > Len(subsMap[cur[1]])
    /\ lpc' = "poll"
    /\ cur' = None
    /\ pos' = 1
    /\ UNCHANGED <<publist, subsMap, locked, owns, prodVars, runs, popped,
                   thrown, since>>

EventProcess == PopEvent \/ RunTask \/ EndWalk

-----------------------------------------------------------------------------
Next ==
    /\ ~thrown
    /\ \/ \E p \in Producer : RunInLoop(p) \/ PublishEvent(p) \/ SubscriberEvent(p)
       \/ EventProcess

Spec == Init /\ [][Next]_vars

\* The threads run as long as the process does; nobody has to call runInLoop.
Fairness ==
    /\ \A p \in Producer : WF_vars(~thrown /\ (PublishEvent(p) \/ SubscriberEvent(p)))
    /\ WF_vars(~thrown /\ EventProcess)

FairSpec == Spec /\ Fairness

-----------------------------------------------------------------------------
(* Properties.                                                             *)

\* Every variable has its type, and the walk never leaves the list.
TypeOK ==
    /\ publist \in Seq(Event)
    /\ subsMap \in [Event -> Seq(Task)]
    /\ locked \in Producer \cup {"nobody"}
    /\ owns \in BOOLEAN
    /\ ppc \in [Producer -> {"idle", "pTest", "pLock", "pOwn", "pPush",
                             "pUnlock", "pClear", "sTest", "sLock", "sOwn",
                             "sPush", "sUnlock", "sClear"}]
    /\ calls \in [Producer -> 0 .. MaxTasks]
    /\ overlapped \in BOOLEAN
    /\ lpc \in {"poll", "walk"}
    /\ IF lpc = "poll" THEN cur = None
                       ELSE cur[1] \in Event /\ pos <= Len(subsMap[cur[1]]) + 1
    /\ runs \in [Task -> Nat]
    /\ thrown \in BOOLEAN
    /\ popped \in [Event -> Nat]
    /\ since \in [Task -> Nat \cup {-1}]

\* How many events of the type of t were taken after it was subscribed.
Taken(t) == popped[TypeOf[t[1]]] - since[t]

\* A task that is subscribed runs once for every event of its type that is
\* taken from then on, and at most once more, for an event whose tasks were
\* just being run: the list only grows, and the walk (EventProcess) neither
\* skips nor repeats a task.
RunsPerEvent ==
    \A t \in Task : since[t] >= 0 =>
        /\ runs[t] <= Taken(t) + 1
        /\ runs[t] >= Taken(t) - (IF cur = <<TypeOf[t[1]]>> THEN 1 ELSE 0)

\* The shared unique_lock never throws as long as no two threads have been
\* in runInLoop at the same time.
ThrowsOnOverlap == thrown => overlapped

\* A task that is subscribed while an event of its type is still queued is
\* run, unless the process ends first.  (An event that was taken before,
\* between the two halves of runInLoop, finds no task.)
HeardRuns ==
    \A t \in Task :
        (since[t] >= 0 /\ \E i \in DOMAIN publist : publist[i] = TypeOf[t[1]])
            ~> (thrown \/ runs[t] > 0)
=============================================================================
