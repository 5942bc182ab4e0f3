--------------------------- MODULE EventLoopProofs ---------------------------
(***************************************************************************)
(* Proofs about EventLoop, for any number of producers, types and calls.   *)
(* Two invariants, one about the lock and one about the walk: they share   *)
(* only the typing.                                                        *)
(***************************************************************************)
EXTENDS EventLoop, SequenceTheorems, TLAPS

\* TypeOK and what it needs to be inductive: a walk has an event in hand and
\* a position in its list, and a call that has begun has been counted.
Typed ==
    /\ TypeOK
    /\ pos \in Nat \ {0}
    /\ lpc = "walk" => \E e \in Event : cur = <<e>>
    /\ \A p \in Producer : ppc[p] # "idle" => calls[p] \in 1 .. MaxTasks

(***************************************************************************)
(* The steps of the lock leave everything but the lock, the place of the   *)
(* producer and the exception alone.                                       *)
(***************************************************************************)
LockStep ==
    \/ \E p \in Producer :
          \/ TestOwns(p, "pTest", "pLock") \/ TestOwns(p, "sTest", "sLock")
          \/ LockThrows(p, "pTest") \/ LockThrows(p, "sTest")
          \/ LockMutex(p, "pLock", "pOwn") \/ LockMutex(p, "sLock", "sOwn")
          \/ SetOwns(p, "pOwn", "pPush") \/ SetOwns(p, "sOwn", "sPush")
          \/ UnlockThrows(p, "pUnlock") \/ UnlockThrows(p, "sUnlock")
          \/ UnlockMutex(p, "pUnlock", "pClear") \/ UnlockMutex(p, "sUnlock", "sClear")
          \/ ClearOwns(p, "pClear", "sTest") \/ ClearOwns(p, "sClear", "idle")

\* The cases of a step of the system.
LEMMA NextCases ==
    ASSUME Next
    PROVE  \/ \E p \in Producer : RunInLoop(p)
           \/ LockStep
           \/ \E p \in Producer : PushEvent(p)
           \/ \E p \in Producer : PushTask(p)
           \/ PopEvent
           \/ RunTask
           \/ EndWalk
  BY Zenon DEF Next, PublishEvent, SubscriberEvent, EventProcess, LockStep

-----------------------------------------------------------------------------
(* Types.                                                                  *)

\* The handler starts with the types of its variables.
LEMMA InitTyped == Init => Typed
  <1> SUFFICES ASSUME Init PROVE Typed
    OBVIOUS
  <1>1. /\ publist \in Seq(Event)
        /\ subsMap \in [Event -> Seq(Task)]
        /\ runs \in [Task -> Nat]
        /\ popped \in [Event -> Nat]
        /\ since \in [Task -> Nat \cup {-1}]
    BY DEF Init
  <1>2. calls \in [Producer -> 0 .. MaxTasks]
    BY LoopAssumption DEF Init
  <1>3. ppc \in [Producer -> {"idle", "pTest", "pLock", "pOwn", "pPush",
                             "pUnlock", "pClear", "sTest", "sLock", "sOwn",
                             "sPush", "sUnlock", "sClear"}]
    BY DEF Init
  <1>4. TypeOK
    BY <1>1, <1>2, <1>3 DEF Init, TypeOK
  <1> QED
    BY <1>4 DEF Init, Typed

\* A step of the lock keeps the types.
LEMMA LockTyped ==
    ASSUME Typed, LockStep
    PROVE  Typed'
  <1>1. /\ UNCHANGED <<publist, subsMap, calls, overlapped, loopVars, since>>
        /\ locked' \in Producer \cup {"nobody"}
        /\ owns' \in BOOLEAN
        /\ thrown' \in BOOLEAN
    BY DEF LockStep, TestOwns, LockThrows, LockMutex, SetOwns, UnlockThrows,
           UnlockMutex, ClearOwns, Typed, TypeOK, prodVars
  <1>2. /\ ppc' \in [Producer -> {"idle", "pTest", "pLock", "pOwn", "pPush",
                             "pUnlock", "pClear", "sTest", "sLock", "sOwn",
                             "sPush", "sUnlock", "sClear"}]
        /\ \A q \in Producer : ppc'[q] # "idle" => ppc[q] # "idle"
    BY DEF LockStep, TestOwns, LockThrows, LockMutex, SetOwns, UnlockThrows,
           UnlockMutex, ClearOwns, Typed, TypeOK, prodVars
  <1> QED
    BY <1>1, <1>2 DEF Typed, TypeOK, loopVars

\* Every step of runInLoop and of EventProcess keeps the types.
LEMMA NextTyped ==
    ASSUME Typed, [Next]_vars
    PROVE  Typed'
  <1> USE LoopAssumption
  <1>1. ASSUME NEW p \in Producer, RunInLoop(p) PROVE Typed'
    BY <1>1, SMTT(30) DEF RunInLoop, Typed, TypeOK, loopVars
  <1>2. ASSUME LockStep PROVE Typed'
    BY <1>2, LockTyped
  <1>3. ASSUME NEW p \in Producer, PushEvent(p) PROVE Typed'
    BY <1>3 DEF PushEvent, Typed, TypeOK, loopVars
  <1>4. ASSUME NEW p \in Producer, PushTask(p) PROVE Typed'
    <2> DEFINE t == <<p, calls[p]>>
               e == TypeOf[p]
    <2>1. t \in Task /\ e \in Event
      BY <1>4 DEF PushTask, Typed, Task
    <2>2. /\ subsMap' = [subsMap EXCEPT ![e] = Append(subsMap[e], t)]
          /\ since' = [since EXCEPT ![t] = popped[e]]
          /\ ppc' = [ppc EXCEPT ![p] = "sUnlock"]
          /\ ppc[p] = "sPush"
          /\ UNCHANGED <<publist, locked, owns, calls, overlapped, loopVars, thrown>>
      BY <1>4 DEF PushTask
    <2> HIDE DEF t, e
    <2>3. /\ subsMap' \in [Event -> Seq(Task)]
          /\ \A f \in Event : Len(subsMap'[f]) >= Len(subsMap[f])
      BY <2>1, <2>2 DEF Typed, TypeOK
    <2>4. since' \in [Task -> Nat \cup {-1}]
      BY <2>1, <2>2 DEF Typed, TypeOK
    <2>5. /\ IF lpc' = "poll" THEN cur' = None
                ELSE cur'[1] \in Event /\ pos' <= Len(subsMap'[cur'[1]]) + 1
          /\ pos' \in Nat \ {0}
          /\ lpc' = "walk" => \E f \in Event : cur' = <<f>>
      BY <2>2, <2>3 DEF Typed, TypeOK, loopVars
    <2> QED
      BY <2>2, <2>3, <2>4, <2>5 DEF Typed, TypeOK, loopVars
  <1>5. ASSUME PopEvent PROVE Typed'
    <2>1. Head(publist) \in Event /\ Tail(publist) \in Seq(Event)
      BY <1>5 DEF PopEvent, Typed, TypeOK
    <2>2. popped' \in [Event -> Nat]
      BY <1>5, <2>1 DEF PopEvent, Typed, TypeOK
    <2>3. /\ cur' = <<Head(publist)>> /\ cur'[1] \in Event
          /\ lpc' = "walk"
          /\ pos' = 1
          /\ 1 <= Len(subsMap'[cur'[1]]) + 1
      BY <1>5, <2>1 DEF PopEvent, Typed, TypeOK
    <2>4. /\ publist' \in Seq(Event)
          /\ UNCHANGED <<subsMap, locked, owns, ppc, calls, overlapped, runs, thrown, since>>
      BY <1>5, <2>1 DEF PopEvent, prodVars
    <2>5. \E e \in Event : cur' = <<e>>
      BY <2>1, <2>3
    <2>6. IF lpc' = "poll" THEN cur' = None
             ELSE cur'[1] \in Event /\ pos' <= Len(subsMap'[cur'[1]]) + 1
      BY <2>3
    <2>7. TypeOK'
      BY <2>2, <2>4, <2>6, <2>3 DEF Typed, TypeOK
    <2>8. \A p \in Producer : ppc'[p] # "idle" => calls'[p] \in 1 .. MaxTasks
      BY <2>4 DEF Typed
    <2> QED
      BY <2>3, <2>5, <2>7, <2>8 DEF Typed
  <1>6. ASSUME RunTask PROVE Typed'
    <2>1. cur[1] \in Event /\ subsMap[cur[1]] \in Seq(Task)
      BY <1>6 DEF RunTask, Typed, TypeOK
    <2>2. subsMap[cur[1]][pos] \in Task
      BY <1>6, <2>1 DEF RunTask, Typed
    <2>3. runs' \in [Task -> Nat]
      BY <1>6, <2>2, SMTT(30) DEF RunTask, Typed, TypeOK
    <2>4. pos' \in Nat \ {0} /\ pos' <= Len(subsMap[cur[1]]) + 1
      BY <1>6, <2>1 DEF RunTask, Typed
    <2> QED
      BY <1>6, <2>1, <2>3, <2>4 DEF RunTask, Typed, TypeOK, prodVars
  <1>7. ASSUME EndWalk PROVE Typed'
    BY <1>7 DEF EndWalk, Typed, TypeOK, prodVars
  <1>8. ASSUME UNCHANGED vars PROVE Typed'
    BY <1>8 DEF vars, prodVars, loopVars, Typed, TypeOK
  <1> QED
    BY <1>1, <1>2, <1>3, <1>4, <1>5, <1>6, <1>7, <1>8, NextCases

\* The types hold throughout.
LEMMA AlwaysTyped == Spec => []Typed
  BY InitTyped, NextTyped, PTL DEF Spec

\* Every variable of the event handler keeps its type, and the walk of
\* EventProcess never leaves the list that publishers append to meanwhile.
THEOREM LoopTypeCorrect == Spec => []TypeOK
  <1>1. Typed => TypeOK
    BY DEF Typed
  <1> QED
    BY <1>1, AlwaysTyped, PTL

-----------------------------------------------------------------------------
(* The shared unique_lock.                                                 *)

\* From SetOwns to ClearOwns, a thread has the flag of _pub_ulock set.
Owning == {"pPush", "pUnlock", "pClear", "sPush", "sUnlock", "sClear"}

\* As long as no two calls of runInLoop have overlapped, at most one is under
\* way, and the flag says whether it is between its lock and its unlock.
LockInv ==
    overlapped
    \/ /\ ~thrown
       /\ \A p, q \in Producer : (ppc[p] # "idle" /\ ppc[q] # "idle") => p = q
       /\ owns <=> \E p \in Producer : ppc[p] \in Owning

\* The lock starts unowned, with nobody in runInLoop.
LEMMA InitLock == Init => LockInv
  BY DEF Init, LockInv, Owning

\* A step that moves one producer on, and sets the flag as its new place says,
\* keeps the invariant of the lock.
LEMMA MoveKeepsLock ==
    ASSUME Typed, LockInv,
           NEW p \in Producer, NEW to,
           ppc[p] # "idle",
           ppc' = [ppc EXCEPT ![p] = to],
           UNCHANGED <<overlapped, thrown>>,
           overlapped \/ (owns' <=> to \in Owning)
    PROVE  LockInv'
  <1>1. CASE overlapped
    BY <1>1 DEF LockInv
  <1>2. CASE ~overlapped
    <2>1. ppc'[p] = to /\ \A q \in Producer : q # p => ppc'[q] = ppc[q] /\ ppc[q] = "idle"
      BY <1>2 DEF LockInv, Typed, TypeOK
    <2>2. (\E q \in Producer : ppc'[q] \in Owning) <=> to \in Owning
      BY <2>1 DEF Owning
    <2> QED
      BY <1>2, <2>1, <2>2 DEF LockInv
  <1> QED
    BY <1>1, <1>2 DEF Typed, TypeOK

\* The flag, as the one thread that is in runInLoop sees it.
LEMMA FlagOfCaller ==
    ASSUME Typed, LockInv, ~overlapped, NEW p \in Producer, ppc[p] # "idle"
    PROVE  owns <=> ppc[p] \in Owning
  BY DEF LockInv, Owning

\* lock() and unlock() of _pub_ulock keep the invariant, the throwing ones by
\* not happening.
LEMMA LockStepKeepsLock ==
    ASSUME Typed, LockInv, LockStep
    PROVE  LockInv'
  <1> USE DEF prodVars
  <1>1. ASSUME NEW p \in Producer, NEW from \in {"pTest", "sTest"}, NEW to \in {"pLock", "sLock"},
               TestOwns(p, from, to)
        PROVE  LockInv'
    BY <1>1, MoveKeepsLock DEF TestOwns, Owning
  <1>2. ASSUME NEW p \in Producer, NEW from \in {"pTest", "sTest"}, LockThrows(p, from)
        PROVE  LockInv'
    <2>1. overlapped
      BY <1>2, FlagOfCaller DEF LockThrows, Owning
    <2> QED
      BY <1>2, <2>1 DEF LockThrows, LockInv
  <1>3. ASSUME NEW p \in Producer, NEW from \in {"pLock", "sLock"}, NEW to \in {"pOwn", "sOwn"},
               LockMutex(p, from, to)
        PROVE  LockInv'
    BY <1>3, MoveKeepsLock, FlagOfCaller DEF LockMutex, Owning
  <1>4. ASSUME NEW p \in Producer, NEW from \in {"pOwn", "sOwn"}, NEW to \in {"pPush", "sPush"},
               SetOwns(p, from, to)
        PROVE  LockInv'
    BY <1>4, MoveKeepsLock DEF SetOwns, Owning
  <1>5. ASSUME NEW p \in Producer, NEW from \in {"pUnlock", "sUnlock"}, UnlockThrows(p, from)
        PROVE  LockInv'
    <2>1. overlapped
      BY <1>5, FlagOfCaller DEF UnlockThrows, Owning
    <2> QED
      BY <1>5, <2>1 DEF UnlockThrows, LockInv
  <1>6. ASSUME NEW p \in Producer, NEW from \in {"pUnlock", "sUnlock"}, NEW to \in {"pClear", "sClear"},
               UnlockMutex(p, from, to)
        PROVE  LockInv'
    BY <1>6, MoveKeepsLock DEF UnlockMutex, Owning
  <1>7. ASSUME NEW p \in Producer, NEW from \in {"pClear", "sClear"}, NEW to \in {"sTest", "idle"},
               ClearOwns(p, from, to)
        PROVE  LockInv'
    BY <1>7, MoveKeepsLock DEF ClearOwns, Owning
  <1> QED
    BY <1>1, <1>2, <1>3, <1>4, <1>5, <1>6, <1>7 DEF LockStep

\* Every step keeps the invariant of the lock.
LEMMA NextKeepsLock ==
    ASSUME Typed, LockInv, [Next]_vars
    PROVE  LockInv'
  <1>1. ASSUME NEW p \in Producer, RunInLoop(p) PROVE LockInv'
    <2>1. CASE overlapped'
      BY <2>1 DEF LockInv
    <2>2. CASE ~overlapped'
      <3>1. ~overlapped /\ \A q \in Producer : ppc[q] = "idle"
        BY <1>1, <2>2 DEF RunInLoop, Typed, TypeOK
      <3>2. \A q \in Producer : ppc'[q] = IF q = p THEN "pTest" ELSE "idle"
        BY <1>1, <3>1 DEF RunInLoop, Typed, TypeOK
      <3>3. ~owns' /\ ~thrown'
        BY <1>1, <3>1 DEF RunInLoop, LockInv, Owning
      <3> QED
        BY <3>2, <3>3 DEF LockInv, Owning
    <2> QED
      BY <2>1, <2>2
  <1>2. ASSUME LockStep PROVE LockInv'
    BY <1>2, LockStepKeepsLock
  <1>3. ASSUME NEW p \in Producer, PushEvent(p) PROVE LockInv'
    BY <1>3, MoveKeepsLock, FlagOfCaller DEF PushEvent, Owning
  <1>4. ASSUME NEW p \in Producer, PushTask(p) PROVE LockInv'
    BY <1>4, MoveKeepsLock, FlagOfCaller DEF PushTask, Owning
  <1>5. ASSUME PopEvent \/ RunTask \/ EndWalk PROVE LockInv'
    BY <1>5 DEF PopEvent, RunTask, EndWalk, prodVars, LockInv
  <1>6. ASSUME UNCHANGED vars PROVE LockInv'
    BY <1>6 DEF vars, prodVars, LockInv
  <1> QED
    BY <1>1, <1>2, <1>3, <1>4, <1>5, <1>6, NextCases

\* _pub_ulock, shared by PublishEvent and SubscriberEvent, never throws as
\* long as no two threads have been in runInLoop at the same time.
THEOREM ThrowsNeedsOverlap == Spec => []ThrowsOnOverlap
  <1>1. LockInv => ThrowsOnOverlap
    BY DEF LockInv, ThrowsOnOverlap
  <1> QED
    BY <1>1, InitLock, NextKeepsLock, AlwaysTyped, PTL DEF Spec

-----------------------------------------------------------------------------
(* The walk.                                                               *)

\* Where a call of runInLoop has not yet subscribed its task.
BeforePush == {"pTest", "pLock", "pOwn", "pPush", "pUnlock", "pClear",
               "sTest", "sLock", "sOwn", "sPush"}

\* A task that is still to be subscribed is in no list and has not run.
Fresh ==
    /\ \A p \in Producer, k \in 1 .. MaxTasks :
          (k > calls[p] \/ (k = calls[p] /\ ppc[p] \in BeforePush))
              => since[<<p, k>>] = -1
    /\ \A t \in Task : since[t] = -1 => runs[t] = 0

\* The lists hold exactly the subscribed tasks, each once and under its type.
Listed ==
    /\ \A e \in Event : \A i \in 1 .. Len(subsMap[e]) :
          LET t == subsMap[e][i]
          IN  TypeOf[t[1]] = e /\ since[t] >= 0 /\ since[t] <= popped[e]
    /\ \A e \in Event : \A i, j \in 1 .. Len(subsMap[e]) :
          subsMap[e][i] = subsMap[e][j] => i = j
    /\ \A t \in Task : since[t] >= 0 =>
          \E i \in 1 .. Len(subsMap[TypeOf[t[1]]]) : subsMap[TypeOf[t[1]]][i] = t

\* The walk has still to come to place i of the list of e.
Ahead(e, i) == lpc = "walk" /\ cur[1] = e /\ i >= pos

\* A task has run once for every event taken since it was subscribed, or once
\* more; a task that the walk has still to come to is one run behind.
Counted ==
    \A e \in Event : \A i \in 1 .. Len(subsMap[e]) :
        LET t == subsMap[e][i]
            n == Taken(t) - (IF Ahead(e, i) THEN 1 ELSE 0)
        IN  n <= runs[t] /\ runs[t] <= n + 1

WalkInv == Fresh /\ Listed /\ Counted

\* The lists start empty and no task has been subscribed or run.
LEMMA InitWalk == Init => WalkInv
  <1> SUFFICES ASSUME Init PROVE WalkInv
    OBVIOUS
  <1>1. /\ \A e \in Event : subsMap[e] = <<>> /\ Len(subsMap[e]) = 0
        /\ \A t \in Task : since[t] = -1 /\ runs[t] = 0
    BY DEF Init
  <1>2. \A p \in Producer, k \in 1 .. MaxTasks : <<p, k>> \in Task
    BY DEF Task
  <1> QED
    BY <1>1, <1>2 DEF WalkInv, Fresh, Listed, Counted

\* A step that leaves the lists, the walk and the runs alone, and takes no
\* producer back to before its subscription, keeps the invariant of the walk.
LEMMA QuietKeepsWalk ==
    ASSUME Typed, WalkInv,
           UNCHANGED <<subsMap, calls, loopVars, since>>,
           \A p \in Producer : ppc'[p] \in BeforePush => ppc[p] \in BeforePush
    PROVE  WalkInv'
  <1>1. Fresh'
    BY DEF WalkInv, Fresh, loopVars
  <1>2. Listed'
    BY DEF WalkInv, Listed, loopVars
  <1>3. Counted'
    BY DEF WalkInv, Counted, Ahead, Taken, loopVars
  <1> QED
    BY <1>1, <1>2, <1>3 DEF WalkInv

\* A new call of runInLoop brings a task that nobody has seen.
LEMMA RunInLoopKeepsWalk ==
    ASSUME Typed, WalkInv, NEW p \in Producer, RunInLoop(p)
    PROVE  WalkInv'
  <1>1. Fresh'
    <2>1. \A q \in Producer : calls'[q] = IF q = p THEN calls[q] + 1 ELSE calls[q]
      BY DEF RunInLoop, Typed, TypeOK
    <2>2. \A q \in Producer : q # p => ppc'[q] = ppc[q]
      BY DEF RunInLoop, Typed, TypeOK
    <2>3. UNCHANGED <<since, runs>>
      BY DEF RunInLoop, loopVars
    <2>4. \A q \in Producer : calls[q] \in Nat
      BY DEF Typed, TypeOK
    <2> QED
      BY <2>1, <2>2, <2>3, <2>4 DEF WalkInv, Fresh
  <1>2. Listed'
    BY DEF RunInLoop, WalkInv, Listed, loopVars
  <1>3. Counted'
    BY DEF RunInLoop, WalkInv, Counted, Ahead, Taken, loopVars
  <1> QED
    BY <1>1, <1>2, <1>3 DEF WalkInv

\* The lists, as the steps of EventProcess find them.
LEMMA ListTypes ==
    ASSUME Typed, WalkInv, NEW e \in Event, NEW i \in 1 .. Len(subsMap[e])
    PROVE  /\ subsMap[e][i] \in Task
           /\ TypeOf[subsMap[e][i][1]] = e
           /\ runs[subsMap[e][i]] \in Nat
           /\ since[subsMap[e][i]] \in Nat
           /\ since[subsMap[e][i]] <= popped[e]
           /\ popped[e] \in Nat
  <1>1. subsMap[e][i] \in Task
    BY DEF Typed, TypeOK
  <1> QED
    BY <1>1 DEF Typed, TypeOK, WalkInv, Listed

\* SubscriberEvent puts a task that is in no list at the end of one, ahead of
\* a walk that is under way.
LEMMA PushTaskKeepsWalk ==
    ASSUME Typed, WalkInv, NEW p \in Producer, PushTask(p)
    PROVE  WalkInv'
  <1> USE LoopAssumption
  <1>0. PICK t \in Task : t = <<p, calls[p]>>
    BY DEF PushTask, Typed, Task
  <1> DEFINE e == TypeOf[p]
             n == Len(subsMap[e])
  <1>1. /\ t[1] = p /\ TypeOf[t[1]] = e
        /\ e \in Event
        /\ subsMap[e] \in Seq(Task)
        /\ n \in Nat
    BY <1>0 DEF Typed, TypeOK
  <1>2. /\ subsMap' = [subsMap EXCEPT ![e] = Append(subsMap[e], t)]
        /\ since' = [since EXCEPT ![t] = popped[e]]
        /\ ppc' = [ppc EXCEPT ![p] = "sUnlock"]
        /\ ppc[p] = "sPush"
        /\ UNCHANGED <<calls, loopVars>>
    BY <1>0 DEF PushTask
  <1>3. since[t] = -1 /\ runs[t] = 0
    BY <1>0, <1>2 DEF WalkInv, Fresh, BeforePush, Typed
  <1>4. ASSUME NEW f \in Event, NEW i \in 1 .. Len(subsMap[f])
        PROVE  subsMap[f][i] \in Task /\ subsMap[f][i] # t
    BY <1>3, ListTypes
  <1>5. /\ \A u \in Task : since'[u] = IF u = t THEN popped[e] ELSE since[u]
        /\ popped[e] \in Nat
    BY <1>1, <1>2 DEF Typed, TypeOK
  <1>6. /\ Len(subsMap'[e]) = n + 1
        /\ subsMap'[e][n + 1] = t
        /\ \A i \in 1 .. n : subsMap'[e][i] = subsMap[e][i]
        /\ \A f \in Event : f # e => subsMap'[f] = subsMap[f]
    BY <1>1, <1>2 DEF Typed, TypeOK
  <1>7. \A q \in Producer : q # p => ppc'[q] = ppc[q]
    BY <1>2 DEF Typed, TypeOK
  <1>8. ppc'[p] = "sUnlock"
    BY <1>2 DEF Typed, TypeOK
  <1>9. UNCHANGED <<calls, lpc, cur, pos, runs, popped>>
    BY <1>2 DEF loopVars
  <1>10. Fresh'
    <2>1. ASSUME NEW q \in Producer, NEW k \in 1 .. MaxTasks,
                 k > calls[q] \/ (k = calls[q] /\ ppc'[q] \in BeforePush)
          PROVE  since'[<<q, k>>] = -1
      <3>1. <<q, k>> \in Task /\ <<q, k>> # t
        <4>1. ASSUME q = p /\ k = calls[p] PROVE FALSE
          BY <2>1, <4>1, <1>8 DEF BeforePush, Typed, TypeOK
        <4> QED
          BY <4>1, <1>0 DEF Task
      <3>2. since[<<q, k>>] = -1
        BY <2>1, <1>7, <1>8 DEF WalkInv, Fresh, BeforePush
      <3> QED
        BY <3>1, <3>2, <1>5
    <2>2. \A u \in Task : since'[u] = -1 => runs'[u] = 0
      BY <1>5, <1>9 DEF WalkInv, Fresh
    <2> QED
      BY <2>1, <2>2, <1>9 DEF Fresh
  <1> HIDE DEF e, n
  <1>11. Listed'
    <2>1. ASSUME NEW f \in Event, NEW i \in 1 .. Len(subsMap'[f])
          PROVE  /\ TypeOf[subsMap'[f][i][1]] = f
                 /\ since'[subsMap'[f][i]] >= 0
                 /\ since'[subsMap'[f][i]] <= popped[f]
      <3>1. CASE f = e /\ i = n + 1
        <4>1. TypeOf[t[1]] = e
          BY <1>1 DEF e
        <4> QED
          BY <3>1, <4>1, <1>1, <1>5, <1>6
      <3>2. CASE ~(f = e /\ i = n + 1)
        <4>1. i \in 1 .. Len(subsMap[f]) /\ subsMap'[f][i] = subsMap[f][i]
          BY <2>1, <3>2, <1>1, <1>6 DEF n
        <4> QED
          BY <4>1, <1>4, <1>5 DEF WalkInv, Listed
      <3> QED
        BY <3>1, <3>2
    <2>2. ASSUME NEW f \in Event, NEW i \in 1 .. Len(subsMap'[f]),
                 NEW j \in 1 .. Len(subsMap'[f]), subsMap'[f][i] = subsMap'[f][j]
          PROVE  i = j
      <3>1. CASE f # e
        BY <2>2, <3>1, <1>6 DEF WalkInv, Listed
      <3>2. CASE f = e
        <4>1. \A k \in 1 .. n : subsMap[e][k] # t
          BY <1>1, <1>4 DEF n
        <4>2. i \in 1 .. (n + 1) /\ j \in 1 .. (n + 1)
          BY <2>2, <3>2, <1>6
        <4>3. CASE i = n + 1 \/ j = n + 1
          BY <2>2, <3>2, <4>1, <4>2, <4>3, <1>1, <1>6
        <4>4. CASE i \in 1 .. n /\ j \in 1 .. n
          BY <2>2, <3>2, <4>4, <1>1, <1>6 DEF WalkInv, Listed, n
        <4> QED
          BY <4>2, <4>3, <4>4, <1>1
      <3> QED
        BY <3>1, <3>2
    <2>3. ASSUME NEW u \in Task, since'[u] >= 0
          PROVE  \E i \in 1 .. Len(subsMap'[TypeOf[u[1]]]) : subsMap'[TypeOf[u[1]]][i] = u
      <3>1. CASE u = t
        BY <3>1, <1>1, <1>6 DEF e
      <3>2. CASE u # t
        <4>1. since[u] >= 0 /\ TypeOf[u[1]] \in Event
          BY <2>3, <3>2, <1>5 DEF Task
        <4>2. PICK i \in 1 .. Len(subsMap[TypeOf[u[1]]]) : subsMap[TypeOf[u[1]]][i] = u
          BY <4>1 DEF WalkInv, Listed
        <4>3. /\ i \in 1 .. Len(subsMap'[TypeOf[u[1]]])
              /\ subsMap'[TypeOf[u[1]]][i] = u
          BY <4>1, <4>2, <1>1, <1>6 DEF n
        <4> QED
          BY <4>3
      <3> QED
        BY <3>1, <3>2
    <2> QED
      BY <2>1, <2>2, <2>3, <1>9 DEF Listed
  <1>12. Counted'
    <2> SUFFICES ASSUME NEW f \in Event, NEW i \in 1 .. Len(subsMap'[f])
                 PROVE  LET u == subsMap'[f][i]
                            m == popped'[TypeOf[u[1]]] - since'[u]
                                    - (IF Ahead(f, i)' THEN 1 ELSE 0)
                        IN  m <= runs'[u] /\ runs'[u] <= m + 1
      BY DEF Counted, Taken
    <2>1. CASE f = e /\ i = n + 1
      <3>1. popped'[TypeOf[t[1]]] - since'[t] = 0
        BY <1>1, <1>5, <1>9
      <3> QED
        BY <2>1, <3>1, <1>3, <1>6, <1>9
    <2>2. CASE ~(f = e /\ i = n + 1)
      <3>1. i \in 1 .. Len(subsMap[f]) /\ subsMap'[f][i] = subsMap[f][i]
        BY <2>2, <1>1, <1>6 DEF n
      <3>2. /\ since'[subsMap[f][i]] = since[subsMap[f][i]]
            /\ Ahead(f, i)' <=> Ahead(f, i)
        BY <3>1, <1>4, <1>5, <1>9 DEF Ahead
      <3> QED
        BY <3>1, <3>2, <1>9 DEF WalkInv, Counted, Taken
    <2> QED
      BY <2>1, <2>2
  <1> QED
    BY <1>10, <1>11, <1>12 DEF WalkInv

\* Taking an event puts the whole list of its type ahead of the walk.
LEMMA PopEventKeepsWalk ==
    ASSUME Typed, WalkInv, PopEvent
    PROVE  WalkInv'
  <1> DEFINE h == Head(publist)
  <1>1. /\ h \in Event
        /\ popped \in [Event -> Nat]
        /\ popped' = [popped EXCEPT ![h] = popped[h] + 1]
        /\ lpc = "poll" /\ lpc' = "walk" /\ cur' = <<h>> /\ pos' = 1
        /\ UNCHANGED <<subsMap, ppc, calls, runs, since>>
    BY DEF PopEvent, Typed, TypeOK, prodVars
  <1> HIDE DEF h
  <1>2. \A e \in Event : popped'[e] = IF e = h THEN popped[e] + 1 ELSE popped[e]
    BY <1>1
  <1>3. Fresh'
    BY <1>1 DEF WalkInv, Fresh
  <1>4. Listed'
    <2>1. \A e \in Event : popped[e] \in Nat /\ popped[e] <= popped'[e]
      BY <1>1, <1>2
    <2>2. \A e \in Event : \A i \in 1 .. Len(subsMap[e]) : since[subsMap[e][i]] <= popped'[e]
      BY <2>1, <1>2, ListTypes
    <2> QED
      BY <1>1, <2>2 DEF WalkInv, Listed
  <1>5. Counted'
    <2> SUFFICES ASSUME NEW e \in Event, NEW i \in 1 .. Len(subsMap[e])
                 PROVE  LET u == subsMap[e][i]
                            m == Taken(u)' - (IF Ahead(e, i)' THEN 1 ELSE 0)
                        IN  m <= runs[u] /\ runs[u] <= m + 1
      BY <1>1 DEF Counted
    <2> DEFINE u == subsMap[e][i]
    <2>1. /\ Taken(u) = popped[e] - since[u]
          /\ Taken(u)' = popped'[e] - since[u]
      BY ListTypes, <1>1 DEF Taken
    <2>2. ~Ahead(e, i) /\ (Ahead(e, i)' <=> e = h)
      BY <1>1 DEF Ahead
    <2>3. Taken(u) <= runs[u] /\ runs[u] <= Taken(u) + 1
      BY <2>2, <2>1, ListTypes DEF WalkInv, Counted
    <2> QED
      BY <2>1, <2>2, <2>3, <1>2, ListTypes
  <1> QED
    BY <1>3, <1>4, <1>5 DEF WalkInv

\* Running a task takes the walk past it, and past no other.
LEMMA RunTaskKeepsWalk ==
    ASSUME Typed, WalkInv, RunTask
    PROVE  WalkInv'
  <1> DEFINE h == cur[1]
             t == subsMap[h][pos]
  <1>1. /\ h \in Event
        /\ pos \in 1 .. Len(subsMap[h])
        /\ runs \in [Task -> Nat]
        /\ runs' = [runs EXCEPT ![t] = runs[t] + 1]
        /\ lpc = "walk" /\ pos' = pos + 1
        /\ UNCHANGED <<subsMap, ppc, calls, lpc, cur, popped, since>>
    BY DEF RunTask, Typed, TypeOK, prodVars
  <1> HIDE DEF h
  <1>2. t \in Task /\ since[t] >= 0
    BY <1>1, ListTypes
  <1>3. \A u \in Task : runs'[u] = IF u = t THEN runs[u] + 1 ELSE runs[u]
    BY <1>1, <1>2
  <1>4. Fresh'
    BY <1>1, <1>2, <1>3 DEF WalkInv, Fresh
  <1>5. Listed'
    BY <1>1 DEF WalkInv, Listed
  <1>6. Counted'
    <2> SUFFICES ASSUME NEW e \in Event, NEW i \in 1 .. Len(subsMap[e])
                 PROVE  LET u == subsMap[e][i]
                            m == Taken(u)' - (IF Ahead(e, i)' THEN 1 ELSE 0)
                        IN  m <= runs'[u] /\ runs'[u] <= m + 1
      BY <1>1 DEF Counted
    <2> DEFINE u == subsMap[e][i]
    <2>1. Taken(u) = popped[e] - since[u] /\ Taken(u)' = Taken(u)
      BY ListTypes, <1>1 DEF Taken
    <2>2. u = t <=> (e = h /\ i = pos)
      <3>1. ASSUME u = t PROVE e = h
        <4>1. TypeOf[t[1]] = h /\ TypeOf[u[1]] = e
          BY <1>1, ListTypes
        <4> QED
          BY <3>1, <4>1
      <3> QED
        BY <3>1, <1>1 DEF WalkInv, Listed
    <2>3. Ahead(e, i)' <=> (Ahead(e, i) /\ ~(e = h /\ i = pos))
      BY <1>1 DEF Ahead, h, Typed
    <2>4. (e = h /\ i = pos) => Ahead(e, i)
      BY <1>1 DEF Ahead, h, Typed
    <2>5. /\ Taken(u) - (IF Ahead(e, i) THEN 1 ELSE 0) <= runs[u]
          /\ runs[u] <= Taken(u) - (IF Ahead(e, i) THEN 1 ELSE 0) + 1
      BY DEF WalkInv, Counted
    <2>6. runs'[u] = IF u = t THEN runs[u] + 1 ELSE runs[u]
      BY <1>3, ListTypes
    <2>7. /\ Taken(u)' - (IF Ahead(e, i)' THEN 1 ELSE 0) <= runs'[u]
          /\ runs'[u] <= Taken(u)' - (IF Ahead(e, i)' THEN 1 ELSE 0) + 1
      <3>1. runs[u] \in Nat /\ Taken(u) \in Int
        BY <2>1, ListTypes
      <3> HIDE DEF u, t
      <3>2. CASE e = h /\ i = pos
        BY <3>1, <3>2, <2>1, <2>2, <2>3, <2>4, <2>5, <2>6
      <3>3. CASE ~(e = h /\ i = pos)
        BY <3>1, <3>3, <2>1, <2>2, <2>3, <2>5, <2>6
      <3> QED
        BY <3>2, <3>3
    <2> QED
      BY <2>7
  <1> QED
    BY <1>4, <1>5, <1>6 DEF WalkInv

\* The walk ends when nothing is ahead of it.
LEMMA EndWalkKeepsWalk ==
    ASSUME Typed, WalkInv, EndWalk
    PROVE  WalkInv'
  <1>1. /\ lpc = "walk" /\ lpc' = "poll"
        /\ cur[1] \in Event
        /\ pos \in Nat /\ pos > Len(subsMap[cur[1]])
        /\ UNCHANGED <<subsMap, ppc, calls, runs, popped, since>>
    BY DEF EndWalk, Typed, TypeOK, prodVars
  <1>2. Fresh' /\ Listed'
    BY <1>1 DEF WalkInv, Fresh, Listed
  <1>3. \A e \in Event : \A i \in 1 .. Len(subsMap[e]) : ~Ahead(e, i) /\ ~Ahead(e, i)'
    <2>1. \A e \in Event : Len(subsMap[e]) \in Nat
      BY DEF Typed, TypeOK
    <2> QED
      BY <1>1, <2>1 DEF Ahead
  <1>4. Counted'
    <2>1. \A u : Taken(u)' = Taken(u)
      BY <1>1 DEF Taken
    <2> QED
      BY <1>1, <1>3, <2>1 DEF WalkInv, Counted
  <1> QED
    BY <1>2, <1>4 DEF WalkInv

\* Every step keeps the invariant of the walk.
LEMMA NextKeepsWalk ==
    ASSUME Typed, WalkInv, [Next]_vars
    PROVE  WalkInv'
  <1>1. ASSUME NEW p \in Producer, RunInLoop(p) PROVE WalkInv'
    BY <1>1, RunInLoopKeepsWalk
  <1>2. ASSUME LockStep PROVE WalkInv'
    <2>1. UNCHANGED <<subsMap, calls, loopVars, since>>
      BY <1>2 DEF LockStep, TestOwns, LockThrows, LockMutex, SetOwns, UnlockThrows,
                  UnlockMutex, ClearOwns, prodVars
    <2>2. \A p \in Producer : ppc'[p] \in BeforePush => ppc[p] \in BeforePush
      BY <1>2 DEF LockStep, TestOwns, LockThrows, LockMutex, SetOwns, UnlockThrows,
                  UnlockMutex, ClearOwns, prodVars, BeforePush, Typed, TypeOK
    <2> QED
      BY <2>1, <2>2, QuietKeepsWalk
  <1>3. ASSUME NEW p \in Producer, PushEvent(p) PROVE WalkInv'
    <2>1. \A q \in Producer : ppc'[q] \in BeforePush => ppc[q] \in BeforePush
      BY <1>3 DEF PushEvent, BeforePush, Typed, TypeOK
    <2> QED
      BY <1>3, <2>1, QuietKeepsWalk DEF PushEvent
  <1>4. ASSUME NEW p \in Producer, PushTask(p) PROVE WalkInv'
    BY <1>4, PushTaskKeepsWalk
  <1>5. ASSUME PopEvent PROVE WalkInv'
    BY <1>5, PopEventKeepsWalk
  <1>6. ASSUME RunTask PROVE WalkInv'
    BY <1>6, RunTaskKeepsWalk
  <1>7. ASSUME EndWalk PROVE WalkInv'
    BY <1>7, EndWalkKeepsWalk
  <1>8. ASSUME UNCHANGED vars PROVE WalkInv'
    BY <1>8, QuietKeepsWalk DEF vars, prodVars
  <1> QED
    BY <1>1, <1>2, <1>3, <1>4, <1>5, <1>6, <1>7, <1>8, NextCases

\* EventProcess runs a task once for every event of its type that is taken
\* from the subscription on, and at most once more, whatever is appended to
\* the list while it is walked.
THEOREM TasksRunPerEvent == Spec => []RunsPerEvent
  <1>1. ASSUME Typed, WalkInv PROVE RunsPerEvent
    <2> SUFFICES ASSUME NEW t \in Task, since[t] >= 0
                 PROVE  /\ runs[t] <= Taken(t) + 1
                        /\ runs[t] >= Taken(t) - (IF cur = <<TypeOf[t[1]]>> THEN 1 ELSE 0)
      BY DEF RunsPerEvent
    <2> DEFINE e == TypeOf[t[1]]
    <2>1. e \in Event
      BY LoopAssumption DEF Task
    <2>2. PICK i \in 1 .. Len(subsMap[e]) : subsMap[e][i] = t
      BY <1>1, <2>1 DEF WalkInv, Listed
    <2>3. Ahead(e, i) => cur = <<e>>
      BY <1>1 DEF Ahead, Typed
    <2>4. /\ Taken(t) - (IF Ahead(e, i) THEN 1 ELSE 0) <= runs[t]
          /\ runs[t] <= Taken(t) - (IF Ahead(e, i) THEN 1 ELSE 0) + 1
      BY <1>1, <2>1, <2>2 DEF WalkInv, Counted
    <2>5. runs[t] \in Nat /\ Taken(t) \in Int
      BY <1>1, <2>1, <2>2, ListTypes DEF Taken
    <2> QED
      BY <2>3, <2>4, <2>5
  <1> QED
    BY <1>1, InitWalk, NextKeepsWalk, AlwaysTyped, PTL DEF Spec
=============================================================================
