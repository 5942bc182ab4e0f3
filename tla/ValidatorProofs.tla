--------------------------- MODULE ValidatorProofs ---------------------------
(***************************************************************************)
(* Proofs about Validator, for every number of wallets and coins, for all  *)
(* files that the wallets may send, every width of int and all bounds:     *)
(*                                                                         *)
(*   LedgerTypeCorrect      the type invariant                             *)
(*   TxIsAccounted          TxAccounted: no valid transaction disappears   *)
(*                          but those that vanish with tx_list             *)
(*   ProposedBlockVerifies  ProposalVerifies: the nodes accept what the    *)
(*                          leader proposes                                *)
(*   BlockKeepsValue        ValueKept: the delivered block is worth what   *)
(*                          it spends                                      *)
(*   BlockIsAccounted       BlockAccounted: the delivered block is applied *)
(*                          once at most, and is on its way or overwritten *)
(*                          if it is not                                   *)
(*   NoNewCoins             the lists never gain a coin, although          *)
(*                          validator.cc:144 says they do                  *)
(*                                                                         *)
(* The inductive invariant LedgerInv has four parts: EventsOK, the types   *)
(* of what the threads share; Placed, where the delivered block is;        *)
(* TakenOK, what is in tx_list and not looked at; and CoinsOK, what the    *)
(* lists, the pool and the blocks hold.  Its core is that a wallet begins  *)
(* with one coin.  A transaction that passes checkSpendingConditions names *)
(* that coin alone, perhaps many times, so spending it empties the list,   *)
(* whatever the indices are that the loop of OnAgreeBlk erases at.         *)
(*                                                                         *)
(* Keep, FoldLeft, FoldRight and FlattenSeq are recursive functions: what  *)
(* is known of them rests on the inductions of FoldLemmas.                 *)
(***************************************************************************)
EXTENDS Validator, FoldLemmas

\* What the five lists hold that a block passes through.
Held(inAccepted, inBlist, inWalk, inApplied, inOverwritten) ==
    /\ accepted = inAccepted
    /\ blist = inBlist
    /\ walk = inWalk
    /\ applied = inApplied
    /\ overwritten = inOverwritten

\* The event thread is not in the DBSTORE task.
Elsewhere == epc \notin {"agree", "clear"}

\* Where the block is.  The lists are empty at first; then the accepted block
\* bx is in accepted_blocks_, in blist_, or overwritten there; block by, which
\* is bx or what was read of it after it was freed, is walked over, or has
\* been applied.  Of blist_ and the overwritten blocks one at most has it.
NoBlock == Held(<<>>, <<>>, <<>>, <<>>, <<>>) /\ Elsewhere /\ published["DBSTORE"] = 0

InAccepted(bx) ==
    Held(<<bx>>, <<>>, <<>>, <<>>, <<>>) /\ Elsewhere /\ published["DBSTORE"] = 0

InBlist(bx) == Held(<<>>, <<bx>>, <<>>, <<>>, <<>>) /\ Elsewhere

Dropped(bx) == Held(<<>>, <<>>, <<>>, <<>>, <<bx>>)

Walked(bx, by) ==
    /\ epc = "agree"
    /\ \/ Held(<<>>, <<bx>>, <<by>>, <<>>, <<>>)
       \/ Held(<<>>, <<>>, <<by>>, <<>>, <<bx>>)

Applied(bx, by) ==
    \/ Held(<<>>, <<bx>>, <<>>, <<by>>, <<>>) /\ epc \in {"agree", "clear"}
    \/ Held(<<>>, <<>>, <<>>, <<by>>, <<bx>>)
    \/ Held(<<>>, <<>>, <<>>, <<by>>, <<>>)

\* The inductive invariant.  BlockAccounted counts what is in the five lists
\* together; a step moves a block from one of them to another, and which of
\* them are empty and where the event thread is has to be known to tell that
\* no block is applied twice or cleared before it is applied.
Placed ==
    /\ npc \in {"run", "accept", "idle"}
    /\ epc \in {"idle", "tx", "reply", "agree", "clear"}
    /\ IF npc # "idle" THEN NoBlock
       ELSE \E bx, by \in {voted, <<>>} :
               \/ InAccepted(bx) \/ InBlist(bx) \/ Dropped(bx)
               \/ Walked(bx, by) \/ Applied(bx, by)

\* The published events and their tasks.
EventsOK ==
    /\ published \in [Event -> Nat]
    /\ subscribed \in [Event -> Nat]
    /\ registering \subseteq Event
    /\ events \in [Event -> 0 .. MaxEvents]
    /\ lpc \in {"wait", "found", "open"}
    /\ ran \in Nat

\* What the invariant is about, but for the event thread and the events.
placeVars == <<npc, voted, accepted, blist, walk, applied, overwritten>>

-----------------------------------------------------------------------------
(* Where the accepted block is.                                            *)

\* Lists of one block and no block, and what the steps make of them.
LEMMA OneBlock ==
    ASSUME NEW bx
    PROVE  /\ <<>> \o <<>> = <<>>
           /\ <<>> \o <<bx>> = <<bx>>
           /\ <<bx>> \o <<>> = <<bx>>
           /\ Append(<<>>, bx) = <<bx>>
           /\ Len(<<bx>>) = 1
           /\ Head(<<bx>>) = bx
           /\ Tail(<<bx>>) = <<>>
           /\ <<bx>> # <<>>
           /\ [i \in DOMAIN <<>> |-> <<>>] = <<>>
           /\ [i \in DOMAIN <<bx>> |-> <<>>] = << <<>> >>
  <1>1. <<>> \in Seq({bx}) /\ <<bx>> \in Seq({bx})
    OBVIOUS
  <1>2. <<>> \o <<>> = <<>>
    OBVIOUS
  <1>3. <<>> \o <<bx>> = <<bx>>
    BY <1>1
  <1>4. <<bx>> \o <<>> = <<bx>>
    BY <1>1
  <1>5. [i \in DOMAIN <<>> |-> <<>>] = <<>>
    OBVIOUS
  <1>6. [i \in DOMAIN <<bx>> |-> <<>>] = << <<>> >>
    OBVIOUS
  <1> QED  BY <1>1, <1>2, <1>3, <1>4, <1>5, <1>6

\* InitializeCoins leaves all lists empty.
LEMMA InitPlaced == Init => Placed
  <1> SUFFICES ASSUME Init PROVE Placed
    OBVIOUS
  <1>1. published["DBSTORE"] = 0
    BY DEF Init, Event
  <1> QED  BY <1>1 DEF Init, Placed, NoBlock, Held, Elsewhere

\* A step that touches none of the lists, publishes no DBSTORE event and is
\* not one of the DBSTORE task.
LEMMA SamePlaces ==
    ASSUME Placed, UNCHANGED placeVars,
           epc' = epc \/ (Elsewhere /\ Elsewhere'),
           epc' \in {"idle", "tx", "reply", "agree", "clear"},
           published["DBSTORE"] = 0 => published'["DBSTORE"] = 0
    PROVE  Placed'
  <1>1. /\ npc' = npc /\ voted' = voted /\ accepted' = accepted /\ blist' = blist
        /\ walk' = walk /\ applied' = applied /\ overwritten' = overwritten
    BY DEF placeVars
  <1>2. CASE npc # "idle"
    BY <1>1, <1>2 DEF Placed, NoBlock, Held, Elsewhere
  <1>3. CASE npc = "idle"
    <2>1. PICK bx, by \in {voted, <<>>} :
               \/ InAccepted(bx) \/ InBlist(bx) \/ Dropped(bx)
               \/ Walked(bx, by) \/ Applied(bx, by)
      BY <1>3 DEF Placed
    <2>2. \/ InAccepted(bx)' \/ InBlist(bx)' \/ Dropped(bx)'
          \/ Walked(bx, by)' \/ Applied(bx, by)'
      BY <1>1, <2>1 DEF InAccepted, InBlist, Dropped, Walked, Applied, Held, Elsewhere
    <2> QED  BY <1>1, <1>3, <2>1, <2>2 DEF Placed
  <1> QED  BY <1>2, <1>3

\* DBProcess moves the accepted block to blist_, and the one that was there
\* is overwritten, also when it is being walked over.
LEMMA DBProcessPlaced == EventsOK /\ Placed /\ DBProcess => Placed'
  <1> SUFFICES ASSUME EventsOK, Placed, DBProcess PROVE Placed'
    OBVIOUS
  <1>1. /\ npc' = npc /\ voted' = voted /\ applied' = applied /\ epc' = epc
        /\ blist' = accepted /\ overwritten' = overwritten \o blist
        /\ accepted' = <<>>
        /\ walk' \in {walk, [i \in DOMAIN walk |-> <<>>]}
    BY DEF DBProcess
  <1>2. CASE npc # "idle"
    <2>1. NoBlock
      BY <1>2 DEF Placed
    <2>2. <<>> \o <<>> = <<>> /\ [i \in DOMAIN <<>> |-> <<>>] = <<>>
      BY OneBlock
    <2>3. published' = published
      BY <2>1 DEF DBProcess, NoBlock, Held, eventVars
    <2> QED  BY <1>1, <1>2, <2>1, <2>2, <2>3 DEF Placed, NoBlock, Held, Elsewhere
  <1>3. CASE npc = "idle"
    <2>1. PICK bx, by \in {voted, <<>>} :
               \/ InAccepted(bx) \/ InBlist(bx) \/ Dropped(bx)
               \/ Walked(bx, by) \/ Applied(bx, by)
      BY <1>3 DEF Placed
    <2>2. /\ <<>> \o <<>> = <<>>
          /\ <<>> \o <<bx>> = <<bx>>
          /\ <<bx>> \o <<>> = <<bx>>
          /\ [i \in DOMAIN <<>> |-> <<>>] = <<>>
          /\ [i \in DOMAIN <<by>> |-> <<>>] = << <<>> >>
      BY OneBlock
    <2>3. bx \in {voted', <<>>} /\ by \in {voted', <<>>} /\ <<>> \in {voted', <<>>}
      BY <1>1
    <2>4. CASE InAccepted(bx)
      <3>1. InBlist(bx)'
        BY <1>1, <2>2, <2>4 DEF InAccepted, InBlist, Held, Elsewhere
      <3> QED  BY <1>1, <1>3, <2>3, <3>1 DEF Placed
    <2>5. CASE InBlist(bx) \/ Dropped(bx)
      <3>1. Dropped(bx)'
        BY <1>1, <2>2, <2>5 DEF Dropped, InBlist, Held
      <3> QED  BY <1>1, <1>3, <2>3, <3>1 DEF Placed
    <2>6. CASE Walked(bx, by)
      <3>1. \E bz \in {by, <<>>} : walk' = <<bz>>
        BY <1>1, <2>2, <2>6 DEF Walked, Held
      <3>2. /\ accepted' = <<>> /\ blist' = <<>> /\ applied' = <<>>
            /\ overwritten' = <<bx>> /\ epc' = "agree"
        BY <1>1, <2>2, <2>6 DEF Walked, Held
      <3>3. \E bz \in {voted', <<>>} : Walked(bx, bz)'
        BY <2>3, <3>1, <3>2 DEF Walked, Held
      <3> QED  BY <1>1, <1>3, <2>3, <3>3 DEF Placed
    <2>7. CASE Applied(bx, by)
      <3>1. Applied(bx, by)'
        BY <1>1, <2>2, <2>7 DEF Applied, Held
      <3> QED  BY <1>1, <1>3, <2>3, <3>1 DEF Placed
    <2> QED  BY <2>1, <2>4, <2>5, <2>6, <2>7
  <1> QED  BY <1>2, <1>3

\* The DBSTORE task begins to walk over blist_.  It has an event: the block
\* has left accepted_blocks_.
LEMMA StoreBlocksPlaced == EventsOK /\ Placed /\ StoreBlocks => Placed'
  <1> SUFFICES ASSUME EventsOK, Placed, StoreBlocks PROVE Placed'
    OBVIOUS
  <1>1. /\ npc' = npc /\ voted' = voted /\ accepted' = accepted /\ blist' = blist
        /\ applied' = applied /\ overwritten' = overwritten
        /\ walk' = blist /\ epc' = "agree"
    BY DEF StoreBlocks, nodeVars, blockHist
  <1>2. epc = "idle" /\ published["DBSTORE"] > 0
    BY DEF StoreBlocks, TakeEvent
  <1>3. ~ NoBlock /\ npc = "idle"
    BY <1>2 DEF Placed, NoBlock
  <1>4. PICK bx, by \in {voted, <<>>} :
             \/ InAccepted(bx) \/ InBlist(bx) \/ Dropped(bx)
             \/ Walked(bx, by) \/ Applied(bx, by)
    BY <1>3 DEF Placed
  <1>5. CASE InAccepted(bx) \/ Walked(bx, by)
    BY <1>2, <1>5 DEF InAccepted, Walked
  <1>6. CASE InBlist(bx)
    <2>1. Walked(bx, bx)'
      BY <1>1, <1>6 DEF InBlist, Walked, Held
    <2> QED  BY <1>1, <1>3, <1>4, <2>1 DEF Placed
  <1>7. CASE Dropped(bx)
    <2>1. Dropped(bx)'
      BY <1>1, <1>7 DEF Dropped, Held
    <2> QED  BY <1>1, <1>3, <1>4, <2>1 DEF Placed
  <1>8. CASE Applied(bx, by)
    <2>1. Applied(bx, by)'
      BY <1>1, <1>2, <1>8 DEF Applied, Held
    <2> QED  BY <1>1, <1>3, <1>4, <2>1 DEF Placed
  <1> QED  BY <1>4, <1>5, <1>6, <1>7, <1>8

\* A block that is walked over has not been applied, and is alone there.
LEMMA WalkedPlace ==
    ASSUME Placed, walk # <<>>
    PROVE  npc = "idle" /\ \E bx, by \in {voted, <<>>} : Walked(bx, by) /\ walk = <<by>>
  <1>1. npc = "idle"
    BY DEF Placed, NoBlock, Held
  <1>2. PICK bx, by \in {voted, <<>>} :
             \/ InAccepted(bx) \/ InBlist(bx) \/ Dropped(bx)
             \/ Walked(bx, by) \/ Applied(bx, by)
    BY <1>1 DEF Placed
  <1>3. Walked(bx, by)
    BY <1>2 DEF InAccepted, InBlist, Dropped, Applied, Held
  <1>4. walk = <<by>>
    BY <1>3 DEF Walked, Held
  <1> QED  BY <1>1, <1>2, <1>3, <1>4

\* OnAgreeBlk is called with it.
LEMMA AgreeBlockPlaced == Placed /\ AgreeBlock => Placed'
  <1> SUFFICES ASSUME Placed, AgreeBlock PROVE Placed'
    OBVIOUS
  <1>1. /\ npc' = npc /\ voted' = voted /\ accepted' = accepted /\ blist' = blist
        /\ overwritten' = overwritten /\ epc' = epc /\ epc = "agree" /\ walk # <<>>
        /\ applied' = Append(applied, Head(walk)) /\ walk' = Tail(walk)
    BY DEF AgreeBlock, nodeVars
  <1>2. npc = "idle"
    BY <1>1, WalkedPlace
  <1>3. PICK bx, by \in {voted, <<>>} : Walked(bx, by) /\ walk = <<by>>
    BY <1>1, WalkedPlace
  <1>4. Head(<<by>>) = by /\ Tail(<<by>>) = <<>> /\ Append(<<>>, by) = <<by>>
    BY OneBlock
  <1>5. applied = <<>>
    BY <1>3 DEF Walked, Held
  <1>6. applied' = <<by>> /\ walk' = <<>>
    BY <1>1, <1>3, <1>4, <1>5
  <1>7. Applied(bx, by)'
    BY <1>1, <1>3, <1>6 DEF Walked, Applied, Held
  <1> QED  BY <1>1, <1>2, <1>3, <1>7 DEF Placed

\* The lists are handed to the server.
LEMMA OnSyncReplyPlaced == Placed /\ OnSyncReply => Placed'
  <1> SUFFICES ASSUME Placed, OnSyncReply PROVE Placed'
    OBVIOUS
  <1>1. /\ npc' = npc /\ voted' = voted /\ accepted' = accepted /\ blist' = blist
        /\ applied' = applied /\ overwritten' = overwritten
        /\ walk' = walk /\ walk = <<>> /\ epc' = "clear" /\ epc = "agree"
    BY DEF OnSyncReply, nodeVars, blockHist
  <1>2. npc = "idle"
    BY <1>1 DEF Placed, NoBlock, Elsewhere
  <1>3. PICK bx, by \in {voted, <<>>} :
             \/ InAccepted(bx) \/ InBlist(bx) \/ Dropped(bx)
             \/ Walked(bx, by) \/ Applied(bx, by)
    BY <1>2 DEF Placed
  <1>4. ~InAccepted(bx) /\ ~InBlist(bx)
    BY <1>1 DEF InAccepted, InBlist, Elsewhere
  <1>5. ~Walked(bx, by)
    <2>1. <<by>> # <<>>
      BY OneBlock
    <2> QED  BY <1>1, <2>1 DEF Walked, Held
  <1>6. Dropped(bx)' \/ Applied(bx, by)'
    BY <1>1, <1>3, <1>4, <1>5 DEF Dropped, Applied, Held
  <1> QED  BY <1>1, <1>2, <1>3, <1>6 DEF Placed

\* What blist_ is cleared of has been applied.
LEMMA ClearBlocksPlaced == Placed /\ ClearBlocks => Placed'
  <1> SUFFICES ASSUME Placed, ClearBlocks PROVE Placed'
    OBVIOUS
  <1>1. /\ npc' = npc /\ voted' = voted /\ accepted' = accepted /\ blist' = <<>>
        /\ applied' = applied /\ overwritten' = overwritten
        /\ walk' = walk /\ epc' = "idle" /\ epc = "clear"
    BY DEF ClearBlocks, nodeVars, blockHist
  <1>2. npc = "idle"
    BY <1>1 DEF Placed, NoBlock, Elsewhere
  <1>3. PICK bx, by \in {voted, <<>>} :
             \/ InAccepted(bx) \/ InBlist(bx) \/ Dropped(bx)
             \/ Walked(bx, by) \/ Applied(bx, by)
    BY <1>2 DEF Placed
  <1>4. ~InAccepted(bx) /\ ~InBlist(bx) /\ ~Walked(bx, by)
    BY <1>1 DEF InAccepted, InBlist, Walked, Elsewhere
  <1>5. Dropped(bx)' \/ Applied(bx, by)'
    BY <1>1, <1>3, <1>4 DEF Dropped, Applied, Held
  <1> QED  BY <1>1, <1>2, <1>3, <1>5 DEF Placed

\* The block is delivered while all lists are empty.
LEMMA DeliverPlaced == Placed /\ Deliver => Placed'
  <1> SUFFICES ASSUME Placed, Deliver PROVE Placed'
    OBVIOUS
  <1>1. /\ npc = "run" /\ npc' = "accept" /\ accepted' = accepted /\ blist' = blist
        /\ walk' = walk /\ applied' = applied /\ overwritten' = overwritten
        /\ epc' = epc /\ published' = published
    BY DEF Deliver, blockHist, taskVars, eventVars
  <1> QED  BY <1>1 DEF Placed, NoBlock, Held, Elsewhere

\* What is pushed onto accepted_blocks_ is alone there.
LEMMA AcceptPlaced == Placed /\ Accept => Placed'
  <1> SUFFICES ASSUME Placed, Accept PROVE Placed'
    OBVIOUS
  <1>1. NoBlock
    BY DEF Placed, Accept
  <1>2. PICK bx \in {voted, <<>>} : accepted' = Append(accepted, bx)
    BY DEF Accept
  <1>3. accepted' = <<bx>>
    BY <1>1, <1>2, OneBlock DEF NoBlock, Held
  <1>4. /\ npc' = "idle" /\ voted' = voted /\ blist' = blist /\ walk' = walk
        /\ applied' = applied /\ overwritten' = overwritten
        /\ epc' = epc /\ published' = published
    BY DEF Accept, blockHist, taskVars, eventVars
  <1>5. InAccepted(bx)'
    BY <1>1, <1>3, <1>4 DEF NoBlock, InAccepted, Held, Elsewhere
  <1> QED  BY <1>2, <1>4, <1>5 DEF Placed

\* The wallets, Listen, the pool and the other events leave the lists alone.
LEMMA NextPlaced == EventsOK /\ Placed /\ [Next]_vars => Placed'
  <1> SUFFICES ASSUME EventsOK, Placed, [Next]_vars PROVE Placed'
    OBVIOUS
  <1> USE DEF nodeVars, blockHist, taskVars, eventVars, placeVars, Elsewhere
  <1>0. /\ published \in [Event -> Nat] /\ "DBSTORE" \in Event
        /\ "TX" \in Event /\ "PROPOSE" \in Event
        /\ epc \in {"idle", "tx", "reply", "agree", "clear"}
    BY DEF EventsOK, Event, Placed
  <1>p. ASSUME NEW e \in {"TX", "PROPOSE"}, PublishEvent(e)
        PROVE  published'["DBSTORE"] = published["DBSTORE"]
    BY <1>0, <1>p DEF PublishEvent
  <1>t. ASSUME NEW e \in Event, TakeEvent(e), published["DBSTORE"] = 0
        PROVE  published'["DBSTORE"] = 0 /\ epc = "idle"
    BY <1>0, <1>t DEF TakeEvent
  <1>e. ASSUME NEW e \in Event, TakeEvent(e) PROVE epc = "idle"
    BY <1>e DEF TakeEvent
  <1>1. ASSUME NEW f \in Files, SendTx(f) PROVE Placed'
    BY <1>0, <1>1, SamePlaces DEF SendTx
  <1>2. ASSUME NEW e \in Event, SubscriberEvent(e) PROVE Placed'
    BY <1>0, <1>2, SamePlaces DEF SubscriberEvent
  <1>3. CASE ListenWakes
    BY <1>0, <1>3, SamePlaces DEF ListenWakes
  <1>4. CASE Listen
    BY <1>0, <1>p, <1>4, SamePlaces DEF Listen
  <1>5. CASE ListenEnds
    BY <1>0, <1>5, SamePlaces DEF ListenEnds
  <1>6. CASE ProposeProcess
    BY <1>0, <1>p, <1>6, SamePlaces DEF ProposeProcess
  <1>7. CASE DBProcess
    BY <1>7, DBProcessPlaced
  <1>8. ASSUME NEW e \in Event, TakeUnheard(e) PROVE Placed'
    BY <1>0, <1>t, <1>8, SamePlaces DEF TakeUnheard
  <1>9. CASE TakeTx
    <2>1. epc = "idle" /\ epc' = "tx" /\ UNCHANGED placeVars
      BY <1>0, <1>e, <1>9 DEF TakeTx
    <2>2. Elsewhere /\ Elsewhere'
      BY <2>1
    <2>3. published["DBSTORE"] = 0 => published'["DBSTORE"] = 0
      BY <1>0, <1>t, <1>9 DEF TakeTx
    <2> QED  BY <2>1, <2>2, <2>3, SamePlaces
  <1>10. CASE GetTransactions
    BY <1>10, SamePlaces DEF GetTransactions
  <1>11. CASE OnTxReply
    BY <1>11, SamePlaces DEF OnTxReply
  <1>12. CASE EndTx
    BY <1>12, SamePlaces DEF EndTx
  <1>13. CASE Propose
    BY <1>0, <1>t, <1>13, SamePlaces DEF Propose
  <1>14. CASE StoreBlocks
    BY <1>14, StoreBlocksPlaced
  <1>15. CASE AgreeBlock
    BY <1>15, AgreeBlockPlaced
  <1>16. CASE OnSyncReply
    BY <1>16, OnSyncReplyPlaced
  <1>17. CASE ClearBlocks
    BY <1>17, ClearBlocksPlaced
  <1>18. CASE Deliver
    BY <1>18, DeliverPlaced
  <1>19. CASE Accept
    BY <1>19, AcceptPlaced
  <1>20. CASE UNCHANGED vars
    BY <1>0, <1>20, SamePlaces DEF vars
  <1> QED
    BY <1>1, <1>2, <1>3, <1>4, <1>5, <1>6, <1>7, <1>8, <1>9, <1>10, <1>11,
       <1>12, <1>13, <1>14, <1>15, <1>16, <1>17, <1>18, <1>19, <1>20
       DEF Next, EventProcess

\* The invariant implies what the run checks.
LEMMA PlacedIsAccounted == Placed => BlockAccounted
  <1> SUFFICES ASSUME Placed PROVE BlockAccounted
    OBVIOUS
  <1> DEFINE places == accepted \o blist \o walk \o applied \o overwritten
             Bs == {voted, <<>>}
  <1>1. CASE npc # "idle"
    <2>1. Held(<<>>, <<>>, <<>>, <<>>, <<>>) /\ <<>> \o <<>> = <<>>
      BY <1>1, OneBlock DEF Placed, NoBlock
    <2>2. places = <<>> /\ Len(applied) <= 1
      BY <2>1 DEF Held
    <2> QED  BY <1>1, <2>2 DEF BlockAccounted
  <1>2. CASE npc = "idle"
    <2>1. PICK bx, by \in Bs :
               \/ InAccepted(bx) \/ InBlist(bx) \/ Dropped(bx)
               \/ Walked(bx, by) \/ Applied(bx, by)
      BY <1>2 DEF Placed
    <2> DEFINE none == <<>>
               x == <<bx>>
               y == <<by>>
               Is(l1, l2, l3, l4, l5) == /\ accepted = l1 /\ blist = l2 /\ walk = l3
                                         /\ applied = l4 /\ overwritten = l5
    <2>2. none \in Seq(Bs) /\ x \in Seq(Bs) /\ y \in Seq(Bs)
          /\ Len(none) = 0 /\ Len(x) = 1 /\ Len(y) = 1
      OBVIOUS
    <2>3. /\ accepted \in Seq(Bs) /\ blist \in Seq(Bs) /\ walk \in Seq(Bs)
          /\ applied \in Seq(Bs) /\ overwritten \in Seq(Bs)
          /\ Len(applied) <= 1
          /\ \/ Len(accepted) = 1 \/ Len(blist) = 1 \/ Len(walk) = 1
             \/ Len(applied) = 1 \/ Len(overwritten) = 1
      <3>1. \/ Is(x, none, none, none, none) \/ Is(none, x, none, none, none)
            \/ Is(none, none, none, none, x) \/ Is(none, x, y, none, none)
            \/ Is(none, none, y, none, x)    \/ Is(none, x, none, y, none)
            \/ Is(none, none, none, y, x)    \/ Is(none, none, none, y, none)
        BY <2>1, Zenon DEF InAccepted, InBlist, Dropped, Walked, Applied, Held
      <3> HIDE DEF none, x, y, Bs
      <3>2. /\ accepted \in {none, x, y} /\ blist \in {none, x, y} /\ walk \in {none, x, y}
            /\ applied \in {none, x, y} /\ overwritten \in {none, x, y}
        BY <3>1
      <3>3. \A l \in {none, x, y} : l \in Seq(Bs) /\ Len(l) <= 1
        <4>1. Len(none) <= 1 /\ Len(x) <= 1 /\ Len(y) <= 1
          BY <2>2
        <4> QED  BY <2>2, <4>1, Zenon
      <3>4. \/ accepted \in {x, y} \/ blist \in {x, y} \/ walk \in {x, y}
            \/ applied \in {x, y} \/ overwritten \in {x, y}
        BY <3>1
      <3>5. \A l \in {x, y} : Len(l) = 1
        BY <2>2
      <3> QED  BY <3>2, <3>3, <3>4, <3>5
    <2>4. /\ places \in Seq(Bs)
          /\ Len(places) = Len(accepted) + Len(blist) + Len(walk) + Len(applied)
                              + Len(overwritten)
      <3> HIDE DEF Bs
      <3> QED  BY <2>3
    <2>5. places # <<>>
      <3> HIDE DEF places
      <3> QED  BY <2>3, <2>4
    <2>6. ToSet(places) \subseteq Bs
      <3> HIDE DEF places, Bs
      <3> QED  BY <2>4 DEF ToSet
    <2> QED  BY <1>2, <2>3, <2>5, <2>6 DEF BlockAccounted
  <1> QED  BY <1>1, <1>2

-----------------------------------------------------------------------------
(* What the loops over the lists compute.                                  *)

\* What Keep has kept after k elements.
Keeps(acc, s, S) ==
    /\ acc[0] = <<>>
    /\ \A k \in 1 .. Len(s) :
          acc[k] = IF s[k] \in S THEN Append(acc[k - 1], s[k]) ELSE acc[k - 1]
    /\ Keep(s, S) = acc[Len(s)]

\* Keep walks over the list from its first element on.
LEMMA KeepSteps ==
    ASSUME NEW X, NEW s \in Seq(X), NEW S
    PROVE  \E acc \in [0 .. Len(s) -> Seq(X)] : Keeps(acc, s, S)
  <1> DEFINE n == Len(s)
             Op(v, i) == IF s[i] \in S THEN Append(v, s[i]) ELSE v
             Body(f) == [d \in SUBSET (1 .. n) |->
                           IF d = {} THEN <<>> ELSE Op(f[d \ {Max(d)}], Max(d))]
             iter == CHOOSE f : f = Body(f)
             F == [i \in 1 .. n |-> [v \in Seq(X) |-> Op(v, i)]]
  <1>1. n \in Nat /\ DOMAIN s = 1 .. n /\ \A i \in 1 .. n : s[i] \in X
    OBVIOUS
  <1>2. F \in [1 .. n -> [Seq(X) -> Seq(X)]]
    <2>1. \A i \in 1 .. n, v \in Seq(X) : Op(v, i) \in Seq(X)
      BY <1>1
    <2> HIDE DEF Op, n
    <2> QED  BY <2>1
  <1>3. \A i \in 1 .. n, v \in Seq(X) : F[i][v] = Op(v, i)
    <2> HIDE DEF Op, n
    <2> QED  OBVIOUS
  <1>0. <<>> \in Seq(X)
    OBVIOUS
  <1>4. \A d \in SUBSET (1 .. n) : d # {} => Max(d) \in 1 .. n /\ d \ {Max(d)} \in SUBSET (1 .. n)
    BY <1>1, MaxIsIn
  <1>8. Keep(s, S) = iter[1 .. n]
    BY <1>1 DEF FoldLeft, MapThenFoldSet, Keep
  <1> HIDE DEF n, F, Op
  <1>5. PICK g \in [SUBSET (1 .. n) -> Seq(X)] : LeftSolves(g, n, <<>>, F)
    BY <1>0, <1>1, <1>2, LeftFold
  <1>6. g = Body(g)
    BY <1>3, <1>4, <1>5 DEF LeftSolves
  <1>7. iter = Body(iter)
    <2> HIDE DEF Body
    <2> QED  BY <1>6
  <1> HIDE DEF iter
  <1>9. LeftIterates(iter, n, Seq(X), <<>>, F)
    BY <1>3, <1>4, <1>7 DEF LeftIterates
  <1>10. PICK acc \in [0 .. n -> Seq(X)] : LeftSteps(acc, n, <<>>, F, iter[1 .. n])
    BY <1>0, <1>1, <1>2, <1>9, LeftFoldSteps
  <1>11. \A k \in 1 .. n : acc[k] = Op(acc[k - 1], k)
    <2> TAKE k \in 1 .. n
    <2>1. acc[k - 1] \in Seq(X)
      BY <1>1
    <2> QED  BY <1>3, <1>10, <2>1 DEF LeftSteps
  <1> QED  BY <1>8, <1>10, <1>11 DEF n, Op, LeftSteps, Keeps

\* It keeps what is in the set and nothing else.
LEMMA KeepIsIn ==
    ASSUME NEW X, NEW s \in Seq(X), NEW S
    PROVE  /\ Keep(s, S) \in Seq(X)
           /\ ToSet(Keep(s, S)) = ToSet(s) \cap S
  <1> DEFINE n == Len(s)
  <1>0. PICK acc \in [0 .. Len(s) -> Seq(X)] : Keeps(acc, s, S)
    BY KeepSteps
  <1>1. /\ acc \in [0 .. n -> Seq(X)]
        /\ acc[0] = <<>>
        /\ \A k \in 1 .. n :
              acc[k] = IF s[k] \in S THEN Append(acc[k - 1], s[k]) ELSE acc[k - 1]
        /\ Keep(s, S) = acc[n]
    BY <1>0 DEF Keeps
  <1>2. n \in Nat /\ DOMAIN s = 1 .. n /\ \A i \in 1 .. n : s[i] \in X
    OBVIOUS
  <1> HIDE DEF n
  <1> DEFINE T == {k \in Nat : k \in 0 .. n => ToSet(acc[k]) = {s[i] : i \in 1 .. k} \cap S}
  <1>3. 0 \in T
    <2>1. 1 .. 0 = {} /\ ToSet(<<>>) = {}
      BY DEF ToSet
    <2> QED  BY <1>1, <2>1
  <1>4. ASSUME NEW k \in Nat, k \in T PROVE k + 1 \in T
    <2>1. ASSUME k + 1 \in 0 .. n
          PROVE  ToSet(acc[k + 1]) = {s[i] : i \in 1 .. k + 1} \cap S
      <3>1. k \in 0 .. n /\ k + 1 \in 1 .. n /\ k + 1 - 1 = k
        BY <1>2, <2>1
      <3>2. acc[k + 1] = IF s[k + 1] \in S THEN Append(acc[k], s[k + 1]) ELSE acc[k]
        BY <1>1, <3>1
      <3>3. acc[k] \in Seq(X) /\ s[k + 1] \in X
        BY <1>1, <1>2, <3>1
      <3>4. ToSet(Append(acc[k], s[k + 1])) = ToSet(acc[k]) \cup {s[k + 1]}
        BY <3>3, ToSetAppend
      <3>5. 1 .. k + 1 = (1 .. k) \cup {k + 1}
        OBVIOUS
      <3>6. {s[i] : i \in 1 .. k + 1} = {s[i] : i \in 1 .. k} \cup {s[k + 1]}
        BY <3>5
      <3>7. ToSet(acc[k]) = {s[i] : i \in 1 .. k} \cap S
        BY <1>4, <3>1
      <3> QED  BY <3>2, <3>4, <3>6, <3>7
    <2> QED  BY <2>1
  <1>5. \A k \in Nat : k \in T
    <2> HIDE DEF T
    <2> QED  BY <1>3, <1>4, Induction
  <1>6. n \in T
    BY <1>2, <1>5
  <1>7. ToSet(acc[n]) = {s[i] : i \in 1 .. n} \cap S
    BY <1>2, <1>6
  <1>8. ToSet(s) = {s[i] : i \in 1 .. n}
    BY <1>2 DEF ToSet
  <1>9. acc[n] \in Seq(X)
    BY <1>2
  <1> QED  BY <1>1, <1>7, <1>8, <1>9

\* If one place of the list has an element of the set, that is kept.
LEMMA KeepOne ==
    ASSUME NEW X, NEW s \in Seq(X), NEW S, NEW j \in 1 .. Len(s), s[j] \in S,
           \A i \in 1 .. Len(s) : s[i] \in S => i = j
    PROVE  Keep(s, S) = <<s[j]>>
  <1> DEFINE n == Len(s)
  <1>0. PICK acc \in [0 .. Len(s) -> Seq(X)] : Keeps(acc, s, S)
    BY KeepSteps
  <1>1. /\ acc \in [0 .. n -> Seq(X)]
        /\ acc[0] = <<>>
        /\ \A k \in 1 .. n :
              acc[k] = IF s[k] \in S THEN Append(acc[k - 1], s[k]) ELSE acc[k - 1]
        /\ Keep(s, S) = acc[n]
    BY <1>0 DEF Keeps
  <1>2. n \in Nat /\ \A i \in 1 .. n : s[i] \in S <=> i = j
    OBVIOUS
  <1>3. j \in 1 .. n
    OBVIOUS
  <1> HIDE DEF n
  <1> DEFINE T == {k \in Nat : k \in 0 .. n => acc[k] = IF k < j THEN <<>> ELSE <<s[j]>>}
  <1>4. 0 \in T
    BY <1>1, <1>2, <1>3
  <1>5. ASSUME NEW k \in Nat, k \in T PROVE k + 1 \in T
    <2>1. ASSUME k + 1 \in 0 .. n
          PROVE  acc[k + 1] = IF k + 1 < j THEN <<>> ELSE <<s[j]>>
      <3>1. k \in 0 .. n /\ k + 1 \in 1 .. n /\ k + 1 - 1 = k
        BY <1>2, <2>1
      <3>2. acc[k + 1] = IF k + 1 = j THEN Append(acc[k], s[k + 1]) ELSE acc[k]
        <4>1. acc[k + 1] = IF s[k + 1] \in S THEN Append(acc[k + 1 - 1], s[k + 1])
                                              ELSE acc[k + 1 - 1]
          BY <1>1, <3>1
        <4>2. s[k + 1] \in S <=> k + 1 = j
          BY <1>2, <3>1
        <4> HIDE DEF T
        <4> QED  BY <3>1, <4>1, <4>2
      <3>3. acc[k] = IF k < j THEN <<>> ELSE <<s[j]>>
        BY <1>5, <3>1
      <3>4. Append(<<>>, s[j]) = <<s[j]>>
        OBVIOUS
      <3>5. j \in Int
        OBVIOUS
      <3>6. CASE k + 1 = j
        <4>1. k < j /\ ~(k + 1 < j)
          BY <3>5, <3>6
        <4> QED  BY <3>2, <3>3, <3>4, <3>6, <4>1
      <3>7. CASE k + 1 # j
        <4>1. k < j <=> k + 1 < j
          BY <3>5, <3>7
        <4> QED  BY <3>2, <3>3, <3>7, <4>1
      <3> QED  BY <3>6, <3>7
    <2> QED  BY <2>1
  <1>6. \A k \in Nat : k \in T
    <2> HIDE DEF T
    <2> QED  BY <1>4, <1>5, Induction
  <1>7. n \in T
    BY <1>2, <1>6
  <1>8. acc[n] = <<s[j]>>
    BY <1>2, <1>3, <1>7
  <1> QED  BY <1>1, <1>8

\* What it keeps of a list of one element.
LEMMA KeepShort ==
    ASSUME NEW x, NEW S
    PROVE  /\ x \in S => Keep(<<x>>, S) = <<x>>
           /\ x \notin S => Keep(<<x>>, S) = <<>>
  <1>1. <<x>> \in Seq({x}) /\ Len(<<x>>) = 1 /\ <<x>>[1] = x
    OBVIOUS
  <1>2. ASSUME x \in S PROVE Keep(<<x>>, S) = <<x>>
    <2>1. 1 \in 1 .. 1 /\ \A i \in 1 .. 1 : i = 1
      OBVIOUS
    <2> QED  BY <1>1, <1>2, <2>1, KeepOne
  <1>3. ASSUME x \notin S PROVE Keep(<<x>>, S) = <<>>
    <2>1. ToSet(<<x>>) = {x}
      <3>1. DOMAIN <<x>> = {1}
        OBVIOUS
      <3> QED  BY <1>1, <3>1 DEF ToSet
    <2>2. Keep(<<x>>, S) \in Seq({x}) /\ ToSet(Keep(<<x>>, S)) = ToSet(<<x>>) \cap S
      BY <1>1, KeepIsIn
    <2>3. ToSet(Keep(<<x>>, S)) = {}
      BY <1>3, <2>1, <2>2
    <2> QED  BY <2>2, <2>3, InToSet
  <1> QED  BY <1>2, <1>3

-----------------------------------------------------------------------------
(* The coins.                                                              *)

\* A list has as many elements as places exactly if none comes twice.
LEMMA Distinct ==
    ASSUME NEW X, NEW s \in Seq(X)
    PROVE  Cardinality(ToSet(s)) = Len(s)
              <=> \A i, j \in 1 .. Len(s) : s[i] = s[j] => i = j
  <1>1. DOMAIN s = 1 .. Len(s) /\ Len(s) \in Nat
    OBVIOUS
  <1>2. s \in Surjection(1 .. Len(s), ToSet(s))
    BY <1>1 DEF ToSet, Surjection
  <1>3. IsFiniteSet(1 .. Len(s)) /\ Cardinality(1 .. Len(s)) = Len(s)
    BY <1>1, FS_Interval
  <1>4. Cardinality(ToSet(s)) = Len(s) <=> s \in Injection(1 .. Len(s), ToSet(s))
    BY <1>2, <1>3, FS_Surjection
  <1>5. s \in [1 .. Len(s) -> ToSet(s)]
    BY <1>2 DEF Surjection
  <1> QED  BY <1>4, <1>5 DEF Injection, IsInjective

\* A wallet id fits into the uint16_t a transaction keeps it in.
LEMMA WalletFits ==
    ASSUME NEW w \in Wallet
    PROVE  w \in Nat /\ w % UShort = w
  <1>1. UShort \in Nat /\ UShort > 0
    BY DEF UShort
  <1>2. WalletIds \in Seq(0 .. UShort - 1)
    BY ValidatorAssumption
  <1>3. Wallet \subseteq 0 .. UShort - 1
    BY <1>2, InToSet DEF Wallet
  <1>4. w \in Nat /\ w < UShort
    BY <1>1, <1>3
  <1> QED  BY <1>1, <1>4, ModIs

\* The coins are one for each wallet, numbered and all worth the same.
LEMMA InitialCoinsAre ==
    /\ InitialCoins \in Seq(UTXO)
    /\ Len(InitialCoins) = Len(WalletIds)
    /\ Len(WalletIds) \in Nat
    /\ DOMAIN InitialCoins = 1 .. Len(WalletIds)
    /\ DOMAIN WalletIds = 1 .. Len(WalletIds)
    /\ \A i \in 1 .. Len(WalletIds) :
          /\ InitialCoins[i] = Coin(i)
          /\ Coin(i) \in UTXO
          /\ InputOf(Coin(i)) = [txID |-> i - 1, outputIndex |-> 0]
          /\ Coin(i).output.value = Coins
          /\ Coin(i).output.receiverID = WalletIds[i]
          /\ WalletIds[i] \in Wallet
    /\ \A i, j \in 1 .. Len(WalletIds) :
          /\ InputOf(Coin(i)) = InputOf(Coin(j)) => i = j
          /\ WalletIds[i] = WalletIds[j] => i = j
    /\ Coins \in Nat
  <1> DEFINE n == Len(WalletIds)
  <1>1. WalletIds \in Seq(0 .. UShort - 1) /\ n \in Nat /\ DOMAIN WalletIds = 1 .. n
    BY ValidatorAssumption
  <1>2. Coins \in Nat
    BY ValidatorAssumption
  <1>3. \A i \in 1 .. n : WalletIds[i] \in Nat /\ WalletIds[i] \in Wallet
    <2>1. \A i \in 1 .. n : WalletIds[i] \in Wallet
      BY <1>1, InToSet DEF Wallet
    <2> QED  BY <2>1, WalletFits
  <1>4. ASSUME NEW i \in 1 .. n
        PROVE  /\ Coin(i) \in UTXO
               /\ InputOf(Coin(i)) = [txID |-> i - 1, outputIndex |-> 0]
               /\ Coin(i).output.value = Coins
               /\ Coin(i).output.receiverID = WalletIds[i]
    <2>1. i - 1 \in Nat
      OBVIOUS
    <2> QED  BY <1>2, <1>3, <2>1 DEF Coin, UTXO, Output, InputOf
  <1>5. \A i, j \in 1 .. n : WalletIds[i] = WalletIds[j] => i = j
    <2>1. Cardinality(ToSet(WalletIds)) = Len(WalletIds)
      BY ValidatorAssumption DEF Wallet
    <2> QED  BY <1>1, <2>1, Distinct
  <1>6. ASSUME NEW i \in 1 .. n, NEW j \in 1 .. n, InputOf(Coin(i)) = InputOf(Coin(j))
        PROVE  i = j
    <2>1. [txID |-> i - 1, outputIndex |-> 0] = [txID |-> j - 1, outputIndex |-> 0]
      BY <1>4, <1>6
    <2>2. i - 1 = j - 1
      BY <2>1
    <2> QED  BY <2>2
  <1>7. InitialCoins = [i \in 1 .. n |-> Coin(i)]
    BY <1>1 DEF InitialCoins
  <1>8. /\ InitialCoins \in Seq(UTXO) /\ Len(InitialCoins) = n
        /\ DOMAIN InitialCoins = 1 .. n
        /\ \A i \in 1 .. n : InitialCoins[i] = Coin(i)
    <2> HIDE DEF n
    <2> QED  BY <1>1, <1>4, <1>7
  <1> QED  BY <1>1, <1>2, <1>3, <1>4, <1>5, <1>6, <1>8

\* A wallet starts with one coin.
LEMMA OneCoin ==
    ASSUME NEW w \in Wallet
    PROVE  \E j \in 1 .. Len(WalletIds) : WalletIds[j] = w /\ CoinsOf(w) = <<Coin(j)>>
  <1> DEFINE n == Len(WalletIds)
             S == {u \in ToSet(InitialCoins) : u.output.receiverID = w}
  <1>0. WalletIds \in Seq(0 .. UShort - 1)
    BY ValidatorAssumption
  <1>1. PICK j \in 1 .. n : WalletIds[j] = w
    BY <1>0, InToSet DEF Wallet
  <1>2. \A i \in 1 .. n : InitialCoins[i] \in ToSet(InitialCoins)
    BY InitialCoinsAre, InToSet
  <1>3. \A i \in 1 .. n : InitialCoins[i] \in S <=> i = j
    BY <1>1, <1>2, InitialCoinsAre
  <1>4. CoinsOf(w) = Keep(InitialCoins, S)
    BY DEF CoinsOf
  <1>5. InitialCoins \in Seq(UTXO) /\ Len(InitialCoins) = n
    BY InitialCoinsAre
  <1> HIDE DEF S
  <1>6. Keep(InitialCoins, S) = <<InitialCoins[j]>>
    BY <1>3, <1>5, KeepOne
  <1> QED  BY <1>1, <1>4, <1>6, InitialCoinsAre

-----------------------------------------------------------------------------
(* checkSpendingConditions, for lists of coins that are all worth the same *)
(* amount: which inputs the list has is all that matters.                  *)

\* The inputs that a list has coins for.
Spendable(ulist) == {InputOf(ulist[i]) : i \in DOMAIN ulist}

\* Lists of coins such as InitializeCoins makes.
CoinList == {ulist \in Seq(UTXO) : \A i \in DOMAIN ulist : ulist[i].output.value = Coins}

\* What checkSpendingConditions asks of a transaction when ins can be spent.
Passes(tx, ins) ==
    IF tx.inputs = <<>>
    THEN tx.outputs = <<>>
    ELSE /\ ToSet(tx.inputs) \subseteq ins
         /\ IntSum([i \in DOMAIN tx.inputs |-> Coins]) = OutputTotal(tx)
         /\ \A i \in DOMAIN tx.outputs : tx.outputs[i].receiverID \in Wallet

\* UTXOlist::index finds the coin if it is there.
LEMMA IndexFinds ==
    ASSUME NEW ulist \in Seq(UTXO), NEW in
    PROVE  /\ Index(ulist, in) # 0 <=> in \in Spendable(ulist)
           /\ Index(ulist, in) # 0 => /\ Index(ulist, in) \in 1 .. Len(ulist)
                                      /\ InputOf(ulist[Index(ulist, in)]) = in
  <1> DEFINE I == {i \in 1 .. Len(ulist) : InputOf(ulist[i]) = in}
  <1>1. Index(ulist, in) = IF I # {} THEN Min(I) ELSE 0
    BY DEF Index, SelectInSeq
  <1>2. DOMAIN ulist = 1 .. Len(ulist) /\ Len(ulist) \in Nat
    OBVIOUS
  <1>3. I # {} <=> in \in Spendable(ulist)
    BY <1>2 DEF Spendable
  <1>4. I \subseteq Nat /\ 0 \notin I
    BY <1>2
  <1>5. I # {} => Min(I) \in I
    <2> HIDE DEF I
    <2> QED  BY <1>4, MinIsIn
  <1>6. I # {} => Min(I) # 0
    <2> HIDE DEF I
    <2> QED  BY <1>4, <1>5
  <1>7. I # {} => Min(I) \in 1 .. Len(ulist) /\ InputOf(ulist[Min(I)]) = in
    BY <1>5
  <1> HIDE DEF I
  <1> QED  BY <1>1, <1>3, <1>6, <1>7

\* So the check depends on the inputs only.
LEMMA CheckMeans ==
    ASSUME NEW ulist \in CoinList, NEW tx, tx.inputs \in Seq(Input)
    PROVE  CheckSpendingConditions(tx, ulist, Wallet) <=> Passes(tx, Spendable(ulist))
  <1> DEFINE ok == \A i \in DOMAIN tx.inputs : Index(ulist, tx.inputs[i]) # 0
  <1>1. ulist \in Seq(UTXO) /\ \A i \in DOMAIN ulist : ulist[i].output.value = Coins
    BY DEF CoinList
  <1>2. DOMAIN ulist = 1 .. Len(ulist)
    BY <1>1
  <1>3. ok <=> ToSet(tx.inputs) \subseteq Spendable(ulist)
    BY <1>1, IndexFinds DEF ToSet
  <1>4. ASSUME ok
        PROVE  InputTotal(tx, ulist) = IntSum([i \in DOMAIN tx.inputs |-> Coins])
    <2>1. \A i \in DOMAIN tx.inputs : ulist[Index(ulist, tx.inputs[i])].output.value = Coins
      BY <1>1, <1>2, <1>4, IndexFinds
    <2>2. [i \in DOMAIN tx.inputs |-> ulist[Index(ulist, tx.inputs[i])].output.value]
            = [i \in DOMAIN tx.inputs |-> Coins]
      BY <2>1
    <2> QED  BY <2>2 DEF InputTotal
  <1> HIDE DEF ok
  <1>5. CheckSpendingConditions(tx, ulist, Wallet) <=>
          IF tx.inputs = <<>>
          THEN tx.outputs = <<>>
          ELSE /\ ok
               /\ InputTotal(tx, ulist) = OutputTotal(tx)
               /\ \A i \in DOMAIN tx.outputs : tx.outputs[i].receiverID \in Wallet
    BY DEF CheckSpendingConditions, ok
  <1> QED  BY <1>3, <1>4, <1>5 DEF Passes

\* The lists of coins that the check is made against.
LEMMA CoinLists ==
    /\ InitialCoins \in CoinList
    /\ \A w \in Wallet :
          /\ CoinsOf(w) \in CoinList
          /\ Spendable(CoinsOf(w)) \subseteq Spendable(InitialCoins)
    /\ <<>> \in CoinList
    /\ Spendable(<<>>) = {}
  <1>1. InitialCoins \in CoinList
    BY InitialCoinsAre DEF CoinList
  <1>2. <<>> \in CoinList /\ Spendable(<<>>) = {}
    BY DEF CoinList, Spendable
  <1>3. ASSUME NEW w \in Wallet
        PROVE  /\ CoinsOf(w) \in CoinList
               /\ Spendable(CoinsOf(w)) \subseteq Spendable(InitialCoins)
    <2>1. PICK j \in 1 .. Len(WalletIds) : CoinsOf(w) = <<Coin(j)>>
      BY OneCoin
    <2>2. Coin(j) \in UTXO /\ Coin(j).output.value = Coins
          /\ InitialCoins[j] = Coin(j) /\ j \in DOMAIN InitialCoins
      BY InitialCoinsAre
    <2>3. <<Coin(j)>> \in Seq(UTXO) /\ DOMAIN <<Coin(j)>> = {1} /\ <<Coin(j)>>[1] = Coin(j)
      BY <2>2
    <2>4. <<Coin(j)>> \in CoinList
      BY <2>2, <2>3 DEF CoinList
    <2>5. Spendable(<<Coin(j)>>) = {InputOf(Coin(j))}
      BY <2>3 DEF Spendable
    <2>6. InputOf(Coin(j)) \in Spendable(InitialCoins)
      BY <2>2 DEF Spendable
    <2> QED  BY <2>1, <2>4, <2>5, <2>6
  <1> QED  BY <1>1, <1>2, <1>3

-----------------------------------------------------------------------------
(* OnAgreeBlk.                                                             *)

\* The lists of the leader: a wallet has its coin, or nothing.
CoinSets == {sets \in [Wallet -> Seq(UTXO)] :
               \A w \in Wallet : sets[w] \in {<<>>, CoinsOf(w)}}

\* The transactions that spend nothing but the coin of their sender.
OwnTx == {tx \in Tx : ToSet(tx.inputs) \subseteq Spendable(CoinsOf(tx.senderID))}

\* The lists without the coins that the inputs ins spend.
Without(sets, ins) ==
    [w \in Wallet |-> IF Spendable(CoinsOf(w)) \cap ins # {} THEN <<>> ELSE sets[w]]

\* The loop over the inputs erases the only coin of a list if it is named.
LEMMA SpendFromShort ==
    ASSUME NEW u \in UTXO, NEW sets, NEW tx, tx.inputs \in Seq(Input),
           sets[tx.senderID] \in {<<>>, <<u>>}
    PROVE  SpendInputs(sets, tx) =
             [sets EXCEPT ![tx.senderID] = IF InputOf(u) \in ToSet(tx.inputs)
                                           THEN <<>> ELSE sets[tx.senderID]]
  <1> DEFINE old == sets[tx.senderID]
             ins == tx.inputs
             n == Len(ins)
             S == {<<>>, old}
             Op(v, i) == IF Index(old, ins[i]) = 0 THEN v
                                                   ELSE Erase(v, Index(old, ins[i]))
             Body(f) == [d \in SUBSET (1 .. n) |->
                           IF d = {} THEN old ELSE Op(f[d \ {Max(d)}], Max(d))]
             iter == CHOOSE f : f = Body(f)
             F == [i \in 1 .. n |-> [v \in S |-> Op(v, i)]]
  <1>1. n \in Nat /\ DOMAIN ins = 1 .. n
    OBVIOUS
  <1>2. ASSUME NEW i \in 1 .. n, NEW v \in S
        PROVE  Op(v, i) = IF InputOf(u) = ins[i] THEN <<>> ELSE v
    <2>1. <<>> \in Seq(UTXO) /\ <<u>> \in Seq(UTXO) /\ Len(<<>>) = 0 /\ Len(<<u>>) = 1
          /\ DOMAIN <<u>> = {1} /\ <<u>>[1] = u /\ DOMAIN <<>> = {}
      OBVIOUS
    <2>2. CASE old = <<>>
      <3>1. Index(old, ins[i]) = 0
        BY <2>1, <2>2, IndexFinds, ZenonT(30) DEF Spendable
      <3>2. v = <<>>
        BY <2>2
      <3> QED  BY <3>1, <3>2
    <2>3. CASE old = <<u>>
      <3>1. Spendable(old) = {InputOf(u)}
        BY <2>1, <2>3 DEF Spendable
      <3>2. CASE InputOf(u) = ins[i]
        <4>1. Index(old, ins[i]) # 0 /\ Index(old, ins[i]) \in 1 .. 1
          BY <2>1, <2>3, <3>1, <3>2, IndexFinds
        <4>2. Index(old, ins[i]) = 1
          BY <4>1
        <4>3. Erase(<<u>>, 1) = <<>>
          BY DEF Erase, RemoveAt
        <4>4. Erase(<<>>, 1) = <<>>
          BY DEF Erase, Front
        <4> QED  BY <2>3, <3>2, <4>1, <4>2, <4>3, <4>4
      <3>3. CASE InputOf(u) # ins[i]
        <4>1. Index(old, ins[i]) = 0
          BY <2>1, <2>3, <3>1, <3>3, IndexFinds, ZenonT(30)
        <4> QED  BY <3>3, <4>1
      <3> QED  BY <3>2, <3>3
    <2> QED  BY <2>2, <2>3
  <1>8. SpendInputs(sets, tx) = [sets EXCEPT ![tx.senderID] = iter[1 .. n]]
    BY <1>1 DEF FoldLeft, MapThenFoldSet, SpendInputs
  <1>3. F \in [1 .. n -> [S -> S]] /\ \A i \in 1 .. n, v \in S : F[i][v] = Op(v, i)
    <2>1. \A i \in 1 .. n, v \in S : Op(v, i) \in S
      BY <1>2
    <2> HIDE DEF Op, S, n
    <2> QED  BY <2>1
  <1>0. old \in S
    OBVIOUS
  <1>4. \A d \in SUBSET (1 .. n) : d # {} => Max(d) \in 1 .. n /\ d \ {Max(d)} \in SUBSET (1 .. n)
    BY <1>1, MaxIsIn
  <1> HIDE DEF n, F, Op, S
  <1>5. PICK g \in [SUBSET (1 .. n) -> S] : LeftSolves(g, n, old, F)
    <2> HIDE DEF old
    <2> QED  BY <1>0, <1>1, <1>3, LeftFold
  <1>6. g = Body(g)
    BY <1>3, <1>4, <1>5 DEF LeftSolves
  <1>7. iter = Body(iter)
    <2> HIDE DEF Body
    <2> QED  BY <1>6
  <1> HIDE DEF iter
  <1>9. LeftIterates(iter, n, S, old, F)
    <2>1. iter[{}] = old
      BY <1>7
    <2>2. ASSUME NEW d \in SUBSET (1 .. n), d # {}, iter[d \ {Max(d)}] \in S
          PROVE  iter[d] = F[Max(d)][iter[d \ {Max(d)}]]
      <3>1. iter[d] = Op(iter[d \ {Max(d)}], Max(d))
        BY <1>7, <2>2
      <3> QED  BY <1>3, <1>4, <2>2, <3>1
    <2> QED  BY <2>1, <2>2 DEF LeftIterates
  <1>10. PICK acc \in [0 .. n -> S] : LeftSteps(acc, n, old, F, iter[1 .. n])
    <2> HIDE DEF old
    <2> QED  BY <1>0, <1>1, <1>3, <1>9, LeftFoldSteps
  <1>11. \A k \in 1 .. n : acc[k] = IF InputOf(u) = ins[k] THEN <<>> ELSE acc[k - 1]
    <2> TAKE k \in 1 .. n
    <2>1. acc[k - 1] \in S
      BY <1>1
    <2> QED  BY <1>2, <1>3, <1>10, <2>1 DEF LeftSteps
  <1>12. acc[0] = old /\ iter[1 .. n] = acc[n]
    BY <1>10 DEF LeftSteps
  <1> DEFINE T == {k \in Nat : k \in 0 .. n =>
                     acc[k] = IF \E i \in 1 .. k : InputOf(u) = ins[i] THEN <<>> ELSE old}
  <1> HIDE DEF old, ins
  <1>13. 0 \in T
    BY <1>12
  <1>14. ASSUME NEW k \in Nat, k \in T PROVE k + 1 \in T
    <2>1. ASSUME k + 1 \in 0 .. n
          PROVE  acc[k + 1] = IF \E i \in 1 .. k + 1 : InputOf(u) = ins[i]
                              THEN <<>> ELSE old
      <3>1. k \in 0 .. n /\ k + 1 \in 1 .. n /\ k + 1 - 1 = k
        BY <1>1, <2>1
      <3>2. acc[k + 1] = IF InputOf(u) = ins[k + 1] THEN <<>> ELSE acc[k]
        BY <1>11, <3>1
      <3>3. acc[k] = IF \E i \in 1 .. k : InputOf(u) = ins[i] THEN <<>> ELSE old
        BY <1>14, <3>1
      <3>4. 1 .. k + 1 = (1 .. k) \cup {k + 1}
        OBVIOUS
      <3> QED  BY <3>2, <3>3, <3>4
    <2> QED  BY <2>1
  <1>15. \A k \in Nat : k \in T
    <2> HIDE DEF T
    <2> QED  BY <1>13, <1>14, Induction
  <1>16. n \in T
    BY <1>1, <1>15
  <1>17. acc[n] = IF \E i \in 1 .. n : InputOf(u) = ins[i] THEN <<>> ELSE old
    BY <1>1, <1>16
  <1>18. acc[n] = IF InputOf(u) \in ToSet(tx.inputs) THEN <<>> ELSE sets[tx.senderID]
    BY <1>1, <1>17 DEF ins, old, ToSet
  <1> QED  BY <1>8, <1>12, <1>18

\* A transaction takes the coin that it spends from the lists.
LEMMA SpendOwn ==
    ASSUME NEW sets \in CoinSets, NEW tx \in OwnTx
    PROVE  SpendInputs(sets, tx) = Without(sets, ToSet(tx.inputs))
  <1> DEFINE w == tx.senderID
             ins == ToSet(tx.inputs)
  <1>1. w \in Wallet /\ tx.inputs \in Seq(Input) /\ ins \subseteq Spendable(CoinsOf(w))
    BY DEF OwnTx, Tx
  <1>2. PICK j \in 1 .. Len(WalletIds) : WalletIds[j] = w /\ CoinsOf(w) = <<Coin(j)>>
    BY <1>1, OneCoin
  <1>3. Coin(j) \in UTXO
    BY InitialCoinsAre
  <1>4. sets \in [Wallet -> Seq(UTXO)] /\ sets[w] \in {<<>>, <<Coin(j)>>}
    BY <1>1, <1>2 DEF CoinSets
  <1>5. SpendInputs(sets, tx) =
          [sets EXCEPT ![w] = IF InputOf(Coin(j)) \in ins THEN <<>> ELSE sets[w]]
    BY <1>1, <1>3, <1>4, SpendFromShort
  <1>6. Spendable(CoinsOf(w)) = {InputOf(Coin(j))}
    <2>1. DOMAIN <<Coin(j)>> = {1} /\ <<Coin(j)>>[1] = Coin(j)
      OBVIOUS
    <2> QED  BY <1>2, <2>1 DEF Spendable
  <1>7. ASSUME NEW v \in Wallet, v # w PROVE Spendable(CoinsOf(v)) \cap ins = {}
    <2>1. PICK k \in 1 .. Len(WalletIds) : WalletIds[k] = v /\ CoinsOf(v) = <<Coin(k)>>
      BY OneCoin
    <2>2. DOMAIN <<Coin(k)>> = {1} /\ <<Coin(k)>>[1] = Coin(k)
      OBVIOUS
    <2>3. Spendable(CoinsOf(v)) = {InputOf(Coin(k))}
      BY <2>1, <2>2 DEF Spendable
    <2>4. k # j
      BY <1>2, <1>7, <2>1
    <2>5. InputOf(Coin(k)) # InputOf(Coin(j))
      BY <2>4, InitialCoinsAre
    <2> QED  BY <1>1, <1>6, <2>3, <2>5
  <1>8. (Spendable(CoinsOf(w)) \cap ins # {}) <=> InputOf(Coin(j)) \in ins
    BY <1>6
  <1> HIDE DEF w, ins
  <1>9. \A v \in Wallet : SpendInputs(sets, tx)[v] = Without(sets, ins)[v]
    BY <1>1, <1>4, <1>5, <1>7, <1>8 DEF Without
  <1>10. SpendInputs(sets, tx) \in [Wallet -> {SpendInputs(sets, tx)[v] : v \in Wallet}]
    BY <1>4, <1>5
  <1>11. SpendInputs(sets, tx) = Without(sets, ins)
    BY <1>9, <1>10 DEF Without
  <1> QED  BY <1>11 DEF ins

\* The lists stay lists of a coin or of nothing.
LEMMA WithoutType ==
    ASSUME NEW sets \in CoinSets, NEW ins
    PROVE  Without(sets, ins) \in CoinSets
  <1>1. \A w \in Wallet : sets[w] \in Seq(UTXO) /\ sets[w] \in {<<>>, CoinsOf(w)}
    BY DEF CoinSets
  <1>2. \A w \in Wallet : /\ Without(sets, ins)[w] \in Seq(UTXO)
                          /\ Without(sets, ins)[w] \in {<<>>, CoinsOf(w)}
    BY <1>1 DEF Without
  <1>3. Without(sets, ins) \in [Wallet -> Seq(UTXO)]
    BY <1>2 DEF Without
  <1> QED  BY <1>2, <1>3 DEF CoinSets

\* First the coins that some inputs spend, then those of others.
LEMMA WithoutTwice ==
    ASSUME NEW sets, NEW a, NEW b
    PROVE  Without(Without(sets, a), b) = Without(sets, a \cup b)
  <1>1. \A w \in Wallet : Without(Without(sets, a), b)[w] = Without(sets, a \cup b)[w]
    BY DEF Without
  <1> QED  BY <1>1 DEF Without

\* A block takes the coins that its transactions spend.
LEMMA OnAgreeBlkSpends ==
    ASSUME NEW sets \in CoinSets, NEW bx \in Seq(OwnTx)
    PROVE  OnAgreeBlk(sets, bx) = Without(sets, InputsOf(bx))
  <1> DEFINE n == Len(bx)
             Body(f) == [d \in SUBSET (1 .. n) |->
                           IF d = {} THEN sets
                                     ELSE SpendInputs(f[d \ {Max(d)}], bx[Max(d)])]
             iter == CHOOSE f : f = Body(f)
             F == [i \in 1 .. n |-> [v \in CoinSets |-> SpendInputs(v, bx[i])]]
  <1>1. n \in Nat /\ DOMAIN bx = 1 .. n /\ \A i \in 1 .. n : bx[i] \in OwnTx
    OBVIOUS
  <1>8. OnAgreeBlk(sets, bx) = iter[1 .. n]
    BY <1>1 DEF FoldLeft, MapThenFoldSet, OnAgreeBlk
  <1>2. \A i \in 1 .. n, v \in CoinSets : SpendInputs(v, bx[i]) = Without(v, ToSet(bx[i].inputs))
    BY <1>1, SpendOwn
  <1>3. F \in [1 .. n -> [CoinSets -> CoinSets]]
        /\ \A i \in 1 .. n, v \in CoinSets : F[i][v] = SpendInputs(v, bx[i])
    <2>1. \A i \in 1 .. n, v \in CoinSets : SpendInputs(v, bx[i]) \in CoinSets
      BY <1>2, WithoutType
    <2> HIDE DEF n
    <2> QED  BY <2>1
  <1>4. \A d \in SUBSET (1 .. n) : d # {} => Max(d) \in 1 .. n /\ d \ {Max(d)} \in SUBSET (1 .. n)
    BY <1>1, MaxIsIn
  <1> HIDE DEF n, F
  <1>5. PICK g \in [SUBSET (1 .. n) -> CoinSets] : LeftSolves(g, n, sets, F)
    BY <1>1, <1>3, LeftFold
  <1>6. g = Body(g)
    BY <1>3, <1>4, <1>5 DEF LeftSolves
  <1>7. iter = Body(iter)
    <2> HIDE DEF Body
    <2> QED  BY <1>6
  <1> HIDE DEF iter
  <1>9. LeftIterates(iter, n, CoinSets, sets, F)
    BY <1>3, <1>4, <1>7 DEF LeftIterates
  <1>10. PICK acc \in [0 .. n -> CoinSets] : LeftSteps(acc, n, sets, F, iter[1 .. n])
    BY <1>1, <1>3, <1>9, LeftFoldSteps
  <1>11. \A k \in 1 .. n : acc[k] = Without(acc[k - 1], ToSet(bx[k].inputs))
    <2> TAKE k \in 1 .. n
    <2>1. acc[k - 1] \in CoinSets
      BY <1>1
    <2> QED  BY <1>2, <1>3, <1>10, <2>1 DEF LeftSteps
  <1>12. acc[0] = sets /\ iter[1 .. n] = acc[n]
    BY <1>10 DEF LeftSteps
  <1> DEFINE Upto(k) == UNION {ToSet(bx[i].inputs) : i \in 1 .. k}
             T == {k \in Nat : k \in 0 .. n => acc[k] = Without(sets, Upto(k))}
  <1>13. 0 \in T
    <2>1. Upto(0) = {}
      OBVIOUS
    <2>2. \A w \in Wallet : Without(sets, {})[w] = sets[w]
      BY DEF Without
    <2>3. sets \in [Wallet -> Seq(UTXO)]
      BY DEF CoinSets
    <2>4. Without(sets, {}) = sets
      BY <2>2, <2>3 DEF Without
    <2> HIDE DEF Upto
    <2> QED  BY <1>12, <2>1, <2>4
  <1>14. ASSUME NEW k \in Nat, k \in T PROVE k + 1 \in T
    <2>1. ASSUME k + 1 \in 0 .. n
          PROVE  acc[k + 1] = Without(sets, Upto(k + 1))
      <3>1. k \in 0 .. n /\ k + 1 \in 1 .. n /\ k + 1 - 1 = k
        BY <1>1, <2>1
      <3>2. acc[k + 1] = Without(acc[k], ToSet(bx[k + 1].inputs))
        BY <1>11, <3>1
      <3>3. acc[k] = Without(sets, Upto(k))
        BY <1>14, <3>1
      <3>4. 1 .. k + 1 = (1 .. k) \cup {k + 1}
        OBVIOUS
      <3>5. Upto(k + 1) = Upto(k) \cup ToSet(bx[k + 1].inputs)
        BY <3>4
      <3> HIDE DEF Upto
      <3> QED  BY <3>2, <3>3, <3>5, WithoutTwice
    <2> QED  BY <2>1
  <1>15. \A k \in Nat : k \in T
    <2> HIDE DEF T
    <2> QED  BY <1>13, <1>14, Induction
  <1>16. n \in T
    BY <1>1, <1>15
  <1>17. acc[n] = Without(sets, Upto(n))
    <2> HIDE DEF Upto
    <2> QED  BY <1>1, <1>16
  <1>18. Upto(n) = InputsOf(bx)
    BY <1>1 DEF InputsOf
  <1> HIDE DEF Upto
  <1> QED  BY <1>8, <1>12, <1>17, <1>18

-----------------------------------------------------------------------------
(* OnTxReply and CreateBlk.                                                *)

\* The keys that come with the transactions are keys.
LEMMA StoredKeys ==
    ASSUME NEW pk0 \in [Wallet -> Nat], NEW list \in Seq(Tx)
    PROVE  FoldLeft(LAMBDA pk, tx : [pk EXCEPT ![tx.senderID] = tx.publicKey],
                    pk0, list) \in [Wallet -> Nat]
  <1> DEFINE n == Len(list)
             S == [Wallet -> Nat]
             Op(v, i) == [v EXCEPT ![list[i].senderID] = list[i].publicKey]
             Body(f) == [d \in SUBSET (1 .. n) |->
                           IF d = {} THEN pk0 ELSE Op(f[d \ {Max(d)}], Max(d))]
             iter == CHOOSE f : f = Body(f)
             F == [i \in 1 .. n |-> [v \in S |-> Op(v, i)]]
  <1>1. n \in Nat /\ DOMAIN list = 1 .. n /\ \A i \in 1 .. n : list[i] \in Tx
    OBVIOUS
  <1>2. \A i \in 1 .. n, v \in S : Op(v, i) \in S
    BY <1>1 DEF Tx
  <1>8. FoldLeft(LAMBDA pk, tx : [pk EXCEPT ![tx.senderID] = tx.publicKey],
                 pk0, list) = iter[1 .. n]
    BY <1>1 DEF FoldLeft, MapThenFoldSet
  <1>3. F \in [1 .. n -> [S -> S]] /\ \A i \in 1 .. n, v \in S : F[i][v] = Op(v, i)
    <2> HIDE DEF Op, S, n
    <2> QED  BY <1>2
  <1>0. pk0 \in S
    OBVIOUS
  <1>4. \A d \in SUBSET (1 .. n) : d # {} => Max(d) \in 1 .. n /\ d \ {Max(d)} \in SUBSET (1 .. n)
    BY <1>1, MaxIsIn
  <1> HIDE DEF n, F, Op, S
  <1>5. PICK g \in [SUBSET (1 .. n) -> S] : LeftSolves(g, n, pk0, F)
    BY <1>0, <1>1, <1>3, LeftFold
  <1>6. g = Body(g)
    BY <1>3, <1>4, <1>5 DEF LeftSolves
  <1>7. iter = Body(iter)
    <2> HIDE DEF Body
    <2> QED  BY <1>6
  <1> HIDE DEF iter
  <1>9. LeftIterates(iter, n, S, pk0, F)
    BY <1>3, <1>4, <1>7 DEF LeftIterates
  <1>10. PICK acc \in [0 .. n -> S] : LeftSteps(acc, n, pk0, F, iter[1 .. n])
    BY <1>0, <1>1, <1>3, <1>9, LeftFoldSteps
  <1>11. iter[1 .. n] = acc[n] /\ n \in 0 .. n
    BY <1>1, <1>10 DEF LeftSteps
  <1>12. iter[1 .. n] \in S
    BY <1>11
  <1> QED  BY <1>8, <1>12 DEF S

\* No two transactions of a block name the same input.
Apart(bx) ==
    \A i, j \in DOMAIN bx :
        i # j => ToSet(bx[i].inputs) \cap ToSet(bx[j].inputs) = {}

\* What CreateBlk has put into the block when it has seen the pool from place
\* k on.
Assembles(acc, pool) ==
    /\ acc[Len(pool) + 1] = <<>>
    /\ \A k \in 1 .. Len(pool) :
          acc[k] = IF /\ CheckSpendingConditions(pool[k], utxoSets[pool[k].senderID], Wallet)
                      /\ VerifyTxConsist(acc[k + 1], pool[k])
                   THEN Append(acc[k + 1], pool[k]) ELSE acc[k + 1]
    /\ CreateBlk(pool) = acc[1]

\* Blocks of transactions that could be spent when CreateBlk looked at them.
Assembled ==
    {bx \in Seq({tx \in Tx : CheckSpendingConditions(tx, utxoSets[tx.senderID], Wallet)}) :
       Apart(bx)}

\* CreateBlk walks over the pool from its last element on.
LEMMA CreateBlkSteps ==
    ASSUME NEW pool \in Seq(Tx)
    PROVE  \E acc \in [1 .. Len(pool) + 1 -> Assembled] : Assembles(acc, pool)
  <1> DEFINE n == Len(pool)
             Ok(tx) == CheckSpendingConditions(tx, utxoSets[tx.senderID], Wallet)
             V == {tx \in Tx : Ok(tx)}
             Op(v, i) == IF Ok(pool[i]) /\ VerifyTxConsist(v, pool[i])
                         THEN Append(v, pool[i]) ELSE v
             Body(f) == [d \in SUBSET (1 .. n) |->
                           IF d = {} THEN <<>> ELSE Op(f[d \ {Min(d)}], Min(d))]
             iter == CHOOSE f : f = Body(f)
             F == [i \in 1 .. n |-> [v \in Assembled |-> Op(v, i)]]
  <1>1. n \in Nat /\ DOMAIN pool = 1 .. n /\ \A i \in 1 .. n : pool[i] \in Tx
    OBVIOUS
  <1>8. CreateBlk(pool) = iter[1 .. n]
    BY <1>1 DEF FoldRight, MapThenFoldSet, CreateBlk
  <1>a. Assembled = {bx \in Seq(V) : Apart(bx)}
    BY DEF Assembled
  <1>0. <<>> \in Assembled
    BY DEF Assembled, Apart
  <1> HIDE DEF n, Ok
  <1>2. ASSUME NEW i \in 1 .. n, NEW v \in Assembled PROVE Op(v, i) \in Assembled
    <2>1. CASE Ok(pool[i]) /\ VerifyTxConsist(v, pool[i])
      <3> DEFINE b == Append(v, pool[i])
                 m == Len(v)
      <3>1. pool[i] \in V
        BY <1>1, <2>1
      <3>2. v \in Seq(V) /\ Apart(v)
        BY <1>a
      <3> HIDE DEF V
      <3>3. /\ b \in Seq(V) /\ m \in Nat /\ DOMAIN v = 1 .. m /\ DOMAIN b = 1 .. m + 1
            /\ \A j \in 1 .. m : b[j] = v[j]
            /\ b[m + 1] = pool[i]
        BY <3>1, <3>2
      <3>4. \A j \in 1 .. m : ToSet(v[j].inputs) \cap ToSet(pool[i].inputs) = {}
        BY <2>1, <3>3 DEF VerifyTxConsist
      <3> HIDE DEF b, m
      <3>5. ASSUME NEW j \in 1 .. m + 1, NEW k \in 1 .. m + 1, j # k
            PROVE  ToSet(b[j].inputs) \cap ToSet(b[k].inputs) = {}
        <4>0. /\ j \in 1 .. m \/ j = m + 1
              /\ k \in 1 .. m \/ k = m + 1
          BY <3>3
        <4>1. CASE j \in 1 .. m /\ k \in 1 .. m
          BY <3>2, <3>3, <3>5, <4>1 DEF Apart
        <4>2. CASE j = m + 1 /\ k \in 1 .. m
          BY <3>3, <3>4, <4>2
        <4>3. CASE k = m + 1 /\ j \in 1 .. m
          BY <3>3, <3>4, <4>3
        <4> QED  BY <3>5, <4>0, <4>1, <4>2, <4>3
      <3>6. b \in Assembled
        BY <1>a, <3>3, <3>5 DEF Apart
      <3> QED  BY <2>1, <3>6 DEF b
    <2>2. CASE ~(Ok(pool[i]) /\ VerifyTxConsist(v, pool[i]))
      BY <2>2
    <2> QED  BY <2>1, <2>2
  <1> HIDE DEF V, Op
  <1>3. F \in [1 .. n -> [Assembled -> Assembled]]
        /\ \A i \in 1 .. n, v \in Assembled : F[i][v] = Op(v, i)
    BY <1>2
  <1>4. \A d \in SUBSET (1 .. n) : d # {} => Min(d) \in 1 .. n /\ d \ {Min(d)} \in SUBSET (1 .. n)
    <2> TAKE d \in SUBSET (1 .. n)
    <2> HAVE d # {}
    <2>1. d \subseteq Nat
      OBVIOUS
    <2>2. Min(d) \in d
      BY <2>1, MinIsIn
    <2> QED  BY <2>2
  <1> HIDE DEF F
  <1>5. PICK g \in [SUBSET (1 .. n) -> Assembled] : RightSolves(g, n, <<>>, F)
    BY <1>0, <1>1, <1>3, RightFold
  <1>6. g = Body(g)
    BY <1>3, <1>4, <1>5 DEF RightSolves
  <1>7. iter = Body(iter)
    <2> HIDE DEF Body
    <2> QED  BY <1>6
  <1> HIDE DEF iter
  <1>9. RightIterates(iter, n, Assembled, <<>>, F)
    BY <1>3, <1>4, <1>7 DEF RightIterates
  <1>10. PICK acc \in [1 .. n + 1 -> Assembled] : RightSteps(acc, n, <<>>, F, iter[1 .. n])
    BY <1>0, <1>1, <1>3, <1>9, RightFoldSteps
  <1>11. \A k \in 1 .. n : acc[k] = Op(acc[k + 1], k)
    <2> TAKE k \in 1 .. n
    <2>1. acc[k + 1] \in Assembled
      BY <1>1
    <2> QED  BY <1>3, <1>10, <2>1 DEF RightSteps
  <1>12. acc[n + 1] = <<>> /\ CreateBlk(pool) = acc[1]
    BY <1>8, <1>10 DEF RightSteps
  <1>13. Assembles(acc, pool)
    BY <1>11, <1>12 DEF Assembles, Op, Ok, n
  <1> QED  BY <1>13 DEF n

\* The block holds transactions of the pool that can be spent and that name
\* no input twice between them; a transaction that is left out cannot be
\* spent, or the block spends what it spends.
LEMMA CreateBlkGives ==
    ASSUME NEW pool \in Seq(Tx)
    PROVE  /\ CreateBlk(pool) \in Assembled
           /\ \A tx \in ToSet(pool) :
                 \/ tx \in ToSet(CreateBlk(pool))
                 \/ ~CheckSpendingConditions(tx, utxoSets[tx.senderID], Wallet)
                 \/ ToSet(tx.inputs) \cap InputsOf(CreateBlk(pool)) # {}
  <1> DEFINE n == Len(pool)
             Ok(tx) == CheckSpendingConditions(tx, utxoSets[tx.senderID], Wallet)
             In(tx, bx) == tx \in ToSet(bx) \/ ~Ok(tx) \/ ToSet(tx.inputs) \cap InputsOf(bx) # {}
  <1>0. PICK acc \in [1 .. Len(pool) + 1 -> Assembled] : Assembles(acc, pool)
    BY CreateBlkSteps
  <1>1. n \in Nat /\ DOMAIN pool = 1 .. n /\ \A i \in 1 .. n : pool[i] \in Tx
    OBVIOUS
  <1>2. /\ acc \in [1 .. n + 1 -> Assembled]
        /\ \A k \in 1 .. n :
              acc[k] = IF Ok(pool[k]) /\ VerifyTxConsist(acc[k + 1], pool[k])
                       THEN Append(acc[k + 1], pool[k]) ELSE acc[k + 1]
        /\ CreateBlk(pool) = acc[1]
    BY <1>0 DEF Assembles
  <1> HIDE DEF n, Ok
  <1>3. ASSUME NEW k \in 1 .. n
        PROVE  /\ In(pool[k], acc[k])
               /\ \A tx : In(tx, acc[k + 1]) => In(tx, acc[k])
    <2>1. acc[k + 1] \in Assembled
      BY <1>1, <1>2
    <2>2. acc[k + 1] \in Seq(Tx)
      BY <2>1 DEF Assembled
    <2>3. acc[k] = IF Ok(pool[k]) /\ VerifyTxConsist(acc[k + 1], pool[k])
                   THEN Append(acc[k + 1], pool[k]) ELSE acc[k + 1]
      BY <1>2
    <2>4. CASE Ok(pool[k]) /\ VerifyTxConsist(acc[k + 1], pool[k])
      <3>1. acc[k] = Append(acc[k + 1], pool[k]) /\ pool[k] \in Tx
        BY <1>1, <2>3, <2>4
      <3>2. ToSet(acc[k]) = ToSet(acc[k + 1]) \cup {pool[k]}
        BY <2>2, <3>1, ToSetAppend
      <3>3. InputsOf(acc[k + 1]) \subseteq InputsOf(acc[k])
        <4>1. \A i \in DOMAIN acc[k + 1] : i \in DOMAIN acc[k] /\ acc[k][i] = acc[k + 1][i]
          BY <2>2, <3>1
        <4> QED  BY <4>1 DEF InputsOf
      <3> QED  BY <3>2, <3>3
    <2>5. CASE ~Ok(pool[k])
      BY <2>3, <2>5
    <2>6. CASE Ok(pool[k]) /\ ~VerifyTxConsist(acc[k + 1], pool[k])
      <3>1. acc[k] = acc[k + 1]
        BY <2>3, <2>6
      <3>2. PICK i \in DOMAIN acc[k + 1] :
               ToSet(acc[k + 1][i].inputs) \cap ToSet(pool[k].inputs) # {}
        BY <2>6 DEF VerifyTxConsist
      <3>3. ToSet(pool[k].inputs) \cap InputsOf(acc[k + 1]) # {}
        BY <3>2 DEF InputsOf
      <3> QED  BY <3>1, <3>3
    <2> QED  BY <2>4, <2>5, <2>6
  <1> DEFINE T == {k \in Nat : k \in 0 .. n => \A i \in n + 1 - k .. n : In(pool[i], acc[n + 1 - k])}
  <1> HIDE DEF In
  <1>4. 0 \in T
    BY <1>1
  <1>5. ASSUME NEW k \in Nat, k \in T PROVE k + 1 \in T
    <2>1. ASSUME k + 1 \in 0 .. n, NEW i \in n + 1 - (k + 1) .. n
          PROVE  In(pool[i], acc[n + 1 - (k + 1)])
      <3> DEFINE j == n - k
      <3>1. /\ k \in 0 .. n /\ j \in 1 .. n /\ n + 1 - k = j + 1
            /\ n + 1 - (k + 1) = j
        BY <1>1, <2>1
      <3>2. i = j \/ i \in n + 1 - k .. n
        BY <1>1, <2>1
      <3> HIDE DEF j
      <3>3. i \in n + 1 - k .. n => In(pool[i], acc[j + 1])
        BY <1>5, <3>1
      <3> QED  BY <1>3, <3>1, <3>2, <3>3
    <2> QED  BY <2>1
  <1>6. \A k \in Nat : k \in T
    <2> HIDE DEF T
    <2> QED  BY <1>4, <1>5, Induction
  <1>7. \A i \in 1 .. n : In(pool[i], acc[1])
    <2>1. n \in T /\ n \in 0 .. n /\ n + 1 - n = 1
      BY <1>1, <1>6
    <2> QED  BY <2>1
  <1>8. \A tx \in ToSet(pool) : In(tx, acc[1])
    BY <1>1, <1>7 DEF ToSet
  <1>9. acc[1] \in Assembled
    BY <1>1, <1>2
  <1> QED  BY <1>2, <1>8, <1>9 DEF In, Ok

-----------------------------------------------------------------------------
(* The invariant of the ledger.                                            *)

AllCoins == [w \in Wallet |-> CoinsOf(w)]

\* The inputs of the blocks that OnAgreeBlk was called with.
Spent == UNION {InputsOf(applied[i]) : i \in DOMAIN applied}

\* The lists have all coins but the spent ones.
ListsOK == utxoSets = Without(AllCoins, Spent)

\* The transactions that pass the check against the first coin of the sender.
ValidTx == {tx \in Tx : Passes(tx, Spendable(CoinsOf(tx.senderID)))}

\* Proposed blocks are made of such transactions, and no two of them spend
\* the same.
ProposedOK == \A bx \in proposals : bx \in Seq(ValidTx) /\ Apart(bx)

\* The delivered block was proposed and passed Block::verify.
VotedOK == IF npc = "run" THEN voted = <<>>
           ELSE voted \in proposals /\ Verify(voted, InitialCoins, Wallet)

\* The wallets sign with the key that they send along.
QueueOK == \A tx \in ToSet(txq) \cup taken : SignatureValid(tx)

\* What no task has looked at is in tx_list, and a task is about to.
TakenOK == taken \subseteq ToSet(txList) /\ (epc # "reply" => taken = {})

\* The types of what is sent, queued, listed and stored.
DataOK ==
    /\ nextTxId \in FirstTxId .. FirstTxId + MaxTx
    /\ walletKey \in [Wallet -> Nat]
    /\ localUtxo \in [Wallet -> Seq(UTXO)]
    /\ utxolists \in [Wallet -> Seq(UTXO)]
    /\ utxoSets \in [Wallet -> Seq(UTXO)]
    /\ pkSets \in [Wallet -> Nat]
    /\ txq \in Seq(Tx) /\ txList \in Seq(Tx) /\ memoryPool \in Seq(Tx)
    /\ voted \in Seq(Tx)
    /\ blist \in Seq(Seq(Tx)) /\ walk \in Seq(Seq(Tx)) /\ accepted \in Seq(Seq(Tx))
    /\ applied \in Seq(Seq(Tx)) /\ overwritten \in Seq(Seq(Tx))
    /\ proposals \subseteq Seq(Tx)
    /\ received \subseteq Tx /\ taken \subseteq Tx /\ vanished \subseteq Tx

CoinsOK == DataOK /\ ListsOK /\ ProposedOK /\ VotedOK /\ QueueOK /\ TxAccounted

\* Each part is inductive only together with the others: the check that a
\* transaction passes is made against lists that shrink, and what a block
\* takes from them is known from how the block was made.
LedgerInv == EventsOK /\ Placed /\ TakenOK /\ CoinsOK

\* The lists of the leader are as OnAgreeBlk expects them.
LEMMA ListsType ==
    /\ AllCoins \in CoinSets
    /\ ListsOK => utxoSets \in CoinSets
  <1>1. AllCoins \in CoinSets
    <2>1. \A w \in Wallet : CoinsOf(w) \in Seq(UTXO)
      BY CoinLists DEF CoinList
    <2> QED  BY <2>1 DEF AllCoins, CoinSets
  <1> QED  BY <1>1, WithoutType DEF ListsOK

\* More coins to spend never make a transaction invalid.
LEMMA PassesMore ==
    ASSUME NEW tx, NEW a, NEW b, a \subseteq b, Passes(tx, a)
    PROVE  Passes(tx, b)
  BY DEF Passes

\* What passes the check of the leader spends the coin of its sender.
LEMMA AcceptedIsValid ==
    ASSUME ListsOK, NEW tx \in Tx,
           CheckSpendingConditions(tx, utxoSets[tx.senderID], Wallet)
    PROVE  tx \in ValidTx
  <1> DEFINE w == tx.senderID
  <1>1. w \in Wallet /\ tx.inputs \in Seq(Input)
    BY DEF Tx
  <1>2. utxoSets[w] \in {<<>>, CoinsOf(w)}
    BY <1>1, ListsType DEF CoinSets
  <1>3. utxoSets[w] \in CoinList
    BY <1>1, <1>2, CoinLists
  <1>4. Passes(tx, Spendable(utxoSets[w]))
    BY <1>1, <1>3, CheckMeans
  <1>5. Spendable(utxoSets[w]) \subseteq Spendable(CoinsOf(w))
    BY <1>2, CoinLists
  <1>6. Passes(tx, Spendable(CoinsOf(w)))
    BY <1>4, <1>5, PassesMore
  <1> QED  BY <1>6 DEF ValidTx

\* The coin that a valid transaction spends.
LEMMA ValidIsOwn == ValidTx \subseteq OwnTx
  <1> SUFFICES ASSUME NEW tx \in ValidTx PROVE tx \in OwnTx
    OBVIOUS
  <1>1. tx \in Tx /\ Passes(tx, Spendable(CoinsOf(tx.senderID)))
    BY DEF ValidTx
  <1>2. tx.inputs = <<>> => ToSet(tx.inputs) = {}
    BY DEF ToSet
  <1>3. ToSet(tx.inputs) \subseteq Spendable(CoinsOf(tx.senderID))
    BY <1>1, <1>2 DEF Passes
  <1> QED  BY <1>1, <1>3 DEF OwnTx

\* What the leader rejects was invalid from the beginning, or its coin has
\* been spent.
LEMMA RejectedIsSpent ==
    ASSUME ListsOK, NEW tx \in Tx,
           ~CheckSpendingConditions(tx, utxoSets[tx.senderID], Wallet)
    PROVE  \/ ~CheckSpendingConditions(tx, CoinsOf(tx.senderID), Wallet)
           \/ ToSet(tx.inputs) \cap Spent # {}
  <1> DEFINE w == tx.senderID
             own == Spendable(CoinsOf(w))
  <1> SUFFICES ASSUME CheckSpendingConditions(tx, CoinsOf(w), Wallet)
               PROVE  ToSet(tx.inputs) \cap Spent # {}
    OBVIOUS
  <1>1. w \in Wallet /\ tx.inputs \in Seq(Input)
    BY DEF Tx
  <1>2. utxoSets[w] = IF own \cap Spent # {} THEN <<>> ELSE CoinsOf(w)
    BY <1>1 DEF ListsOK, Without, AllCoins
  <1>3. utxoSets[w] = <<>> /\ own \cap Spent # {}
    BY <1>2
  <1>4. Passes(tx, own)
    BY <1>1, CoinLists, CheckMeans
  <1>5. ~Passes(tx, {})
    BY <1>1, <1>3, CoinLists, CheckMeans
  <1>6. tx.inputs # <<>> /\ ToSet(tx.inputs) \subseteq own
    BY <1>4, <1>5 DEF Passes
  <1>7. ToSet(tx.inputs) # {}
    BY <1>1, <1>6, InToSet
  <1>8. PICK j \in 1 .. Len(WalletIds) : CoinsOf(w) = <<Coin(j)>>
    BY <1>1, OneCoin
  <1>9. own = {InputOf(Coin(j))}
    <2>1. DOMAIN <<Coin(j)>> = {1} /\ <<Coin(j)>>[1] = Coin(j)
      OBVIOUS
    <2> QED  BY <1>8, <2>1 DEF Spendable
  <1> QED  BY <1>3, <1>6, <1>7, <1>9

\* What is spent a proposed block spends.
LEMMA SpentIsProposed ==
    ASSUME Placed, VotedOK, Spent # {}
    PROVE  \E bx \in proposals : Spent = InputsOf(bx)
  <1>1. ASSUME NEW bx, applied = <<bx>> PROVE Spent = InputsOf(bx)
    <2>1. DOMAIN <<bx>> = {1} /\ <<bx>>[1] = bx
      OBVIOUS
    <2> QED  BY <1>1, <2>1 DEF Spent
  <1>2. applied # <<>>
    <2>1. DOMAIN <<>> = {}
      OBVIOUS
    <2> QED  BY <2>1 DEF Spent
  <1>3. npc = "idle"
    BY <1>2 DEF Placed, NoBlock, Held
  <1>4. PICK bw, bx \in {voted, <<>>} :
             \/ InAccepted(bw) \/ InBlist(bw) \/ Dropped(bw)
             \/ Walked(bw, bx) \/ Applied(bw, bx)
    BY <1>3 DEF Placed
  <1>5. applied = <<bx>>
    BY <1>2, <1>4 DEF InAccepted, InBlist, Dropped, Walked, Applied, Held
  <1>6. Spent = InputsOf(bx)
    BY <1>1, <1>5
  <1>7. bx # <<>>
    <2>1. InputsOf(<<>>) = {}
      BY DEF InputsOf
    <2> QED  BY <1>6, <2>1
  <1> QED  BY <1>3, <1>4, <1>6, <1>7 DEF VotedOK

-----------------------------------------------------------------------------
(* The steps: what is not about the coins.                                 *)

\* An event is published.
LEMMA PublishType ==
    ASSUME EventsOK, NEW e \in Event, PublishEvent(e),
           lpc' \in {"wait", "found", "open"}, ran' = ran
    PROVE  EventsOK'
  <1>1. published' \in [Event -> Nat]
    BY DEF EventsOK, PublishEvent
  <1>2. events' \in [Event -> 0 .. MaxEvents]
    <2>1. MaxEvents \in Nat
      BY ValidatorAssumption
    <2>2. events[e] + 1 \in 0 .. MaxEvents
      BY <2>1 DEF EventsOK, PublishEvent
    <2> QED  BY <2>2 DEF EventsOK, PublishEvent
  <1> QED  BY <1>1, <1>2 DEF EventsOK, PublishEvent

\* An event is taken: there was one.
LEMMA TakeType ==
    ASSUME EventsOK, NEW e \in Event, TakeEvent(e), lpc' = lpc, ran' = ran
    PROVE  EventsOK'
  <1>1. published[e] - 1 \in Nat
    BY DEF EventsOK, TakeEvent
  <1>2. published' \in [Event -> Nat]
    BY <1>1 DEF EventsOK, TakeEvent
  <1> QED  BY <1>2 DEF EventsOK, TakeEvent

\* No step takes an event that was not published.
LEMMA NextEvents == EventsOK /\ [Next]_vars => EventsOK'
  <1> SUFFICES ASSUME EventsOK, [Next]_vars PROVE EventsOK'
    OBVIOUS
  <1> USE DEF listenVars, taskVars
  <1>0. {"TX", "PROPOSE", "DBSTORE"} \subseteq Event /\ lpc \in {"wait", "found", "open"}
    BY DEF Event, EventsOK
  <1>s. UNCHANGED eventVars /\ lpc' \in {"wait", "found", "open"} /\ ran' \in Nat => EventsOK'
    BY DEF eventVars, EventsOK
  <1>r. ran \in Nat
    BY DEF EventsOK
  <1>1. ASSUME NEW f \in Files, SendTx(f) PROVE EventsOK'
    BY <1>0, <1>1, <1>r, <1>s DEF SendTx
  <1>2. ASSUME NEW e \in Event, SubscriberEvent(e) PROVE EventsOK'
    <2>1. subscribed' \in [Event -> Nat] /\ registering' \subseteq Event
      BY <1>2 DEF SubscriberEvent, EventsOK
    <2> QED  BY <1>2, <2>1 DEF SubscriberEvent, EventsOK
  <1>3. CASE ListenWakes
    BY <1>3, <1>r, <1>s DEF ListenWakes
  <1>4. CASE Listen
    BY <1>0, <1>4, PublishType DEF Listen
  <1>5. CASE ListenEnds
    BY <1>5, <1>r, <1>s DEF ListenEnds
  <1>6. CASE ProposeProcess
    BY <1>0, <1>6, PublishType DEF ProposeProcess
  <1>7. CASE DBProcess
    <2>1. lpc' = lpc /\ ran' = ran
      BY <1>7 DEF DBProcess
    <2> QED  BY <1>0, <1>7, <1>r, <1>s, <2>1, PublishType DEF DBProcess
  <1>8. ASSUME NEW e \in Event, TakeUnheard(e) PROVE EventsOK'
    BY <1>8, TakeType DEF TakeUnheard
  <1>9. CASE TakeTx
    BY <1>0, <1>9, TakeType DEF TakeTx
  <1>10. CASE GetTransactions
    <2>1. ran' \in Nat /\ lpc' = lpc /\ UNCHANGED eventVars
      BY <1>10, <1>r DEF GetTransactions
    <2> QED  BY <1>0, <1>s, <2>1
  <1>11. CASE OnTxReply
    BY <1>0, <1>11, <1>r, <1>s DEF OnTxReply
  <1>12. CASE EndTx
    BY <1>0, <1>12, <1>s DEF EndTx
  <1>13. CASE Propose
    BY <1>0, <1>13, TakeType DEF Propose
  <1>14. CASE StoreBlocks
    BY <1>0, <1>14, TakeType DEF StoreBlocks
  <1>15. CASE AgreeBlock
    BY <1>0, <1>15, <1>r, <1>s DEF AgreeBlock
  <1>16. CASE OnSyncReply
    BY <1>0, <1>16, <1>r, <1>s DEF OnSyncReply
  <1>17. CASE ClearBlocks
    BY <1>0, <1>17, <1>r, <1>s DEF ClearBlocks
  <1>18. CASE Deliver
    BY <1>0, <1>18, <1>r, <1>s DEF Deliver
  <1>19. CASE Accept
    BY <1>0, <1>19, <1>r, <1>s DEF Accept
  <1>20. CASE UNCHANGED vars
    BY <1>0, <1>20, <1>r, <1>s DEF vars
  <1> QED
    BY <1>1, <1>2, <1>3, <1>4, <1>5, <1>6, <1>7, <1>8, <1>9, <1>10, <1>11,
       <1>12, <1>13, <1>14, <1>15, <1>16, <1>17, <1>18, <1>19, <1>20
       DEF Next, EventProcess

\* What the steps do to tx_list and to what was taken into it.
LEMMA NextTaken == TakenOK /\ DataOK /\ [Next]_vars => TakenOK'
  <1> SUFFICES ASSUME TakenOK, DataOK, [Next]_vars PROVE TakenOK'
    OBVIOUS
  <1> USE DEF listenVars, taskVars, txHist
  <1>d. txList \in Seq(Tx) /\ txq \in Seq(Tx)
    BY DEF DataOK
  <1>s. ASSUME taken' = taken, txList' = txList, epc' = epc \/ (epc # "reply")
        PROVE  TakenOK'
    BY <1>s DEF TakenOK
  <1>t. ASSUME NEW e \in Event, TakeEvent(e) PROVE epc = "idle"
    BY <1>t DEF TakeEvent
  <1>0. "TX" \in Event /\ "PROPOSE" \in Event /\ "DBSTORE" \in Event
    BY DEF Event
  <1>1. ASSUME NEW f \in Files, SendTx(f) PROVE TakenOK'
    BY <1>1, <1>s DEF SendTx
  <1>2. ASSUME NEW e \in Event, SubscriberEvent(e) PROVE TakenOK'
    BY <1>2, <1>s DEF SubscriberEvent
  <1>3. CASE ListenWakes
    BY <1>3, <1>s DEF ListenWakes
  <1>4. CASE Listen
    BY <1>4 DEF Listen, TakenOK
  <1>5. CASE ListenEnds
    <2>1. PICK S \in SUBSET ToSet(txList) :
                 txList' = Keep(txList, S) /\ taken' = taken \cap S
      BY <1>5 DEF ListenEnds
    <2>2. ToSet(Keep(txList, S)) = ToSet(txList) \cap S
      BY <1>d, KeepIsIn
    <2>3. epc' = epc
      BY <1>5 DEF ListenEnds
    <2> QED  BY <2>1, <2>2, <2>3 DEF TakenOK
  <1>6. CASE ProposeProcess
    BY <1>6, <1>s DEF ProposeProcess
  <1>7. CASE DBProcess
    BY <1>7, <1>s DEF DBProcess
  <1>8. ASSUME NEW e \in Event, TakeUnheard(e) PROVE TakenOK'
    BY <1>8, <1>s DEF TakeUnheard
  <1>9. CASE TakeTx
    BY <1>0, <1>9, <1>s, <1>t DEF TakeTx
  <1>10. CASE GetTransactions
    <2>1. txList' = txList \o txq /\ taken' = ToSet(txq)
          /\ epc' = IF txq = <<>> THEN "tx" ELSE "reply"
      BY <1>10 DEF GetTransactions
    <2>2. ToSet(txList \o txq) = ToSet(txList) \cup ToSet(txq)
      BY <1>d, ToSetConcat
    <2>3. txq = <<>> => ToSet(txq) = {}
      BY DEF ToSet
    <2> QED  BY <2>1, <2>2, <2>3 DEF TakenOK
  <1>11. CASE OnTxReply
    BY <1>11 DEF OnTxReply, TakenOK
  <1>12. CASE EndTx
    BY <1>12, <1>s DEF EndTx
  <1>13. CASE Propose
    BY <1>13, <1>s DEF Propose
  <1>14. CASE StoreBlocks
    BY <1>0, <1>14, <1>s, <1>t DEF StoreBlocks
  <1>15. CASE AgreeBlock
    BY <1>15, <1>s DEF AgreeBlock
  <1>16. CASE OnSyncReply
    BY <1>16, <1>s DEF OnSyncReply
  <1>17. CASE ClearBlocks
    BY <1>17, <1>s DEF ClearBlocks
  <1>18. CASE Deliver
    BY <1>18, <1>s DEF Deliver
  <1>19. CASE Accept
    BY <1>19, <1>s DEF Accept
  <1>20. CASE UNCHANGED vars
    BY <1>20, <1>s DEF vars
  <1> QED
    BY <1>1, <1>2, <1>3, <1>4, <1>5, <1>6, <1>7, <1>8, <1>9, <1>10, <1>11,
       <1>12, <1>13, <1>14, <1>15, <1>16, <1>17, <1>18, <1>19, <1>20
       DEF Next, EventProcess

-----------------------------------------------------------------------------
(* The steps: the coins.                                                   *)

\* What the invariant is about, but for the types.
accountVars == <<txq, memoryPool, utxoSets, proposals, npc, voted, received, taken,
                 vanished, applied>>

\* A step that moves no transaction and no coin.
LEMMA SameCoins ==
    ASSUME CoinsOK, DataOK', UNCHANGED accountVars
    PROVE  CoinsOK'
  <1> USE DEF accountVars
  <1>1. ListsOK' /\ ProposedOK' /\ VotedOK' /\ QueueOK'
    BY DEF CoinsOK, ListsOK, Spent, ProposedOK, VotedOK, QueueOK
  <1>2. TxAccounted'
    BY DEF CoinsOK, TxAccounted, Handled
  <1> QED  BY <1>1, <1>2 DEF CoinsOK

\* All that has a type.
dataVars == <<walletVars, serverVars, txList, walk, ledgerVars, blist, nodeVars,
              txHist, blockHist>>

\* A step of the events only.
LEMMA SameData == CoinsOK /\ UNCHANGED dataVars => CoinsOK'
  <1> SUFFICES ASSUME CoinsOK, UNCHANGED dataVars PROVE CoinsOK'
    OBVIOUS
  <1> USE DEF dataVars, walletVars, serverVars, ledgerVars, nodeVars, txHist, blockHist
  <1>1. DataOK'
    BY DEF CoinsOK, DataOK
  <1>2. UNCHANGED accountVars
    BY DEF accountVars
  <1> QED  BY <1>1, <1>2, SameCoins

\* What a wallet sends is a transaction, signed with the key it comes with.
LEMMA SendTxCoins ==
    ASSUME CoinsOK, NEW f \in Files, SendTx(f)
    PROVE  CoinsOK'
  <1> USE DEF walletVars, serverVars, listenVars, taskVars, ledgerVars, nodeVars, blockHist
  <1> DEFINE key == walletKey[f.sender] + 1
             tx == [txID |-> nextTxId, senderID |-> f.sender % UShort, inputs |-> f.inputs,
                    outputs |-> f.outputs, publicKey |-> key, senderSig |-> key]
  <1>1. f.sender \in Wallet /\ f.inputs \in Seq(Input) /\ f.outputs \in Seq(Output)
        /\ MaxTx \in Nat
    BY ValidatorAssumption
  <1>2. DataOK
    BY DEF CoinsOK
  <1>i. f.sender % UShort = f.sender
    BY <1>1, WalletFits
  <1>3. key \in Nat /\ nextTxId \in FirstTxId .. FirstTxId + MaxTx - 1
        /\ nextTxId + 1 \in FirstTxId .. FirstTxId + MaxTx
    <2>1. nextTxId \in FirstTxId .. FirstTxId + MaxTx /\ walletKey[f.sender] \in Nat
      BY <1>1, <1>2 DEF DataOK
    <2>2. nextTxId < FirstTxId + MaxTx
      BY DEF SendTx
    <2> QED  BY <1>1, <2>1, <2>2 DEF FirstTxId
  <1>4. tx \in Tx /\ SignatureValid(tx)
    <2> HIDE DEF key
    <2> QED  BY <1>1, <1>3, <1>i DEF Tx, SignatureValid
  <1>5. /\ localUtxo' = [localUtxo EXCEPT ![f.sender] = utxolists[f.sender]]
        /\ nextTxId' = nextTxId + 1
        /\ walletKey' = [walletKey EXCEPT ![f.sender] = key]
        /\ \/ txq' = Append(txq, tx) /\ received' = received \cup {tx}
           \/ txq' = txq /\ received' = received
        /\ UNCHANGED <<utxolists, txList, walk, utxoSets, pkSets, memoryPool, blist,
                       proposals, npc, voted, accepted, taken, vanished, applied,
                       overwritten>>
    BY DEF SendTx
  <1> HIDE DEF key, tx
  <1>6. txq' \in Seq(Tx) /\ received' \subseteq Tx
    <2>1. txq \in Seq(Tx) /\ received \subseteq Tx
      BY <1>2 DEF DataOK
    <2>2. Append(txq, tx) \in Seq(Tx) /\ received \cup {tx} \subseteq Tx
      BY <1>4, <2>1
    <2> QED  BY <1>5, <2>1, <2>2
  <1>7. DataOK'
    <2>1. nextTxId' \in FirstTxId .. FirstTxId + MaxTx
      BY <1>3, <1>5
    <2>2. walletKey' \in [Wallet -> Nat]
      BY <1>2, <1>3, <1>5 DEF DataOK
    <2>3. localUtxo' \in [Wallet -> Seq(UTXO)]
      BY <1>1, <1>2, <1>5 DEF DataOK
    <2> QED  BY <1>2, <1>5, <1>6, <2>1, <2>2, <2>3 DEF DataOK
  <1>8. ListsOK' /\ ProposedOK' /\ VotedOK'
    BY <1>5 DEF CoinsOK, ListsOK, Spent, ProposedOK, VotedOK
  <1>9. txq' = Append(txq, tx) => ToSet(txq') = ToSet(txq) \cup {tx}
    BY <1>2, <1>4, ToSetAppend DEF DataOK
  <1>10. QueueOK'
    <2>1. \A x \in ToSet(txq') : x \in ToSet(txq) \/ x = tx
      BY <1>5, <1>9
    <2> QED  BY <1>4, <1>5, <2>1 DEF CoinsOK, QueueOK, SignatureValid
  <1>11. TxAccounted'
    <2>1. ToSet(txq) \subseteq ToSet(txq')
      BY <1>5, <1>9
    <2>2. \A x \in received' : x \in received \/ x \in ToSet(txq')
      BY <1>5, <1>9
    <2>3. ASSUME NEW x \in received' PROVE x \in vanished' \/ Handled(x)'
      <3>1. CASE x \in ToSet(txq')
        BY <3>1 DEF Handled
      <3>2. CASE x \in received
        BY <1>5, <2>1, <3>2 DEF CoinsOK, TxAccounted, Handled
      <3> QED  BY <2>2, <3>1, <3>2
    <2> QED  BY <2>3 DEF TxAccounted
  <1> QED  BY <1>7, <1>8, <1>10, <1>11 DEF CoinsOK

\* Listen makes a new list of transactions or destroys one: what was taken
\* into it and is not there any more has vanished.
LEMMA LostCoins ==
    ASSUME CoinsOK, txList' \in Seq(Tx), taken' \subseteq taken,
           vanished' = vanished \cup (taken \ taken'),
           UNCHANGED <<walletVars, serverVars, walk, ledgerVars, blist, nodeVars,
                       received, blockHist>>
    PROVE  CoinsOK'
  <1> USE DEF walletVars, serverVars, ledgerVars, nodeVars, blockHist
  <1>1. DataOK'
    BY DEF CoinsOK, DataOK
  <1>2. ListsOK' /\ ProposedOK' /\ VotedOK' /\ QueueOK'
    BY DEF CoinsOK, ListsOK, Spent, ProposedOK, VotedOK, QueueOK
  <1>3. ASSUME NEW tx \in received' PROVE tx \in vanished' \/ Handled(tx)'
    <2>1. tx \in vanished \/ Handled(tx)
      BY DEF CoinsOK, TxAccounted
    <2>2. CASE tx \in taken
      BY <2>2 DEF Handled
    <2>3. CASE tx \notin taken
      BY <2>1, <2>3 DEF Handled
    <2> QED  BY <2>2, <2>3
  <1>4. TxAccounted'
    BY <1>3 DEF TxAccounted
  <1> QED  BY <1>1, <1>2, <1>4 DEF CoinsOK

LEMMA ListenCoins == CoinsOK /\ (Listen \/ ListenEnds) => CoinsOK'
  <1> SUFFICES ASSUME CoinsOK, Listen \/ ListenEnds PROVE CoinsOK'
    OBVIOUS
  <1> USE DEF taskVars
  <1>1. CASE Listen
    <2>1. <<>> \in Seq(Tx) /\ taken \ {} = taken
      OBVIOUS
    <2> QED  BY <1>1, <2>1, LostCoins DEF Listen
  <1>2. CASE ListenEnds
    <2>1. PICK S \in SUBSET ToSet(txList) :
                 /\ txList' = Keep(txList, S) /\ taken' = taken \cap S
                 /\ vanished' = vanished \cup (taken \ S)
      BY <1>2 DEF ListenEnds
    <2>2. txList' \in Seq(Tx)
      <3>1. txList \in Seq(Tx)
        BY DEF CoinsOK, DataOK
      <3> QED  BY <2>1, <3>1, KeepIsIn
    <2>3. taken' \subseteq taken /\ vanished' = vanished \cup (taken \ taken')
      BY <2>1
    <2> QED  BY <1>2, <2>2, <2>3, LostCoins DEF ListenEnds
  <1> QED  BY <1>1, <1>2

\* DBProcess moves blocks from one list to another.
LEMMA DBProcessCoins == CoinsOK /\ DBProcess => CoinsOK'
  <1> SUFFICES ASSUME CoinsOK, DBProcess PROVE CoinsOK'
    OBVIOUS
  <1> USE DEF walletVars, serverVars, listenVars, ledgerVars, nodeVars, txHist
  <1>1. /\ blist' = accepted /\ overwritten' = overwritten \o blist /\ accepted' = <<>>
        /\ walk' \in {walk, [i \in DOMAIN walk |-> <<>>]}
    BY DEF DBProcess
  <1>2. UNCHANGED <<nextTxId, walletKey, localUtxo, txq, utxolists, txList, utxoSets,
                    pkSets, memoryPool, proposals, npc, voted, received, taken,
                    vanished, applied>>
    BY DEF DBProcess
  <1>3. DataOK'
    <2>1. /\ blist \in Seq(Seq(Tx)) /\ accepted \in Seq(Seq(Tx))
          /\ overwritten \in Seq(Seq(Tx)) /\ walk \in Seq(Seq(Tx))
      BY DEF CoinsOK, DataOK
    <2>2. /\ blist' \in Seq(Seq(Tx)) /\ accepted' \in Seq(Seq(Tx))
          /\ overwritten' \in Seq(Seq(Tx))
      BY <1>1, <2>1
    <2>3. [i \in DOMAIN walk |-> <<>>] \in Seq(Seq(Tx))
      <3>1. DOMAIN walk = 1 .. Len(walk) /\ Len(walk) \in Nat /\ <<>> \in Seq(Tx)
        BY <2>1
      <3> QED  BY <3>1
    <2> QED  BY <1>1, <1>2, <2>1, <2>2, <2>3 DEF CoinsOK, DataOK
  <1> QED  BY <1>2, <1>3, SameCoins DEF accountVars

\* getTransactions empties the queue into the list.
LEMMA GetTransactionsCoins == TakenOK /\ CoinsOK /\ GetTransactions => CoinsOK'
  <1> SUFFICES ASSUME TakenOK, CoinsOK, GetTransactions PROVE CoinsOK'
    OBVIOUS
  <1> USE DEF walletVars, ledgerVars, nodeVars, blockHist
  <1>1. /\ UNCHANGED <<nextTxId, walletKey, localUtxo, utxolists, walk, utxoSets, pkSets,
                       memoryPool, blist, proposals, npc, voted, accepted, received,
                       vanished, applied, overwritten>>
        /\ txList' = txList \o txq /\ txq' = <<>> /\ taken' = ToSet(txq)
    BY DEF GetTransactions
  <1>2. taken = {}
    BY DEF GetTransactions, TakenOK
  <1>3. txq \in Seq(Tx) /\ txList \in Seq(Tx)
    BY DEF CoinsOK, DataOK
  <1>4. DataOK'
    <2>1. txList' \in Seq(Tx) /\ txq' \in Seq(Tx)
      BY <1>1, <1>3
    <2>2. taken' \subseteq Tx
      BY <1>1, <1>3, InToSet
    <2> QED  BY <1>1, <2>1, <2>2 DEF CoinsOK, DataOK
  <1>5. ToSet(txq') = {}
    BY <1>1 DEF ToSet
  <1>6. ListsOK' /\ ProposedOK' /\ VotedOK'
    BY <1>1 DEF CoinsOK, ListsOK, Spent, ProposedOK, VotedOK
  <1>7. QueueOK'
    BY <1>1, <1>5 DEF CoinsOK, QueueOK
  <1>8. TxAccounted'
    BY <1>1, <1>2, <1>5 DEF CoinsOK, TxAccounted, Handled
  <1> QED  BY <1>4, <1>6, <1>7, <1>8 DEF CoinsOK

\* What is left out of the pool was invalid, or a proposed block spends what
\* it spends.
LEMMA RejectedIsAccounted ==
    ASSUME Placed, CoinsOK, NEW tx \in Tx,
           ~CheckSpendingConditions(tx, utxoSets[tx.senderID], Wallet)
    PROVE  \/ ~CheckSpendingConditions(tx, CoinsOf(tx.senderID), Wallet)
           \/ \E bx \in proposals : ToSet(tx.inputs) \cap InputsOf(bx) # {}
  <1>1. ListsOK /\ VotedOK
    BY DEF CoinsOK
  <1>2. \/ ~CheckSpendingConditions(tx, CoinsOf(tx.senderID), Wallet)
        \/ ToSet(tx.inputs) \cap Spent # {}
    BY <1>1, RejectedIsSpent
  <1>3. ToSet(tx.inputs) \cap Spent # {} => \E bx \in proposals : Spent = InputsOf(bx)
    BY <1>1, SpentIsProposed
  <1> QED  BY <1>2, <1>3

\* What is valid in the list goes to the pool.
LEMMA OnTxReplyCoins == Placed /\ TakenOK /\ CoinsOK /\ OnTxReply => CoinsOK'
  <1> SUFFICES ASSUME Placed, TakenOK, CoinsOK, OnTxReply PROVE CoinsOK'
    OBVIOUS
  <1> USE DEF walletVars, serverVars, listenVars, nodeVars, blockHist
  <1> DEFINE good == {tx \in ToSet(txList) : RecvValid(tx)}
             pk1 == FoldLeft(LAMBDA pk, tx : [pk EXCEPT ![tx.senderID] = tx.publicKey],
                             pkSets, txList)
  <1>1. /\ UNCHANGED <<nextTxId, walletKey, localUtxo, txq, utxolists, txList, walk,
                       utxoSets, blist, proposals, npc, voted, accepted, received,
                       vanished, applied, overwritten>>
        /\ taken' = {}
    BY DEF OnTxReply
  <1>2. pkSets' = pk1 /\ memoryPool' = memoryPool \o Keep(txList, good)
    BY DEF OnTxReply
  <1>3. DataOK /\ txList \in Seq(Tx) /\ memoryPool \in Seq(Tx)
        /\ pkSets \in [Wallet -> Nat] /\ received \subseteq Tx
    BY DEF CoinsOK, DataOK
  <1>5. pk1 \in [Wallet -> Nat]
    BY <1>3, StoredKeys
  <1> HIDE DEF pk1, good
  <1>6. Keep(txList, good) \in Seq(Tx) /\ ToSet(Keep(txList, good)) = ToSet(txList) \cap good
    BY <1>3, KeepIsIn
  <1>7. pkSets' \in [Wallet -> Nat] /\ memoryPool' \in Seq(Tx)
    BY <1>2, <1>3, <1>5, <1>6
  <1>8. DataOK'
    BY <1>1, <1>3, <1>7 DEF DataOK
  <1>9. ListsOK' /\ ProposedOK' /\ VotedOK'
    BY <1>1 DEF CoinsOK, ListsOK, Spent, ProposedOK, VotedOK
  <1>10. QueueOK'
    BY <1>1 DEF CoinsOK, QueueOK
  <1>11. TxAccounted'
    <2>1. ToSet(memoryPool') = ToSet(memoryPool) \cup (ToSet(txList) \cap good)
      BY <1>2, <1>3, <1>6, ToSetConcat
    <2>2. ASSUME NEW tx \in received' PROVE tx \in vanished' \/ Handled(tx)'
      <3>1. tx \in received /\ tx \in Tx
        BY <1>1, <1>3
      <3>2. CASE tx \in taken
        <4>1. SignatureValid(tx) /\ tx \in ToSet(txList)
          BY <3>2 DEF CoinsOK, QueueOK, TakenOK
        <4>2. CASE RecvValid(tx)
          <5>1. tx \in ToSet(memoryPool')
            BY <2>1, <4>1, <4>2 DEF good
          <5> QED  BY <5>1 DEF Handled
        <4>3. CASE ~RecvValid(tx)
          <5>1. ~CheckSpendingConditions(tx, utxoSets[tx.senderID], Wallet)
            BY <4>1, <4>3 DEF RecvValid
          <5>2. \/ ~CheckSpendingConditions(tx, CoinsOf(tx.senderID), Wallet)
                \/ \E bx \in proposals : ToSet(tx.inputs) \cap InputsOf(bx) # {}
            BY <3>1, <5>1, RejectedIsAccounted
          <5> QED  BY <1>1, <5>2 DEF Handled
        <4> QED  BY <4>2, <4>3
      <3>3. CASE tx \notin taken
        <4>1. tx \in vanished \/ Handled(tx)
          BY <3>1 DEF CoinsOK, TxAccounted
        <4> QED  BY <1>1, <2>1, <3>3, <4>1 DEF Handled
      <3> QED  BY <3>2, <3>3
    <2> QED  BY <2>2 DEF TxAccounted
  <1> QED  BY <1>8, <1>9, <1>10, <1>11 DEF CoinsOK

\* The pool is emptied into a block.
LEMMA ProposeCoins == Placed /\ CoinsOK /\ Propose => CoinsOK'
  <1> SUFFICES ASSUME Placed, CoinsOK, Propose PROVE CoinsOK'
    OBVIOUS
  <1> USE DEF walletVars, serverVars, listenVars, taskVars, txHist, blockHist
  <1> DEFINE new == CreateBlk(memoryPool)
  <1>1. UNCHANGED <<nextTxId, walletKey, localUtxo, txq, utxolists, txList, walk,
                    utxoSets, pkSets, blist, npc, voted, accepted, received, taken,
                    vanished, applied, overwritten>>
        /\ memoryPool' = <<>>
    BY DEF Propose
  <1>2. IF memoryPool = <<>> THEN proposals' = proposals
                             ELSE proposals' = proposals \cup {new}
    BY DEF Propose
  <1>3. DataOK /\ memoryPool \in Seq(Tx) /\ received \subseteq Tx /\ ListsOK
    BY DEF CoinsOK, DataOK
  <1>4. /\ new \in Assembled
        /\ \A tx \in ToSet(memoryPool) :
                 \/ tx \in ToSet(new)
                 \/ ~CheckSpendingConditions(tx, utxoSets[tx.senderID], Wallet)
                 \/ ToSet(tx.inputs) \cap InputsOf(new) # {}
    BY <1>3, CreateBlkGives
  <1> HIDE DEF new
  <1>5. new \in Seq(ValidTx) /\ Apart(new)
    <2> DEFINE V == {tx \in Tx : CheckSpendingConditions(tx, utxoSets[tx.senderID], Wallet)}
    <2>1. new \in Seq(V) /\ Apart(new)
      BY <1>4 DEF Assembled
    <2>2. V \subseteq ValidTx
      BY <1>3, AcceptedIsValid
    <2> HIDE DEF V
    <2> QED  BY <2>1, <2>2
  <1>6. new \in Seq(Tx)
    <2>1. ValidTx \subseteq Tx
      BY DEF ValidTx
    <2> QED  BY <1>5, <2>1
  <1>7. DataOK'
    <2>1. memoryPool' \in Seq(Tx) /\ proposals' \subseteq Seq(Tx)
      BY <1>1, <1>2, <1>3, <1>6 DEF DataOK
    <2> QED  BY <1>1, <1>3, <2>1 DEF DataOK
  <1>8. ListsOK' /\ QueueOK'
    BY <1>1 DEF CoinsOK, ListsOK, Spent, QueueOK
  <1>9. ProposedOK' /\ VotedOK'
    BY <1>1, <1>2, <1>5 DEF CoinsOK, ProposedOK, VotedOK
  <1>10. TxAccounted'
    <2>1. proposals \subseteq proposals'
      BY <1>2
    <2>2. ASSUME NEW tx \in received' PROVE tx \in vanished' \/ Handled(tx)'
      <3>1. tx \in received /\ tx \in Tx
        BY <1>1, <1>3
      <3>2. CASE tx \in ToSet(memoryPool)
        <4>1. memoryPool # <<>>
          BY <1>3, <3>2, InToSet
        <4>2. new \in proposals'
          BY <1>2, <4>1
        <4>3. CASE ~CheckSpendingConditions(tx, utxoSets[tx.senderID], Wallet)
          <5>1. \/ ~CheckSpendingConditions(tx, CoinsOf(tx.senderID), Wallet)
                \/ \E bx \in proposals : ToSet(tx.inputs) \cap InputsOf(bx) # {}
            BY <3>1, <4>3, RejectedIsAccounted
          <5> QED  BY <2>1, <5>1 DEF Handled
        <4>4. CASE tx \in ToSet(new) \/ ToSet(tx.inputs) \cap InputsOf(new) # {}
          BY <4>2, <4>4 DEF Handled
        <4> QED  BY <1>4, <3>2, <4>3, <4>4
      <3>3. CASE tx \notin ToSet(memoryPool)
        <4>1. tx \in vanished \/ Handled(tx)
          BY <3>1 DEF CoinsOK, TxAccounted
        <4> QED  BY <1>1, <2>1, <3>3, <4>1 DEF Handled
      <3> QED  BY <3>2, <3>3
    <2> QED  BY <2>2 DEF TxAccounted
  <1> QED  BY <1>7, <1>8, <1>9, <1>10 DEF CoinsOK

\* The DBSTORE task walks over blist_, hands the lists to the server, and
\* clears blist_.
LEMMA TaskCoins ==
    CoinsOK /\ (StoreBlocks \/ OnSyncReply \/ ClearBlocks) => CoinsOK'
  <1> SUFFICES ASSUME CoinsOK, StoreBlocks \/ OnSyncReply \/ ClearBlocks PROVE CoinsOK'
    OBVIOUS
  <1> USE DEF walletVars, serverVars, listenVars, ledgerVars, nodeVars, txHist, blockHist
  <1>1. <<>> \in Seq(Seq(Tx))
    OBVIOUS
  <1>2. DataOK'
    BY <1>1 DEF CoinsOK, DataOK, StoreBlocks, OnSyncReply, ClearBlocks
  <1>3. UNCHANGED accountVars
    BY DEF StoreBlocks, OnSyncReply, ClearBlocks, accountVars
  <1> QED  BY <1>2, <1>3, SameCoins

\* OnAgreeBlk takes what the block spends from the lists, once.
LEMMA AgreeBlockCoins == Placed /\ CoinsOK /\ AgreeBlock => CoinsOK'
  <1> SUFFICES ASSUME Placed, CoinsOK, AgreeBlock PROVE CoinsOK'
    OBVIOUS
  <1> USE DEF walletVars, serverVars, listenVars, nodeVars, txHist
  <1>1. /\ UNCHANGED <<nextTxId, walletKey, localUtxo, txq, utxolists, txList, pkSets,
                       memoryPool, blist, proposals, npc, voted, accepted, received,
                       taken, vanished, overwritten>>
        /\ walk # <<>> /\ walk' = Tail(walk)
        /\ utxoSets' = OnAgreeBlk(utxoSets, Head(walk))
        /\ applied' = Append(applied, Head(walk))
    BY DEF AgreeBlock
  <1>2. DataOK /\ ListsOK /\ utxoSets \in CoinSets /\ AllCoins \in CoinSets
        /\ applied \in Seq(Seq(Tx)) /\ walk \in Seq(Seq(Tx))
    BY ListsType DEF CoinsOK, DataOK
  <1>3. npc = "idle"
    BY <1>1, WalkedPlace
  <1>4. PICK bw, bx \in {voted, <<>>} : Walked(bw, bx) /\ walk = <<bx>>
    BY <1>1, WalkedPlace
  <1>5. applied = <<>>
    BY <1>4 DEF Walked, Held
  <1>6. bx \in Seq(OwnTx)
    <2>1. voted \in proposals
      BY <1>3 DEF CoinsOK, VotedOK
    <2>2. voted \in Seq(ValidTx)
      BY <2>1 DEF CoinsOK, ProposedOK
    <2>3. voted \in Seq(OwnTx)
      BY <2>2, ValidIsOwn
    <2>4. <<>> \in Seq(OwnTx)
      OBVIOUS
    <2> QED  BY <2>3, <2>4
  <1>7. Head(<<bx>>) = bx /\ Tail(<<bx>>) = <<>> /\ Append(<<>>, bx) = <<bx>>
    BY OneBlock
  <1>8. utxoSets' = OnAgreeBlk(utxoSets, bx) /\ applied' = <<bx>> /\ walk' = <<>>
    BY <1>1, <1>4, <1>5, <1>7
  <1>9. utxoSets' = Without(utxoSets, InputsOf(bx))
    BY <1>2, <1>6, <1>8, OnAgreeBlkSpends
  <1>10. Spent = {}
    BY <1>5 DEF Spent
  <1>11. utxoSets = Without(AllCoins, {})
    BY <1>2, <1>10 DEF ListsOK
  <1>12. {} \cup InputsOf(bx) = InputsOf(bx)
    OBVIOUS
  <1>13. utxoSets' = Without(AllCoins, InputsOf(bx))
    BY <1>9, <1>11, <1>12, WithoutTwice
  <1>14. Spent' = InputsOf(bx)
    <2>1. DOMAIN <<bx>> = {1} /\ <<bx>>[1] = bx
      OBVIOUS
    <2> QED  BY <1>8, <2>1 DEF Spent
  <1>15. ListsOK' /\ utxoSets' \in CoinSets
    BY <1>2, <1>13, <1>14, WithoutType DEF ListsOK
  <1>16. DataOK'
    <2>1. utxoSets' \in [Wallet -> Seq(UTXO)]
      BY <1>15 DEF CoinSets
    <2>2. bx \in Seq(Tx)
      <3>1. voted \in Seq(Tx) /\ <<>> \in Seq(Tx)
        BY <1>2 DEF DataOK
      <3> QED  BY <3>1
    <2>3. applied' \in Seq(Seq(Tx)) /\ walk' \in Seq(Seq(Tx))
      BY <1>8, <2>2
    <2> QED  BY <1>1, <1>2, <2>1, <2>3 DEF DataOK
  <1>17. ProposedOK' /\ VotedOK' /\ QueueOK'
    BY <1>1 DEF CoinsOK, ProposedOK, VotedOK, QueueOK
  <1>18. TxAccounted'
    BY <1>1 DEF CoinsOK, TxAccounted, Handled
  <1> QED  BY <1>15, <1>16, <1>17, <1>18 DEF CoinsOK

\* A proposed block that passed Block::verify is delivered.
LEMMA DeliverCoins == CoinsOK /\ Deliver => CoinsOK'
  <1> SUFFICES ASSUME CoinsOK, Deliver PROVE CoinsOK'
    OBVIOUS
  <1> USE DEF walletVars, serverVars, listenVars, taskVars, ledgerVars, txHist, blockHist
  <1>1. UNCHANGED <<nextTxId, walletKey, localUtxo, txq, utxolists, txList, walk, utxoSets,
                    pkSets, memoryPool, blist, proposals, accepted, received, taken, vanished, applied,
                    overwritten>>
    BY DEF Deliver
  <1>2. voted' \in proposals /\ Verify(voted', InitialCoins, Wallet) /\ npc' = "accept"
    BY DEF Deliver
  <1>3. DataOK'
    <2>1. voted' \in Seq(Tx)
      BY <1>2 DEF CoinsOK, DataOK
    <2> QED  BY <1>1, <2>1 DEF CoinsOK, DataOK
  <1>4. VotedOK'
    <2>1. npc' # "run"
      BY <1>2
    <2> QED  BY <1>1, <1>2, <2>1 DEF VotedOK
  <1>5. ListsOK' /\ ProposedOK' /\ QueueOK'
    BY <1>1 DEF CoinsOK, ListsOK, Spent, ProposedOK, QueueOK
  <1>6. TxAccounted'
    BY <1>1 DEF CoinsOK, TxAccounted, Handled
  <1> QED  BY <1>3, <1>4, <1>5, <1>6 DEF CoinsOK

\* It is accepted, or an empty block is.
LEMMA AcceptCoins == CoinsOK /\ Accept => CoinsOK'
  <1> SUFFICES ASSUME CoinsOK, Accept PROVE CoinsOK'
    OBVIOUS
  <1> USE DEF walletVars, serverVars, listenVars, taskVars, ledgerVars, txHist, blockHist
  <1>1. UNCHANGED <<nextTxId, walletKey, localUtxo, txq, utxolists, txList, walk, utxoSets,
                    pkSets, memoryPool, blist, proposals, voted, received, taken, vanished, applied,
                    overwritten>>
    BY DEF Accept
  <1>2. npc = "accept" /\ npc' = "idle"
    BY DEF Accept
  <1>3. DataOK'
    <2>1. PICK bx \in {voted, <<>>} : accepted' = Append(accepted, bx)
      BY DEF Accept
    <2>2. bx \in Seq(Tx) /\ accepted \in Seq(Seq(Tx))
      <3>1. voted \in Seq(Tx) /\ accepted \in Seq(Seq(Tx)) /\ <<>> \in Seq(Tx)
        BY DEF CoinsOK, DataOK
      <3> QED  BY <3>1
    <2>3. accepted' \in Seq(Seq(Tx))
      BY <2>1, <2>2
    <2> QED  BY <1>1, <2>3 DEF CoinsOK, DataOK
  <1>4. VotedOK'
    <2>1. npc # "run" /\ npc' # "run"
      BY <1>2
    <2> QED  BY <1>1, <2>1 DEF CoinsOK, VotedOK
  <1>5. ListsOK' /\ ProposedOK' /\ QueueOK'
    BY <1>1 DEF CoinsOK, ListsOK, Spent, ProposedOK, QueueOK
  <1>6. TxAccounted'
    BY <1>1 DEF CoinsOK, TxAccounted, Handled
  <1> QED  BY <1>3, <1>4, <1>5, <1>6 DEF CoinsOK

\* InitializeCoins.
LEMMA InitLedger == Init => LedgerInv
  <1> SUFFICES ASSUME Init PROVE LedgerInv
    OBVIOUS
  <1>1. Placed
    BY InitPlaced
  <1>2. MaxTx \in Nat /\ MaxEvents \in Nat
    BY ValidatorAssumption
  <1>3. EventsOK /\ TakenOK
    BY <1>2 DEF Init, EventsOK, TakenOK
  <1>4. utxoSets = AllCoins /\ utxolists = AllCoins /\ AllCoins \in [Wallet -> Seq(UTXO)]
    BY ListsType DEF Init, AllCoins, CoinSets
  <1>5. DataOK
    <2>1. localUtxo \in [Wallet -> Seq(UTXO)]
      BY DEF Init
    <2>2. nextTxId \in FirstTxId .. FirstTxId + MaxTx
      BY <1>2 DEF Init, FirstTxId
    <2> QED  BY <1>4, <2>1, <2>2 DEF Init, DataOK
  <1>6. ListsOK
    <2>1. Spent = {}
      BY DEF Init, Spent
    <2>2. \A w \in Wallet : Without(AllCoins, {})[w] = AllCoins[w]
      BY DEF Without
    <2>3. Without(AllCoins, {}) = AllCoins
      BY <2>2 DEF Without, AllCoins
    <2> QED  BY <1>4, <2>1, <2>3 DEF ListsOK
  <1>7. QueueOK
    <2>1. ToSet(txq) = {} /\ taken = {}
      BY DEF Init, ToSet
    <2> QED  BY <2>1 DEF QueueOK
  <1>8. ProposedOK /\ VotedOK /\ TxAccounted
    BY DEF Init, ProposedOK, VotedOK, TxAccounted
  <1> QED  BY <1>1, <1>3, <1>5, <1>6, <1>7, <1>8 DEF LedgerInv, CoinsOK

\* The steps of all threads.
LEMMA NextLedger == LedgerInv /\ [Next]_vars => LedgerInv'
  <1> SUFFICES ASSUME LedgerInv, [Next]_vars PROVE LedgerInv'
    OBVIOUS
  <1>0. Placed /\ EventsOK /\ TakenOK /\ CoinsOK /\ DataOK
    BY DEF LedgerInv, CoinsOK
  <1>p. Placed' /\ EventsOK' /\ TakenOK'
    BY <1>0, NextPlaced, NextEvents, NextTaken
  <1> SUFFICES CoinsOK'
    BY <1>p DEF LedgerInv
  <1> USE DEF listenVars, taskVars
  <1>s. UNCHANGED dataVars => CoinsOK'
    BY <1>0, SameData
  <1>1. ASSUME NEW f \in Files, SendTx(f) PROVE CoinsOK'
    BY <1>0, <1>1, SendTxCoins
  <1>2. ASSUME NEW e \in Event, SubscriberEvent(e) PROVE CoinsOK'
    BY <1>2, <1>s DEF SubscriberEvent, dataVars
  <1>3. CASE ListenWakes
    BY <1>3, <1>s DEF ListenWakes, dataVars
  <1>4. CASE Listen \/ ListenEnds
    BY <1>0, <1>4, ListenCoins
  <1>5. CASE ProposeProcess
    BY <1>5, <1>s DEF ProposeProcess, dataVars
  <1>6. CASE DBProcess
    BY <1>0, <1>6, DBProcessCoins
  <1>7. ASSUME NEW e \in Event, TakeUnheard(e) PROVE CoinsOK'
    BY <1>7, <1>s DEF TakeUnheard, dataVars
  <1>8. CASE TakeTx
    BY <1>8, <1>s DEF TakeTx, dataVars
  <1>9. CASE EndTx
    BY <1>9, <1>s DEF EndTx, dataVars
  <1>10. CASE GetTransactions
    BY <1>0, <1>10, GetTransactionsCoins
  <1>11. CASE OnTxReply
    BY <1>0, <1>11, OnTxReplyCoins
  <1>12. CASE Propose
    BY <1>0, <1>12, ProposeCoins
  <1>13. CASE StoreBlocks \/ OnSyncReply \/ ClearBlocks
    BY <1>0, <1>13, TaskCoins
  <1>14. CASE AgreeBlock
    BY <1>0, <1>14, AgreeBlockCoins
  <1>15. CASE Deliver
    BY <1>0, <1>15, DeliverCoins
  <1>16. CASE Accept
    BY <1>0, <1>16, AcceptCoins
  <1>17. CASE UNCHANGED vars
    BY <1>17, <1>s DEF vars, dataVars
  <1> QED
    BY <1>1, <1>2, <1>3, <1>4, <1>5, <1>6, <1>7, <1>8, <1>9, <1>10, <1>11,
       <1>12, <1>13, <1>14, <1>15, <1>16, <1>17 DEF Next, EventProcess

\* The invariant holds always.
LEMMA AlwaysLedger == Spec => []LedgerInv
  BY InitLedger, NextLedger, PTL DEF Spec

\* The lists and the wallets keep their types through all loops over them,
\* and no task takes an event that was not published.
THEOREM LedgerTypeCorrect == Spec => []TypeOK
  <1>1. LedgerInv => TypeOK
    <2> SUFFICES ASSUME LedgerInv PROVE TypeOK
      OBVIOUS
    <2>1. EventsOK /\ DataOK /\ npc \in {"run", "accept", "idle"}
      BY DEF LedgerInv, CoinsOK, Placed
    <2>2. /\ {txq, txList, memoryPool, voted} \subseteq Seq(Tx)
          /\ {blist, walk, accepted, applied, overwritten} \subseteq Seq(Seq(Tx))
          /\ epc \in {"idle", "tx", "reply", "agree", "clear"}
      BY <2>1 DEF DataOK, LedgerInv, Placed
    <2> QED  BY <2>1, <2>2 DEF TypeOK, EventsOK, DataOK
  <1> QED  BY <1>1, AlwaysLedger, PTL

\* A transaction that reached the queue of the server waits there, in
\* tx_list or in the pool, is in a proposed block, lost its coin to one, or
\* was invalid from the beginning, however the tasks that share the lists
\* follow each other; or Listen has destroyed or renewed tx_list between
\* getTransactions and OnTxReply of the task that took it.
THEOREM TxIsAccounted == Spec => []TxAccounted
  <1>1. LedgerInv => TxAccounted
    BY DEF LedgerInv, CoinsOK
  <1> QED  BY <1>1, AlwaysLedger, PTL

\* Whatever the order in which the consensus thread, DBProcess and the event
\* thread take their steps, and whatever is read from freed memory, no block
\* is applied twice, and one that is not applied is on its way or has been
\* overwritten.
THEOREM BlockIsAccounted == Spec => []BlockAccounted
  <1>1. LedgerInv => BlockAccounted
    BY PlacedIsAccounted DEF LedgerInv
  <1> QED  BY <1>1, AlwaysLedger, PTL

\* A wallet's list is what is left of the coin that InitializeCoins gave it.
LedgerExact ==
    \A w \in Wallet :
        utxoSets[w] =
           Keep(CoinsOf(w), {u \in ToSet(CoinsOf(w)) :
              \A i \in DOMAIN applied : InputOf(u) \notin InputsOf(applied[i])})

\* The lists lose the coins that the blocks OnAgreeBlk was called with spend,
\* and no other, and they never gain one: OnAgreeBlk makes the new coins and
\* drops them.
THEOREM NoNewCoins == Spec => []LedgerExact
  <1>1. LedgerInv => LedgerExact
    <2> SUFFICES ASSUME ListsOK, NEW w \in Wallet
                 PROVE  utxoSets[w] =
                          Keep(CoinsOf(w), {u \in ToSet(CoinsOf(w)) :
                             \A i \in DOMAIN applied : InputOf(u) \notin InputsOf(applied[i])})
      BY DEF LedgerInv, CoinsOK, LedgerExact
    <2> DEFINE S == {u \in ToSet(CoinsOf(w)) :
                       \A i \in DOMAIN applied : InputOf(u) \notin InputsOf(applied[i])}
    <2>1. PICK j \in 1 .. Len(WalletIds) : CoinsOf(w) = <<Coin(j)>>
      BY OneCoin
    <2>2. DOMAIN <<Coin(j)>> = {1} /\ <<Coin(j)>>[1] = Coin(j)
      OBVIOUS
    <2>3. ToSet(CoinsOf(w)) = {Coin(j)} /\ Spendable(CoinsOf(w)) = {InputOf(Coin(j))}
      BY <2>1, <2>2 DEF ToSet, Spendable
    <2>4. InputOf(Coin(j)) \in Spent <=> \E i \in DOMAIN applied : InputOf(Coin(j)) \in InputsOf(applied[i])
      BY DEF Spent
    <2>5. Coin(j) \in S <=> InputOf(Coin(j)) \notin Spent
      BY <2>3, <2>4
    <2>6. utxoSets[w] = IF InputOf(Coin(j)) \in Spent THEN <<>> ELSE <<Coin(j)>>
      BY <2>1, <2>3 DEF ListsOK, Without, AllCoins
    <2> HIDE DEF S
    <2>7. Keep(CoinsOf(w), S) = IF Coin(j) \in S THEN <<Coin(j)>> ELSE <<>>
      BY <2>1, KeepShort
    <2>8. utxoSets[w] = Keep(CoinsOf(w), S)
      BY <2>5, <2>6, <2>7
    <2> QED  BY <2>8 DEF S
  <1> QED  BY <1>1, AlwaysLedger, PTL

-----------------------------------------------------------------------------
(* Block::verify.                                                          *)

\* The inputs of a block, by transaction.
InputLists(bx) == [i \in DOMAIN bx |-> bx[i].inputs]

\* They are lists of inputs.
LEMMA InputListsType ==
    ASSUME NEW bx \in Seq(Tx)
    PROVE  /\ InputLists(bx) \in Seq(Seq(Input))
           /\ Len(InputLists(bx)) = Len(bx)
           /\ \A i \in 1 .. Len(bx) : InputLists(bx)[i] = bx[i].inputs
           /\ bx = <<>> => InputLists(bx) = <<>>
           /\ bx # <<>> => InputLists(bx) # <<>>
  <1>1. DOMAIN bx = 1 .. Len(bx) /\ Len(bx) \in Nat
    OBVIOUS
  <1>2. \A i \in 1 .. Len(bx) : bx[i].inputs \in Seq(Input)
    <2>1. \A i \in 1 .. Len(bx) : bx[i] \in Tx
      OBVIOUS
    <2>2. \A tx \in Tx : tx.inputs \in Seq(Input)
      BY DEF Tx
    <2> QED  BY <2>1, <2>2
  <1>3. /\ InputLists(bx) \in Seq(Seq(Input))
        /\ Len(InputLists(bx)) = Len(bx)
        /\ \A i \in 1 .. Len(bx) : InputLists(bx)[i] = bx[i].inputs
    BY <1>1, <1>2 DEF InputLists
  <1>4. bx = <<>> => InputLists(bx) = <<>>
    <2>1. bx = <<>> => Len(InputLists(bx)) = 0
      BY <1>3
    <2> QED  BY <1>3, <2>1
  <1>5. bx # <<>> => InputLists(bx) # <<>>
    <2>1. bx # <<>> => Len(InputLists(bx)) # 0
      BY <1>1, <1>3
    <2> QED  BY <2>1
  <1> QED  BY <1>3, <1>4, <1>5

\* Block::verify finds every transaction of a valid block valid.
LEMMA ValidAtNode ==
    ASSUME NEW tx \in ValidTx
    PROVE  CheckSpendingConditions(tx, InitialCoins, Wallet)
  <1>1. tx \in Tx /\ Passes(tx, Spendable(CoinsOf(tx.senderID)))
    BY DEF ValidTx
  <1>2. tx.senderID \in Wallet /\ tx.inputs \in Seq(Input)
    BY <1>1 DEF Tx
  <1>3. Spendable(CoinsOf(tx.senderID)) \subseteq Spendable(InitialCoins)
    BY <1>2, CoinLists
  <1>4. Passes(tx, Spendable(InitialCoins))
    BY <1>1, <1>3, PassesMore
  <1> QED  BY <1>2, <1>4, CoinLists, CheckMeans

\* It counts the inputs of a block right.
LEMMA InputsDistinct ==
    ASSUME NEW bx \in Seq(Tx), Apart(bx),
           \A i \in DOMAIN bx : Cardinality(ToSet(bx[i].inputs)) = Len(bx[i].inputs)
    PROVE  Len(FlattenSeq(InputLists(bx))) = Cardinality(ToSet(FlattenSeq(InputLists(bx))))
  <1> DEFINE lists == InputLists(bx)
  <1>0. DOMAIN bx = 1 .. Len(bx) /\ Len(bx) \in Nat
    OBVIOUS
  <1>1. /\ lists \in Seq(Seq(Input)) /\ Len(lists) = Len(bx)
        /\ \A i \in 1 .. Len(bx) : lists[i] = bx[i].inputs
        /\ bx = <<>> => lists = <<>>
        /\ bx # <<>> => lists # <<>>
    BY InputListsType
  <1> HIDE DEF lists
  <1>2. CASE bx = <<>>
    <2>1. FlattenSeq(lists) = <<>>
      BY <1>1, <1>2 DEF FlattenSeq
    <2>2. ToSet(<<>>) = {} /\ Len(<<>>) = 0
      BY DEF ToSet
    <2> QED  BY <2>1, <2>2, FS_EmptySet DEF lists
  <1>3. CASE bx # <<>>
    <2>1. lists # <<>>
      BY <1>1, <1>3
    <2>2. PICK flat \in [1 .. Len(lists) -> Seq(Input)] : Flattens(flat, lists)
      BY <1>1, <2>1, FlattenSteps
    <2>3. \A i \in 1 .. Len(lists) : Cardinality(ToSet(lists[i])) = Len(lists[i])
      BY <1>0, <1>1
    <2>4. \A i, j \in 1 .. Len(lists) : i < j => ToSet(lists[i]) \cap ToSet(lists[j]) = {}
      <3>1. \A i, j \in 1 .. Len(bx) : i # j => ToSet(bx[i].inputs) \cap ToSet(bx[j].inputs) = {}
        BY <1>0 DEF Apart
      <3>2. \A i, j \in 1 .. Len(bx) : i < j => i # j
        BY <1>0
      <3> QED  BY <1>1, <3>1, <3>2
    <2>5. Cardinality(ToSet(FlattenSeq(lists))) = Len(FlattenSeq(lists))
      BY <1>1, <2>1, <2>2, <2>3, <2>4, FlattenDistinct
    <2> QED  BY <2>5 DEF lists
  <1> QED  BY <1>2, <1>3

\* What the leader proposes the nodes accept, if no transaction names an
\* input twice: the leader checks against lists that shrink and one
\* transaction against the others, the nodes against the list that they
\* were started with and all inputs at once.
THEOREM ProposedBlockVerifies == Spec => []ProposalVerifies
  <1>1. LedgerInv => ProposalVerifies
    <2> SUFFICES ASSUME ProposedOK, NEW bx \in proposals,
                        \A i \in DOMAIN bx : Cardinality(ToSet(bx[i].inputs)) = Len(bx[i].inputs)
                 PROVE  Verify(bx, InitialCoins, Wallet)
      BY DEF LedgerInv, CoinsOK, ProposalVerifies
    <2>1. bx \in Seq(ValidTx) /\ Apart(bx)
      BY DEF ProposedOK
    <2>2. bx \in Seq(Tx) /\ \A i \in DOMAIN bx : bx[i] \in ValidTx
      <3>1. ValidTx \subseteq Tx
        BY DEF ValidTx
      <3> QED  BY <2>1, <3>1
    <2>3. \A i \in DOMAIN bx : CheckSpendingConditions(bx[i], InitialCoins, Wallet)
      BY <2>2, ValidAtNode
    <2>4. Len(FlattenSeq(InputLists(bx))) = Cardinality(ToSet(FlattenSeq(InputLists(bx))))
      BY <2>1, <2>2, InputsDistinct
    <2> QED  BY <2>3, <2>4 DEF Verify, InputLists
  <1> QED  BY <1>1, AlwaysLedger, PTL

-----------------------------------------------------------------------------
(* The value of the delivered block.                                       *)

\* What outputs are worth, without wrapping around.
Values(outs) == [i \in DOMAIN outs |-> outs[i].value]
Value(outs)  == Total(Values(outs))

\* The range of int.
IntRangeSize == 2^IntWidth

\* It is positive, and every coin is below it.
LEMMA IntRange ==
    IntRangeSize \in Nat /\ IntRangeSize > 0 /\ Coins \in Nat /\ Coins < IntRangeSize
  <1>1. IntRangeSize \in Nat /\ IntRangeSize > 0
    BY WidthAssumption, PowerOfTwo DEF IntRangeSize
  <1>2. Coins \in 1 .. IntRangeSize - 1
    BY ValidatorAssumption DEF IntRangeSize
  <1> QED  BY <1>1, <1>2

\* The values of outputs are numbers.
LEMMA ValuesType ==
    ASSUME NEW outs \in Seq(Output)
    PROVE  /\ Values(outs) \in Seq(Nat)
           /\ Len(Values(outs)) = Len(outs)
           /\ \A i \in 1 .. Len(outs) : Values(outs)[i] = outs[i].value
           /\ Value(outs) \in Nat
  <1>1. DOMAIN outs = 1 .. Len(outs) /\ Len(outs) \in Nat
    OBVIOUS
  <1>2. \A i \in 1 .. Len(outs) : outs[i].value \in Nat
    <2>1. \A i \in 1 .. Len(outs) : outs[i] \in Output
      OBVIOUS
    <2>2. \A o \in Output : o.value \in Nat
      BY DEF Output
    <2> QED  BY <2>1, <2>2
  <1>3. /\ Values(outs) \in Seq(Nat)
        /\ Len(Values(outs)) = Len(outs)
        /\ \A i \in 1 .. Len(outs) : Values(outs)[i] = outs[i].value
    BY <1>1, <1>2 DEF Values
  <1> QED  BY <1>3, TotalShort DEF Value

\* The outputs of two transactions are worth what each is worth.
LEMMA ValueConcat ==
    ASSUME NEW a \in Seq(Output), NEW b \in Seq(Output)
    PROVE  Value(a \o b) = Value(a) + Value(b)
  <1> DEFINE m == Len(a)
             n == Len(b)
             ab == a \o b
             x == Values(a)
             y == Values(b)
             z == Values(a \o b)
  <1>1. /\ ab \in Seq(Output) /\ Len(ab) = m + n /\ m \in Nat /\ n \in Nat
        /\ \A i \in 1 .. m : ab[i] = a[i]
        /\ \A i \in 1 .. n : ab[m + i] = b[i]
    OBVIOUS
  <1>2. /\ x \in Seq(Nat) /\ Len(x) = m /\ \A i \in 1 .. m : x[i] = a[i].value
        /\ y \in Seq(Nat) /\ Len(y) = n /\ \A i \in 1 .. n : y[i] = b[i].value
    BY ValuesType
  <1>3. /\ z \in Seq(Nat) /\ Len(z) = m + n
        /\ \A i \in 1 .. m + n : z[i] = ab[i].value
    BY <1>1, ValuesType
  <1> HIDE DEF x, y, z, m, n, ab
  <1>4. z = x \o y
    <2> DEFINE xy == x \o y
    <2>1. /\ xy \in Seq(Nat) /\ Len(xy) = m + n
          /\ \A i \in 1 .. m : xy[i] = x[i]
          /\ \A i \in 1 .. n : xy[m + i] = y[i]
      <3>1. x \in Seq(Nat) /\ y \in Seq(Nat)
        BY <1>2
      <3>2. /\ xy \in Seq(Nat) /\ Len(xy) = Len(x) + Len(y)
            /\ \A i \in 1 .. Len(x) : xy[i] = x[i]
            /\ \A i \in 1 .. Len(y) : xy[Len(x) + i] = y[i]
        BY <3>1
      <3> HIDE DEF xy
      <3>3. Len(x) = m /\ Len(y) = n
        BY <1>2
      <3> QED  BY <3>2, <3>3
    <2> HIDE DEF xy
    <2>2. ASSUME NEW i \in 1 .. m + n PROVE z[i] = xy[i]
      <3>0. z[i] = ab[i].value
        BY <1>3
      <3>1. CASE i \in 1 .. m
        BY <1>1, <1>2, <2>1, <3>0, <3>1
      <3>2. ASSUME NEW j \in 1 .. n, i = m + j PROVE z[i] = xy[i]
        <4>1. ab[m + j] = b[j] /\ xy[m + j] = y[j] /\ y[j] = b[j].value
          BY <1>1, <1>2, <2>1
        <4> QED  BY <3>0, <3>2, <4>1
      <3>3. i \in 1 .. m \/ (i - m \in 1 .. n /\ i = m + (i - m))
        BY <1>1
      <3> QED  BY <3>1, <3>2, <3>3
    <2>3. z = xy
      BY <1>3, <2>1, <2>2, SeqEqual
    <2> QED  BY <2>3 DEF xy
  <1>5. Total(x \o y) = Total(x) + Total(y)
    BY <1>2, TotalConcat
  <1> QED  BY <1>4, <1>5 DEF x, y, z, Value

\* Worth as much as that many coins, up to what wraps around; exactly, if
\* nothing does.
Worth(value, coins, exact) ==
    \E q \in Nat : value = Coins * coins + q * IntRangeSize /\ (exact => q = 0)

\* A transaction with at most one input.
LEMMA TxValue ==
    ASSUME NEW tx \in Tx, CheckSpendingConditions(tx, InitialCoins, Wallet),
           Len(tx.inputs) <= 1
    PROVE  Worth(Value(tx.outputs), Len(tx.inputs), ~Wraps(tx))
  <1> DEFINE v == Value(tx.outputs)
  <1>1. tx.inputs \in Seq(Input) /\ tx.outputs \in Seq(Output)
    BY DEF Tx
  <1>2. v \in Nat
    BY <1>1, ValuesType
  <1>3. Wraps(tx) <=> v >= IntRangeSize
    BY DEF Wraps, Value, Values, Total, IntRangeSize
  <1>4. OutputTotal(tx) = v % IntRangeSize
    BY DEF OutputTotal, IntSum, Value, Values, Total, IntRangeSize
  <1>5. CASE tx.inputs = <<>>
    <2>1. tx.outputs = <<>> /\ Len(tx.inputs) = 0
      BY <1>5 DEF CheckSpendingConditions
    <2>2. Values(tx.outputs) = <<>>
      <3>1. Values(tx.outputs) \in Seq(Nat) /\ Len(Values(tx.outputs)) = 0
        BY <1>1, <2>1, ValuesType
      <3> QED  BY <3>1
    <2>3. v = 0
      BY <2>2, TotalShort DEF Value
    <2> HIDE DEF v
    <2>4. v = Coins * 0 + 0 * IntRangeSize
      BY <2>3, IntRange
    <2>5. Worth(v, 0, ~Wraps(tx))
      BY <2>4 DEF Worth
    <2> QED  BY <2>1, <2>5 DEF v
  <1>6. CASE tx.inputs # <<>>
    <2>1. Len(tx.inputs) = 1 /\ DOMAIN tx.inputs = 1 .. 1
      <3> DEFINE ins == tx.inputs
      <3>1. ins \in Seq(Input) /\ ins # <<>> /\ Len(ins) <= 1
        BY <1>1, <1>6
      <3> HIDE DEF ins
      <3>2. Len(ins) \in Nat /\ Len(ins) # 0 /\ DOMAIN ins = 1 .. Len(ins)
        BY <3>1
      <3>3. Len(ins) = 1
        BY <3>1, <3>2
      <3> QED  BY <3>2, <3>3 DEF ins
    <2>2. Passes(tx, Spendable(InitialCoins))
      BY <1>1, CoinLists, CheckMeans
    <2>3. IntSum([i \in DOMAIN tx.inputs |-> Coins]) = OutputTotal(tx)
      BY <1>6, <2>2 DEF Passes
    <2>4. [i \in DOMAIN tx.inputs |-> Coins] = <<Coins>>
      BY <2>1
    <2>5. IntSum(<<Coins>>) = Total(<<Coins>>) % IntRangeSize
      BY DEF IntSum, Total, IntRangeSize
    <2>6. Total(<<Coins>>) = Coins
      BY IntRange, TotalShort
    <2>7. Coins % IntRangeSize = Coins
      BY IntRange, ModIs
    <2>8. v % IntRangeSize = Coins
      BY <1>4, <2>3, <2>4, <2>5, <2>6, <2>7
    <2> DEFINE q == v \div IntRangeSize
    <2> HIDE DEF v
    <2>9. q \in Nat /\ v = (v % IntRangeSize) + q * IntRangeSize /\ (v < IntRangeSize => q = 0)
      BY <1>2, IntRange, ModIs
    <2> HIDE DEF q
    <2>10. Coins * 1 = Coins
      BY IntRange
    <2>11. v = Coins * 1 + q * IntRangeSize
      BY <2>8, <2>9, <2>10
    <2>12. ~Wraps(tx) => q = 0
      BY <1>2, <1>3, <2>9, IntRange
    <2>13. Worth(v, 1, ~Wraps(tx))
      BY <2>9, <2>11, <2>12 DEF Worth
    <2> QED  BY <2>1, <2>13 DEF v
  <1> QED  BY <1>5, <1>6

\* What is worth coins together.
LEMMA WorthAdds ==
    ASSUME NEW v \in Nat, NEW c \in Nat, NEW p \in Nat, v = Coins * c + p * IntRangeSize,
           NEW w \in Nat, NEW d \in Nat, NEW q \in Nat, w = Coins * d + q * IntRangeSize
    PROVE  v + w = Coins * (c + d) + (p + q) * IntRangeSize
  <1>1. Coins * (c + d) = Coins * c + Coins * d
    BY IntRange
  <1>2. (p + q) * IntRangeSize = p * IntRangeSize + q * IntRangeSize
    BY IntRange
  <1>3. /\ Coins * c \in Nat /\ Coins * d \in Nat
        /\ p * IntRangeSize \in Nat /\ q * IntRangeSize \in Nat
    BY IntRange
  <1> QED  BY <1>1, <1>2, <1>3

\* The outputs of a block, by transaction.
OutputLists(bx) == [i \in DOMAIN bx |-> bx[i].outputs]

\* A block of transactions with at most one input each.
LEMMA BlockValue ==
    ASSUME NEW bx \in Seq(Tx), bx # <<>>,
           \A i \in 1 .. Len(bx) :
              /\ CheckSpendingConditions(bx[i], InitialCoins, Wallet)
              /\ Len(bx[i].inputs) <= 1
    PROVE  Worth(Value(FlattenSeq(OutputLists(bx))), Len(FlattenSeq(InputLists(bx))),
                 \A i \in 1 .. Len(bx) : ~Wraps(bx[i]))
  <1> DEFINE n == Len(bx)
             ins == InputLists(bx)
             outs == OutputLists(bx)
             Exact(k) == \A i \in 1 .. k : ~Wraps(bx[i])
  <1>1. n \in Nat /\ n # 0 /\ DOMAIN bx = 1 .. n /\ \A i \in 1 .. n : bx[i] \in Tx
    OBVIOUS
  <1>2. \A tx \in Tx : tx.inputs \in Seq(Input) /\ tx.outputs \in Seq(Output)
    BY DEF Tx
  <1>3. /\ ins \in Seq(Seq(Input)) /\ Len(ins) = n /\ ins # <<>>
        /\ \A i \in 1 .. n : ins[i] = bx[i].inputs
    BY InputListsType
  <1>4. /\ outs \in Seq(Seq(Output)) /\ Len(outs) = n /\ outs # <<>>
        /\ \A i \in 1 .. n : outs[i] = bx[i].outputs
    <2>1. \A i \in 1 .. n : bx[i].outputs \in Seq(Output)
      BY <1>1, <1>2
    <2>2. /\ outs \in Seq(Seq(Output)) /\ Len(outs) = n
          /\ \A i \in 1 .. n : outs[i] = bx[i].outputs
      <3> HIDE DEF n
      <3> QED  BY <1>1, <2>1 DEF OutputLists
    <2> HIDE DEF n, outs
    <2>3. outs # <<>>
      BY <1>1, <2>2
    <2> QED  BY <2>2, <2>3
  <1>t. \A i \in 1 .. n : Worth(Value(bx[i].outputs), Len(bx[i].inputs), ~Wraps(bx[i]))
    BY <1>1, TxValue
  <1> HIDE DEF n, ins, outs
  <1>5. PICK a \in [1 .. Len(ins) -> Seq(Input)] : Flattens(a, ins)
    BY <1>3, FlattenSteps
  <1>6. PICK b \in [1 .. Len(outs) -> Seq(Output)] : Flattens(b, outs)
    BY <1>4, FlattenSteps
  <1>7. /\ \A i \in 1 .. n : a[i] \in Seq(Input) /\ b[i] \in Seq(Output)
        /\ a[1] = ins[1] /\ b[1] = outs[1]
        /\ \A i \in 2 .. n : a[i] = a[i - 1] \o ins[i] /\ b[i] = b[i - 1] \o outs[i]
        /\ FlattenSeq(ins) = a[n] /\ FlattenSeq(outs) = b[n]
    BY <1>3, <1>4, <1>5, <1>6 DEF Flattens
  <1> DEFINE T == {k \in Nat : k + 1 \in 1 .. n =>
                     Worth(Value(b[k + 1]), Len(a[k + 1]), Exact(k + 1))}
  <1>8. 0 \in T
    <2>1. 1 \in 1 .. n => Worth(Value(b[1]), Len(a[1]), ~Wraps(bx[1]))
      BY <1>3, <1>4, <1>7, <1>t
    <2>2. 1 .. 1 = {1}
      OBVIOUS
    <2>3. Exact(1) <=> ~Wraps(bx[1])
      BY <2>2
    <2> HIDE DEF Exact
    <2>4. 1 \in 1 .. n => Worth(Value(b[1]), Len(a[1]), Exact(1))
      BY <2>1, <2>3 DEF Worth
    <2> QED  BY <2>4
  <1>9. ASSUME NEW k \in Nat, k \in T PROVE k + 1 \in T
    <2> DEFINE j == k + 1
               m == j + 1
    <2>1. ASSUME m \in 1 .. n PROVE Worth(Value(b[m]), Len(a[m]), Exact(m))
      <3>1. j \in 1 .. n /\ m \in 2 .. n /\ m - 1 = j
        BY <1>1, <2>1
      <3>2. Worth(Value(b[j]), Len(a[j]), Exact(j))
        <4> HIDE DEF Exact
        <4> QED  BY <1>9, <3>1
      <3>3. 1 .. m = (1 .. j) \cup {m}
        OBVIOUS
      <3>4. Exact(m) <=> Exact(j) /\ ~Wraps(bx[m])
        BY <3>3
      <3>0. m \in 1 .. n
        BY <2>1
      <3> HIDE DEF j, m, Exact
      <3>5. a[m] = a[m - 1] \o ins[m] /\ b[m] = b[m - 1] \o outs[m]
        BY <1>7, <3>1
      <3>6. a[m] = a[j] \o ins[m] /\ b[m] = b[j] \o outs[m]
        BY <3>1, <3>5
      <3>7. /\ a[j] \in Seq(Input) /\ b[j] \in Seq(Output)
            /\ ins[m] \in Seq(Input) /\ outs[m] \in Seq(Output)
            /\ ins[m] = bx[m].inputs /\ outs[m] = bx[m].outputs
        <4>1. a[j] \in Seq(Input) /\ b[j] \in Seq(Output)
          BY <1>7, <3>1
        <4>2. ins[m] = bx[m].inputs /\ outs[m] = bx[m].outputs
          BY <1>3, <1>4, <3>0
        <4>3. bx[m] \in Tx
          BY <1>1, <3>0
        <4> QED  BY <1>2, <4>1, <4>2, <4>3
      <3>8. Worth(Value(outs[m]), Len(ins[m]), ~Wraps(bx[m]))
        BY <1>t, <3>0, <3>7
      <3>9. /\ Value(b[m]) = Value(b[j]) + Value(outs[m])
            /\ Value(b[j]) \in Nat /\ Value(outs[m]) \in Nat
        BY <3>6, <3>7, ValueConcat, ValuesType
      <3>10. Len(a[m]) = Len(a[j]) + Len(ins[m]) /\ Len(a[j]) \in Nat /\ Len(ins[m]) \in Nat
        BY <3>6, <3>7
      <3>11. PICK p \in Nat : /\ Value(b[j]) = Coins * Len(a[j]) + p * IntRangeSize
                              /\ Exact(j) => p = 0
        BY <3>2 DEF Worth
      <3>12. PICK q \in Nat : /\ Value(outs[m]) = Coins * Len(ins[m]) + q * IntRangeSize
                              /\ ~Wraps(bx[m]) => q = 0
        BY <3>8 DEF Worth
      <3>13. Value(b[j]) + Value(outs[m])
               = Coins * (Len(a[j]) + Len(ins[m])) + (p + q) * IntRangeSize
        <4> DEFINE v == Value(b[j])
                   c == Len(a[j])
                   w == Value(outs[m])
                   d == Len(ins[m])
        <4>1. /\ v \in Nat /\ c \in Nat /\ v = Coins * c + p * IntRangeSize
              /\ w \in Nat /\ d \in Nat /\ w = Coins * d + q * IntRangeSize
          BY <3>9, <3>10, <3>11, <3>12
        <4> HIDE DEF v, c, w, d
        <4>2. v + w = Coins * (c + d) + (p + q) * IntRangeSize
          BY <4>1, WorthAdds, SMTT(30)
        <4> QED  BY <4>2 DEF v, c, w, d
      <3>14. Value(b[m]) = Coins * Len(a[m]) + (p + q) * IntRangeSize
        BY <3>9, <3>10, <3>13
      <3>15. p + q \in Nat /\ (Exact(m) => p + q = 0)
        BY <3>4, <3>11, <3>12
      <3> QED  BY <3>14, <3>15 DEF Worth
    <2> HIDE DEF Exact
    <2> QED  BY <2>1
  <1>10. \A k \in Nat : k \in T
    <2> HIDE DEF T
    <2> QED  BY <1>8, <1>9, Induction
  <1>11. Worth(Value(b[n]), Len(a[n]), Exact(n))
    <2>1. n - 1 \in Nat /\ n - 1 + 1 = n /\ n \in 1 .. n
      BY <1>1
    <2>2. n - 1 \in T
      BY <1>10, <2>1
    <2> HIDE DEF Exact
    <2> QED  BY <2>1, <2>2
  <1> QED  BY <1>7, <1>11 DEF n, ins, outs

\* The transactions of a block that Block::verify accepts name one input or
\* none: a wallet has one coin, and no input is named twice.
LEMMA OneInput ==
    ASSUME NEW bx \in Seq(ValidTx), bx # <<>>, Verify(bx, InitialCoins, Wallet)
    PROVE  /\ bx \in Seq(Tx)
           /\ \A i \in 1 .. Len(bx) :
                 /\ CheckSpendingConditions(bx[i], InitialCoins, Wallet)
                 /\ Len(bx[i].inputs) <= 1
           /\ Cardinality(ToSet(FlattenSeq(InputLists(bx)))) = Len(FlattenSeq(InputLists(bx)))
  <1> DEFINE lists == InputLists(bx)
  <1>1. ValidTx \subseteq Tx
    BY DEF ValidTx
  <1>2. bx \in Seq(Tx) /\ DOMAIN bx = 1 .. Len(bx) /\ \A i \in 1 .. Len(bx) : bx[i] \in ValidTx
    BY <1>1
  <1>3. /\ \A i \in 1 .. Len(bx) : CheckSpendingConditions(bx[i], InitialCoins, Wallet)
        /\ Cardinality(ToSet(FlattenSeq(lists))) = Len(FlattenSeq(lists))
    BY <1>2 DEF Verify, InputLists
  <1>4. /\ lists \in Seq(Seq(Input)) /\ Len(lists) = Len(bx) /\ lists # <<>>
        /\ \A i \in 1 .. Len(bx) : lists[i] = bx[i].inputs
    BY <1>2, InputListsType
  <1> HIDE DEF lists
  <1>5. PICK flat \in [1 .. Len(lists) -> Seq(Input)] : Flattens(flat, lists)
    BY <1>4, FlattenSteps
  <1>6. \A i \in 1 .. Len(lists) : Cardinality(ToSet(lists[i])) = Len(lists[i])
    BY <1>3, <1>4, <1>5, FlattenDistinct
  <1>7. ASSUME NEW tx \in ValidTx PROVE Cardinality(ToSet(tx.inputs)) <= 1
    <2>1. tx \in Tx /\ ToSet(tx.inputs) \subseteq Spendable(CoinsOf(tx.senderID))
      BY ValidIsOwn DEF OwnTx
    <2>2. PICK j \in 1 .. Len(WalletIds) : CoinsOf(tx.senderID) = <<Coin(j)>>
      <3>1. tx.senderID \in Wallet
        BY <2>1 DEF Tx
      <3> QED  BY <3>1, OneCoin
    <2>3. Spendable(<<Coin(j)>>) = {InputOf(Coin(j))}
      BY DEF Spendable
    <2>4. ToSet(tx.inputs) \in SUBSET {InputOf(Coin(j))}
      BY <2>1, <2>2, <2>3
    <2>5. /\ IsFiniteSet({InputOf(Coin(j))})
          /\ Cardinality({InputOf(Coin(j))}) = 1
      BY FS_Singleton
    <2>6. Cardinality(ToSet(tx.inputs)) <= Cardinality({InputOf(Coin(j))})
      BY <2>4, <2>5, FS_Subset
    <2> QED  BY <2>5, <2>6
  <1>8. ASSUME NEW i \in 1 .. Len(bx) PROVE Len(bx[i].inputs) <= 1
    <2>1. Cardinality(ToSet(bx[i].inputs)) = Len(bx[i].inputs)
      BY <1>4, <1>6
    <2>2. Cardinality(ToSet(bx[i].inputs)) <= 1
      BY <1>2, <1>7
    <2> QED  BY <2>1, <2>2
  <1> QED  BY <1>2, <1>3, <1>8 DEF lists

\* The coins whose inputs are in ins.
SpentCoins(ins) == {i \in DOMAIN InitialCoins : InputOf(InitialCoins[i]) \in ins}

\* There are as many coins as inputs, when every input is one of a coin.
LEMMA CoinsPerInput ==
    ASSUME NEW ins, ins \subseteq Spendable(InitialCoins)
    PROVE  /\ Cardinality(SpentCoins(ins)) = Cardinality(ins)
           /\ Cardinality(ins) \in Nat
  <1> DEFINE S == SpentCoins(ins)
             f == [i \in S |-> InputOf(InitialCoins[i])]
             n == Len(WalletIds)
  <1>1. n \in Nat /\ DOMAIN InitialCoins = 1 .. n /\ S \subseteq 1 .. n
    BY InitialCoinsAre DEF SpentCoins
  <1>2. IsFiniteSet(S)
    <2>1. IsFiniteSet(1 .. n)
      BY <1>1, FS_Interval
    <2> QED  BY <1>1, <2>1, FS_Subset
  <1>3. \A i \in S : InputOf(InitialCoins[i]) \in ins
    BY DEF SpentCoins
  <1>4. \A i, j \in S : InputOf(InitialCoins[i]) = InputOf(InitialCoins[j]) => i = j
    <2>1. \A i \in 1 .. n : InitialCoins[i] = Coin(i)
      BY InitialCoinsAre
    <2>2. \A i, j \in 1 .. n : InputOf(Coin(i)) = InputOf(Coin(j)) => i = j
      BY InitialCoinsAre
    <2> HIDE DEF S
    <2> QED  BY <1>1, <2>1, <2>2
  <1>5. \A x \in ins : \E i \in S : InputOf(InitialCoins[i]) = x
    BY DEF SpentCoins, Spendable
  <1> HIDE DEF S
  <1>6. f \in [S -> ins] /\ \A i \in S : f[i] = InputOf(InitialCoins[i])
    BY <1>3
  <1> HIDE DEF f
  <1>7. f \in Bijection(S, ins)
    <2>1. \A a, b \in S : f[a] = f[b] => a = b
      BY <1>4, <1>6
    <2>2. \A t \in ins : \E s \in S : f[s] = t
      BY <1>5, <1>6
    <2> QED  BY <1>6, <2>1, <2>2 DEF Bijection, Injection, Surjection, IsInjective
  <1>8. ExistsBijection(S, ins)
    BY <1>7 DEF ExistsBijection
  <1>9. IsFiniteSet(ins) /\ Cardinality(ins) = Cardinality(S)
    BY <1>2, <1>8, FS_Bijection
  <1> QED  BY <1>9, FS_CardinalityType DEF S

\* The inputs of a block are what its lists of inputs hold.
LEMMA InputsAreListed ==
    ASSUME NEW bx \in Seq(Tx), bx # <<>>
    PROVE  ToSet(FlattenSeq(InputLists(bx))) = InputsOf(bx)
  <1> DEFINE lists == InputLists(bx)
             n == Len(bx)
  <1>1. /\ lists \in Seq(Seq(Input)) /\ Len(lists) = n /\ lists # <<>>
        /\ \A i \in 1 .. n : lists[i] = bx[i].inputs
    BY InputListsType
  <1>2. n \in Nat /\ n # 0 /\ DOMAIN bx = 1 .. n
    OBVIOUS
  <1> HIDE DEF lists, n
  <1>3. PICK flat \in [1 .. Len(lists) -> Seq(Input)] : Flattens(flat, lists)
    BY <1>1, FlattenSteps
  <1>4. \A k \in 1 .. Len(lists) : ToSet(flat[k]) = SetUpto(lists, k)
    BY <1>1, <1>3, FlattenSets
  <1>5. n \in 1 .. Len(lists) /\ FlattenSeq(lists) = flat[n]
    BY <1>1, <1>2, <1>3 DEF Flattens
  <1>6. SetUpto(lists, n) = InputsOf(bx)
    BY <1>1, <1>2 DEF SetUpto, InputsOf
  <1> QED  BY <1>4, <1>5, <1>6 DEF lists

\* What a block that Block::verify accepts is worth.
LEMMA VerifiedValue ==
    ASSUME NEW bx \in Seq(ValidTx), Verify(bx, InitialCoins, Wallet)
    PROVE  Worth(Value(FlattenSeq(OutputLists(bx))), Cardinality(SpentCoins(InputsOf(bx))),
                 \A i \in DOMAIN bx : ~Wraps(bx[i]))
           /\ Cardinality(SpentCoins(InputsOf(bx))) \in Nat
  <1> DEFINE exact == \A i \in DOMAIN bx : ~Wraps(bx[i])
  <1>1. CASE bx = <<>>
    <2>1. InputsOf(bx) = {} /\ OutputLists(bx) = <<>>
      <3>1. DOMAIN bx = {}
        BY <1>1
      <3>2. OutputLists(bx) \in Seq(Seq(Output)) /\ Len(OutputLists(bx)) = 0
        <4>1. OutputLists(bx) = [i \in 1 .. 0 |-> bx[i].outputs]
          BY <3>1, 1 .. 0 = {} DEF OutputLists
        <4> QED  BY <4>1
      <3> QED  BY <3>1, <3>2 DEF InputsOf
    <2>2. SpentCoins({}) = {}
      BY DEF SpentCoins
    <2>3. Cardinality(SpentCoins(InputsOf(bx))) = 0
      BY <2>1, <2>2, FS_EmptySet
    <2>4. FlattenSeq(<<>>) = <<>>
      BY DEF FlattenSeq
    <2>5. Values(<<>>) = <<>>
      <3>1. <<>> \in Seq(Output)
        OBVIOUS
      <3>2. Values(<<>>) \in Seq(Nat) /\ Len(Values(<<>>)) = 0
        BY <3>1, ValuesType
      <3> QED  BY <3>2
    <2>6. Value(FlattenSeq(OutputLists(bx))) = 0
      BY <2>1, <2>4, <2>5, TotalShort DEF Value
    <2>7. 0 = Coins * 0 + 0 * IntRangeSize
      BY IntRange
    <2> HIDE DEF exact
    <2>8. Worth(0, 0, exact)
      BY <2>7 DEF Worth
    <2>9. Worth(Value(FlattenSeq(OutputLists(bx))), Cardinality(SpentCoins(InputsOf(bx))), exact)
      BY <2>3, <2>6, <2>8
    <2>10. Cardinality(SpentCoins(InputsOf(bx))) \in Nat
      BY <2>3
    <2> QED  BY <2>9, <2>10 DEF exact
  <1>2. CASE bx # <<>>
    <2>1. /\ bx \in Seq(Tx)
          /\ \A i \in 1 .. Len(bx) :
                /\ CheckSpendingConditions(bx[i], InitialCoins, Wallet)
                /\ Len(bx[i].inputs) <= 1
          /\ Cardinality(ToSet(FlattenSeq(InputLists(bx)))) = Len(FlattenSeq(InputLists(bx)))
      BY <1>2, OneInput
    <2>2. ToSet(FlattenSeq(InputLists(bx))) = InputsOf(bx)
      BY <1>2, <2>1, InputsAreListed
    <2>3. InputsOf(bx) \subseteq Spendable(InitialCoins)
      <3>1. ASSUME NEW tx \in ValidTx PROVE ToSet(tx.inputs) \subseteq Spendable(InitialCoins)
        <4>1. tx \in Tx /\ ToSet(tx.inputs) \subseteq Spendable(CoinsOf(tx.senderID))
          BY ValidIsOwn DEF OwnTx
        <4>2. tx.senderID \in Wallet
          BY <4>1 DEF Tx
        <4> QED  BY <4>1, <4>2, CoinLists
      <3>2. \A i \in DOMAIN bx : bx[i] \in ValidTx
        OBVIOUS
      <3> QED  BY <3>1, <3>2 DEF InputsOf
    <2>4. /\ Cardinality(SpentCoins(InputsOf(bx))) = Len(FlattenSeq(InputLists(bx)))
          /\ Cardinality(SpentCoins(InputsOf(bx))) \in Nat
      BY <2>1, <2>2, <2>3, CoinsPerInput
    <2>5. Worth(Value(FlattenSeq(OutputLists(bx))), Len(FlattenSeq(InputLists(bx))),
                \A i \in 1 .. Len(bx) : ~Wraps(bx[i]))
      BY <1>2, <2>1, BlockValue
    <2>6. DOMAIN bx = 1 .. Len(bx)
      OBVIOUS
    <2> QED  BY <2>4, <2>5, <2>6
  <1> QED  BY <1>1, <1>2

\* The delivered block makes no coins and loses none, for any width of int
\* and whatever the wallets ask for.
THEOREM BlockKeepsValue == Spec => []ValueKept
  <1>1. LedgerInv => ValueKept
    <2> SUFFICES ASSUME LedgerInv, npc # "run" PROVE ValueKept
      BY DEF ValueKept
    <2> DEFINE outs == FlattenSeq(OutputLists(voted))
               paid == Value(outs)
               count == Cardinality(SpentCoins(InputsOf(voted)))
    <2>1. voted \in Seq(ValidTx) /\ Verify(voted, InitialCoins, Wallet)
      BY DEF LedgerInv, CoinsOK, VotedOK, ProposedOK
    <2>2. count \in Nat /\ Worth(paid, count, \A i \in DOMAIN voted : ~Wraps(voted[i]))
      BY <2>1, VerifiedValue
    <2>3. ValueKept <=>
            /\ paid % IntRangeSize = (Coins * count) % IntRangeSize
            /\ (\A i \in DOMAIN voted : ~Wraps(voted[i])) => paid = Coins * count
      BY DEF ValueKept, Value, Values, Total, IntRangeSize, OutputLists, SpentCoins
    <2> HIDE DEF outs, paid, count
    <2>4. PICK q \in Nat : /\ paid = Coins * count + q * IntRangeSize
                           /\ (\A i \in DOMAIN voted : ~Wraps(voted[i])) => q = 0
      BY <2>2 DEF Worth
    <2> DEFINE spent == Coins * count
    <2>5. spent \in Nat
      BY <2>2, IntRange
    <2> HIDE DEF spent
    <2>6. paid = spent + q * IntRangeSize
      BY <2>4 DEF spent
    <2>7. paid % IntRangeSize = spent % IntRangeSize
      BY <2>5, <2>6, IntRange, ModAdd
    <2>8. q = 0 => paid = spent
      BY <2>5, <2>6, IntRange
    <2> QED  BY <2>3, <2>4, <2>7, <2>8 DEF spent
  <1> QED  BY <1>1, AlwaysLedger, PTL
=============================================================================
