------------------------------ MODULE KeyChain ------------------------------
(***************************************************************************)
(* The chain of one-time keys of one validator: Node::signBlock and        *)
(* broadcastMessage as its threads run them, Node::checkBlockSig and the   *)
(* signatures that updateRecvMessages keeps at one receiver.               *)
(*                                                                         *)
(* In the leader two threads call broadcastMessage: the one of Propose and *)
(* the one of RunProtocol.  signBlock takes no lock.  Its accesses to the  *)
(* members of Node are one step each; a copy of a key falls between two    *)
(* iterations of KeyGen.  (Anything finer is undefined.)                   *)
(***************************************************************************)
EXTENDS OneTimeSignature, FiniteSets

CONSTANTS
    Thread,     \* the threads that broadcast
    Block,      \* the header ids they broadcast, as characters
    MaxCalls,   \* bound: calls of broadcastMessage
    MaxLost     \* bound: messages that do not reach the receiver

ASSUME ChainAssumption ==
    /\ IsFiniteSet(Thread) /\ Thread # {}
    /\ Block \subseteq 0 .. 2^CharBits - 1
    /\ MaxCalls \in 0 .. 2^CharBits - 1
    /\ MaxLost \in Nat

VARIABLES
    nextPair,    \* my_next_key_pair_
    curPrivate,  \* my_current_private_key_
    curPublic,   \* my_current_public_key_
    pc,          \* where each thread is in broadcastMessage
    frame,       \* the locals of its call
    calls,       \* how many calls there have been
    aborted,     \* the calls that have ended the process
    log,         \* the messages that were broadcast, in the order of the queues
    handled,     \* how many of them the receiver has taken, or will never get
    lost,        \* which of them were lost on the way
    known,       \* val_sig_keys_[validator] of the receiver, if any
    stored,      \* the BlockSignatures it has added to its blocks
    \* History: the pairs of calls that were in signBlock or on the way to
    \* Broadcast at once, the blocks signed, and the messages refused.
    overlaps, signed, rejected

signer   == <<nextPair, curPrivate, curPublic, pc, frame, calls, aborted>>
receiver == <<handled, lost, known, stored, rejected>>
vars     == <<signer, log, receiver, overlaps, signed>>

\* The characters of Block::getDigest that matter: Sign and Verify cut off
\* what is longer than a key.  A pair is generated by a call and has its
\* number.
Digest(block, nextKey) ==
    <<nextKey.S0[1].hashed[1], block, 0>>

\* The Node's constructor calls KeyGen.
Init ==
    /\ nextPair = [private |-> PrivateKey(0), public |-> PublicKey(0)]
    /\ curPrivate = NoKey
    /\ curPublic = NoKey
    /\ pc = [t \in Thread |-> "idle"]
    /\ frame = [t \in Thread |-> <<>>]
    /\ calls = 0
    /\ aborted = {}
    /\ log = <<>>
    /\ handled = 0
    /\ lost = {}
    /\ known = <<>>
    /\ stored = <<>>
    /\ overlaps = {}
    /\ signed = {}
    /\ rejected = {}

-----------------------------------------------------------------------------
(* signBlock.                                                              *)

Busy == {t \in Thread : pc[t] # "idle"}

At(t, from, to) ==
    /\ aborted = {}
    /\ pc[t] = from
    /\ pc' = [pc EXCEPT ![t] = to]

\* Mutant: the key is read once and kept.
ReadPrivateOnce(t, b) ==
    /\ calls < MaxCalls
    /\ At(t, "idle", "public")
    /\ curPrivate' = IF curPrivate = NoKey THEN nextPair.private ELSE curPrivate
    /\ calls' = calls + 1
    /\ frame' = [frame EXCEPT ![t] = [call |-> calls + 1, block |-> b,
                                      made |-> 0, nextKey |-> NoKey, sig |-> <<>>]]
    /\ overlaps' = overlaps \cup {{calls + 1, frame[u].call} : u \in Busy}
    /\ UNCHANGED <<nextPair, curPublic, aborted, log, receiver, signed>>

ReadPrivate(t, b) ==
    /\ calls < MaxCalls
    /\ At(t, "idle", "public")
    /\ curPrivate' = nextPair.private
    /\ calls' = calls + 1
    /\ frame' = [frame EXCEPT ![t] = [call |-> calls + 1, block |-> b,
                                      made |-> 0, nextKey |-> NoKey, sig |-> <<>>]]
    /\ overlaps' = overlaps \cup {{calls + 1, frame[u].call} : u \in Busy}
    /\ UNCHANGED <<nextPair, curPublic, aborted, log, receiver, signed>>

ReadPublic(t) ==
    /\ At(t, "public", "clear")
    /\ curPublic' = nextPair.public
    /\ UNCHANGED <<nextPair, curPrivate, frame, calls, aborted, log, receiver,
                   overlaps, signed>>

\* Mutant: KeyGen clears the private key only.
KeyGenClearPrivate(t) ==
    /\ At(t, "clear", "push")
    /\ nextPair' = [nextPair EXCEPT !.private = NoKey]
    /\ UNCHANGED <<curPrivate, curPublic, frame, calls, aborted, log, receiver,
                   overlaps, signed>>

KeyGenClear(t) ==
    /\ At(t, "clear", "push")
    /\ nextPair' = [private |-> NoKey, public |-> NoKey]
    /\ UNCHANGED <<curPrivate, curPublic, frame, calls, aborted, log, receiver,
                   overlaps, signed>>

Push(key, part, i) ==
    [S0 |-> Append(key.S0, part.S0[i]), S1 |-> Append(key.S1, part.S1[i])]

\* One iteration of the loop of KeyGen.
KeyGenPush(t) ==
    LET c == frame[t].call
        i == frame[t].made + 1
    IN  /\ At(t, "push", IF i = KeyLen THEN "next" ELSE "push")
        /\ nextPair' = [private |-> Push(nextPair.private, PrivateKey(c), i),
                        public |-> Push(nextPair.public, PublicKey(c), i)]
        /\ frame' = [frame EXCEPT ![t].made = i]
        /\ UNCHANGED <<curPrivate, curPublic, calls, aborted, log, receiver,
                       overlaps, signed>>

\* print_SigKey reads the first string of a key.
ReadNext(t) ==
    /\ At(t, "next", "sign")
    /\ frame' = [frame EXCEPT ![t].nextKey = nextPair.public]
    /\ aborted' = IF nextPair.public = NoKey \/ curPublic = NoKey
                  THEN {frame[t].call} ELSE {}
    /\ UNCHANGED <<nextPair, curPrivate, curPublic, calls, log, receiver,
                   overlaps, signed>>

\* Block::sign: SigKey_to_string throws in getDigest.
SignThrows(t) ==
    /\ At(t, "sign", "sign")
    /\ ~Whole(frame[t].nextKey)
    /\ aborted' = {frame[t].call}
    /\ UNCHANGED <<nextPair, curPrivate, curPublic, frame, calls, log, receiver,
                   overlaps, signed>>

\* Mutant: the block is signed with the pair that was just generated.
SignBlockNextKey(t) ==
    LET digest == Digest(frame[t].block, frame[t].nextKey)
        sig == Sign(digest, nextPair.private)
    IN  /\ At(t, "sign", "assert")
        /\ Whole(frame[t].nextKey)
        /\ frame' = [frame EXCEPT ![t].sig = sig]
        /\ signed' = signed \cup {[call |-> frame[t].call, sig |-> sig]}
        /\ UNCHANGED <<nextPair, curPrivate, curPublic, calls, aborted, log,
                       receiver, overlaps>>

SignBlock(t) ==
    LET digest == Digest(frame[t].block, frame[t].nextKey)
        sig == Sign(digest, curPrivate)
    IN  /\ At(t, "sign", "assert")
        /\ Whole(frame[t].nextKey)
        /\ frame' = [frame EXCEPT ![t].sig = sig]
        /\ signed' = signed \cup {[call |-> frame[t].call, sig |-> sig]}
        /\ UNCHANGED <<nextPair, curPrivate, curPublic, calls, aborted, log,
                       receiver, overlaps>>

\* assert(Verify(...)): -1 passes as well as 1.
CheckSignature(t) ==
    LET digest == Digest(frame[t].block, frame[t].nextKey)
    IN  /\ At(t, "assert", "broadcast")
        /\ aborted' = IF Verify(digest, frame[t].sig, curPublic) = 0
                      THEN {frame[t].call} ELSE {}
        /\ UNCHANGED <<nextPair, curPrivate, curPublic, frame, calls, log,
                       receiver, overlaps, signed>>

Broadcast(t) ==
    /\ At(t, "broadcast", "idle")
    /\ log' = Append(log, frame[t])
    /\ frame' = [frame EXCEPT ![t] = <<>>]
    /\ UNCHANGED <<nextPair, curPrivate, curPublic, calls, aborted, receiver,
                   overlaps, signed>>

-----------------------------------------------------------------------------
(* The receiver.                                                           *)

\* Mutant: the key is kept when the signature is wrong.
NextKnownIfValid(msg, valid) == IF valid THEN <<msg.nextKey>> ELSE known

\* The announced key is saved whatever the signature is worth.
NextKnown(msg, valid) == <<msg.nextKey>>

\* The key that is stored with a signature.
StoredKey == known'[1]

\* checkBlockSig, and the signature that updateRecvMessages keeps of a block
\* that passes: with the entry that checkBlockSig has just replaced.
Receive ==
    LET msg == log[handled + 1]
        valid == \/ known = <<>>
                 \/ Verify(Digest(msg.block, msg.nextKey), msg.sig, known[1]) = 1
    IN  /\ handled < Len(log)
        /\ handled' = handled + 1
        /\ known' = NextKnown(msg, valid)
        /\ IF valid
           THEN /\ stored' = Append(stored,
                     [at |-> handled + 1, signature |-> msg.sig, publicKey |-> StoredKey])
                /\ UNCHANGED rejected
           ELSE /\ rejected' = rejected \cup {handled + 1}
                /\ UNCHANGED stored
        /\ UNCHANGED <<signer, log, lost, overlaps, signed>>

Lose ==
    /\ handled < Len(log)
    /\ Cardinality(lost) < MaxLost
    /\ handled' = handled + 1
    /\ lost' = lost \cup {handled + 1}
    /\ UNCHANGED <<signer, log, known, stored, rejected, overlaps, signed>>

Next ==
    \/ \E t \in Thread, b \in Block : ReadPrivate(t, b)
    \/ \E t \in Thread :
          \/ ReadPublic(t) \/ KeyGenClear(t) \/ KeyGenPush(t)
          \/ ReadNext(t) \/ SignBlock(t) \/ SignThrows(t) \/ CheckSignature(t)
          \/ Broadcast(t)
    \/ Receive
    \/ Lose

Spec == Init /\ [][Next]_vars

-----------------------------------------------------------------------------
(* Properties.                                                             *)

Overlapped(c) == \E pair \in overlaps : c \in pair

\* Calls c and the one before it ran with nothing beside them.
Clean(c) == \A d \in {c - 1, c} : ~Overlapped(d)

\* Every variable has its type: the two halves of a pair grow together, and no
\* message leaves with an announced key of the wrong length.
TypeOK ==
    /\ LET lists(key) == {Len(key.S0), Len(key.S1)}
       IN  /\ lists(nextPair.private) = lists(nextPair.public)
           /\ \A n \in lists(nextPair.private) \cup lists(curPrivate) \cup lists(curPublic) :
                 n <= Cardinality(Thread) * KeyLen
    /\ pc \in [Thread -> {"idle", "public", "clear", "push", "next",
                          "sign", "assert", "broadcast"}]
    /\ calls \in 0 .. MaxCalls
    /\ aborted \subseteq 1 .. calls
    /\ handled \in 0 .. Len(log)
    /\ lost \cup rejected \subseteq 1 .. handled
    /\ \A i \in DOMAIN log : Whole(log[i].nextKey)

\* A one-time key is used once: two signatures give away both secrets of one
\* place of one key only if each of the two calls of signBlock overlapped
\* another (not always each other: a third call can carry a key over).
OneTime ==
    \A x, y \in signed : \A i \in 1 .. KeyLen :
        (/\ x.sig # <<>> /\ y.sig # <<>>
         /\ x.sig[i][1] = y.sig[i][1] /\ x.sig[i] # y.sig[i])
        => Overlapped(x.call) /\ Overlapped(y.call)

\* The process is ended by the assertion of signBlock, by a key of the wrong
\* length or by an empty one only when two calls overlap.
AbortsOnlyOnOverlap == \A c \in aborted : Overlapped(c)

\* A signature that its sender's threads did not get in each other's way for
\* is refused only if the message before it was lost.
CleanAccepted ==
    \A i \in rejected :
        Clean(log[i].call) => i - 1 \in lost
=============================================================================
