--------------------------- MODULE KeyChainProofs ---------------------------
(***************************************************************************)
(* Proofs about the one-time signatures of lib/signature/hash.cc and about *)
(* KeyChain, for any number of threads, blocks and calls and for keys and  *)
(* messages of every length.  What is about the chain is about calls that  *)
(* ran alone: what the others leave in the keys is only known to be a pair *)
(* of lists that fit.                                                      *)
(***************************************************************************)
EXTENDS KeyChain, SequenceTheorems, FiniteSetTheorems, TLAPS

-----------------------------------------------------------------------------
(* What the one-time signatures promise.                                   *)

\* The messages have the same first KeyLen bits.
SameBits(m, n) == \A i \in 1 .. KeyLen : (Bit(m, i) = 1) <=> (Bit(n, i) = 1)

\* What KeyGen generates has the length that Sign and Verify ask for.
LEMMA GeneratedWhole ==
    ASSUME NEW k
    PROVE  Whole(PrivateKey(k)) /\ Whole(PublicKey(k))
<1>1. KeyLen \in Nat
  BY KeyAssumption
<1>2. /\ Len(PrivateKey(k).S0) = KeyLen
      /\ Len(PrivateKey(k).S1) = KeyLen
  BY <1>1 DEF PrivateKey
<1>3. /\ Len(PublicKey(k).S0) = KeyLen
      /\ Len(PublicKey(k).S1) = KeyLen
  BY <1>1 DEF PublicKey
<1> QED
  BY <1>2, <1>3 DEF Whole

\* Sign returns one secret for each bit.
LEMMA SignatureOf ==
    ASSUME NEW k, NEW m
    PROVE  /\ Len(Sign(m, PrivateKey(k))) = KeyLen
           /\ \A i \in 1 .. KeyLen :
                 Sign(m, PrivateKey(k))[i] =
                     Secret(k, i, IF Bit(m, i) = 1 THEN 1 ELSE 0)
<1> DEFINE sig == [i \in 1 .. KeyLen |-> IF Bit(m, i) = 1
                                         THEN PrivateKey(k).S1[i]
                                         ELSE PrivateKey(k).S0[i]]
<1>1. KeyLen \in Nat
  BY KeyAssumption
<1>2. Sign(m, PrivateKey(k)) = sig
  BY GeneratedWhole DEF Sign
<1>3. Len(sig) = KeyLen
  BY <1>1
<1>4. ASSUME NEW i \in 1 .. KeyLen
      PROVE  sig[i] = Secret(k, i, IF Bit(m, i) = 1 THEN 1 ELSE 0)
  BY <1>4 DEF PrivateKey
<1> HIDE DEF sig
<1> QED
  BY <1>2, <1>3, <1>4

\* What Verify compares at place i for a generated key.
LEMMA PlaceMatches ==
    ASSUME NEW k, NEW j, NEW m, NEW n, NEW i \in 1 .. KeyLen
    PROVE  hash(Sign(m, PrivateKey(k))[i])
              = (IF Bit(n, i) = 1 THEN PublicKey(j).S1[i] ELSE PublicKey(j).S0[i])
           <=> k = j /\ ((Bit(m, i) = 1) <=> (Bit(n, i) = 1))
<1> DEFINE b(x) == IF Bit(x, i) = 1 THEN 1 ELSE 0
<1>1. hash(Sign(m, PrivateKey(k))[i]) = [hashed |-> <<k, i, b(m)>>]
  BY SignatureOf DEF hash, Secret
<1>2. (IF Bit(n, i) = 1 THEN PublicKey(j).S1[i] ELSE PublicKey(j).S0[i])
        = [hashed |-> <<j, i, b(n)>>]
  BY DEF PublicKey, hash, Secret
<1>3. [hashed |-> <<k, i, b(m)>>] = [hashed |-> <<j, i, b(n)>>]
        <=> k = j /\ b(m) = b(n)
  <2> HIDE DEF b
  <2>1. ASSUME [hashed |-> <<k, i, b(m)>>] = [hashed |-> <<j, i, b(n)>>]
        PROVE  <<k, i, b(m)>> = <<j, i, b(n)>>
    <3>1. [hashed |-> <<k, i, b(m)>>].hashed = [hashed |-> <<j, i, b(n)>>].hashed
      BY <2>1
    <3> QED
      BY <3>1
  <2> QED
    BY <2>1
<1>4. b(m) = b(n) <=> ((Bit(m, i) = 1) <=> (Bit(n, i) = 1))
  OBVIOUS
<1> HIDE DEF b
<1> QED
  BY <1>1, <1>2, <1>3, <1>4

\* signature::Verify accepts what signature::Sign has made of message m with
\* a generated key exactly for the public key of the same pair and for the
\* messages that agree with m in the first KEY_LEN_ bits: the rest of a
\* digest, which is twice as long, is signed by nobody.
THEOREM VerifyExact ==
    ASSUME NEW k, NEW j, NEW m, NEW n
    PROVE  Verify(n, Sign(m, PrivateKey(k)), PublicKey(j)) = 1
              <=> k = j /\ SameBits(m, n)
<1> DEFINE sig == Sign(m, PrivateKey(k))
           expected(i) == IF Bit(n, i) = 1 THEN PublicKey(j).S1[i]
                                           ELSE PublicKey(j).S0[i]
<1>1. Whole(PublicKey(j)) /\ Len(sig) = KeyLen
  BY GeneratedWhole, SignatureOf
<1>2. Verify(n, sig, PublicKey(j)) = 1
        <=> \A i \in 1 .. KeyLen : hash(sig[i]) = expected(i)
  BY <1>1 DEF Verify
<1>3. \A i \in 1 .. KeyLen :
        hash(sig[i]) = expected(i)
          <=> k = j /\ ((Bit(m, i) = 1) <=> (Bit(n, i) = 1))
  BY PlaceMatches
<1>4. 1 \in 1 .. KeyLen
  BY KeyAssumption
<1> HIDE DEF sig, expected
<1>5. (\A i \in 1 .. KeyLen : hash(sig[i]) = expected(i))
        <=> k = j /\ SameBits(m, n)
  BY <1>3, <1>4 DEF SameBits
<1> QED
  BY <1>2, <1>5 DEF sig

\* Without a generated key Sign returns nothing, and Verify returns -1 for
\* it: neither 0, which the assertion of signBlock would stop at, nor 1,
\* which checkBlockSig asks for.
THEOREM UnsignedIsRefused ==
    ASSUME NEW m, NEW key, NEW public, ~Whole(key)
    PROVE  Verify(m, Sign(m, key), public) = -1
<1>1. Sign(m, key) = <<>>
  BY DEF Sign
<1>2. Len(<<>>) # KeyLen
  BY KeyAssumption
<1> QED
  BY <1>1, <1>2 DEF Verify

-----------------------------------------------------------------------------
(* The invariant of the keys.                                              *)

\* What getRandomBits has returned up to call n, and the keys made of it.
KeyOver(S)   == [S0 : Seq(S), S1 : Seq(S)]
SecretsTo(n) == (0 .. n) \X (1 .. KeyLen) \X {0, 1}
HashesTo(n)  == [hashed : SecretsTo(n)]

Frame == [call : 1 .. MaxCalls, block : Block, made : 0 .. KeyLen,
          nextKey : KeyOver(HashesTo(MaxCalls)), sig : Seq(SecretsTo(MaxCalls))]

\* The two halves of a pair fit: lists of one length, hashed place by place.
Hashed(list, hashes) ==
    /\ Len(hashes) = Len(list)
    /\ \A i \in 1 .. Len(list) : hashes[i] = hash(list[i])
Fits(private, public) ==
    /\ Hashed(private.S0, public.S0) /\ Hashed(private.S1, public.S1)
    /\ Len(private.S0) = Len(private.S1)

Pair(k) == [private |-> PrivateKey(k), public |-> PublicKey(k)]

\* The types, as the steps need them.
KeysOK ==
    /\ nextPair \in [private : KeyOver(SecretsTo(calls)), public : KeyOver(HashesTo(MaxCalls))]
    /\ Fits(nextPair.private, nextPair.public)
    /\ curPrivate \in KeyOver(SecretsTo(calls))
    /\ curPublic \in KeyOver(HashesTo(MaxCalls))
FramesOK ==
    /\ pc \in [Thread -> {"idle", "public", "clear", "push", "next",
                          "sign", "assert", "broadcast"}]
    /\ frame \in [Thread -> Frame \cup {<<>>}]
    /\ calls \in 0 .. MaxCalls
    /\ \A t \in Thread : pc[t] # "idle" => frame[t] \in Frame /\ frame[t].call <= calls
    /\ \A t \in Thread : pc[t] \in {"public", "clear"} => frame[t].made = 0
    /\ \A t \in Thread : pc[t] = "push" => frame[t].made < KeyLen
    /\ \A t \in Thread : pc[t] \in {"assert", "broadcast"} => Whole(frame[t].nextKey)
    /\ aborted \subseteq 1 .. calls
SignedOK ==
    \A x \in signed : /\ x.call \in 1 .. calls
                      /\ x.sig \in Seq(SecretsTo(calls))
                      /\ x.sig = <<>> \/ Len(x.sig) = KeyLen
LogOK ==
    /\ log \in Seq(Frame)
    /\ \A i \in 1 .. Len(log) : log[i].call <= calls /\ Whole(log[i].nextKey)
ReceiverOK ==
    /\ handled \in 0 .. Len(log)
    /\ lost \subseteq 1 .. handled
    /\ rejected \subseteq 1 .. handled
    /\ stored \in Seq([at : Nat, signature : Seq(SecretsTo(MaxCalls)),
                       publicKey : KeyOver(HashesTo(MaxCalls))])
Typed == KeysOK /\ FramesOK /\ SignedOK /\ LogOK /\ ReceiverOK

\* Two calls that are under way overlap, the newest call is under way alone
\* or has overlapped whatever else is, and no call outlasts a later one that
\* overlapped none.
Overlaps ==
    /\ \A t, u \in Busy : t # u => Overlapped(frame[t].call)
    /\ \A t \in Busy : frame[t].call = calls \/ Overlapped(frame[t].call)
    /\ \A t \in Busy, d \in 1 .. calls : Overlapped(d) \/ d <= frame[t].call

\* Every call is under way or in the log.
Counts == Len(log) + Cardinality(Busy) = calls

Filled == nextPair.public = NoKey => \E t \in Thread : pc[t] = "push"

\* The first n places of a key: what the loop of KeyGen has made of it.
KeyPart(key, n) == [S0 |-> SubSeq(key.S0, 1, n), S1 |-> SubSeq(key.S1, 1, n)]
PairPart(k, n)  == [private |-> KeyPart(PrivateKey(k), n),
                    public  |-> KeyPart(PublicKey(k), n)]

\* A call that runs alone has the newest number, reads a pair that fits and
\* leaves the pair it has generated.
AloneAt(t) ==
    LET c == frame[t].call
    IN  /\ curPrivate \in KeyOver(SecretsTo(c - 1))
        /\ ~Overlapped(c - 1) => curPrivate = PrivateKey(c - 1)
        /\ pc[t] = "public" => curPrivate = nextPair.private
        /\ pc[t] # "public" => Fits(curPrivate, curPublic) /\ curPublic # NoKey
        /\ pc[t] = "push" => nextPair = PairPart(c, frame[t].made)
        /\ pc[t] \in {"next", "sign", "assert", "broadcast"} => nextPair = Pair(c)
        /\ pc[t] \in {"sign", "assert", "broadcast"} => frame[t].nextKey = PublicKey(c)
        /\ pc[t] \in {"assert", "broadcast"} =>
              frame[t].sig = Sign(Digest(frame[t].block, PublicKey(c)), curPrivate)
Alone == \A t \in Busy : ~Overlapped(frame[t].call) => AloneAt(t)

\* What the last call leaves, if it ran alone.
Left == (Busy = {} /\ ~Overlapped(calls)) => nextPair = Pair(calls)

\* The message of a call that ran alone is in the log at the place of its
\* number, announces the pair of that number and is signed with an older one.
InPlace ==
    \A d \in 1 .. calls : ~Overlapped(d) =>
        \/ \E t \in Busy : frame[t].call = d
        \/ d <= Len(log) /\ log[d].call = d
LoggedAt(i) ==
    LET c == log[i].call
    IN  /\ c = i
        /\ log[i].nextKey = PublicKey(c)
        /\ log[i].sig \in Seq(SecretsTo(c - 1))
        /\ ~Overlapped(c - 1) =>
              log[i].sig = Sign(Digest(log[i].block, PublicKey(c)), PrivateKey(c - 1))
Logged == InPlace /\ \A i \in 1 .. Len(log) : ~Overlapped(log[i].call) => LoggedAt(i)

\* The receiver has the key that the last message announced, unless that one
\* was lost; and has stored the messages that were not.
Received ==
    /\ handled = 0 => known = <<>>
    /\ (handled > 0 /\ handled \notin lost) => known = <<log[handled].nextKey>>
    /\ \A n \in 1 .. Len(stored) :
          LET s == stored[n]
          IN  /\ s.at \in (1 .. handled) \ lost
              /\ s.signature = log[s.at].sig
              /\ s.publicKey = log[s.at].nextKey

\* The keys are no longer than the threads can make them.
Places == Thread \X (1 .. KeyLen)
Drawn  == {p \in Places : pc[p[1]] = "push" => p[2] <= frame[p[1]].made}
Short ==
    /\ Len(nextPair.private.S0) <= Cardinality(Drawn)
    /\ Len(curPrivate.S0) <= Cardinality(Thread) * KeyLen
    /\ Len(curPublic.S0) <= Cardinality(Thread) * KeyLen
    /\ Len(curPrivate.S1) = Len(curPrivate.S0) /\ Len(curPublic.S1) = Len(curPublic.S0)

\* Call k has drawn a secret of the list, or of the key.
Uses(list, k) == \E i \in 1 .. Len(list) : list[i][1] = k
Holds(key, k) == Uses(key.S0, k) \/ Uses(key.S1, k)

\* Calls have numbers of their own, sign once, and draw no secret before the
\* loop of KeyGen.
Fresh ==
    /\ \A t, u \in Busy : t # u => frame[t].call # frame[u].call
    /\ \A t \in Busy : pc[t] \in {"public", "clear"} =>
          /\ ~Holds(nextPair.private, frame[t].call)
          /\ ~Holds(curPrivate, frame[t].call)
          /\ \A x \in signed : ~Uses(x.sig, frame[t].call)
    /\ \A t \in Busy, x \in signed :
          pc[t] \notin {"assert", "broadcast"} => frame[t].call # x.call
    /\ \A x, y \in signed : x.call = y.call => x = y

\* A thread is about to clear the next pair; nobody has signed with call k's.
Clearing == \E t \in Thread : pc[t] \in {"public", "clear"}
Unused(k) == ~Holds(curPrivate, k) /\ \A x \in signed : ~Uses(x.sig, k)

\* The pair of call k is being made, by the only thread that adds to it.
InLoop == {t \in Thread : pc[t] = "push"}
Made(k) ==
    \/ \E t \in Thread : /\ InLoop = {t} /\ frame[t].call = k
                         /\ nextPair.private = KeyPart(PrivateKey(k), frame[t].made)
    \/ InLoop = {} /\ nextPair.private = PrivateKey(k)

\* After the last clear() the next pair is the unused one of one call, or
\* what two threads have still to push makes it too long to sign with.
Rem(t) == IF pc[t] = "push" THEN KeyLen - frame[t].made ELSE 0
Spoilt == \E t, u \in Thread :
             t # u /\ Len(nextPair.private.S0) + Rem(t) + Rem(u) > KeyLen
Settles == Clearing \/ Spoilt \/ \E k \in 0 .. calls : Unused(k) /\ Made(k)

\* A call that runs alone signs with a pair that nobody has signed with, or
\* with none.
SignsUnused ==
    \A t \in Busy : (~Overlapped(frame[t].call) /\ pc[t] \notin {"assert", "broadcast"}) =>
        \/ ~Whole(curPrivate)
        \/ \E k \in 0 .. frame[t].call - 1 :
              /\ curPrivate = PrivateKey(k)
              /\ \A x \in signed : ~Uses(x.sig, k)

\* The pair that a call has signed with alone is gone.
Gone(x, k) ==
    /\ \A i \in 1 .. Len(x.sig) : x.sig[i][1] = k
    /\ \A y \in signed : y.call # x.call => ~Uses(y.sig, k)
    /\ ~Holds(nextPair.private, k)
    /\ (\E t \in Busy : frame[t].call # x.call) => ~Holds(curPrivate, k)
Burnt ==
    \A x \in signed : (~Overlapped(x.call) /\ x.sig # <<>>) =>
        \E k \in 0 .. x.call - 1 : Gone(x, k)

-----------------------------------------------------------------------------
(* Keys.                                                                   *)

\* A longer history has more secrets.
LEMMA SecretsGrow ==
    ASSUME NEW m \in Nat, NEW n \in Nat, m <= n
    PROVE  /\ SecretsTo(m) \subseteq SecretsTo(n)
           /\ KeyOver(SecretsTo(m)) \subseteq KeyOver(SecretsTo(n))
           /\ Seq(SecretsTo(m)) \subseteq Seq(SecretsTo(n))
<1>1. SecretsTo(m) \subseteq SecretsTo(n)
  <2>1. 0 .. m \subseteq 0 .. n
    OBVIOUS
  <2> QED
    BY <2>1 DEF SecretsTo
<1>2. Seq(SecretsTo(m)) \subseteq Seq(SecretsTo(n))
  BY <1>1, SeqMonotonic
<1> QED
  BY <1>1, <1>2 DEF KeyOver

\* An empty key is a key over anything.
LEMMA EmptyKey ==
    ASSUME NEW S
    PROVE  NoKey \in KeyOver(S)
BY EmptySeq, Zenon DEF NoKey, KeyOver

\* KeyGen makes keys of its secrets.
LEMMA KeyTypes ==
    ASSUME NEW n \in Nat, NEW k \in 0 .. n
    PROVE  /\ PrivateKey(k) \in KeyOver(SecretsTo(n))
           /\ PublicKey(k) \in KeyOver(HashesTo(n))
<1>1. KeyLen \in Nat
  BY KeyAssumption
<1>2. \A i \in 1 .. KeyLen, b \in {0, 1} : Secret(k, i, b) \in SecretsTo(n)
  BY DEF Secret, SecretsTo
<1>3. \A i \in 1 .. KeyLen, b \in {0, 1} : hash(Secret(k, i, b)) \in HashesTo(n)
  BY <1>2 DEF hash, HashesTo
<1>4. /\ [i \in 1 .. KeyLen |-> Secret(k, i, 0)] \in Seq(SecretsTo(n))
      /\ [i \in 1 .. KeyLen |-> Secret(k, i, 1)] \in Seq(SecretsTo(n))
  BY <1>1, <1>2
<1>5. /\ [i \in 1 .. KeyLen |-> hash(Secret(k, i, 0))] \in Seq(HashesTo(n))
      /\ [i \in 1 .. KeyLen |-> hash(Secret(k, i, 1))] \in Seq(HashesTo(n))
  BY <1>1, <1>3
<1> QED
  BY <1>4, <1>5, Zenon DEF PrivateKey, PublicKey, KeyOver

\* The lists of a key that KeyGen has added to.
LEMMA PushTypes ==
    ASSUME NEW S, NEW key \in KeyOver(S), NEW part \in KeyOver(S), Whole(part),
           NEW i \in 1 .. KeyLen
    PROVE  /\ Push(key, part, i) \in KeyOver(S)
           /\ Len(Push(key, part, i).S0) = Len(key.S0) + 1
           /\ Len(Push(key, part, i).S1) = Len(key.S1) + 1
<1>1. /\ key.S0 \in Seq(S) /\ key.S1 \in Seq(S)
      /\ part.S0 \in Seq(S) /\ part.S1 \in Seq(S)
      /\ Len(part.S0) = KeyLen /\ Len(part.S1) = KeyLen
  BY DEF KeyOver, Whole
<1>2. part.S0[i] \in S /\ part.S1[i] \in S
  BY <1>1, ElementOfSeq
<1>3. /\ Append(key.S0, part.S0[i]) \in Seq(S)
      /\ Len(Append(key.S0, part.S0[i])) = Len(key.S0) + 1
      /\ Append(key.S1, part.S1[i]) \in Seq(S)
      /\ Len(Append(key.S1, part.S1[i])) = Len(key.S1) + 1
  BY <1>1, <1>2, AppendProperties
<1> QED
  BY <1>3, Zenon DEF Push, KeyOver

\* Two lists stay hashed place by place when the hash of what is pushed to
\* one is pushed to the other.
LEMMA PushHashes ==
    ASSUME NEW S, NEW T, NEW list \in Seq(S), NEW x \in S, NEW hashes \in Seq(T),
           hash(x) \in T, Hashed(list, hashes)
    PROVE  Hashed(Append(list, x), Append(hashes, hash(x)))
<1> DEFINE both == Append(list, x)
           hboth == Append(hashes, hash(x))
<1>1. /\ Len(both) = Len(list) + 1 /\ Len(list) \in Nat
      /\ \A i \in 1 .. Len(list) : both[i] = list[i]
      /\ both[Len(list) + 1] = x
  BY AppendProperties, LenProperties
<1>2. /\ Len(hboth) = Len(hashes) + 1
      /\ \A i \in 1 .. Len(hashes) : hboth[i] = hashes[i]
      /\ hboth[Len(hashes) + 1] = hash(x)
  BY AppendProperties
<1>3. Len(hashes) = Len(list) /\ \A i \in 1 .. Len(list) : hashes[i] = hash(list[i])
  BY DEF Hashed
<1> HIDE DEF both, hboth
<1>4. ASSUME NEW i \in 1 .. Len(both) PROVE hboth[i] = hash(both[i])
  <2>1. i \in 1 .. Len(list) \/ i = Len(list) + 1
    BY <1>1
  <2> QED
    BY <2>1, <1>1, <1>2, <1>3
<1> QED
  BY <1>1, <1>2, <1>3, <1>4 DEF Hashed, both, hboth

\* The halves of a generated pair fit.
LEMMA PairFits ==
    ASSUME NEW k
    PROVE  Fits(PrivateKey(k), PublicKey(k))
<1>1. /\ Len(PrivateKey(k).S0) = KeyLen /\ Len(PrivateKey(k).S1) = KeyLen
      /\ Len(PublicKey(k).S0) = KeyLen /\ Len(PublicKey(k).S1) = KeyLen
  BY GeneratedWhole DEF Whole
<1>2. \A i \in 1 .. KeyLen : /\ PublicKey(k).S0[i] = hash(PrivateKey(k).S0[i])
                             /\ PublicKey(k).S1[i] = hash(PrivateKey(k).S1[i])
  BY DEF PublicKey, PrivateKey
<1> QED
  BY <1>1, <1>2 DEF Fits, Hashed

\* KeyGen keeps the halves of a pair fitting.
LEMMA PushFits ==
    ASSUME NEW S, NEW T, NEW private \in KeyOver(S), NEW public \in KeyOver(T), NEW k,
           PrivateKey(k) \in KeyOver(S), PublicKey(k) \in KeyOver(T),
           Fits(private, public), NEW i \in 1 .. KeyLen
    PROVE  Fits(Push(private, PrivateKey(k), i), Push(public, PublicKey(k), i))
<1> DEFINE P == PrivateKey(k)
           Q == PublicKey(k)
           pp == Push(private, P, i)
           qq == Push(public, Q, i)
<1>0. Whole(P) /\ Whole(Q) /\ Fits(P, Q)
  BY GeneratedWhole, PairFits
<1> HIDE DEF P, Q
<1>1. Len(pp.S0) = Len(private.S0) + 1 /\ Len(pp.S1) = Len(private.S1) + 1
  BY <1>0, PushTypes, ZenonT(30) DEF P
<1>3. /\ pp.S0 = Append(private.S0, P.S0[i]) /\ pp.S1 = Append(private.S1, P.S1[i])
      /\ qq.S0 = Append(public.S0, Q.S0[i]) /\ qq.S1 = Append(public.S1, Q.S1[i])
  BY DEF Push
<1>4. /\ private.S0 \in Seq(S) /\ private.S1 \in Seq(S) /\ P.S0 \in Seq(S) /\ P.S1 \in Seq(S)
      /\ public.S0 \in Seq(T) /\ public.S1 \in Seq(T) /\ Q.S0 \in Seq(T) /\ Q.S1 \in Seq(T)
  BY DEF KeyOver, P, Q
<1>5. /\ Len(P.S0) = KeyLen /\ Len(P.S1) = KeyLen /\ Len(Q.S0) = KeyLen /\ Len(Q.S1) = KeyLen
      /\ Q.S0[i] = hash(P.S0[i]) /\ Q.S1[i] = hash(P.S1[i])
  BY <1>0 DEF Fits, Hashed, Whole
<1>6. /\ P.S0[i] \in S /\ P.S1[i] \in S /\ Q.S0[i] \in T /\ Q.S1[i] \in T
  BY <1>4, <1>5, ElementOfSeq
<1>7. /\ Hashed(private.S0, public.S0) /\ Hashed(private.S1, public.S1)
      /\ Len(private.S0) = Len(private.S1)
  BY DEF Fits
<1>8. Hashed(pp.S0, qq.S0) /\ Hashed(pp.S1, qq.S1)
  BY <1>3, <1>4, <1>5, <1>6, <1>7, PushHashes, Zenon
<1> HIDE DEF pp, qq
<1>9. Fits(pp, qq)
  BY <1>1, <1>7, <1>8, Zenon DEF Fits
<1> QED
  BY <1>9 DEF pp, qq, P, Q

\* The loop of KeyGen makes the key place by place.
LEMMA PushPart ==
    ASSUME NEW S, NEW key \in KeyOver(S), Whole(key)
    PROVE  /\ KeyPart(key, 0) = NoKey
           /\ KeyPart(key, KeyLen) = key
           /\ \A n \in 0 .. KeyLen - 1 : Push(KeyPart(key, n), key, n + 1) = KeyPart(key, n + 1)
<1>1. /\ key.S0 \in Seq(S) /\ key.S1 \in Seq(S)
      /\ Len(key.S0) = KeyLen /\ Len(key.S1) = KeyLen /\ KeyLen \in Nat
      /\ key = [S0 |-> key.S0, S1 |-> key.S1]
  BY KeyAssumption DEF KeyOver, Whole
<1>2. ASSUME NEW s \in Seq(S), Len(s) = KeyLen
      PROVE  /\ SubSeq(s, 1, 0) = <<>>
             /\ SubSeq(s, 1, KeyLen) = s
             /\ \A n \in 0 .. KeyLen - 1 : Append(SubSeq(s, 1, n), s[n + 1]) = SubSeq(s, 1, n + 1)
  <2>1. SubSeq(s, 1, 0) = <<>>
    BY SubSeqEmpty
  <2>2. SubSeq(s, 1, KeyLen) = s
    BY <1>2, SubSeqFull
  <2>3. ASSUME NEW n \in 0 .. KeyLen - 1
        PROVE  Append(SubSeq(s, 1, n), s[n + 1]) = SubSeq(s, 1, n + 1)
    <3>1. 1 \in Int /\ n \in Int /\ n + 1 \in Int /\ n + 1 \in 1 .. Len(s)
      BY <1>1, <1>2
    <3>2. \A i \in 1 .. n + 1 : s[i] \in S
      BY <1>1, <1>2, ElementOfSeq
    <3>3. SubSeq(s, 1, n) \in Seq(S) /\ s[n + 1] \in S
      BY <3>1, <3>2, SubSeqProperties
    <3>4. Append(SubSeq(s, 1, n), s[n + 1]) = SubSeq(s, 1, n) \o <<s[n + 1]>>
      BY <3>3, AppendIsConcat
    <3>5. n + 1 - 1 = n
      BY <1>1
    <3>6. SubSeq(s, 1, n + 1) = SubSeq(s, 1, n + 1 - 1) \o <<s[n + 1]>>
      <4>1. PICK k \in 1 .. Len(s) : k = n + 1
        BY <3>1
      <4>2. 1 \in 1 .. Len(s)
        BY <3>1, <1>2
      <4>3. SubSeq(s, 1, k) = SubSeq(s, 1, k - 1) \o <<s[k]>>
        BY <4>2, SubSeqRecursiveSecond, Zenon
      <4> QED
        BY <4>1, <4>3
    <3> QED
      BY <3>4, <3>5, <3>6
  <2> QED
    BY <2>1, <2>2, <2>3
<1>3. KeyPart(key, 0) = NoKey
  BY <1>1, <1>2, Zenon DEF KeyPart, NoKey
<1>4. KeyPart(key, KeyLen) = key
  BY <1>1, <1>2, Zenon DEF KeyPart
<1>5. ASSUME NEW n \in 0 .. KeyLen - 1
      PROVE  Push(KeyPart(key, n), key, n + 1) = KeyPart(key, n + 1)
  <2>1. /\ Append(SubSeq(key.S0, 1, n), key.S0[n + 1]) = SubSeq(key.S0, 1, n + 1)
        /\ Append(SubSeq(key.S1, 1, n), key.S1[n + 1]) = SubSeq(key.S1, 1, n + 1)
    BY <1>1, <1>2, Zenon
  <2>2. /\ KeyPart(key, n).S0 = SubSeq(key.S0, 1, n)
        /\ KeyPart(key, n).S1 = SubSeq(key.S1, 1, n)
    BY DEF KeyPart
  <2> QED
    BY <2>1, <2>2, Zenon DEF Push, KeyPart
<1> QED
  BY <1>3, <1>4, <1>5

\* A signature is made of the secrets of the key it was made with.
LEMMA SignTypes ==
    ASSUME NEW S, NEW key \in KeyOver(S), NEW m
    PROVE  /\ Sign(m, key) \in Seq(S)
           /\ Sign(m, key) = <<>> \/ Len(Sign(m, key)) = KeyLen
           /\ \A k : Uses(Sign(m, key), k) => Holds(key, k)
<1>1. CASE ~Whole(key)
  <2>1. Sign(m, key) = <<>>
    BY <1>1 DEF Sign
  <2>2. <<>> \in Seq(S) /\ Len(<<>>) = 0
    BY EmptySeq, Zenon
  <2> QED
    BY <2>1, <2>2 DEF Uses
<1>2. CASE Whole(key)
  <2> DEFINE sig == [i \in 1 .. KeyLen |-> IF Bit(m, i) = 1 THEN key.S1[i] ELSE key.S0[i]]
  <2>0. Sign(m, key) = sig
    BY <1>2 DEF Sign
  <2>1. /\ key.S0 \in Seq(S) /\ key.S1 \in Seq(S)
        /\ Len(key.S0) = KeyLen /\ Len(key.S1) = KeyLen /\ KeyLen \in Nat
    BY <1>2, KeyAssumption DEF Whole, KeyOver
  <2>2. \A i \in 1 .. KeyLen : key.S0[i] \in S /\ key.S1[i] \in S
    BY <2>1, ElementOfSeq
  <2>3. sig \in Seq(S) /\ Len(sig) = KeyLen
    BY <2>1, <2>2
  <2>4. \A i \in 1 .. KeyLen : sig[i] = key.S1[i] \/ sig[i] = key.S0[i]
    OBVIOUS
  <2> HIDE DEF sig
  <2>5. \A k : Uses(sig, k) => Holds(key, k)
    BY <2>1, <2>3, <2>4 DEF Uses, Holds
  <2> QED
    BY <2>0, <2>3, <2>5
<1> QED
  BY <1>1, <1>2

\* The assertion of signBlock holds for the two halves of a pair, whatever
\* their length.
LEMMA SelfVerify ==
    ASSUME NEW private, NEW public, NEW m, Fits(private, public)
    PROVE  Verify(m, Sign(m, private), public) # 0
<1>1. CASE ~Whole(private)
  BY <1>1, UnsignedIsRefused
<1>2. CASE Whole(private)
  <2> DEFINE sig == [i \in 1 .. KeyLen |-> IF Bit(m, i) = 1 THEN private.S1[i]
                                                            ELSE private.S0[i]]
  <2>0. Sign(m, private) = sig
    BY <1>2 DEF Sign
  <2>1. \A i \in 1 .. KeyLen : /\ public.S0[i] = hash(private.S0[i])
                               /\ public.S1[i] = hash(private.S1[i])
    BY <1>2 DEF Fits, Hashed, Whole
  <2>2. \A i \in 1 .. KeyLen :
           hash(sig[i]) = IF Bit(m, i) = 1 THEN public.S1[i] ELSE public.S0[i]
    BY <2>1
  <2> HIDE DEF sig
  <2> QED
    BY <2>0, <2>2 DEF Verify
<1> QED
  BY <1>1, <1>2

\* A generated key, and one that was not.
LEMMA KeyHolds ==
    ASSUME NEW k, NEW c
    PROVE  /\ Holds(PrivateKey(c), k) => k = c
           /\ ~Holds(NoKey, k)
           /\ PublicKey(c) # NoKey
<1>1. /\ Len(PrivateKey(c).S0) = KeyLen /\ Len(PrivateKey(c).S1) = KeyLen
      /\ Len(PublicKey(c).S0) = KeyLen /\ KeyLen \in Nat \ {0}
  BY GeneratedWhole, KeyAssumption DEF Whole
<1>2. \A i \in 1 .. KeyLen : PrivateKey(c).S0[i][1] = c /\ PrivateKey(c).S1[i][1] = c
  BY DEF PrivateKey, Secret
<1>3. Holds(PrivateKey(c), k) => k = c
  BY <1>1, <1>2 DEF Holds, Uses
<1>4. NoKey.S0 = <<>> /\ NoKey.S1 = <<>> /\ Len(<<>>) = 0
  BY DEF NoKey
<1>5. ~Holds(NoKey, k)
  BY <1>4 DEF Holds, Uses
<1>6. PublicKey(c) # NoKey
  BY <1>1, <1>4
<1> QED
  BY <1>3, <1>5, <1>6

\* There is no secret of a call that has not drawn any.
LEMMA OldSecrets ==
    ASSUME NEW n \in Nat, NEW k \in Nat, k > n
    PROVE  /\ \A list \in Seq(SecretsTo(n)) : ~Uses(list, k)
           /\ \A key \in KeyOver(SecretsTo(n)) : ~Holds(key, k)
<1>1. \A s \in SecretsTo(n) : s[1] # k
  BY DEF SecretsTo
<1>2. ASSUME NEW list \in Seq(SecretsTo(n)) PROVE ~Uses(list, k)
  BY <1>1, <1>2, ElementOfSeq DEF Uses
<1>3. ASSUME NEW key \in KeyOver(SecretsTo(n)) PROVE ~Holds(key, k)
  BY <1>2 DEF Holds, KeyOver
<1> QED
  BY <1>2, <1>3

\* KeyGen adds no secret of another call.
LEMMA PushHolds ==
    ASSUME NEW n \in Nat, NEW key \in KeyOver(SecretsTo(n)), NEW c \in 0 .. n, NEW k,
           k # c, ~Holds(key, k), NEW i \in 1 .. KeyLen
    PROVE  ~Holds(Push(key, PrivateKey(c), i), k)
<1> DEFINE P == PrivateKey(c)
<1>1. /\ P.S0 \in Seq(SecretsTo(n)) /\ P.S1 \in Seq(SecretsTo(n))
      /\ key.S0 \in Seq(SecretsTo(n)) /\ key.S1 \in Seq(SecretsTo(n))
      /\ Len(P.S0) = KeyLen /\ Len(P.S1) = KeyLen
  BY KeyTypes, GeneratedWhole DEF KeyOver, Whole
<1>2. ~Uses(P.S0, k) /\ ~Uses(P.S1, k) /\ ~Uses(key.S0, k) /\ ~Uses(key.S1, k)
  BY KeyHolds DEF Holds
<1> HIDE DEF P
<1>3. ASSUME NEW l \in Seq(SecretsTo(n)), NEW p \in Seq(SecretsTo(n)),
             Len(p) = KeyLen, ~Uses(p, k), ~Uses(l, k)
      PROVE  ~Uses(Append(l, p[i]), k)
  <2>1. p[i] \in SecretsTo(n) /\ p[i][1] # k /\ Len(l) \in Nat
    BY <1>3, ElementOfSeq DEF Uses
  <2>2. /\ Len(Append(l, p[i])) = Len(l) + 1
        /\ \A j \in 1 .. Len(l) : Append(l, p[i])[j] = l[j]
        /\ Append(l, p[i])[Len(l) + 1] = p[i]
    BY <2>1, AppendProperties
  <2>3. ASSUME NEW j \in 1 .. Len(l) + 1 PROVE j \in 1 .. Len(l) \/ j = Len(l) + 1
    BY <2>1
  <2> QED
    BY <2>1, <2>2, <2>3, <1>3 DEF Uses
<1>4. ~Uses(Append(key.S0, P.S0[i]), k) /\ ~Uses(Append(key.S1, P.S1[i]), k)
  BY <1>1, <1>2, <1>3, Zenon
<1> QED
  BY <1>4, Zenon DEF Push, Holds, P

-----------------------------------------------------------------------------
(* Types.                                                                  *)

\* The constants as numbers.
LEMMA Bounds ==
    KeyLen \in Nat \ {0} /\ MaxCalls \in Nat
BY KeyAssumption, ChainAssumption

\* The Node's constructor leaves the types.
LEMMA InitTyped == Init => Typed
<1> SUFFICES ASSUME Init PROVE Typed
  OBVIOUS
<1>1. PrivateKey(0) \in KeyOver(SecretsTo(0)) /\ PublicKey(0) \in KeyOver(HashesTo(MaxCalls))
  BY KeyTypes, Bounds
<1>2. KeysOK
  BY <1>1, PairFits, EmptyKey DEF Init, KeysOK
<1>3. FramesOK
  BY Bounds DEF Init, FramesOK
<1>4. SignedOK /\ LogOK /\ ReceiverOK
  BY DEF Init, SignedOK, LogOK, ReceiverOK
<1> QED
  BY <1>2, <1>3, <1>4 DEF Typed

\* What a thread in broadcastMessage has in its locals.
LEMMA FrameTypes ==
    ASSUME Typed, NEW t \in Thread, pc[t] # "idle"
    PROVE  /\ frame[t] \in Frame
           /\ frame[t].call \in 1 .. calls /\ frame[t].call \in 0 .. calls
           /\ frame[t].call \in 0 .. MaxCalls
           /\ calls \in Nat
           /\ frame[t].nextKey \in KeyOver(HashesTo(MaxCalls))
           /\ frame[t].sig \in Seq(SecretsTo(MaxCalls))
<1>1. frame[t] \in Frame /\ frame[t].call <= calls /\ calls \in Nat
  BY Bounds DEF Typed, FramesOK
<1>2. frame[t].call \in 1 .. MaxCalls
  BY <1>1 DEF Frame
<1> QED
  BY <1>1, <1>2, Bounds DEF Frame

\* An iteration of KeyGen.
LEMMA PushStep ==
    ASSUME Typed, NEW t \in Thread, KeyGenPush(t)
    PROVE  /\ pc[t] = "push" /\ frame[t].made \in 0 .. KeyLen - 1
           /\ frame[t].made + 1 \in 1 .. KeyLen
           /\ pc' = [pc EXCEPT ![t] = IF frame[t].made + 1 = KeyLen THEN "next" ELSE "push"]
           /\ nextPair' = [private |-> Push(nextPair.private, PrivateKey(frame[t].call),
                                            frame[t].made + 1),
                           public  |-> Push(nextPair.public, PublicKey(frame[t].call),
                                            frame[t].made + 1)]
           /\ frame' = [frame EXCEPT ![t] = [frame[t] EXCEPT !.made = frame[t].made + 1]]
           /\ frame'[t] \in Frame /\ frame'[t].made = frame[t].made + 1
           /\ frame'[t].call = frame[t].call /\ frame'[t].block = frame[t].block
           /\ frame'[t].nextKey = frame[t].nextKey
           /\ \A u \in Thread : u # t => frame'[u] = frame[u] /\ pc'[u] = pc[u]
           /\ UNCHANGED <<curPrivate, curPublic, calls, aborted, log, receiver, overlaps, signed>>
<1>1. /\ pc[t] = "push"
      /\ frame' = [frame EXCEPT ![t] = [frame[t] EXCEPT !.made = frame[t].made + 1]]
      /\ UNCHANGED <<curPrivate, curPublic, calls, aborted, log, receiver, overlaps, signed>>
  BY DEF KeyGenPush, At
<1>2. /\ pc' = [pc EXCEPT ![t] = IF frame[t].made + 1 = KeyLen THEN "next" ELSE "push"]
      /\ nextPair' = [private |-> Push(nextPair.private, PrivateKey(frame[t].call),
                                       frame[t].made + 1),
                      public  |-> Push(nextPair.public, PublicKey(frame[t].call),
                                       frame[t].made + 1)]
  BY DEF KeyGenPush, At
<1>3. frame[t] \in Frame /\ frame[t].made < KeyLen
  BY <1>1 DEF Typed, FramesOK
<1>4. /\ frame[t].made \in 0 .. KeyLen - 1 /\ frame[t].made + 1 \in 1 .. KeyLen
      /\ frame[t].made + 1 \in 0 .. KeyLen
  <2>1. frame[t].made \in 0 .. KeyLen
    BY <1>3 DEF Frame
  <2> QED
    BY <2>1, <1>3, Bounds
<1>5. frame'[t] = [frame[t] EXCEPT !.made = frame[t].made + 1]
  BY <1>1 DEF Typed, FramesOK
<1>6. /\ frame'[t] \in Frame /\ frame'[t].made = frame[t].made + 1
      /\ frame'[t].call = frame[t].call /\ frame'[t].block = frame[t].block
      /\ frame'[t].nextKey = frame[t].nextKey
  BY <1>3, <1>4, <1>5 DEF Frame
<1>7. \A u \in Thread : u # t => frame'[u] = frame[u] /\ pc'[u] = pc[u]
  BY <1>1, <1>2 DEF Typed, FramesOK
<1> QED
  BY <1>1, <1>2, <1>4, <1>6, <1>7

\* It leaves a pair that fits.
LEMMA PushTyped ==
    ASSUME Typed, NEW t \in Thread, KeyGenPush(t)
    PROVE  KeysOK'
<1> DEFINE c == frame[t].call
           i == frame[t].made + 1
<1>1. /\ c \in 0 .. calls /\ c \in 0 .. MaxCalls /\ calls \in Nat /\ MaxCalls \in Nat
      /\ i \in 1 .. KeyLen
  BY FrameTypes, Bounds, PushStep
<1>2. /\ PrivateKey(c) \in KeyOver(SecretsTo(calls)) /\ Whole(PrivateKey(c))
      /\ PublicKey(c) \in KeyOver(HashesTo(MaxCalls)) /\ Whole(PublicKey(c))
  BY <1>1, KeyTypes, GeneratedWhole
<1>3. /\ nextPair.private \in KeyOver(SecretsTo(calls))
      /\ nextPair.public \in KeyOver(HashesTo(MaxCalls))
      /\ Fits(nextPair.private, nextPair.public)
  BY DEF Typed, KeysOK
<1>4. /\ nextPair'.private = Push(nextPair.private, PrivateKey(c), i)
      /\ nextPair'.public = Push(nextPair.public, PublicKey(c), i)
      /\ nextPair' = [private |-> nextPair'.private, public |-> nextPair'.public]
      /\ UNCHANGED <<curPrivate, curPublic, calls>>
  BY PushStep
<1> HIDE DEF c, i
<1>5. nextPair'.private \in KeyOver(SecretsTo(calls))
  BY <1>1, <1>2, <1>3, <1>4, PushTypes
<1>6. nextPair'.public \in KeyOver(HashesTo(MaxCalls))
  BY <1>1, <1>2, <1>3, <1>4, PushTypes
<1>7. Fits(nextPair'.private, nextPair'.public)
  <2>1. Fits(Push(nextPair.private, PrivateKey(c), i), Push(nextPair.public, PublicKey(c), i))
    BY <1>1, <1>2, <1>3, PushFits
  <2> QED
    BY <2>1, <1>4
<1> QED
  BY <1>4, <1>5, <1>6, <1>7 DEF Typed, KeysOK

\* Every step keeps the types.
LEMMA StepTyped == Typed /\ [Next]_vars => Typed'
<1> SUFFICES ASSUME Typed, [Next]_vars PROVE Typed'
  OBVIOUS
<1> USE DEF At
<1>0. calls \in Nat /\ calls <= MaxCalls /\ MaxCalls \in Nat
  BY Bounds DEF Typed, FramesOK
<1>1. ASSUME NEW t \in Thread, NEW b \in Block, ReadPrivate(t, b) PROVE Typed'
  <2>1. calls' = calls + 1 /\ calls' \in 0 .. MaxCalls /\ calls + 1 \in 1 .. MaxCalls
    BY <1>0, <1>1 DEF ReadPrivate
  <2>2. /\ KeyOver(SecretsTo(calls)) \subseteq KeyOver(SecretsTo(calls'))
        /\ Seq(SecretsTo(calls)) \subseteq Seq(SecretsTo(calls'))
    <3>1. calls + 1 \in Nat /\ calls <= calls + 1
      BY <1>0
    <3> QED
      BY <1>0, <2>1, <3>1, SecretsGrow
  <2>3. KeysOK'
    BY <1>1, <2>1, <2>2 DEF ReadPrivate, Typed, KeysOK
  <2>4. FramesOK'
    <3>1. frame'[t] = [call |-> calls + 1, block |-> b, made |-> 0, nextKey |-> NoKey,
                        sig |-> <<>>]
      BY <1>1 DEF ReadPrivate, Typed, FramesOK
    <3>2. <<>> \in Seq(SecretsTo(MaxCalls)) /\ NoKey \in KeyOver(HashesTo(MaxCalls))
      BY EmptyKey
    <3>3. frame'[t] \in Frame /\ frame'[t].call = calls' /\ frame'[t].made = 0
      BY <2>1, <3>1, <3>2, Bounds DEF Frame
    <3>4. \A u \in Thread : u # t => frame'[u] = frame[u] /\ pc'[u] = pc[u]
      BY <1>1 DEF ReadPrivate, Typed, FramesOK
    <3>5. pc'[t] = "public" /\ aborted' = aborted
      BY <1>1 DEF ReadPrivate, Typed, FramesOK
    <3>6. /\ pc' \in [Thread -> {"idle", "public", "clear", "push", "next",
                                 "sign", "assert", "broadcast"}]
          /\ frame' \in [Thread -> Frame \cup {<<>>}]
      BY <1>1, <3>1, <3>3 DEF ReadPrivate, Typed, FramesOK
    <3>7. ASSUME NEW u \in Thread, pc'[u] # "idle"
          PROVE  frame'[u] \in Frame /\ frame'[u].call <= calls'
      <4>1. CASE u = t
        BY <4>1, <3>3, <2>1
      <4>2. CASE u # t
        <5>1. frame[u] \in Frame /\ frame[u].call <= calls
          BY <4>2, <3>4, <3>7 DEF Typed, FramesOK
        <5>2. frame[u].call \in 1 .. MaxCalls
          BY <5>1 DEF Frame
        <5> QED
          BY <4>2, <5>1, <5>2, <3>4, <2>1, <1>0
      <4> QED
        BY <4>1, <4>2
    <3>8. \A u \in Thread :
             /\ pc'[u] \in {"public", "clear"} => frame'[u].made = 0
             /\ pc'[u] = "push" => frame'[u].made < KeyLen
             /\ pc'[u] \in {"assert", "broadcast"} => Whole(frame'[u].nextKey)
      BY <3>3, <3>4, <3>5 DEF Typed, FramesOK
    <3>9. aborted' \subseteq 1 .. calls'
      BY <3>5, <2>1, <1>0 DEF Typed, FramesOK
    <3> QED
      BY <2>1, <3>6, <3>7, <3>8, <3>9 DEF FramesOK
  <2>5. SignedOK'
    <3>1. signed' = signed
      BY <1>1 DEF ReadPrivate
    <3> QED
      BY <1>0, <2>1, <2>2, <3>1 DEF Typed, SignedOK
  <2>6. LogOK' /\ ReceiverOK'
    <3>1. log' = log /\ UNCHANGED receiver
      BY <1>1 DEF ReadPrivate
    <3>2. ASSUME NEW i \in 1 .. Len(log) PROVE log[i].call <= calls + 1
      <4>0. log[i] \in Frame
        BY <3>2, ElementOfSeq DEF Typed, LogOK
      <4>1. log[i].call \in 1 .. MaxCalls /\ log[i].call <= calls
        BY <3>2, <4>0 DEF Typed, LogOK, Frame
      <4> QED
        BY <4>1, <1>0
    <3> QED
      BY <2>1, <3>1, <3>2 DEF Typed, LogOK, ReceiverOK, receiver
  <2> QED
    BY <2>3, <2>4, <2>5, <2>6 DEF Typed
<1>2. ASSUME NEW t \in Thread, ReadPublic(t) PROVE Typed'
  BY <1>2 DEF ReadPublic, Typed, KeysOK, FramesOK, SignedOK, LogOK, ReceiverOK, receiver
<1>3. ASSUME NEW t \in Thread, KeyGenClear(t) PROVE Typed'
  <2>1. Fits(NoKey, NoKey)
    BY DEF Fits, Hashed, NoKey
  <2>2. KeysOK'
    BY <1>3, <2>1, EmptyKey DEF KeyGenClear, Typed, KeysOK
  <2> QED
    BY <1>3, <2>2, Bounds DEF KeyGenClear, Typed, FramesOK, SignedOK, LogOK, ReceiverOK, receiver
<1>4. ASSUME NEW t \in Thread, KeyGenPush(t) PROVE Typed'
  <2>1. KeysOK'
    BY <1>4, PushTyped
  <2>2. /\ pc[t] = "push" /\ frame[t].made \in 0 .. KeyLen - 1
        /\ pc' = [pc EXCEPT ![t] = IF frame[t].made + 1 = KeyLen THEN "next" ELSE "push"]
        /\ frame' = [frame EXCEPT ![t] = [frame[t] EXCEPT !.made = frame[t].made + 1]]
        /\ frame'[t] \in Frame /\ frame'[t].made = frame[t].made + 1
        /\ frame'[t].call = frame[t].call
        /\ \A u \in Thread : u # t => frame'[u] = frame[u] /\ pc'[u] = pc[u]
        /\ UNCHANGED <<calls, aborted, log, receiver, signed>>
    BY <1>4, PushStep
  <2>3. frame' \in [Thread -> Frame \cup {<<>>}]
    BY <2>2 DEF Typed, FramesOK
  <2>4. pc' \in [Thread -> {"idle", "public", "clear", "push", "next", "sign", "assert",
                            "broadcast"}]
    BY <2>2 DEF Typed, FramesOK
  <2>5. pc'[t] \in {"next", "push"} /\ (pc'[t] = "push" => frame'[t].made < KeyLen)
    BY <2>2, Bounds DEF Typed, FramesOK
  <2>6. frame[t].call <= calls
    BY <2>2 DEF Typed, FramesOK
  <2>7. FramesOK'
    BY <2>2, <2>3, <2>4, <2>5, <2>6 DEF Typed, FramesOK
  <2> QED
    BY <2>1, <2>2, <2>7 DEF Typed, SignedOK, LogOK, ReceiverOK, receiver
<1>6. ASSUME NEW t \in Thread, ReadNext(t) PROVE Typed'
  <2>1. frame[t] \in Frame /\ frame[t].call \in 1 .. calls
    BY <1>6, FrameTypes DEF ReadNext
  <2>2. /\ frame'[t] = [frame[t] EXCEPT !.nextKey = nextPair.public]
        /\ \A u \in Thread : u # t => frame'[u] = frame[u] /\ pc'[u] = pc[u]
        /\ pc'[t] = "sign"
    BY <1>6 DEF ReadNext, Typed, FramesOK
  <2>3. nextPair.public \in KeyOver(HashesTo(MaxCalls))
    BY DEF Typed, KeysOK
  <2>4. frame'[t] \in Frame /\ frame'[t].call = frame[t].call
    BY <2>1, <2>2, <2>3 DEF Frame
  <2>5. frame' \in [Thread -> Frame \cup {<<>>}]
    BY <1>6, <2>2, <2>4 DEF ReadNext, Typed, FramesOK
  <2>6. aborted' \subseteq 1 .. calls
    BY <1>6, <2>1 DEF ReadNext
  <2>7. FramesOK'
    BY <1>6, <2>1, <2>2, <2>4, <2>5, <2>6 DEF ReadNext, Typed, FramesOK
  <2> QED
    BY <1>6, <2>7 DEF ReadNext, Typed, KeysOK, SignedOK, LogOK, ReceiverOK, receiver
<1>7. ASSUME NEW t \in Thread, SignBlock(t) PROVE Typed'
  <2> DEFINE sig == Sign(Digest(frame[t].block, frame[t].nextKey), curPrivate)
  <2>1. frame[t] \in Frame /\ frame[t].call \in 1 .. calls
    BY <1>7, FrameTypes DEF SignBlock
  <2>2. /\ frame'[t] = [frame[t] EXCEPT !.sig = sig]
        /\ \A u \in Thread : u # t => frame'[u] = frame[u] /\ pc'[u] = pc[u]
        /\ pc'[t] = "assert"
    BY <1>7 DEF SignBlock, Typed, FramesOK
  <2>3. sig \in Seq(SecretsTo(calls)) /\ (sig = <<>> \/ Len(sig) = KeyLen)
    BY SignTypes DEF Typed, KeysOK
  <2>4. sig \in Seq(SecretsTo(MaxCalls))
    BY <1>0, <2>3, SecretsGrow
  <2>5. signed' = signed \cup {[call |-> frame[t].call, sig |-> sig]}
    BY <1>7 DEF SignBlock
  <2>6. Whole(frame[t].nextKey) /\ aborted' = aborted
    BY <1>7 DEF SignBlock
  <2> HIDE DEF sig
  <2>7. frame'[t] \in Frame /\ frame'[t].call = frame[t].call /\ Whole(frame'[t].nextKey)
    BY <2>1, <2>2, <2>4, <2>6 DEF Frame
  <2>8. frame' \in [Thread -> Frame \cup {<<>>}]
    BY <1>7, <2>7 DEF SignBlock, Typed, FramesOK
  <2>9. FramesOK'
    BY <1>7, <2>1, <2>2, <2>6, <2>7, <2>8 DEF SignBlock, Typed, FramesOK
  <2>10. SignedOK'
    BY <1>7, <2>1, <2>3, <2>5 DEF SignBlock, Typed, SignedOK
  <2> QED
    BY <1>7, <2>9, <2>10 DEF SignBlock, Typed, KeysOK, LogOK, ReceiverOK, receiver
<1>8. ASSUME NEW t \in Thread, SignThrows(t) PROVE Typed'
  <2>1. frame[t].call \in 1 .. calls
    BY <1>8, FrameTypes DEF SignThrows
  <2> QED
    BY <1>8, <2>1 DEF SignThrows, Typed, KeysOK, FramesOK, SignedOK, LogOK, ReceiverOK, receiver
<1>9. ASSUME NEW t \in Thread, CheckSignature(t) PROVE Typed'
  <2>1. frame[t].call \in 1 .. calls
    BY <1>9, FrameTypes DEF CheckSignature
  <2>2. aborted' \subseteq 1 .. calls
    BY <1>9, <2>1 DEF CheckSignature
  <2>3. UNCHANGED <<nextPair, curPrivate, curPublic, frame, calls, log, receiver, signed>>
    BY <1>9 DEF CheckSignature
  <2>4. pc[t] = "assert" /\ pc' = [pc EXCEPT ![t] = "broadcast"]
    BY <1>9 DEF CheckSignature
  <2> QED
    BY <2>2, <2>3, <2>4 DEF Typed, KeysOK, FramesOK, SignedOK, LogOK, ReceiverOK, receiver
<1>10. ASSUME NEW t \in Thread, Broadcast(t) PROVE Typed'
  <2>1. frame[t] \in Frame /\ frame[t].call <= calls /\ Whole(frame[t].nextKey)
    BY <1>10 DEF Broadcast, Typed, FramesOK
  <2>2. /\ log' = Append(log, frame[t])
        /\ UNCHANGED <<nextPair, curPrivate, curPublic, calls, aborted, receiver, signed>>
    BY <1>10 DEF Broadcast
  <2>3. /\ log' \in Seq(Frame) /\ Len(log') = Len(log) + 1 /\ Len(log) \in Nat
        /\ \A i \in 1 .. Len(log) : log'[i] = log[i]
        /\ log'[Len(log) + 1] = frame[t]
    BY <2>1, <2>2, AppendProperties, LenProperties DEF Typed, LogOK
  <2>4. LogOK'
    BY <2>1, <2>2, <2>3 DEF Typed, LogOK
  <2>5. ReceiverOK'
    BY <2>2, <2>3 DEF Typed, ReceiverOK, receiver
  <2>6. FramesOK'
    BY <1>10 DEF Broadcast, Typed, FramesOK
  <2> QED
    BY <2>2, <2>4, <2>5, <2>6 DEF Typed, KeysOK, SignedOK
<1>11. ASSUME Receive PROVE Typed'
  <2>1. handled < Len(log) /\ Len(log) \in Nat /\ handled \in Nat
    BY <1>11, LenProperties DEF Receive, Typed, LogOK, ReceiverOK
  <2> DEFINE msg == log[handled + 1]
             item == [at |-> handled + 1, signature |-> msg.sig, publicKey |-> msg.nextKey]
  <2>2. msg \in Frame
    BY <2>1, ElementOfSeq DEF Typed, LogOK
  <2>3. /\ handled' = handled + 1
        /\ \/ stored' = Append(stored, item) /\ rejected' = rejected
           \/ stored' = stored /\ rejected' = rejected \cup {handled + 1}
        /\ UNCHANGED <<signer, log, lost, signed>>
    BY <1>11 DEF Receive, NextKnown, StoredKey
  <2>4. item \in [at : Nat, signature : Seq(SecretsTo(MaxCalls)),
                  publicKey : KeyOver(HashesTo(MaxCalls))]
    BY <2>1, <2>2 DEF Frame
  <2> HIDE DEF item
  <2> DEFINE Item == [at : Nat, signature : Seq(SecretsTo(MaxCalls)),
                      publicKey : KeyOver(HashesTo(MaxCalls))]
  <2>5. stored' \in Seq(Item)
    <3>1. stored \in Seq(Item)
      BY DEF Typed, ReceiverOK
    <3> HIDE DEF Item
    <3>2. Append(stored, item) \in Seq(Item)
      BY <2>4, <3>1, AppendProperties DEF Item
    <3> QED
      BY <2>3, <3>1, <3>2
  <2>6. /\ handled' \in 0 .. Len(log') /\ lost' \subseteq 1 .. handled'
        /\ rejected' \subseteq 1 .. handled'
    <3>1. rejected' \subseteq rejected \cup {handled + 1} /\ lost' = lost /\ log' = log
      BY <2>3
    <3>2. lost \subseteq 1 .. handled /\ rejected \subseteq 1 .. handled
      BY DEF Typed, ReceiverOK
    <3> QED
      BY <2>1, <2>3, <3>1, <3>2
  <2>7. ReceiverOK'
    BY <2>5, <2>6 DEF ReceiverOK
  <2> QED
    BY <2>3, <2>7 DEF Typed, KeysOK, FramesOK, SignedOK, LogOK, signer
<1>12. ASSUME Lose PROVE Typed'
  <2>1. handled < Len(log) /\ Len(log) \in Nat /\ handled \in Nat
    BY <1>12, LenProperties DEF Lose, Typed, LogOK, ReceiverOK
  <2>2. ReceiverOK'
    BY <1>12, <2>1 DEF Lose, Typed, ReceiverOK
  <2> QED
    BY <1>12, <2>2 DEF Lose, Typed, KeysOK, FramesOK, SignedOK, LogOK, signer
<1>13. CASE UNCHANGED vars
  BY <1>13 DEF vars, signer, receiver, Typed, KeysOK, FramesOK, SignedOK, LogOK, ReceiverOK
<1> QED
  BY <1>1, <1>2, <1>3, <1>4, <1>6, <1>7, <1>8, <1>9, <1>10, <1>11, <1>12, <1>13 DEF Next

-----------------------------------------------------------------------------
(* Which calls overlap.                                                    *)

\* A step of a thread that is in broadcastMessage and stays there.
Walk(t) == \/ ReadPublic(t) \/ KeyGenClear(t) \/ KeyGenPush(t)
           \/ ReadNext(t) \/ SignBlock(t) \/ SignThrows(t) \/ CheckSignature(t)

\* A step of the receiver, or none.
Elsewhere == Receive \/ Lose \/ UNCHANGED vars

\* The kinds of steps there are.
LEMMA Steps ==
    [Next]_vars => \/ \E t \in Thread, b \in Block : ReadPrivate(t, b)
                   \/ \E t \in Thread : Walk(t)
                   \/ \E t \in Thread : Broadcast(t)
                   \/ Elsewhere
BY DEF Next, Walk, Elsewhere

\* What a thread leaves alone that stays in broadcastMessage.
LEMMA WalkFrame ==
    ASSUME Typed, NEW t \in Thread, Walk(t)
    PROVE  /\ t \in Busy /\ Busy' = Busy
           /\ \A u \in Thread : u # t => frame'[u] = frame[u] /\ pc'[u] = pc[u]
           /\ \A u \in Busy : frame'[u].call = frame[u].call /\ frame'[u].block = frame[u].block
           /\ UNCHANGED <<overlaps, calls, log, receiver>>
<1> USE DEF At, Typed, FramesOK, Busy
<1>1. CASE ReadPublic(t)
  BY <1>1 DEF ReadPublic
<1>2. CASE KeyGenClear(t)
  BY <1>2 DEF KeyGenClear
<1>3. CASE KeyGenPush(t)
  <2>1. Busy' = Busy /\ t \in Busy
    BY <1>3, PushStep
  <2> QED
    BY <1>3, <2>1, PushStep
<1>5. CASE ReadNext(t)
  <2>1. /\ frame' = [frame EXCEPT ![t].nextKey = nextPair.public] /\ pc[t] = "next"
        /\ pc' = [pc EXCEPT ![t] = "sign"] /\ UNCHANGED <<overlaps, calls, log, receiver>>
    BY <1>5 DEF ReadNext
  <2>2. frame[t] \in Frame
    BY <2>1
  <2>3. frame'[t].call = frame[t].call /\ frame'[t].block = frame[t].block
    BY <2>1, <2>2 DEF Frame
  <2> QED
    BY <2>1, <2>3
<1>6. CASE SignBlock(t)
  <2> DEFINE sig == Sign(Digest(frame[t].block, frame[t].nextKey), curPrivate)
  <2>1. /\ frame' = [frame EXCEPT ![t].sig = sig] /\ pc[t] = "sign"
        /\ pc' = [pc EXCEPT ![t] = "assert"] /\ UNCHANGED <<overlaps, calls, log, receiver>>
    BY <1>6 DEF SignBlock
  <2> HIDE DEF sig
  <2>2. frame[t] \in Frame
    BY <2>1
  <2>3. frame'[t].call = frame[t].call /\ frame'[t].block = frame[t].block
    BY <2>1, <2>2 DEF Frame
  <2> QED
    BY <2>1, <2>3
<1>7. CASE SignThrows(t)
  BY <1>7 DEF SignThrows
<1>8. CASE CheckSignature(t)
  BY <1>8 DEF CheckSignature
<1> QED
  BY <1>1, <1>2, <1>3, <1>5, <1>6, <1>7, <1>8 DEF Walk

\* What a call of broadcastMessage starts with.
LEMMA StartFrame ==
    ASSUME Typed, NEW t \in Thread, NEW b \in Block, ReadPrivate(t, b)
    PROVE  /\ t \notin Busy /\ Busy' = Busy \cup {t} /\ pc'[t] = "public"
           /\ frame'[t].call = calls + 1 /\ calls' = calls + 1 /\ calls \in Nat
           /\ \A u \in Thread : u # t => frame'[u] = frame[u] /\ pc'[u] = pc[u]
           /\ curPrivate' = nextPair.private
           /\ \A d : Overlapped(d) => Overlapped(d)'
           /\ \A u \in Busy : \A d \in {calls + 1, frame[u].call} : Overlapped(d)'
           /\ UNCHANGED <<nextPair, curPublic, aborted, log, receiver, signed>>
<1>1. /\ pc[t] = "idle" /\ pc' = [pc EXCEPT ![t] = "public"]
      /\ frame' = [frame EXCEPT ![t] = [call |-> calls + 1, block |-> b,
                                        made |-> 0, nextKey |-> NoKey, sig |-> <<>>]]
      /\ overlaps' = overlaps \cup {{calls + 1, frame[u].call} : u \in Busy}
      /\ curPrivate' = nextPair.private /\ calls' = calls + 1
      /\ UNCHANGED <<nextPair, curPublic, aborted, log, receiver, signed>>
  BY DEF ReadPrivate, At
<1>2. /\ t \notin Busy /\ Busy' = Busy \cup {t} /\ pc'[t] = "public"
      /\ frame'[t].call = calls + 1 /\ calls \in Nat
      /\ \A u \in Thread : u # t => frame'[u] = frame[u] /\ pc'[u] = pc[u]
  BY <1>1, Bounds DEF Busy, Typed, FramesOK
<1>3. \A d : Overlapped(d) => Overlapped(d)'
  BY <1>1, Zenon DEF Overlapped
<1>4. ASSUME NEW u \in Busy, NEW d \in {calls + 1, frame[u].call} PROVE Overlapped(d)'
  <2>1. PICK pair : pair = {calls + 1, frame[u].call}
    OBVIOUS
  <2>2. pair \in overlaps'
    BY <2>1, <1>1, Zenon
  <2>3. d \in pair
    BY <2>1
  <2> QED
    BY <2>2, <2>3, Zenon DEF Overlapped
<1> QED
  BY <1>1, <1>2, <1>3, <1>4

\* What Broadcast leaves.
LEMMA EndFrame ==
    ASSUME Typed, NEW t \in Thread, Broadcast(t)
    PROVE  /\ t \in Busy /\ Busy' = Busy \ {t} /\ pc[t] = "broadcast"
           /\ \A u \in Thread : u # t => frame'[u] = frame[u] /\ pc'[u] = pc[u]
           /\ log' \in Seq(Frame) /\ log \in Seq(Frame)
           /\ Len(log') = Len(log) + 1 /\ Len(log) \in Nat
           /\ \A i \in 1 .. Len(log) : log'[i] = log[i]
           /\ log'[Len(log) + 1] = frame[t] /\ frame[t] \in Frame
           /\ UNCHANGED <<nextPair, curPrivate, curPublic, calls, aborted, receiver,
                          overlaps, signed>>
<1>1. /\ pc[t] = "broadcast" /\ pc' = [pc EXCEPT ![t] = "idle"]
      /\ frame' = [frame EXCEPT ![t] = <<>>] /\ log' = Append(log, frame[t])
      /\ UNCHANGED <<nextPair, curPrivate, curPublic, calls, aborted, receiver,
                     overlaps, signed>>
  BY DEF Broadcast, At
<1>2. /\ t \in Busy /\ Busy' = Busy \ {t} /\ frame[t] \in Frame
      /\ \A u \in Thread : u # t => frame'[u] = frame[u] /\ pc'[u] = pc[u]
  BY <1>1 DEF Busy, Typed, FramesOK
<1>3. log \in Seq(Frame)
  BY DEF Typed, LogOK
<1>4. /\ log' \in Seq(Frame)
      /\ Len(log') = Len(log) + 1 /\ Len(log) \in Nat
      /\ \A i \in 1 .. Len(log) : log'[i] = log[i]
      /\ log'[Len(log) + 1] = frame[t]
  BY <1>1, <1>2, <1>3, AppendProperties, LenProperties
<1> QED
  BY <1>1, <1>2, <1>3, <1>4

\* The signer and the log are not the receiver's.
LEMMA ElsewhereFrame ==
    ASSUME Elsewhere
    PROVE  UNCHANGED <<nextPair, curPrivate, curPublic, pc, frame, calls, aborted, log,
                       overlaps, signed, Busy>>
<1>1. UNCHANGED <<signer, log, overlaps, signed>>
  BY DEF Elsewhere, Receive, Lose, vars
<1> QED
  BY <1>1 DEF signer, Busy

\* Calls overlap as Overlaps says.
LEMMA StepOverlaps == Typed /\ Overlaps /\ [Next]_vars => Overlaps'
<1> SUFFICES ASSUME Typed, Overlaps, [Next]_vars PROVE Overlaps'
  OBVIOUS
<1>0. \A u \in Busy : u \in Thread /\ frame[u].call \in 1 .. calls /\ calls \in Nat
  BY FrameTypes DEF Busy
<1>1. ASSUME NEW t \in Thread, NEW b \in Block, ReadPrivate(t, b) PROVE Overlaps'
  <2>1. /\ t \notin Busy /\ Busy' = Busy \cup {t}
        /\ frame'[t].call = calls + 1 /\ calls' = calls + 1 /\ calls \in Nat
        /\ \A u \in Thread : u # t => frame'[u] = frame[u]
        /\ \A d : Overlapped(d) => Overlapped(d)'
        /\ \A u \in Busy : \A d \in {calls + 1, frame[u].call} : Overlapped(d)'
    BY <1>1, StartFrame
  <2>2. \A u \in Busy : frame'[u].call = frame[u].call
    BY <2>1, <1>0
  <2>3. \A u, v \in Busy' : u # v => Overlapped(frame[u].call)'
    <3> SUFFICES ASSUME NEW u \in Busy', NEW v \in Busy', u # v
                 PROVE  Overlapped(frame[u].call)'
      OBVIOUS
    <3>1. CASE u = t
      <4>1. v \in Busy
        BY <3>1, <2>1
      <4> QED
        BY <4>1, <3>1, <2>1 DEF Overlapped
    <3>2. CASE u \in Busy
      BY <3>2, <2>1, <2>2 DEF Overlapped
    <3> QED
      BY <3>1, <3>2, <2>1
  <2>4. \A u \in Busy' : frame'[u].call = calls' \/ Overlapped(frame[u].call)'
    BY <2>1, <2>2 DEF Overlapped
  <2>5. ASSUME NEW u \in Busy', NEW d \in 1 .. calls'
        PROVE  Overlapped(d)' \/ d <= frame'[u].call
    <3>1. CASE u = t
      BY <3>1, <2>1
    <3>2. CASE u \in Busy /\ d = calls + 1
      BY <3>2, <2>1 DEF Overlapped
    <3>3. CASE u \in Busy /\ d # calls + 1
      <4>1. d \in 1 .. calls
        BY <3>3, <2>1
      <4>2. Overlapped(d) \/ d <= frame[u].call
        BY <4>1, <3>3 DEF Overlaps
      <4> QED
        BY <4>2, <3>3, <2>1, <2>2 DEF Overlapped
    <3> QED
      BY <3>1, <3>2, <3>3, <2>1
  <2> QED
    BY <2>3, <2>4, <2>5 DEF Overlaps
<1>2. ASSUME NEW t \in Thread, Walk(t) PROVE Overlaps'
  BY <1>2, WalkFrame DEF Overlaps, Overlapped
<1>3. ASSUME NEW t \in Thread, Broadcast(t) PROVE Overlaps'
  <2>1. /\ Busy' = Busy \ {t} /\ UNCHANGED <<calls, overlaps>>
        /\ \A u \in Thread : u # t => frame'[u] = frame[u]
    BY <1>3, EndFrame
  <2> QED
    BY <2>1, <1>0 DEF Overlaps, Overlapped
<1>4. CASE Elsewhere
  BY <1>4, ElsewhereFrame DEF Overlaps, Overlapped
<1> QED
  BY <1>1, <1>2, <1>3, <1>4, Steps

\* A call that has overlapped none is the only one under way, and the newest.
LEMMA AloneIsNewest ==
    ASSUME Typed, Overlaps, NEW t \in Busy, ~Overlapped(frame[t].call)
    PROVE  Busy = {t} /\ frame[t].call = calls
BY DEF Overlaps

\* The threads in broadcastMessage can be counted.
LEMMA BusyFinite == IsFiniteSet(Busy) /\ Cardinality(Busy) \in Nat
<1>1. Busy \subseteq Thread
  BY DEF Busy
<1> QED
  BY <1>1, FS_Subset, FS_CardinalityType, ChainAssumption

\* Every call is under way or in the log.
LEMMA StepCounts == Typed /\ Counts /\ [Next]_vars => Counts'
<1> SUFFICES ASSUME Typed, Counts, [Next]_vars PROVE Counts'
  OBVIOUS
<1>0. /\ IsFiniteSet(Busy) /\ Cardinality(Busy) \in Nat
      /\ Len(log) \in Nat /\ Len(log) + Cardinality(Busy) = calls
  BY BusyFinite, LenProperties DEF Counts, Typed, LogOK
<1>1. ASSUME NEW t \in Thread, NEW b \in Block, ReadPrivate(t, b) PROVE Counts'
  <2>1. t \notin Busy /\ Busy' = Busy \cup {t} /\ calls' = calls + 1 /\ log' = log
    BY <1>1, StartFrame
  <2>2. Cardinality(Busy') = Cardinality(Busy) + 1
    BY <2>1, <1>0, FS_AddElement
  <2> QED
    BY <2>1, <2>2, <1>0 DEF Counts
<1>2. ASSUME NEW t \in Thread, Walk(t) PROVE Counts'
  BY <1>2, WalkFrame DEF Counts
<1>3. ASSUME NEW t \in Thread, Broadcast(t) PROVE Counts'
  <2>1. t \in Busy /\ Busy' = Busy \ {t} /\ calls' = calls /\ Len(log') = Len(log) + 1
    BY <1>3, EndFrame
  <2>2. Cardinality(Busy') = Cardinality(Busy) - 1
    BY <2>1, <1>0, FS_RemoveElement
  <2> QED
    BY <2>1, <2>2, <1>0 DEF Counts
<1>4. CASE Elsewhere
  BY <1>4, ElsewhereFrame DEF Counts
<1> QED
  BY <1>1, <1>2, <1>3, <1>4, Steps

\* The next pair is empty only while a thread is in the loop of KeyGen.
LEMMA StepFilled == Typed /\ Filled /\ [Next]_vars => Filled'
<1> SUFFICES ASSUME Typed, Filled, [Next]_vars PROVE Filled'
  OBVIOUS
<1>1. ASSUME NEW t \in Thread, pc[t] # "push", nextPair' = nextPair,
             \A u \in Thread : u # t => pc'[u] = pc[u]
      PROVE  Filled'
  BY <1>1 DEF Filled
<1>2. ASSUME NEW t \in Thread, NEW b \in Block, ReadPrivate(t, b) PROVE Filled'
  <2>1. pc[t] # "push"
    BY <1>2 DEF ReadPrivate, At
  <2> QED
    BY <2>1, <1>1, <1>2, StartFrame
<1>3. ASSUME NEW t \in Thread, KeyGenClear(t) PROVE Filled'
  <2>1. pc'[t] = "push"
    BY <1>3 DEF KeyGenClear, At, Typed, FramesOK
  <2> QED
    BY <2>1 DEF Filled
<1>5. ASSUME NEW t \in Thread, KeyGenPush(t) PROVE Filled'
  <2> DEFINE key == PublicKey(frame[t].call)
             pushed == Push(nextPair.public, key, frame[t].made + 1)
  <2>1. /\ key \in KeyOver(HashesTo(MaxCalls)) /\ Whole(key)
        /\ nextPair.public \in KeyOver(HashesTo(MaxCalls))
        /\ Len(nextPair.public.S0) \in Nat
    BY <1>5, PushStep, FrameTypes, KeyTypes, GeneratedWhole, Bounds, LenProperties
       DEF Typed, KeysOK, KeyOver
  <2>2. nextPair'.public = pushed
    BY <1>5, PushStep
  <2>3. frame[t].made + 1 \in 1 .. KeyLen
    BY <1>5, PushStep
  <2>4. Len(pushed.S0) = Len(nextPair.public.S0) + 1
    BY <2>1, <2>3, PushTypes
  <2>5. Len(NoKey.S0) = 0
    BY DEF NoKey
  <2> HIDE DEF pushed
  <2>6. nextPair'.public # NoKey
    BY <2>1, <2>2, <2>4, <2>5
  <2> QED
    BY <2>6 DEF Filled
<1>7. ASSUME NEW t \in Thread, Walk(t), nextPair' = nextPair, pc[t] # "push" PROVE Filled'
  BY <1>1, <1>7, WalkFrame
<1>8. ASSUME NEW t \in Thread, Walk(t) PROVE Filled'
  <2>1. CASE ReadPublic(t)
    BY <1>7, <1>8, <2>1 DEF ReadPublic, At
  <2>2. CASE ReadNext(t)
    BY <1>7, <1>8, <2>2 DEF ReadNext, At
  <2>3. CASE SignBlock(t)
    BY <1>7, <1>8, <2>3 DEF SignBlock, At
  <2>4. CASE SignThrows(t)
    BY <1>7, <1>8, <2>4 DEF SignThrows, At
  <2>5. CASE CheckSignature(t)
    BY <1>7, <1>8, <2>5 DEF CheckSignature, At
  <2> QED
    BY <1>3, <1>5, <1>8, <2>1, <2>2, <2>3, <2>4, <2>5 DEF Walk
<1>9. ASSUME NEW t \in Thread, Broadcast(t) PROVE Filled'
  BY <1>1, <1>9, EndFrame
<1>10. CASE Elsewhere
  BY <1>10, ElsewhereFrame DEF Filled
<1> QED
  BY <1>2, <1>8, <1>9, <1>10, Steps

-----------------------------------------------------------------------------
(* What a call finds and leaves that runs alone.                           *)

\* A call that runs alone goes on with what it has read and made.
LEMMA WalkAlone ==
    ASSUME Typed, Overlaps, Filled, NEW t \in Thread, Walk(t), ~Overlapped(frame[t].call),
           AloneAt(t)
    PROVE  AloneAt(t)'
<1>1. /\ t \in Busy /\ Busy' = Busy
      /\ frame'[t].call = frame[t].call /\ frame'[t].block = frame[t].block
      /\ UNCHANGED overlaps
  BY WalkFrame
<1>2. Busy = {t}
  BY <1>1, AloneIsNewest
<1>3. \A u \in Thread : pc[u] = "push" => u = t
  BY <1>2 DEF Busy
<1> DEFINE c == frame[t].call
<1>4. c \in 0 .. calls /\ calls \in Nat /\ c \in 0 .. MaxCalls /\ frame[t] \in Frame
  BY <1>1, FrameTypes DEF Busy
<1>5. /\ PrivateKey(c) \in KeyOver(SecretsTo(calls)) /\ Whole(PrivateKey(c))
      /\ PublicKey(c) \in KeyOver(HashesTo(MaxCalls)) /\ Whole(PublicKey(c))
  BY <1>4, KeyTypes, GeneratedWhole, Bounds
<1> USE DEF At
<1>6. t \in DOMAIN pc /\ t \in DOMAIN frame
  BY DEF Typed, FramesOK
<1>7. CASE ReadPublic(t)
  <2>1. nextPair.public # NoKey
    BY <1>3, <1>7 DEF Filled, ReadPublic
  <2>2. Fits(nextPair.private, nextPair.public)
    BY DEF Typed, KeysOK
  <2> QED
    BY <1>1, <1>6, <1>7, <2>1, <2>2 DEF ReadPublic, AloneAt, Overlapped
<1>8. CASE KeyGenClear(t)
  <2>1. KeyPart(PrivateKey(c), 0) = NoKey /\ KeyPart(PublicKey(c), 0) = NoKey
    BY <1>5, PushPart
  <2>2. frame' = frame /\ frame[t].made = 0
    BY <1>8 DEF KeyGenClear, Typed, FramesOK
  <2>3. nextPair' = PairPart(c, frame'[t].made)
    BY <1>8, <2>1, <2>2 DEF KeyGenClear, PairPart
  <2> QED
    BY <1>1, <1>6, <1>8, <2>3 DEF KeyGenClear, AloneAt, Overlapped
<1>9. CASE KeyGenPush(t)
  <2> DEFINE n == frame[t].made
  <2>1. /\ pc[t] = "push" /\ n \in 0 .. KeyLen - 1 /\ UNCHANGED <<curPrivate, curPublic>>
        /\ pc' = [pc EXCEPT ![t] = IF n + 1 = KeyLen THEN "next" ELSE "push"]
        /\ nextPair' = [private |-> Push(nextPair.private, PrivateKey(c), n + 1),
                        public  |-> Push(nextPair.public, PublicKey(c), n + 1)]
        /\ frame'[t].made = n + 1
    BY <1>9, PushStep
  <2>2. nextPair.private = KeyPart(PrivateKey(c), n) /\ nextPair.public = KeyPart(PublicKey(c), n)
    BY <2>1 DEF AloneAt, PairPart
  <2>3. /\ Push(KeyPart(PrivateKey(c), n), PrivateKey(c), n + 1) = KeyPart(PrivateKey(c), n + 1)
        /\ Push(KeyPart(PublicKey(c), n), PublicKey(c), n + 1) = KeyPart(PublicKey(c), n + 1)
        /\ KeyPart(PrivateKey(c), KeyLen) = PrivateKey(c)
        /\ KeyPart(PublicKey(c), KeyLen) = PublicKey(c)
    BY <1>5, <2>1, PushPart
  <2>4. nextPair' = PairPart(c, n + 1)
    BY <2>1, <2>2, <2>3 DEF PairPart
  <2>5. n + 1 = KeyLen => nextPair' = Pair(c)
    BY <2>3, <2>4 DEF PairPart, Pair
  <2>6. pc'[t] = IF n + 1 = KeyLen THEN "next" ELSE "push"
    BY <1>6, <2>1
  <2> HIDE DEF n
  <2> QED
    BY <1>1, <2>1, <2>4, <2>5, <2>6 DEF AloneAt, Overlapped
<1>11. CASE ReadNext(t)
  <2>1. /\ frame' = [frame EXCEPT ![t].nextKey = nextPair.public] /\ pc[t] = "next"
        /\ pc' = [pc EXCEPT ![t] = "sign"] /\ UNCHANGED <<nextPair, curPrivate, curPublic>>
    BY <1>11 DEF ReadNext
  <2>2. frame'[t].nextKey = PublicKey(c)
    BY <2>1, <1>4, <1>6 DEF AloneAt, Pair, Frame
  <2> QED
    BY <1>1, <1>6, <2>1, <2>2 DEF AloneAt, Overlapped
<1>12. CASE SignBlock(t)
  <2> DEFINE sig == Sign(Digest(frame[t].block, frame[t].nextKey), curPrivate)
  <2>1. /\ frame' = [frame EXCEPT ![t].sig = sig] /\ pc[t] = "sign"
        /\ pc' = [pc EXCEPT ![t] = "assert"] /\ UNCHANGED <<nextPair, curPrivate, curPublic>>
    BY <1>12 DEF SignBlock
  <2>2. frame[t].nextKey = PublicKey(c)
    BY <2>1 DEF AloneAt
  <2>3. sig = Sign(Digest(frame'[t].block, PublicKey(c)), curPrivate')
    BY <2>1, <2>2, <1>1
  <2> HIDE DEF sig
  <2>4. frame'[t].nextKey = PublicKey(c) /\ frame'[t].sig = sig
    BY <2>1, <2>2, <1>4, <1>6 DEF Frame
  <2> QED
    BY <1>1, <1>6, <2>1, <2>3, <2>4 DEF AloneAt, Overlapped
<1>13. CASE SignThrows(t)
  BY <1>1, <1>6, <1>13 DEF SignThrows, AloneAt, Overlapped
<1>14. CASE CheckSignature(t)
  <2>1. /\ UNCHANGED <<frame, nextPair, curPrivate, curPublic>> /\ pc[t] = "assert"
        /\ pc' = [pc EXCEPT ![t] = "broadcast"]
    BY <1>14 DEF CheckSignature
  <2> QED
    BY <1>1, <1>6, <2>1 DEF AloneAt, Overlapped
<1> QED
  BY <1>7, <1>8, <1>9, <1>11, <1>12, <1>13, <1>14 DEF Walk

\* Alone and Left are kept together: a call starts with what the last left.
LEMMA StepAlone ==
    Typed /\ Overlaps /\ Filled /\ Alone /\ Left /\ [Next]_vars => Alone' /\ Left'
<1> SUFFICES ASSUME Typed, Overlaps, Filled, Alone, Left, [Next]_vars PROVE Alone' /\ Left'
  OBVIOUS
<1>1. ASSUME NEW t \in Thread, NEW b \in Block, ReadPrivate(t, b) PROVE Alone' /\ Left'
  <2>1. /\ Busy' = Busy \cup {t} /\ pc'[t] = "public"
        /\ frame'[t].call = calls + 1 /\ calls \in Nat
        /\ \A u \in Thread : u # t => frame'[u] = frame[u]
        /\ curPrivate' = nextPair.private /\ nextPair' = nextPair
        /\ \A d : Overlapped(d) => Overlapped(d)'
        /\ \A u \in Busy : \A d \in {calls + 1, frame[u].call} : Overlapped(d)'
    BY <1>1, StartFrame
  <2>2. PICK c : c = calls
    OBVIOUS
  <2>3. frame'[t].call - 1 = c
    BY <2>1, <2>2
  <2>4. ASSUME ~Overlapped(frame[t].call)' PROVE AloneAt(t)'
    <3>1. Busy = {}
      BY <2>1, <2>4 DEF Overlapped
    <3>2. ASSUME ~Overlapped(c)' PROVE nextPair.private = PrivateKey(c)
      BY <3>1, <3>2, <2>1, <2>2 DEF Left, Pair
    <3>3. nextPair.private \in KeyOver(SecretsTo(c))
      BY <2>2 DEF Typed, KeysOK
    <3> QED
      BY <2>1, <2>3, <3>2, <3>3 DEF AloneAt, Overlapped
  <2>5. ASSUME NEW u \in Busy, u # t PROVE Overlapped(frame[u].call)'
    BY <2>1, <2>5 DEF Busy, Overlapped
  <2>6. Busy' # {}
    BY <2>1
  <2> QED
    BY <2>1, <2>4, <2>5, <2>6 DEF Alone, Left
<1>2. ASSUME NEW t \in Thread, Walk(t) PROVE Alone' /\ Left'
  <2>1. /\ t \in Busy /\ Busy' = Busy /\ UNCHANGED overlaps
        /\ \A u \in Busy : frame'[u].call = frame[u].call
    BY <1>2, WalkFrame
  <2>2. ASSUME NEW u \in Busy, ~Overlapped(frame[u].call)' PROVE AloneAt(u)'
    <3>1. ~Overlapped(frame[u].call)
      BY <2>1, <2>2 DEF Overlapped
    <3>2. u = t
      BY <2>1, <3>1, AloneIsNewest
    <3>3. AloneAt(t)
      BY <3>1, <3>2 DEF Alone
    <3> QED
      BY <1>2, <3>1, <3>2, <3>3, WalkAlone
  <2> QED
    BY <2>1, <2>2 DEF Alone, Left
<1>3. ASSUME NEW t \in Thread, Broadcast(t) PROVE Alone' /\ Left'
  <2>1. /\ t \in Busy /\ Busy' = Busy \ {t} /\ pc[t] = "broadcast"
        /\ \A u \in Thread : u # t => frame'[u] = frame[u]
        /\ UNCHANGED <<nextPair, calls, overlaps>>
    BY <1>3, EndFrame
  <2>2. ASSUME NEW u \in Busy', ~Overlapped(frame[u].call)' PROVE FALSE
    <3>1. u \in Busy /\ u # t /\ ~Overlapped(frame[u].call)
      BY <2>1, <2>2 DEF Busy, Overlapped
    <3> QED
      BY <2>1, <3>1, AloneIsNewest
  <2>3. ASSUME ~Overlapped(calls)' PROVE nextPair' = Pair(calls')
    <3>1. ~Overlapped(calls)
      BY <2>1, <2>3 DEF Overlapped
    <3>2. frame[t].call = calls
      <4>1. frame[t].call \in 1 .. calls /\ calls \in Nat
        BY <2>1, FrameTypes
      <4>2. calls \in 1 .. calls
        BY <4>1
      <4>3. calls <= frame[t].call
        BY <4>2, <3>1, <2>1 DEF Overlaps
      <4> QED
        BY <4>1, <4>3
    <3>3. AloneAt(t)
      BY <2>1, <3>1, <3>2 DEF Alone
    <3> QED
      BY <2>1, <3>2, <3>3 DEF AloneAt
  <2> QED
    BY <2>2, <2>3 DEF Alone, Left
<1>4. CASE Elsewhere
  BY <1>4, ElsewhereFrame DEF Alone, AloneAt, Left, Overlapped
<1> QED
  BY <1>1, <1>2, <1>3, <1>4, Steps

\* The message of a call that ran alone is logged in its place.
LEMMA StepLogged ==
    Typed /\ Overlaps /\ Counts /\ Alone /\ Logged /\ [Next]_vars => Logged'
<1> SUFFICES ASSUME Typed, Overlaps, Counts, Alone, Logged, [Next]_vars PROVE Logged'
  OBVIOUS
<1>0. Len(log) \in Nat /\ calls \in Nat
  BY LenProperties, Bounds DEF Typed, LogOK, FramesOK
<1>1. ASSUME NEW t \in Thread, NEW b \in Block, ReadPrivate(t, b) PROVE Logged'
  <2>1. /\ t \notin Busy /\ Busy' = Busy \cup {t}
        /\ frame'[t].call = calls + 1 /\ calls' = calls + 1
        /\ \A u \in Thread : u # t => frame'[u] = frame[u]
        /\ \A d : Overlapped(d) => Overlapped(d)'
        /\ log' = log
    BY <1>1, StartFrame
  <2>2. ASSUME NEW d \in 1 .. calls', ~Overlapped(d)'
        PROVE  \/ \E u \in Busy' : frame'[u].call = d
               \/ d <= Len(log') /\ log'[d].call = d
    <3>1. CASE d = calls + 1
      BY <2>1, <3>1
    <3>2. CASE d # calls + 1
      <4>1. d \in 1 .. calls /\ ~Overlapped(d)
        BY <1>0, <2>1, <2>2, <3>2
      <4>2. \A u \in Busy : u \in Thread /\ u # t
        BY <2>1 DEF Busy
      <4> QED
        BY <4>1, <4>2, <2>1 DEF Logged, InPlace
    <3> QED
      BY <3>1, <3>2
  <2>3. ASSUME NEW i \in 1 .. Len(log), ~Overlapped(log[i].call)' PROVE LoggedAt(i)'
    <3>1. PICK c : c = log[i].call
      OBVIOUS
    <3>2. ~Overlapped(c)' /\ ~Overlapped(c)
      BY <3>1, <2>1, <2>3 DEF Overlapped
    <3>3. LoggedAt(i)
      BY <3>1, <3>2 DEF Logged
    <3>4. ~Overlapped(c - 1)' => ~Overlapped(c - 1)
      BY <2>1
    <3> QED
      BY <3>1, <3>3, <3>4, <2>1 DEF LoggedAt, Overlapped
  <2> QED
    BY <2>1, <2>2, <2>3 DEF Logged, InPlace
<1>2. ASSUME NEW t \in Thread, Walk(t) PROVE Logged'
  BY <1>2, WalkFrame DEF Logged, InPlace, LoggedAt, Overlapped
<1>3. ASSUME NEW t \in Thread, Broadcast(t) PROVE Logged'
  <2>1. /\ t \in Busy /\ Busy' = Busy \ {t} /\ pc[t] = "broadcast"
        /\ \A u \in Thread : u # t => frame'[u] = frame[u]
        /\ Len(log') = Len(log) + 1
        /\ \A i \in 1 .. Len(log) : log'[i] = log[i]
        /\ log'[Len(log) + 1] = frame[t]
        /\ UNCHANGED <<curPrivate, calls, overlaps>>
    BY <1>3, EndFrame
  <2>2. ASSUME ~Overlapped(frame[t].call)
        PROVE  frame[t].call = Len(log) + 1 /\ frame[t].call = calls /\ AloneAt(t)
    <3>1. Busy = {t} /\ frame[t].call = calls
      BY <2>1, <2>2, AloneIsNewest
    <3>2. Cardinality(Busy) = 1
      BY <3>1, FS_Singleton
    <3> QED
      BY <1>0, <2>1, <2>2, <3>1, <3>2 DEF Counts, Alone
  <2>3. ASSUME NEW d \in 1 .. calls, ~Overlapped(d)
        PROVE  \/ \E u \in Busy' : frame'[u].call = d
               \/ d <= Len(log') /\ log'[d].call = d
    <3>1. CASE frame[t].call = d
      <4>1. d = Len(log) + 1
        BY <2>2, <2>3, <3>1
      <4> QED
        BY <4>1, <3>1, <2>1, <1>0
    <3>2. ASSUME NEW u \in Busy, u # t, frame[u].call = d PROVE u \in Busy' /\ frame'[u].call = d
      BY <3>2, <2>1 DEF Busy
    <3>3. CASE d <= Len(log) /\ log[d].call = d
      BY <3>3, <2>1, <1>0
    <3> QED
      BY <2>3, <3>1, <3>2, <3>3 DEF Logged, InPlace
  <2>4. ASSUME NEW i \in 1 .. Len(log'), ~Overlapped(log[i].call)' PROVE LoggedAt(i)'
    <3>1. CASE i <= Len(log)
      <4>1. i \in 1 .. Len(log) /\ log'[i] = log[i]
        BY <3>1, <2>1, <1>0
      <4>2. ~Overlapped(log[i].call)
        BY <4>1, <2>1, <2>4 DEF Overlapped
      <4> QED
        BY <4>1, <4>2, <2>1 DEF Logged, LoggedAt, Overlapped
    <3>2. CASE i = Len(log) + 1
      <4>1. log'[i] = frame[t]
        BY <2>1, <3>2
      <4>2. ~Overlapped(frame[t].call)
        BY <4>1, <2>1, <2>4 DEF Overlapped
      <4>3. /\ frame[t].call = i /\ frame[t].call = calls /\ AloneAt(t)
        BY <4>2, <2>2, <3>2
      <4>4. frame[t].sig \in Seq(SecretsTo(i - 1))
        <5>1. curPrivate \in KeyOver(SecretsTo(i - 1))
          BY <4>3 DEF AloneAt
        <5>2. frame[t].sig = Sign(Digest(frame[t].block, PublicKey(i)), curPrivate)
          BY <4>3, <2>1 DEF AloneAt
        <5> QED
          BY <5>1, <5>2, SignTypes
      <4> QED
        BY <4>1, <4>3, <4>4, <2>1 DEF LoggedAt, AloneAt, Overlapped
    <3> QED
      BY <3>1, <3>2, <2>1, <1>0
  <2> QED
    BY <2>1, <2>3, <2>4 DEF Logged, InPlace, Overlapped
<1>4. CASE Elsewhere
  BY <1>4, ElsewhereFrame DEF Logged, InPlace, LoggedAt, Overlapped
<1> QED
  BY <1>1, <1>2, <1>3, <1>4, Steps

\* What the receiver has of the log.
LEMMA StepReceived == Typed /\ Received /\ [Next]_vars => Received'
<1> SUFFICES ASSUME Typed, Received, [Next]_vars PROVE Received'
  OBVIOUS
<1>0. /\ Len(log) \in Nat /\ handled \in 0 .. Len(log)
      /\ stored \in Seq([at : Nat, signature : Seq(SecretsTo(MaxCalls)),
                         publicKey : KeyOver(HashesTo(MaxCalls))])
  BY LenProperties DEF Typed, LogOK, ReceiverOK
<1>1. ASSUME NEW t \in Thread, NEW b \in Block, ReadPrivate(t, b) PROVE Received'
  <2>1. log' = log /\ UNCHANGED receiver
    BY <1>1, StartFrame
  <2> QED
    BY <2>1 DEF Received, receiver
<1>2. ASSUME NEW t \in Thread, Walk(t) PROVE Received'
  <2>1. log' = log /\ UNCHANGED receiver
    BY <1>2, WalkFrame
  <2> QED
    BY <2>1 DEF Received, receiver
<1>3. ASSUME NEW t \in Thread, Broadcast(t) PROVE Received'
  <2>1. /\ \A i \in 1 .. Len(log) : log'[i] = log[i]
        /\ UNCHANGED receiver
    BY <1>3, EndFrame
  <2>2. \A n \in 1 .. Len(stored) : stored[n].at \in 1 .. Len(log)
    BY <1>0 DEF Received
  <2>3. UNCHANGED <<handled, lost, known, stored>>
    BY <2>1 DEF receiver
  <2>4. (handled > 0 /\ handled \notin lost) => known = <<log'[handled].nextKey>>
    <3>1. handled > 0 => handled \in 1 .. Len(log)
      BY <1>0
    <3> QED
      BY <2>1, <3>1 DEF Received
  <2>5. \A n \in 1 .. Len(stored) : /\ stored[n].at \in (1 .. handled) \ lost
                                    /\ stored[n].signature = log'[stored[n].at].sig
                                    /\ stored[n].publicKey = log'[stored[n].at].nextKey
    BY <2>1, <2>2 DEF Received
  <2> QED
    BY <2>3, <2>4, <2>5 DEF Received
<1>4. CASE Receive
  <2> DEFINE item == [at |-> handled + 1, signature |-> log[handled + 1].sig,
                      publicKey |-> log[handled + 1].nextKey]
  <2>1. /\ handled' = handled + 1 /\ UNCHANGED <<lost, log>>
        /\ known' = <<log[handled + 1].nextKey>>
        /\ stored' = Append(stored, item) \/ stored' = stored
    BY <1>4 DEF Receive, NextKnown, StoredKey
  <2>2. lost \subseteq 1 .. handled /\ handled \in Nat
    BY <1>0 DEF Typed, ReceiverOK
  <2>3. item.at = handled + 1 /\ item.signature = log[handled + 1].sig
          /\ item.publicKey = log[handled + 1].nextKey
    OBVIOUS
  <2> HIDE DEF item
  <2>4. ASSUME NEW n \in 1 .. Len(stored')
        PROVE  stored'[n] = item \/ (n \in 1 .. Len(stored) /\ stored'[n] = stored[n])
    BY <2>1, <1>0, SMTT(30)
  <2>5. \A n \in 1 .. Len(stored') :
           LET s == stored'[n]
           IN  /\ s.at \in (1 .. handled') \ lost'
               /\ s.signature = log'[s.at].sig
               /\ s.publicKey = log'[s.at].nextKey
    <3>1. /\ item.at \in (1 .. handled + 1) \ lost
          /\ item.signature = log[item.at].sig
          /\ item.publicKey = log[item.at].nextKey
      BY <2>2, <2>3
    <3>2. ASSUME NEW n \in 1 .. Len(stored)
          PROVE  /\ stored[n].at \in (1 .. handled + 1) \ lost
                 /\ stored[n].signature = log[stored[n].at].sig
                 /\ stored[n].publicKey = log[stored[n].at].nextKey
      BY <2>2, <3>2 DEF Received
    <3> QED
      BY <2>1, <2>4, <3>1, <3>2
  <2>6. handled' # 0 /\ known' = <<log'[handled'].nextKey>>
    BY <2>1, <2>2
  <2> QED
    BY <2>5, <2>6 DEF Received
<1>5. CASE Lose
  <2>1. /\ handled' = handled + 1 /\ lost' = lost \cup {handled + 1}
        /\ UNCHANGED <<log, known, stored>>
    BY <1>5 DEF Lose
  <2>2. \A n \in 1 .. Len(stored) : /\ stored[n].at \in (1 .. handled) \ lost
                                    /\ stored[n].signature = log[stored[n].at].sig
                                    /\ stored[n].publicKey = log[stored[n].at].nextKey
    BY DEF Received
  <2>3. \A n \in 1 .. Len(stored) : stored[n].at \in (1 .. handled + 1) \ (lost \cup {handled + 1})
    BY <2>2, <1>0
  <2> QED
    BY <2>1, <2>2, <2>3, <1>0 DEF Received
<1>6. CASE UNCHANGED vars
  BY <1>6 DEF Received, vars, receiver
<1> QED
  BY <1>1, <1>2, <1>3, <1>4, <1>5, <1>6, Steps DEF Elsewhere

-----------------------------------------------------------------------------
(* The properties of calls that run alone.                                 *)

\* A call that runs alone passes the checks of signBlock.
LEMMA StepAborts ==
    Typed /\ Overlaps /\ Alone /\ AbortsOnlyOnOverlap /\ [Next]_vars => AbortsOnlyOnOverlap'
<1> SUFFICES ASSUME Typed, Overlaps, Alone, AbortsOnlyOnOverlap, [Next]_vars
             PROVE  AbortsOnlyOnOverlap'
  OBVIOUS
<1>1. ASSUME UNCHANGED <<aborted, overlaps>> PROVE AbortsOnlyOnOverlap'
  BY <1>1 DEF AbortsOnlyOnOverlap, Overlapped
<1>2. ASSUME NEW t \in Thread, NEW b \in Block, ReadPrivate(t, b) PROVE AbortsOnlyOnOverlap'
  BY <1>2, StartFrame DEF AbortsOnlyOnOverlap
<1>3. ASSUME NEW t \in Thread, Walk(t), aborted' \subseteq {frame[t].call},
             ~Overlapped(frame[t].call) => aborted' = {}
      PROVE  AbortsOnlyOnOverlap'
  <2>1. UNCHANGED overlaps
    BY <1>3, WalkFrame
  <2> QED
    BY <1>3, <2>1 DEF AbortsOnlyOnOverlap, Overlapped
<1>4. ASSUME NEW t \in Thread, Walk(t), ~Overlapped(frame[t].call) PROVE AloneAt(t)
  BY <1>4, WalkFrame DEF Alone
<1>5. ASSUME NEW t \in Thread, Walk(t) PROVE AbortsOnlyOnOverlap'
  <2>0. UNCHANGED overlaps
    BY <1>5, WalkFrame
  <2>1. CASE ReadNext(t)
    <3>1. pc[t] = "next" /\ aborted' = IF nextPair.public = NoKey \/ curPublic = NoKey
                                       THEN {frame[t].call} ELSE {}
      BY <2>1 DEF ReadNext, At
    <3>2. ASSUME ~Overlapped(frame[t].call) PROVE aborted' = {}
      <4>1. nextPair.public = PublicKey(frame[t].call) /\ curPublic # NoKey
        BY <1>4, <1>5, <3>1, <3>2 DEF AloneAt, Pair
      <4> QED
        BY <3>1, <4>1, KeyHolds
    <3> QED
      BY <1>3, <1>5, <3>1, <3>2
  <2>2. CASE SignThrows(t)
    <3>1. pc[t] = "sign" /\ aborted' = {frame[t].call} /\ ~Whole(frame[t].nextKey)
      BY <2>2 DEF SignThrows, At
    <3>2. ASSUME ~Overlapped(frame[t].call) PROVE FALSE
      <4>1. frame[t].nextKey = PublicKey(frame[t].call)
        BY <1>4, <1>5, <3>1, <3>2 DEF AloneAt
      <4> QED
        BY <3>1, <4>1, GeneratedWhole
    <3> QED
      BY <1>3, <1>5, <3>1, <3>2
  <2>3. CASE CheckSignature(t)
    <3> DEFINE digest == Digest(frame[t].block, frame[t].nextKey)
    <3>1. pc[t] = "assert" /\ aborted' = IF Verify(digest, frame[t].sig, curPublic) = 0
                                         THEN {frame[t].call} ELSE {}
      BY <2>3 DEF CheckSignature, At
    <3>2. ASSUME ~Overlapped(frame[t].call) PROVE aborted' = {}
      <4>1. frame[t].sig = Sign(digest, curPrivate) /\ Fits(curPrivate, curPublic)
        BY <1>4, <1>5, <3>1, <3>2 DEF AloneAt
      <4> HIDE DEF digest
      <4>2. Verify(digest, frame[t].sig, curPublic) # 0
        BY <4>1, SelfVerify
      <4> QED
        BY <3>1, <4>2
    <3> HIDE DEF digest
    <3> QED
      BY <1>3, <1>5, <3>1, <3>2
  <2>4. CASE ~(ReadNext(t) \/ SignThrows(t) \/ CheckSignature(t))
    <3>1. aborted' = aborted
      BY <1>5, <2>4 DEF Walk, ReadPublic, KeyGenClear, KeyGenPush, SignBlock
    <3> QED
      BY <1>1, <2>0, <3>1
  <2> QED
    BY <2>1, <2>2, <2>3, <2>4
<1>6. ASSUME NEW t \in Thread, Broadcast(t) PROVE AbortsOnlyOnOverlap'
  BY <1>1, <1>6, EndFrame
<1>7. CASE Elsewhere
  BY <1>1, <1>7, ElsewhereFrame
<1> QED
  BY <1>2, <1>5, <1>6, <1>7, Steps

\* A message that follows one in its place, both of calls that ran alone, is
\* signed with the pair that the other announced.
LEMMA CleanFollows ==
    ASSUME Typed, Overlaps, Logged, NEW i \in 1 .. Len(log), i > 1, Clean(log[i].call)
    PROVE  /\ log[i - 1].nextKey = PublicKey(i - 1)
           /\ log[i].sig = Sign(Digest(log[i].block, log[i].nextKey), PrivateKey(i - 1))
<1>0. Len(log) \in Nat /\ calls \in Nat /\ log[i].call <= calls /\ i \in Nat
  BY LenProperties, Bounds DEF Typed, LogOK, FramesOK
<1>1. ~Overlapped(log[i].call) /\ ~Overlapped(log[i].call - 1)
  BY DEF Clean
<1>2. LoggedAt(i)
  BY <1>1 DEF Logged
<1>3. log[i].call = i /\ i - 1 \in 1 .. calls /\ ~Overlapped(i - 1)
  BY <1>0, <1>1, <1>2 DEF LoggedAt
<1>4. ASSUME NEW t \in Busy, frame[t].call = i - 1 PROVE FALSE
  <2>1. i - 1 = calls
    BY <1>3, <1>4, AloneIsNewest
  <2> QED
    BY <2>1, <1>0, <1>3
<1>5. i - 1 \in 1 .. Len(log) /\ log[i - 1].call = i - 1
  BY <1>0, <1>3, <1>4 DEF Logged, InPlace
<1>6. LoggedAt(i - 1)
  BY <1>3, <1>5 DEF Logged
<1> QED
  BY <1>2, <1>3, <1>5, <1>6 DEF LoggedAt

\* checkBlockSig refuses no such message.
LEMMA StepClean ==
    Typed /\ Overlaps /\ Logged /\ Received /\ CleanAccepted /\ [Next]_vars => CleanAccepted'
<1> SUFFICES ASSUME Typed, Overlaps, Logged, Received, CleanAccepted, [Next]_vars
             PROVE  CleanAccepted'
  OBVIOUS
<1>0. /\ Len(log) \in Nat /\ handled \in 0 .. Len(log) /\ handled \in Nat
      /\ rejected \subseteq 1 .. handled
  BY LenProperties DEF Typed, LogOK, ReceiverOK
<1>1. ASSUME NEW t \in Thread, NEW b \in Block, ReadPrivate(t, b) PROVE CleanAccepted'
  <2>1. log' = log /\ UNCHANGED receiver /\ \A d : Overlapped(d) => Overlapped(d)'
    BY <1>1, StartFrame
  <2>2. \A c : Clean(c)' => Clean(c)
    BY <2>1 DEF Clean
  <2>3. ASSUME NEW i \in rejected, Clean(log[i].call)' PROVE i - 1 \in lost
    <3>1. PICK c : c = log[i].call
      OBVIOUS
    <3>2. Clean(c)'
      BY <2>1, <2>3, <3>1 DEF Clean, Overlapped
    <3> QED
      BY <2>2, <3>1, <3>2 DEF CleanAccepted
  <2> QED
    BY <2>1, <2>3 DEF CleanAccepted, receiver
<1>2. ASSUME NEW t \in Thread, Walk(t) PROVE CleanAccepted'
  <2>1. UNCHANGED <<log, overlaps, receiver>>
    BY <1>2, WalkFrame
  <2> QED
    BY <2>1 DEF CleanAccepted, Clean, Overlapped, receiver
<1>3. ASSUME NEW t \in Thread, Broadcast(t) PROVE CleanAccepted'
  <2>1. /\ \A i \in 1 .. Len(log) : log'[i] = log[i]
        /\ UNCHANGED <<receiver, overlaps>>
    BY <1>3, EndFrame
  <2>2. \A i \in rejected : i \in 1 .. Len(log)
    BY <1>0
  <2> QED
    BY <2>1, <2>2 DEF CleanAccepted, Clean, Overlapped, receiver
<1>4. CASE Receive
  <2> DEFINE i == handled + 1
             msg == log[i]
  <2>1. /\ handled < Len(log) /\ UNCHANGED <<lost, log, overlaps>>
        /\ \/ rejected' = rejected
           \/ /\ rejected' = rejected \cup {i}
              /\ known # <<>>
              /\ Verify(Digest(msg.block, msg.nextKey), msg.sig, known[1]) # 1
    BY <1>4 DEF Receive
  <2>2. ASSUME Clean(msg.call), known # <<>>, i - 1 \notin lost
        PROVE  Verify(Digest(msg.block, msg.nextKey), msg.sig, known[1]) = 1
    <3>1. i \in 1 .. Len(log) /\ i > 1 /\ i - 1 = handled /\ handled > 0
      BY <1>0, <2>1, <2>2 DEF Received
    <3>2. known = <<log[handled].nextKey>>
      BY <2>2, <3>1 DEF Received
    <3>3. /\ log[handled].nextKey = PublicKey(handled)
          /\ msg.sig = Sign(Digest(msg.block, msg.nextKey), PrivateKey(handled))
      BY <2>2, <3>1, CleanFollows
    <3>4. known[1] = PublicKey(handled)
      BY <3>2, <3>3
    <3> HIDE DEF msg, i
    <3>5. PICK d : d = Digest(msg.block, msg.nextKey)
      OBVIOUS
    <3> QED
      BY <3>3, <3>4, <3>5, VerifyExact DEF SameBits
  <2>3. ASSUME NEW j \in rejected', Clean(log[j].call) PROVE j - 1 \in lost
    BY <2>1, <2>2, <2>3 DEF CleanAccepted
  <2> QED
    BY <2>1, <2>3 DEF CleanAccepted, Clean, Overlapped
<1>5. CASE Lose
  BY <1>5 DEF Lose, CleanAccepted, Clean, Overlapped
<1>6. CASE UNCHANGED vars
  BY <1>6 DEF vars, receiver, CleanAccepted, Clean, Overlapped
<1> QED
  BY <1>1, <1>2, <1>3, <1>4, <1>5, <1>6, Steps DEF Elsewhere

\* The key that is stored with a signature verifies the one stored next to it.
Verifies(n) ==
    (n < Len(stored) /\ stored[n + 1].at = stored[n].at + 1) =>
        Verify(Digest(log[stored[n].at + 1].block, log[stored[n].at + 1].nextKey),
               stored[n + 1].signature, stored[n].publicKey) = 1
NextVerifies == \A n \in 1 .. Len(stored) : Verifies(n)

\* checkBlockSig has verified it so.
LEMMA StepNextVerifies ==
    Typed /\ Received /\ NextVerifies /\ [Next]_vars => NextVerifies'
<1> SUFFICES ASSUME Typed, Received, NextVerifies, [Next]_vars PROVE NextVerifies'
  OBVIOUS
<1>0. /\ Len(log) \in Nat /\ handled \in 0 .. Len(log) /\ handled \in Nat
      /\ stored \in Seq([at : Nat, signature : Seq(SecretsTo(MaxCalls)),
                         publicKey : KeyOver(HashesTo(MaxCalls))])
      /\ Len(stored) \in Nat
  BY LenProperties DEF Typed, LogOK, ReceiverOK
<1>1. ASSUME UNCHANGED stored, \A i \in 1 .. Len(log) : log'[i] = log[i] PROVE NextVerifies'
  <2>1. ASSUME NEW n \in 1 .. Len(stored), n < Len(stored), stored[n + 1].at = stored[n].at + 1
        PROVE  stored[n].at + 1 \in 1 .. Len(log)
    <3>1. n + 1 \in 1 .. Len(stored)
      BY <1>0, <2>1
    <3>2. stored[n + 1].at \in 1 .. handled
      BY <3>1 DEF Received
    <3> QED
      BY <2>1, <3>2, <1>0, SMTT(30)
  <2> QED
    BY <1>1, <2>1 DEF NextVerifies, Verifies
<1>2. ASSUME NEW t \in Thread, NEW b \in Block, ReadPrivate(t, b) PROVE NextVerifies'
  BY <1>1, <1>2, StartFrame DEF receiver
<1>3. ASSUME NEW t \in Thread, Walk(t) PROVE NextVerifies'
  BY <1>1, <1>3, WalkFrame DEF receiver
<1>4. ASSUME NEW t \in Thread, Broadcast(t) PROVE NextVerifies'
  BY <1>1, <1>4, EndFrame DEF receiver
<1>5. CASE Receive
  <2> DEFINE msg == log[handled + 1]
             item == [at |-> handled + 1, signature |-> msg.sig, publicKey |-> msg.nextKey]
             right == Verify(Digest(msg.block, msg.nextKey), msg.sig, known[1]) = 1
  <2>1. /\ UNCHANGED log
        /\ \/ stored' = stored
           \/ stored' = Append(stored, item) /\ (known = <<>> \/ right)
    BY <1>5 DEF Receive, NextKnown, StoredKey
  <2>2. item.at = handled + 1 /\ item.signature = msg.sig
    OBVIOUS
  <2> HIDE DEF item
  <2>3. CASE stored' = stored
    BY <1>1, <2>1, <2>3
  <2>4. CASE stored' = Append(stored, item) /\ (known = <<>> \/ right)
    <3>1. /\ Len(stored') = Len(stored) + 1
          /\ \A n \in 1 .. Len(stored) : stored'[n] = stored[n]
          /\ stored'[Len(stored) + 1] = item
      BY <2>4, <1>0
    <3>2. SUFFICES ASSUME NEW n \in 1 .. Len(stored'), n < Len(stored'),
                          stored'[n + 1].at = stored'[n].at + 1
                   PROVE  Verify(Digest(log'[stored'[n].at + 1].block,
                                        log'[stored'[n].at + 1].nextKey),
                                 stored'[n + 1].signature, stored'[n].publicKey) = 1
      BY DEF NextVerifies, Verifies
    <3>3. CASE n < Len(stored)
      <4>1. /\ n \in 1 .. Len(stored) /\ n + 1 \in 1 .. Len(stored)
        BY <3>1, <3>3, <1>0
      <4>2. stored'[n] = stored[n] /\ stored'[n + 1] = stored[n + 1]
        BY <3>1, <4>1
      <4> QED
        BY <4>1, <4>2, <3>2, <3>3, <2>1 DEF NextVerifies, Verifies
    <3>4. CASE n = Len(stored)
      <4>1. n \in 1 .. Len(stored) /\ stored'[n] = stored[n] /\ stored'[n + 1] = item
        BY <3>1, <3>2, <3>4, <1>0
      <4>2. stored[n].at = handled
        <5>1. stored[n].at \in 1 .. handled
          BY <4>1 DEF Received
        <5> QED
          BY <5>1, <4>1, <3>2, <2>2, <1>0
      <4>3. handled > 0 /\ handled \notin lost /\ stored[n].publicKey = log[handled].nextKey
        BY <4>1, <4>2, <1>0 DEF Received
      <4>4. known = <<log[handled].nextKey>>
        BY <4>3 DEF Received
      <4>5. known # <<>> /\ known[1] = stored[n].publicKey
        BY <4>3, <4>4
      <4> QED
        BY <4>1, <4>2, <4>5, <2>1, <2>2, <2>4
    <3> QED
      BY <3>1, <3>2, <3>3, <3>4, <1>0
  <2> QED
    BY <2>1, <2>3, <2>4
<1>6. CASE Lose
  BY <1>1, <1>6 DEF Lose
<1>7. CASE UNCHANGED vars
  BY <1>1, <1>7 DEF vars, receiver
<1> QED
  BY <1>2, <1>3, <1>4, <1>5, <1>6, <1>7, Steps DEF Elsewhere

\* A signature of older secrets is not verified by a newer pair.
LEMMA OldSignature ==
    ASSUME NEW c \in Nat \ {0}, NEW sig \in Seq(SecretsTo(c - 1)), NEW m
    PROVE  Verify(m, sig, PublicKey(c)) # 1
<1>1. SUFFICES ASSUME Verify(m, sig, PublicKey(c)) = 1 PROVE FALSE
  OBVIOUS
<1>2. 1 \in 1 .. KeyLen
  BY KeyAssumption
<1>3. /\ Len(sig) = KeyLen
      /\ hash(sig[1]) = IF Bit(m, 1) = 1 THEN PublicKey(c).S1[1] ELSE PublicKey(c).S0[1]
  BY <1>1, <1>2 DEF Verify
<1>4. PICK b \in {0, 1} : hash(sig[1]) = hash(Secret(c, 1, b))
  BY <1>2, <1>3 DEF PublicKey
<1>5. sig[1] = <<c, 1, b>>
  <2>1. hash(sig[1]).hashed = hash(Secret(c, 1, b)).hashed
    BY <1>4
  <2> QED
    BY <2>1 DEF hash, Secret
<1>6. Uses(sig, c)
  BY <1>2, <1>3, <1>5 DEF Uses
<1> QED
  BY <1>6, OldSecrets

\* The inductive invariant of the three properties.
ChainInv ==
    /\ Typed /\ Overlaps /\ Counts /\ Filled /\ Alone /\ Left /\ Logged /\ Received
    /\ AbortsOnlyOnOverlap /\ CleanAccepted /\ NextVerifies

\* It holds at first, ...
LEMMA InitChain == Init => ChainInv
<1> SUFFICES ASSUME Init PROVE ChainInv
  OBVIOUS
<1>1. Typed
  BY InitTyped
<1>2. Busy = {} /\ Cardinality(Busy) = 0
  BY FS_EmptySet DEF Init, Busy
<1>3. Len(log) = 0 /\ Len(stored) = 0 /\ calls = 0
  BY DEF Init
<1>4. Overlaps /\ Counts /\ Alone
  BY <1>2, <1>3 DEF Overlaps, Counts, Alone
<1>5. Filled /\ Left
  BY KeyHolds, <1>3 DEF Init, Filled, Left, Pair
<1>6. Logged /\ Received
  BY <1>3 DEF Init, Logged, InPlace, Received
<1>7. AbortsOnlyOnOverlap /\ CleanAccepted /\ NextVerifies
  BY <1>3 DEF Init, AbortsOnlyOnOverlap, CleanAccepted, NextVerifies
<1> QED
  BY <1>1, <1>4, <1>5, <1>6, <1>7 DEF ChainInv

\* ... and every step keeps it.
LEMMA StepChain == ChainInv /\ [Next]_vars => ChainInv'
BY StepTyped, StepOverlaps, StepCounts, StepFilled, StepAlone, StepLogged, StepReceived,
   StepAborts, StepClean, StepNextVerifies DEF ChainInv

\* signBlock ends the process, by its assertion or by a key that is empty or
\* of the wrong length, only in a call that overlapped another.
THEOREM AbortNeedsOverlap == Spec => []AbortsOnlyOnOverlap
<1>1. ChainInv => AbortsOnlyOnOverlap
  BY DEF ChainInv
<1> QED
  BY InitChain, StepChain, <1>1, PTL DEF Spec

\* checkBlockSig refuses the message of a call that ran alone after one that
\* ran alone only if the message before it was lost.
THEOREM CleanIsAccepted == Spec => []CleanAccepted
<1>1. ChainInv => CleanAccepted
  BY DEF ChainInv
<1> QED
  BY InitChain, StepChain, <1>1, PTL DEF Spec

\* The key that is stored with a signature is the one after the key it was
\* made with.
StoredKeyIsNext ==
    \A n \in DOMAIN stored :
        LET s == stored[n]
            digest(i) == Digest(log[i].block, log[i].nextKey)
        IN  /\ ~Overlapped(log[s.at].call) =>
                  Verify(digest(s.at), s.signature, s.publicKey) # 1
            /\ (n < Len(stored) /\ stored[n + 1].at = s.at + 1)
                  => Verify(digest(s.at + 1), stored[n + 1].signature, s.publicKey) = 1

\* updateRecvMessages reads val_sig_keys_ after checkBlockSig has replaced the
\* entry, and stores a signature with the key of the next one: no key that is
\* stored verifies the signature it is stored with (if the call ran alone),
\* and each verifies the one after it.  block.h:28 speaks of "the signing key
\* of a signature", and database_test.cc:63 stores that one.
THEOREM StoredKeyVerifiesNext == Spec => []StoredKeyIsNext
<1>1. ASSUME ChainInv PROVE StoredKeyIsNext
  <2>0. /\ Typed /\ Logged /\ Received /\ NextVerifies
        /\ Len(log) \in Nat /\ handled \in 0 .. Len(log)
        /\ DOMAIN stored = 1 .. Len(stored)
    BY <1>1, LenProperties DEF ChainInv, Typed, LogOK, ReceiverOK
  <2>1. ASSUME NEW n \in 1 .. Len(stored), ~Overlapped(log[stored[n].at].call), NEW m
        PROVE  Verify(m, stored[n].signature, stored[n].publicKey) # 1
    <3>1. PICK i : i = stored[n].at
      OBVIOUS
    <3>2. /\ i \in 1 .. Len(log) /\ i \in Nat \ {0}
          /\ stored[n].signature = log[i].sig /\ stored[n].publicKey = log[i].nextKey
      BY <2>0, <2>1, <3>1 DEF Received
    <3>3. LoggedAt(i)
      BY <2>0, <2>1, <3>1, <3>2 DEF Logged
    <3>4. log[i].nextKey = PublicKey(i) /\ log[i].sig \in Seq(SecretsTo(i - 1))
      BY <3>3 DEF LoggedAt
    <3> QED
      BY <3>2, <3>4, OldSignature
  <2>2. \A n \in 1 .. Len(stored) : Verifies(n)
    BY <2>0 DEF NextVerifies
  <2> QED
    BY <2>0, <2>1, <2>2 DEF StoredKeyIsNext, Verifies
<1> QED
  BY InitChain, StepChain, <1>1, PTL DEF Spec

-----------------------------------------------------------------------------
(* The lengths of the keys.                                                *)

\* The places that the threads have drawn secrets for are so many at most.
LEMMA DrawnFinite ==
    /\ IsFiniteSet(Places) /\ Cardinality(Places) = Cardinality(Thread) * KeyLen
    /\ Cardinality(Thread) \in Nat
    /\ IsFiniteSet(Drawn) /\ Cardinality(Drawn) \in Nat
    /\ Cardinality(Drawn) <= Cardinality(Thread) * KeyLen
<1>1. /\ IsFiniteSet(1 .. KeyLen) /\ Cardinality(1 .. KeyLen) = KeyLen
  BY Bounds, FS_Interval
<1>2. IsFiniteSet(Thread) /\ Cardinality(Thread) \in Nat
  BY ChainAssumption, FS_CardinalityType
<1>3. IsFiniteSet(Places) /\ Cardinality(Places) = Cardinality(Thread) * KeyLen
  BY <1>1, <1>2, FS_Product DEF Places
<1>4. Drawn \subseteq Places
  BY DEF Drawn
<1>5. IsFiniteSet(Drawn) /\ Cardinality(Drawn) <= Cardinality(Places)
  BY <1>3, <1>4, FS_Subset
<1> QED
  BY <1>2, <1>3, <1>5, FS_CardinalityType

\* An iteration of KeyGen draws for one place more.
LEMMA DrawnGrows ==
    ASSUME Typed, NEW t \in Thread, KeyGenPush(t)
    PROVE  Cardinality(Drawn') = Cardinality(Drawn) + 1
<1> DEFINE new == <<t, frame[t].made + 1>>
<1>1. /\ pc[t] = "push" /\ frame[t].made \in 0 .. KeyLen - 1
      /\ frame[t].made + 1 \in 1 .. KeyLen
      /\ pc' = [pc EXCEPT ![t] = IF frame[t].made + 1 = KeyLen THEN "next" ELSE "push"]
      /\ frame'[t].made = frame[t].made + 1
      /\ \A u \in Thread : u # t => frame'[u] = frame[u] /\ pc'[u] = pc[u]
  BY PushStep
<1>2. pc'[t] = IF frame[t].made + 1 = KeyLen THEN "next" ELSE "push"
  BY <1>1 DEF Typed, FramesOK
<1>3. new \in Places /\ new \notin Drawn
  <2>1. ~(frame[t].made + 1 <= frame[t].made)
    BY <1>1
  <2> QED
    BY <1>1, <2>1 DEF Places, Drawn
<1>4. ASSUME NEW u \in Thread, NEW i \in 1 .. KeyLen
      PROVE  <<u, i>> \in Drawn' <=> <<u, i>> \in Drawn \/ <<u, i>> = new
  <2>1. <<u, i>> \in Drawn' <=> (pc'[u] = "push" => i <= frame'[u].made)
    BY DEF Drawn, Places
  <2>2. <<u, i>> \in Drawn <=> (pc[u] = "push" => i <= frame[u].made)
    BY DEF Drawn, Places
  <2>3. CASE u # t
    BY <2>1, <2>2, <2>3, <1>1
  <2>4. CASE u = t
    <3>1. <<u, i>> \in Drawn <=> i <= frame[t].made
      BY <2>2, <2>4, <1>1
    <3>2. <<u, i>> = new <=> i = frame[t].made + 1
      BY <2>4
    <3>3. <<u, i>> \in Drawn' <=> i <= frame[t].made + 1
      BY <2>1, <2>4, <1>1, <1>2
    <3> HIDE DEF new
    <3> QED
      BY <3>1, <3>2, <3>3, <1>1
  <2> QED
    BY <2>3, <2>4
<1> HIDE DEF new
<1>5. Drawn' = Drawn \cup {new}
  <2>1. Drawn' \subseteq Places /\ Drawn \cup {new} \subseteq Places
    BY <1>3 DEF Drawn, Places
  <2>2. ASSUME NEW p \in Places PROVE p \in Drawn' <=> p \in Drawn \cup {new}
    <3>1. PICK u \in Thread, i \in 1 .. KeyLen : p = <<u, i>>
      BY DEF Places
    <3> QED
      BY <3>1, <1>4
  <2> QED
    BY <2>1, <2>2
<1> QED
  BY <1>3, <1>5, DrawnFinite, FS_AddElement

\* A step that neither enters the loop of KeyGen nor goes on with it.
LEMMA Stays ==
    ASSUME Typed, [Next]_vars, \A t \in Thread : ~KeyGenClear(t),
           \A t \in Thread : ~KeyGenPush(t)
    PROVE  /\ nextPair' = nextPair
           /\ \A u \in Thread :
                 /\ (pc'[u] = "push") <=> (pc[u] = "push")
                 /\ pc[u] = "push" => frame'[u] = frame[u]
<1> USE DEF At
<1>0. pc \in [Thread -> {"idle", "public", "clear", "push", "next", "sign", "assert",
                         "broadcast"}]
      /\ frame \in [Thread -> Frame \cup {<<>>}]
  BY DEF Typed, FramesOK
<1> DEFINE Goal == /\ nextPair' = nextPair
                   /\ \A u \in Thread :
                         /\ (pc'[u] = "push") <=> (pc[u] = "push")
                         /\ pc[u] = "push" => frame'[u] = frame[u]
<1>1. ASSUME NEW t \in Thread, NEW b \in Block, ReadPrivate(t, b) PROVE Goal
  BY <1>0, <1>1 DEF ReadPrivate
<1>2. ASSUME NEW t \in Thread, Walk(t) PROVE Goal
  <2>1. CASE ReadPublic(t)
    BY <1>0, <2>1 DEF ReadPublic
  <2>2. CASE ReadNext(t)
    BY <1>0, <2>2 DEF ReadNext
  <2>3. CASE SignBlock(t)
    BY <1>0, <2>3 DEF SignBlock
  <2>4. CASE SignThrows(t)
    BY <1>0, <2>4 DEF SignThrows
  <2>5. CASE CheckSignature(t)
    BY <1>0, <2>5 DEF CheckSignature
  <2> QED
    BY <1>2, <2>1, <2>2, <2>3, <2>4, <2>5 DEF Walk
<1>3. ASSUME NEW t \in Thread, Broadcast(t) PROVE Goal
  BY <1>0, <1>3 DEF Broadcast
<1>4. CASE Elsewhere
  BY <1>4, ElsewhereFrame
<1> QED
  BY <1>1, <1>2, <1>3, <1>4, Steps

\* How the list of the next pair grows.
LEMMA Growth ==
    ASSUME Typed, NEW t \in Thread
    PROVE  /\ KeyGenClear(t) => nextPair'.private = NoKey /\ Len(nextPair'.private.S0) = 0
           /\ KeyGenPush(t) =>
                /\ nextPair'.private = Push(nextPair.private, PrivateKey(frame[t].call),
                                            frame[t].made + 1)
                /\ Len(nextPair'.private.S0) = Len(nextPair.private.S0) + 1
           /\ Len(nextPair.private.S0) \in Nat
<1>0. /\ nextPair.private \in KeyOver(SecretsTo(calls))
      /\ Len(nextPair.private.S0) \in Nat
  BY LenProperties DEF Typed, KeysOK, KeyOver
<1>1. ASSUME KeyGenClear(t) PROVE nextPair'.private = NoKey /\ Len(nextPair'.private.S0) = 0
  BY <1>1 DEF KeyGenClear, NoKey
<1>2. ASSUME KeyGenPush(t)
      PROVE  /\ nextPair'.private = Push(nextPair.private, PrivateKey(frame[t].call),
                                         frame[t].made + 1)
             /\ Len(nextPair'.private.S0) = Len(nextPair.private.S0) + 1
  <2>1. /\ pc[t] = "push" /\ frame[t].made + 1 \in 1 .. KeyLen
        /\ nextPair'.private = Push(nextPair.private, PrivateKey(frame[t].call),
                                    frame[t].made + 1)
    BY <1>2, PushStep
  <2>2. PrivateKey(frame[t].call) \in KeyOver(SecretsTo(calls)) /\ Whole(PrivateKey(frame[t].call))
    BY <2>1, FrameTypes, KeyTypes, GeneratedWhole
  <2>3. PICK i \in 1 .. KeyLen : i = frame[t].made + 1
    BY <2>1
  <2>4. PICK key : key = PrivateKey(frame[t].call)
    OBVIOUS
  <2>5. Len(Push(nextPair.private, key, i).S0) = Len(nextPair.private.S0) + 1
    BY <1>0, <2>2, <2>4, PushTypes
  <2> QED
    BY <2>1, <2>3, <2>4, <2>5, Zenon
<1> QED
  BY <1>0, <1>1, <1>2

\* Every thread adds at most one key after the last clear().
LEMMA StepShort == Typed /\ Short /\ [Next]_vars => Short'
<1> SUFFICES ASSUME Typed, Short, [Next]_vars PROVE Short'
  OBVIOUS
<1> DEFINE d == Cardinality(Drawn)
           n == Len(nextPair.private.S0)
           top == Cardinality(Thread) * KeyLen
<1>0. d \in Nat /\ n \in Nat /\ n <= d /\ d <= top /\ top \in Nat
  <2>1. d \in Nat /\ d <= top /\ Cardinality(Thread) \in Nat
    BY DrawnFinite
  <2>2. n \in Nat
    BY LenProperties DEF Typed, KeysOK, KeyOver
  <2>3. n <= d
    BY DEF Short
  <2>4. top \in Nat
    BY <2>1, Bounds
  <2> QED
    BY <2>1, <2>2, <2>3, <2>4
<1> HIDE DEF d, n, top
<1>1. n <= top
  BY <1>0
<1>2. /\ Fits(nextPair.private, nextPair.public) /\ Fits(nextPair.private, nextPair.public)'
  BY StepTyped DEF Typed, KeysOK
<1>3. ASSUME NEW a, NEW b, Fits(a, b)
      PROVE  Len(a.S1) = Len(a.S0) /\ Len(b.S0) = Len(a.S0) /\ Len(b.S1) = Len(a.S0)
  BY <1>3 DEF Fits, Hashed
<1>4. ASSUME NEW t \in Thread, KeyGenClear(t) PROVE Short'
  <2>1. Len(nextPair'.private.S0) = 0 /\ UNCHANGED <<curPrivate, curPublic>>
    BY <1>4, Growth DEF KeyGenClear
  <2>2. IsFiniteSet(Drawn')
    <3>1. Drawn' \subseteq Places
      BY DEF Drawn, Places
    <3> QED
      BY <3>1, DrawnFinite, FS_Subset
  <2>3. 0 <= Cardinality(Drawn')
    BY <2>2, FS_CardinalityType
  <2> QED
    BY <2>1, <2>3 DEF Short
<1>5. ASSUME NEW t \in Thread, KeyGenPush(t) PROVE Short'
  <2>1. Len(nextPair'.private.S0) = n + 1 /\ Cardinality(Drawn') = d + 1
    BY <1>5, Growth, DrawnGrows DEF n, d
  <2>2. UNCHANGED <<curPrivate, curPublic>>
    BY <1>5, PushStep
  <2>3. n + 1 <= d + 1
    BY <1>0
  <2> QED
    BY <2>1, <2>2, <2>3 DEF Short
<1>7. ASSUME Drawn' = Drawn, nextPair' = nextPair,
             curPrivate' \in {curPrivate, nextPair.private},
             curPublic' \in {curPublic, nextPair.public}
      PROVE  Short'
  <2>1. /\ Len(curPrivate'.S0) <= top /\ Len(curPrivate'.S1) = Len(curPrivate'.S0)
        /\ Len(curPublic'.S0) <= top /\ Len(curPublic'.S1) = Len(curPublic'.S0)
    BY <1>1, <1>2, <1>3, <1>7 DEF Short, n, top
  <2> QED
    BY <2>1, <1>7 DEF Short, top
<1>8. CASE \A t \in Thread : ~KeyGenClear(t) /\ ~KeyGenPush(t)
  <2>0. /\ nextPair' = nextPair
        /\ \A u \in Thread : /\ (pc'[u] = "push") <=> (pc[u] = "push")
                             /\ pc[u] = "push" => frame'[u] = frame[u]
    BY <1>8, Stays
  <2>1. Drawn' = Drawn
    <3>1. ASSUME NEW p \in Places PROVE p \in Drawn' <=> p \in Drawn
      <4>1. p[1] \in Thread
        BY DEF Places
      <4> QED
        BY <4>1, <2>0 DEF Drawn, Places
    <3> QED
      BY <3>1 DEF Drawn, Places
  <2>2. ASSUME NEW t \in Thread, NEW b \in Block, ReadPrivate(t, b) PROVE Short'
    BY <2>0, <2>1, <2>2, <1>7, StartFrame
  <2>3. ASSUME NEW t \in Thread, Walk(t) PROVE Short'
    <3>1. curPrivate' = curPrivate /\ curPublic' \in {curPublic, nextPair.public}
      BY <1>8, <2>3 DEF Walk, ReadPublic, ReadNext, SignBlock, SignThrows, CheckSignature
    <3> QED
      BY <2>0, <2>1, <3>1, <1>7
  <2>4. ASSUME NEW t \in Thread, Broadcast(t) PROVE Short'
    BY <2>0, <2>1, <2>4, <1>7, EndFrame
  <2>5. CASE Elsewhere
    BY <2>0, <2>1, <2>5, <1>7, ElsewhereFrame
  <2> QED
    BY <2>2, <2>3, <2>4, <2>5, Steps
<1> QED
  BY <1>4, <1>5, <1>8

\* Every variable of the signer and the receiver has its type: above all, the
\* keys are bounded however the threads interleave, the lists of a pair grow
\* together, and no message leaves with a key of the wrong length.
THEOREM ChainTypeCorrect == Spec => []TypeOK
<1>1. Init => Short
  <2> SUFFICES ASSUME Init PROVE Short
    OBVIOUS
  <2>1. Drawn = Places
    BY DEF Init, Drawn, Places
  <2>2. Cardinality(Drawn) = Cardinality(Thread) * KeyLen
    BY <2>1, DrawnFinite
  <2>3. nextPair.private = PrivateKey(0) /\ Len(PrivateKey(0).S0) = KeyLen
    BY GeneratedWhole DEF Init, Whole
  <2>4. curPrivate = NoKey /\ curPublic = NoKey /\ Len(NoKey.S0) = 0 /\ Len(NoKey.S1) = 0
    BY DEF Init, NoKey
  <2>5. Cardinality(Thread) \in Nat \ {0} /\ KeyLen \in Nat
    BY DrawnFinite, Bounds, ChainAssumption, FS_EmptySet
  <2>6. KeyLen <= Cardinality(Thread) * KeyLen /\ 0 <= Cardinality(Thread) * KeyLen
    <3>1. ASSUME NEW a \in Nat \ {0}, NEW k \in Nat PROVE k <= a * k /\ 0 <= a * k
      <4>1. PICK b \in Nat : a = b + 1
        <5>1. a - 1 \in Nat /\ a = (a - 1) + 1
          OBVIOUS
        <5> QED
          BY <5>1
      <4>2. a * k = b * k + k /\ b * k \in Nat
        BY <4>1
      <4> QED
        BY <4>2
    <3> QED
      BY <2>5, <3>1
  <2> QED
    BY <2>2, <2>3, <2>4, <2>6 DEF Short
<1>2. ASSUME Typed, Short PROVE TypeOK
  <2> DEFINE top == Cardinality(Thread) * KeyLen
  <2>1. /\ Len(nextPair.private.S1) = Len(nextPair.private.S0)
        /\ Len(nextPair.public.S0) = Len(nextPair.private.S0)
        /\ Len(nextPair.public.S1) = Len(nextPair.private.S0)
    BY <1>2 DEF Typed, KeysOK, Fits, Hashed
  <2>2. Len(nextPair.private.S0) <= top
    <3>1. Len(nextPair.private.S0) \in Nat /\ Cardinality(Drawn) \in Nat
      BY <1>2, DrawnFinite, LenProperties DEF Typed, KeysOK, KeyOver
    <3>2. Len(nextPair.private.S0) <= Cardinality(Drawn) /\ Cardinality(Drawn) <= top
      BY <1>2, DrawnFinite DEF Short
    <3>3. top \in Nat
      BY DrawnFinite, Bounds
    <3> HIDE DEF top
    <3> QED
      BY <3>1, <3>2, <3>3
  <2>3. \A i \in DOMAIN log : Whole(log[i].nextKey)
    BY <1>2, LenProperties DEF Typed, LogOK
  <2>4. handled \in 0 .. Len(log) /\ lost \cup rejected \subseteq 1 .. handled
    BY <1>2 DEF Typed, ReceiverOK
  <2>5. \A n \in {Len(nextPair.private.S0), Len(nextPair.private.S1)}
                \cup {Len(curPrivate.S0), Len(curPrivate.S1)}
                \cup {Len(curPublic.S0), Len(curPublic.S1)} : n <= top
    BY <1>2, <2>1, <2>2 DEF Short
  <2> QED
    BY <1>2, <2>1, <2>3, <2>4, <2>5 DEF Typed, FramesOK, TypeOK
<1> QED
  BY InitTyped, StepTyped, StepShort, <1>1, <1>2, PTL DEF Spec

-----------------------------------------------------------------------------
(* One-time keys.                                                          *)

\* The step that signs adds the signature of its call; no other step signs.
LEMMA Signing ==
    ASSUME Typed, NEW t \in Thread, Walk(t)
    PROVE  \/ signed' = signed /\ ~SignBlock(t)
           \/ /\ SignBlock(t) /\ pc[t] = "sign" /\ pc'[t] = "assert"
              /\ UNCHANGED <<nextPair, curPrivate>>
              /\ \E sig \in Seq(SecretsTo(calls)) :
                    /\ signed' = signed \cup {[call |-> frame[t].call, sig |-> sig]}
                    /\ \A k : Uses(sig, k) => Holds(curPrivate, k)
                    /\ sig = <<>> \/ Whole(curPrivate)
<1>1. CASE SignBlock(t)
  <2> DEFINE digest == Digest(frame[t].block, frame[t].nextKey)
             sig == Sign(digest, curPrivate)
  <2>1. /\ signed' = signed \cup {[call |-> frame[t].call, sig |-> sig]}
        /\ pc[t] = "sign" /\ pc'[t] = "assert" /\ UNCHANGED <<nextPair, curPrivate>>
    BY <1>1 DEF SignBlock, At, Typed, FramesOK
  <2>2. curPrivate \in KeyOver(SecretsTo(calls))
    BY DEF Typed, KeysOK
  <2> HIDE DEF digest
  <2>3. sig \in Seq(SecretsTo(calls)) /\ \A k : Uses(sig, k) => Holds(curPrivate, k)
    BY <2>2, SignTypes
  <2>4. sig = <<>> \/ Whole(curPrivate)
    BY DEF Sign
  <2> QED
    BY <1>1, <2>1, <2>3, <2>4
<1>2. CASE ~SignBlock(t)
  BY <1>2 DEF Walk, ReadPublic, KeyGenClear, KeyGenPush, ReadNext, SignThrows,
              CheckSignature
<1> QED
  BY <1>1, <1>2

\* KeyGen adds only secrets of the call that runs it.
LEMMA PairHolds ==
    ASSUME Typed, NEW t \in Thread, Walk(t), NEW k
    PROVE  Holds(nextPair'.private, k) =>
              \/ Holds(nextPair.private, k)
              \/ k = frame[t].call /\ pc[t] = "push"
<1>0. /\ frame[t].call \in 0 .. calls /\ calls \in Nat
      /\ nextPair.private \in KeyOver(SecretsTo(calls))
  BY WalkFrame, FrameTypes DEF Busy, Typed, KeysOK
<1>1. CASE KeyGenClear(t)
  BY <1>1, Growth, KeyHolds
<1>2. CASE KeyGenPush(t)
  <2>1. /\ pc[t] = "push" /\ frame[t].made + 1 \in 1 .. KeyLen
        /\ nextPair'.private = Push(nextPair.private, PrivateKey(frame[t].call),
                                    frame[t].made + 1)
    BY <1>2, PushStep
  <2> QED
    BY <2>1, <1>0, PushHolds
<1>4. CASE ~(KeyGenClear(t) \/ KeyGenPush(t))
  <2>1. nextPair' = nextPair
    BY <1>4 DEF Walk, ReadPublic, ReadNext, SignBlock, SignThrows, CheckSignature
  <2> QED
    BY <2>1
<1> QED
  BY <1>1, <1>2, <1>4

\* A call draws its secrets once it is in the loop of KeyGen, and signs once.
LEMMA StepFresh == Typed /\ Fresh /\ [Next]_vars => Fresh'
<1> SUFFICES ASSUME Typed, Fresh, [Next]_vars PROVE Fresh'
  OBVIOUS
<1>0. \A u \in Busy : u \in Thread /\ frame[u].call \in 1 .. calls /\ calls \in Nat
  BY FrameTypes DEF Busy
<1>1. ASSUME NEW t \in Thread, NEW b \in Block, ReadPrivate(t, b) PROVE Fresh'
  <2>1. /\ t \notin Busy /\ Busy' = Busy \cup {t} /\ pc'[t] = "public"
        /\ frame'[t].call = calls + 1 /\ calls \in Nat
        /\ \A u \in Thread : u # t => frame'[u] = frame[u] /\ pc'[u] = pc[u]
        /\ curPrivate' = nextPair.private
        /\ UNCHANGED <<nextPair, signed>>
    BY <1>1, StartFrame
  <2>2. PICK c : c = calls + 1
    OBVIOUS
  <2>3. /\ ~Holds(nextPair.private, c)
        /\ \A x \in signed : ~Uses(x.sig, c) /\ x.call # c
    <3>1. c \in Nat /\ c > calls
      BY <2>1, <2>2
    <3>2. nextPair.private \in KeyOver(SecretsTo(calls))
      BY DEF Typed, KeysOK
    <3>3. \A x \in signed : x.sig \in Seq(SecretsTo(calls)) /\ x.call \in 1 .. calls
      BY DEF Typed, SignedOK
    <3>4. /\ \A list \in Seq(SecretsTo(calls)) : ~Uses(list, c)
          /\ \A key \in KeyOver(SecretsTo(calls)) : ~Holds(key, c)
      BY <3>1, <2>1, OldSecrets
    <3> QED
      BY <3>1, <3>2, <3>3, <3>4, <2>1
  <2>4. \A u \in Busy : frame'[u] = frame[u] /\ pc'[u] = pc[u] /\ frame[u].call # c
    BY <1>0, <2>1, <2>2
  <2> QED
    BY <2>1, <2>2, <2>3, <2>4 DEF Fresh
<1>2. ASSUME NEW t \in Thread, Walk(t) PROVE Fresh'
  <2>1. /\ t \in Busy /\ Busy' = Busy
        /\ \A u \in Thread : u # t => frame'[u] = frame[u] /\ pc'[u] = pc[u]
        /\ \A u \in Busy : frame'[u].call = frame[u].call
    BY <1>2, WalkFrame
  <2>2. curPrivate' = curPrivate
    BY <1>2 DEF Walk, ReadPublic, KeyGenClear, KeyGenPush, ReadNext, SignBlock,
                SignThrows, CheckSignature
  <2>3. \/ signed' = signed
        \/ /\ pc[t] = "sign" /\ pc'[t] = "assert"
           /\ \E sig : /\ signed' = signed \cup {[call |-> frame[t].call, sig |-> sig]}
                       /\ \A k : Uses(sig, k) => Holds(curPrivate, k)
    BY <1>2, Signing
  <2>4. ASSUME pc'[t] \in {"public", "clear"} PROVE pc[t] \in {"public", "clear"}
    BY <1>2, <2>4 DEF Walk, ReadPublic, KeyGenClear, KeyGenPush, ReadNext,
                      SignBlock, SignThrows, CheckSignature, At, Typed, FramesOK
  <2>5. ASSUME pc'[t] \notin {"assert", "broadcast"} PROVE pc[t] \notin {"assert", "broadcast"}
    BY <1>2, <2>5 DEF Walk, ReadPublic, KeyGenClear, KeyGenPush, ReadNext,
                      SignBlock, SignThrows, CheckSignature, At, Typed, FramesOK
  <2>6. ASSUME NEW u \in Busy, pc'[u] \in {"public", "clear"}
        PROVE  /\ ~Holds(nextPair'.private, frame[u].call)
               /\ ~Holds(curPrivate', frame[u].call)
               /\ \A x \in signed' : ~Uses(x.sig, frame[u].call)
    <3>1. pc[u] \in {"public", "clear"} /\ (u = t => pc[t] \in {"public", "clear"})
      BY <1>0, <2>1, <2>4, <2>6
    <3>2. PICK k : k = frame[u].call
      OBVIOUS
    <3>3. /\ ~Holds(nextPair.private, k) /\ ~Holds(curPrivate, k)
          /\ \A x \in signed : ~Uses(x.sig, k)
      BY <3>1, <3>2 DEF Fresh
    <3>4. ~(k = frame[t].call /\ pc[t] = "push")
      BY <3>1, <3>2, <2>1 DEF Fresh
    <3>5. ~Holds(nextPair'.private, k)
      BY <1>2, <3>3, <3>4, PairHolds
    <3>6. \A x \in signed' : ~Uses(x.sig, k)
      BY <2>3, <3>3
    <3> QED
      BY <2>2, <3>2, <3>3, <3>5, <3>6
  <2>7. ASSUME NEW u \in Busy, NEW x \in signed', pc'[u] \notin {"assert", "broadcast"}
        PROVE  frame[u].call # x.call
    <3>1. pc[u] \notin {"assert", "broadcast"}
      BY <1>0, <2>1, <2>5, <2>7
    <3>2. CASE x \in signed
      BY <3>1, <3>2 DEF Fresh
    <3>3. CASE x \notin signed
      <4>1. x.call = frame[t].call /\ u # t
        BY <2>3, <2>7, <3>3
      <4> QED
        BY <4>1, <2>1 DEF Fresh
    <3> QED
      BY <3>2, <3>3
  <2>8. \A x, y \in signed' : x.call = y.call => x = y
    <3>1. CASE signed' = signed
      BY <3>1 DEF Fresh
    <3>2. CASE signed' # signed
      <4>1. pc[t] = "sign" /\ \E sig : signed' = signed \cup {[call |-> frame[t].call, sig |-> sig]}
        BY <2>3, <3>2
      <4>2. \A x \in signed : x.call # frame[t].call
        BY <4>1, <2>1 DEF Fresh
      <4> QED
        BY <4>1, <4>2 DEF Fresh
    <3> QED
      BY <3>1, <3>2
  <2>9. \A u, v \in Busy' : u # v => frame'[u].call # frame'[v].call
    BY <2>1 DEF Fresh
  <2>10. \A u \in Busy' : pc'[u] \in {"public", "clear"} =>
           /\ ~Holds(nextPair'.private, frame'[u].call)
           /\ ~Holds(curPrivate', frame'[u].call)
           /\ \A x \in signed' : ~Uses(x.sig, frame'[u].call)
    BY <2>1, <2>6
  <2>11. \A u \in Busy', x \in signed' :
           pc'[u] \notin {"assert", "broadcast"} => frame'[u].call # x.call
    BY <2>1, <2>7
  <2> QED
    BY <2>8, <2>9, <2>10, <2>11 DEF Fresh
<1>3. ASSUME NEW t \in Thread, Broadcast(t) PROVE Fresh'
  <2>1. /\ Busy' = Busy \ {t}
        /\ \A u \in Thread : u # t => frame'[u] = frame[u] /\ pc'[u] = pc[u]
        /\ UNCHANGED <<nextPair, curPrivate, signed>>
    BY <1>3, EndFrame
  <2>2. \A u \in Busy' : u \in Busy /\ frame'[u] = frame[u] /\ pc'[u] = pc[u]
    BY <1>0, <2>1
  <2> QED
    BY <2>1, <2>2 DEF Fresh
<1>4. CASE Elsewhere
  BY <1>4, ElsewhereFrame DEF Fresh
<1> QED
  BY <1>1, <1>2, <1>3, <1>4, Steps

\* A step that neither starts a call nor goes to KeyGen or into it.
Inner(t) == \/ KeyGenPush(t) \/ ReadNext(t) \/ SignBlock(t) \/ SignThrows(t)
            \/ CheckSignature(t)

\* Such a step signs with no other secrets and leaves the clears that are due.
LEMMA InnerKeeps ==
    ASSUME Typed, NEW t \in Thread, Inner(t)
    PROVE  /\ Clearing => Clearing'
           /\ \A k : Unused(k) => Unused(k)'
           /\ curPrivate' = curPrivate /\ calls' = calls
           /\ \A u \in Busy : frame'[u].call = frame[u].call
<1>1. /\ \A u \in Thread : u # t => pc'[u] = pc[u]
      /\ \A u \in Busy : frame'[u].call = frame[u].call
      /\ calls' = calls
  BY WalkFrame DEF Inner, Walk
<1>2. pc[t] \notin {"public", "clear"} /\ curPrivate' = curPrivate
  BY DEF Inner, KeyGenPush, ReadNext, SignBlock, SignThrows, CheckSignature, At
<1>3. Clearing => Clearing'
  BY <1>1, <1>2 DEF Clearing
<1>4. \/ signed' = signed
      \/ \E sig : /\ signed' = signed \cup {[call |-> frame[t].call, sig |-> sig]}
                  /\ \A k : Uses(sig, k) => Holds(curPrivate, k)
  BY Signing DEF Inner, Walk
<1>5. ASSUME NEW k, Unused(k) PROVE Unused(k)'
  BY <1>2, <1>4, <1>5 DEF Unused
<1> QED
  BY <1>1, <1>2, <1>3, <1>5

\* The pair of a call is made as if the call ran alone.
LEMMA MadeOn ==
    ASSUME Typed, NEW t \in Thread, KeyGenPush(t), NEW k \in 0 .. calls, Made(k)
    PROVE  Made(k)'
<1> DEFINE n == frame[t].made
<1>1. /\ pc[t] = "push" /\ n \in 0 .. KeyLen - 1
      /\ frame'[t].made = n + 1 /\ frame'[t].call = frame[t].call
      /\ nextPair'.private = Push(nextPair.private, PrivateKey(frame[t].call), n + 1)
      /\ \A u \in Thread : u # t => pc'[u] = pc[u]
  BY PushStep
<1>2. pc'[t] = IF n + 1 = KeyLen THEN "next" ELSE "push"
  BY PushStep DEF Typed, FramesOK
<1>3. InLoop = {t} /\ frame[t].call = k /\ nextPair.private = KeyPart(PrivateKey(k), n)
  <2>1. t \in InLoop
    BY <1>1 DEF InLoop
  <2> QED
    BY <2>1 DEF Made
<1>4. PrivateKey(k) \in KeyOver(SecretsTo(calls)) /\ Whole(PrivateKey(k))
  BY KeyTypes, GeneratedWhole, Bounds DEF Typed, FramesOK
<1>5. /\ Push(KeyPart(PrivateKey(k), n), PrivateKey(k), n + 1) = KeyPart(PrivateKey(k), n + 1)
      /\ KeyPart(PrivateKey(k), KeyLen) = PrivateKey(k)
  BY <1>1, <1>4, PushPart
<1>6. nextPair'.private = KeyPart(PrivateKey(k), n + 1)
  BY <1>1, <1>3, <1>5
<1> HIDE DEF n
<1>7. CASE n + 1 = KeyLen
  <2>1. InLoop' = {}
    BY <1>1, <1>2, <1>3, <1>7 DEF InLoop
  <2> QED
    BY <2>1, <1>5, <1>6, <1>7 DEF Made
<1>8. CASE n + 1 # KeyLen
  <2>1. InLoop' = {t}
    BY <1>1, <1>2, <1>3, <1>8 DEF InLoop
  <2> QED
    BY <2>1, <1>1, <1>3, <1>6 DEF Made
<1> QED
  BY <1>7, <1>8

\* The last clear() decides what the next pair will be.
LEMMA StepSettles == Typed /\ Fresh /\ Settles /\ [Next]_vars => Settles'
<1> SUFFICES ASSUME Typed, Fresh, Settles, [Next]_vars PROVE Settles'
  OBVIOUS
<1> DEFINE n == Len(nextPair.private.S0)
<1>0. /\ n \in Nat /\ KeyLen \in Nat \ {0} /\ calls \in Nat
      /\ \A u \in Thread : pc[u] = "push" => frame[u].made \in 0 .. KeyLen - 1
  <2>1. ASSUME NEW u \in Thread, pc[u] = "push" PROVE frame[u].made \in 0 .. KeyLen - 1
    <3>1. frame[u] \in Frame /\ frame[u].made < KeyLen
      BY <2>1 DEF Typed, FramesOK
    <3>2. frame[u].made \in 0 .. KeyLen
      BY <3>1 DEF Frame
    <3> QED
      BY <3>1, <3>2, Bounds
  <2> QED
    BY <2>1, Bounds, LenProperties DEF Typed, KeysOK, KeyOver, FramesOK
<1>1. ASSUME NEW t \in Thread, pc'[t] \in {"public", "clear"} PROVE Settles'
  BY <1>1 DEF Settles, Clearing
<1>2. ASSUME NEW t \in Thread, KeyGenClear(t), ~Clearing' PROVE Settles'
  <2>1. /\ pc[t] = "clear" /\ UNCHANGED <<curPrivate, signed, frame, calls>>
        /\ t \in Busy /\ frame[t].made = 0
    BY <1>2, WalkFrame DEF KeyGenClear, At, Walk, Typed, FramesOK
  <2>2. /\ InLoop' = InLoop \cup {t} /\ pc'[t] = "push"
        /\ \A u \in Thread : u # t => pc'[u] = pc[u]
    BY <1>2 DEF KeyGenClear, At, InLoop, Typed, FramesOK
  <2>3. nextPair'.private = NoKey /\ Len(nextPair'.private.S0) = 0
    BY <1>2, Growth
  <2>4. CASE InLoop = {}
    <3>1. KeyPart(PrivateKey(frame[t].call), 0) = NoKey
      BY <2>1, FrameTypes, KeyTypes, GeneratedWhole, PushPart
    <3>2. Made(frame[t].call)'
      BY <2>1, <2>2, <2>3, <2>4, <3>1 DEF Made
    <3>3. Unused(frame[t].call)'
      BY <2>1 DEF Unused, Fresh
    <3>4. frame'[t].call \in 0 .. calls'
      BY <2>1, FrameTypes
    <3> QED
      BY <3>2, <3>3, <3>4 DEF Settles
  <2>5. CASE InLoop # {}
    <3>1. PICK u \in Thread : pc[u] = "push"
      BY <2>5 DEF InLoop
    <3>2. u # t /\ pc'[u] = "push" /\ frame[u].made \in 0 .. KeyLen - 1
      BY <3>1, <2>1, <2>2, <1>0
    <3>3. Rem(t)' = KeyLen - 0 /\ Rem(u)' = KeyLen - frame[u].made
      BY <2>1, <2>2, <3>2 DEF Rem
    <3>4. 0 + (KeyLen - 0) + (KeyLen - frame[u].made) > KeyLen
      BY <1>0, <3>2
    <3>5. Spoilt'
      BY <2>3, <3>2, <3>3, <3>4 DEF Spoilt
    <3> QED
      BY <3>5 DEF Settles
  <2> QED
    BY <2>4, <2>5
<1>3. ASSUME NEW t \in Thread, KeyGenPush(t) PROVE Settles'
  <2>1. /\ Clearing => Clearing'
        /\ \A k : Unused(k) => Unused(k)'
        /\ calls' = calls
    BY <1>3, InnerKeeps DEF Inner
  <2>2. ASSUME Spoilt PROVE Spoilt'
    <3>1. /\ Len(nextPair'.private.S0) = n + 1
          /\ pc[t] = "push" /\ frame[t].made \in 0 .. KeyLen - 1
          /\ frame'[t].made = frame[t].made + 1
          /\ \A u \in Thread : u # t => frame'[u] = frame[u] /\ pc'[u] = pc[u]
      BY <1>3, Growth, PushStep
    <3>2. pc'[t] = IF frame[t].made + 1 = KeyLen THEN "next" ELSE "push"
      BY <1>3, PushStep DEF Typed, FramesOK
    <3>3. \A u \in Thread : Rem(u) \in Nat
      BY <1>0 DEF Rem
    <3>4. Rem(t)' = Rem(t) - 1 /\ \A u \in Thread : u # t => Rem(u)' = Rem(u)
      BY <1>0, <3>1, <3>2 DEF Rem
    <3>5. PICK u \in Thread, v \in Thread : u # v /\ n + Rem(u) + Rem(v) > KeyLen
      BY <2>2 DEF Spoilt
    <3>6. (n + 1) + Rem(u)' + Rem(v)' > KeyLen
      <4>1. PICK a \in Nat, b \in Nat : a = Rem(u) /\ b = Rem(v)
        BY <3>3
      <4>2. \/ Rem(u)' = a /\ Rem(v)' = b
            \/ Rem(u)' = a - 1 /\ Rem(v)' = b
            \/ Rem(u)' = a /\ Rem(v)' = b - 1
        BY <3>4, <3>5, <4>1
      <4>3. n + a + b > KeyLen
        BY <3>5, <4>1
      <4> QED
        BY <1>0, <4>2, <4>3, SMTT(30)
    <3> QED
      BY <3>1, <3>5, <3>6 DEF Spoilt
  <2>3. ASSUME NEW k \in 0 .. calls, Unused(k), Made(k) PROVE Settles'
    <3>1. Made(k)'
      BY <1>3, <2>3, MadeOn
    <3> QED
      BY <2>1, <2>3, <3>1 DEF Settles
  <2> QED
    BY <2>1, <2>2, <2>3 DEF Settles
<1>4. ASSUME \A u \in Thread : (pc'[u] = "push") <=> (pc[u] = "push"),
             \A u \in Thread : pc[u] = "push" => frame'[u] = frame[u],
             nextPair' = nextPair, calls' = calls, Clearing => Clearing',
             \A k : Unused(k) => Unused(k)'
      PROVE  Settles'
  <2>0. ASSUME NEW u \in Thread
        PROVE  /\ (pc'[u] = "push") <=> (pc[u] = "push")
               /\ pc[u] = "push" => frame'[u] = frame[u]
    BY <1>4
  <2>1. Spoilt => Spoilt'
    <3>1. \A u \in Thread : Rem(u)' = Rem(u)
      BY <2>0 DEF Rem
    <3> QED
      BY <1>4, <3>1 DEF Spoilt
  <2>2. InLoop' = InLoop /\ \A u \in InLoop : u \in Thread /\ frame'[u] = frame[u]
    BY <2>0 DEF InLoop
  <2>3. ASSUME NEW k, Made(k) PROVE Made(k)'
    BY <1>4, <2>2, <2>3 DEF Made
  <2> QED
    BY <1>4, <2>1, <2>3 DEF Settles
<1>5. ASSUME NEW t \in Thread, Inner(t), ~KeyGenPush(t) PROVE Settles'
  <2>1. pc[t] \notin {"clear", "push"} /\ pc'[t] # "push" /\ nextPair' = nextPair
    BY <1>5 DEF Inner, ReadNext, SignBlock, SignThrows, CheckSignature, At, Typed, FramesOK
  <2>2. \A u \in Thread : u # t => frame'[u] = frame[u] /\ pc'[u] = pc[u]
    BY <1>5, WalkFrame DEF Inner, Walk
  <2> QED
    BY <1>4, <1>5, <2>1, <2>2, InnerKeeps
<1>6. ASSUME NEW t \in Thread, NEW b \in Block, ReadPrivate(t, b) PROVE Settles'
  BY <1>1, <1>6, StartFrame
<1>7. ASSUME NEW t \in Thread, ReadPublic(t) PROVE Settles'
  <2>1. pc'[t] = "clear"
    BY <1>7 DEF ReadPublic, At, Typed, FramesOK
  <2> QED
    BY <2>1, <1>1
<1>8. ASSUME NEW t \in Thread, Broadcast(t) PROVE Settles'
  <2>1. /\ pc[t] = "broadcast" /\ \A u \in Thread : u # t => frame'[u] = frame[u] /\ pc'[u] = pc[u]
        /\ UNCHANGED <<nextPair, curPrivate, calls, signed>>
    BY <1>8, EndFrame
  <2>2. pc'[t] = "idle"
    BY <1>8 DEF Broadcast, At, Typed, FramesOK
  <2>3. Clearing => Clearing'
    BY <2>1, <2>2 DEF Clearing
  <2> QED
    BY <1>4, <2>1, <2>2, <2>3 DEF Unused
<1>9. CASE Elsewhere
  BY <1>4, <1>9, ElsewhereFrame DEF Clearing, Unused
<1>10. ASSUME NEW t \in Thread, Walk(t) PROVE Settles'
  <2>1. CASE KeyGenClear(t)
    <3>1. Clearing' => Settles'
      BY DEF Settles
    <3> QED
      BY <2>1, <3>1, <1>2
  <2> QED
    BY <1>3, <1>5, <1>7, <1>10, <2>1 DEF Walk, Inner
<1> QED
  BY <1>6, <1>8, <1>9, <1>10, Steps

\* A call that starts when no other is under way finds an unused pair, or one
\* that it cannot sign with.
LEMMA StepSignsUnused ==
    Typed /\ Overlaps /\ Settles /\ SignsUnused /\ [Next]_vars => SignsUnused'
<1> SUFFICES ASSUME Typed, Overlaps, Settles, SignsUnused, [Next]_vars PROVE SignsUnused'
  OBVIOUS
<1>0. \A u \in Busy : u \in Thread
  BY DEF Busy
<1>1. ASSUME NEW t \in Thread, NEW b \in Block, ReadPrivate(t, b) PROVE SignsUnused'
  <2>1. /\ Busy' = Busy \cup {t}
        /\ frame'[t].call = calls + 1 /\ calls \in Nat
        /\ \A u \in Thread : u # t => frame'[u] = frame[u]
        /\ curPrivate' = nextPair.private /\ signed' = signed
        /\ \A u \in Busy : \A d \in {calls + 1, frame[u].call} : Overlapped(d)'
    BY <1>1, StartFrame
  <2>2. ASSUME NEW u \in Busy, u # t PROVE Overlapped(frame[u].call)'
    BY <1>0, <2>1, <2>2 DEF Overlapped
  <2>3. ASSUME ~Overlapped(frame[t].call)'
        PROVE  \/ ~Whole(nextPair.private)
               \/ \E k \in 0 .. calls : /\ nextPair.private = PrivateKey(k)
                                        /\ \A x \in signed : ~Uses(x.sig, k)
    <3>1. Busy = {}
      BY <2>1, <2>3 DEF Overlapped
    <3>2. InLoop = {} /\ ~Clearing
      BY <3>1 DEF Busy, InLoop, Clearing
    <3>3. ASSUME Spoilt PROVE ~Whole(nextPair.private)
      <4>1. \A u \in Thread : Rem(u) = 0
        BY <3>2 DEF InLoop, Rem
      <4>2. Len(nextPair.private.S0) \in Nat /\ KeyLen \in Nat \ {0}
        BY LenProperties, Bounds DEF Typed, KeysOK, KeyOver
      <4>3. Len(nextPair.private.S0) + 0 + 0 > KeyLen
        BY <3>3, <4>1 DEF Spoilt
      <4>4. Len(nextPair.private.S0) # KeyLen
        BY <4>2, <4>3
      <4> QED
        BY <4>4 DEF Whole
    <3>4. ASSUME NEW k \in 0 .. calls, Unused(k), Made(k)
          PROVE  nextPair.private = PrivateKey(k) /\ \A x \in signed : ~Uses(x.sig, k)
      BY <3>2, <3>4 DEF Made, Unused
    <3> QED
      BY <3>2, <3>3, <3>4 DEF Settles
  <2>4. frame'[t].call - 1 = calls
    BY <2>1
  <2>5. Busy' \subseteq Busy \cup {t}
    BY <2>1
  <2> QED
    BY <2>1, <2>2, <2>3, <2>4, <2>5 DEF SignsUnused
<1>2. ASSUME NEW t \in Thread, Walk(t) PROVE SignsUnused'
  <2>1. /\ t \in Busy /\ Busy' = Busy /\ UNCHANGED overlaps
        /\ \A u \in Busy : frame'[u].call = frame[u].call
    BY <1>2, WalkFrame
  <2>2. curPrivate' = curPrivate
    BY <1>2 DEF Walk, ReadPublic, KeyGenClear, KeyGenPush, ReadNext, SignBlock,
                SignThrows, CheckSignature
  <2>3. ASSUME NEW u \in Busy, ~Overlapped(frame[u].call), pc'[u] \notin {"assert", "broadcast"}
        PROVE  /\ pc[u] \notin {"assert", "broadcast"}
               /\ signed' = signed
    <3>1. u = t
      BY <2>1, <2>3, AloneIsNewest
    <3>2. signed' = signed
      BY <1>2, <2>3, <3>1, Signing
    <3>3. pc[t] \notin {"assert", "broadcast"}
      BY <1>2, <2>3, <3>1 DEF Walk, ReadPublic, KeyGenClear, KeyGenPush, ReadNext,
                          SignBlock, SignThrows, CheckSignature, At, Typed, FramesOK
    <3> QED
      BY <3>1, <3>2, <3>3
  <2> QED
    BY <2>1, <2>2, <2>3 DEF SignsUnused, Overlapped
<1>3. ASSUME NEW t \in Thread, Broadcast(t) PROVE SignsUnused'
  <2>1. /\ t \in Busy /\ Busy' = Busy \ {t}
        /\ \A u \in Thread : u # t => frame'[u] = frame[u]
        /\ UNCHANGED overlaps
    BY <1>3, EndFrame
  <2>2. ASSUME NEW u \in Busy', ~Overlapped(frame[u].call)' PROVE FALSE
    <3>1. u \in Busy /\ u # t /\ ~Overlapped(frame[u].call)
      BY <1>0, <2>1, <2>2 DEF Overlapped
    <3> QED
      BY <2>1, <3>1, AloneIsNewest
  <2> QED
    BY <2>2 DEF SignsUnused
<1>4. CASE Elsewhere
  BY <1>4, ElsewhereFrame DEF SignsUnused, Overlapped
<1> QED
  BY <1>1, <1>2, <1>3, <1>4, Steps

\* The pair that a call has signed with alone is never read again.
LEMMA StepBurnt ==
    Typed /\ Overlaps /\ Alone /\ Fresh /\ SignsUnused /\ Burnt /\ [Next]_vars => Burnt'
<1> SUFFICES ASSUME Typed, Overlaps, Alone, Fresh, SignsUnused, Burnt, [Next]_vars PROVE Burnt'
  OBVIOUS
<1>0. \A u \in Busy : u \in Thread /\ frame[u].call \in 1 .. calls /\ calls \in Nat
  BY FrameTypes DEF Busy
<1>1. ASSUME NEW t \in Thread, NEW b \in Block, ReadPrivate(t, b) PROVE Burnt'
  <2>1. /\ curPrivate' = nextPair.private /\ UNCHANGED <<nextPair, signed>>
        /\ \A d : Overlapped(d) => Overlapped(d)'
    BY <1>1, StartFrame
  <2>2. ASSUME NEW x \in signed, NEW k, Gone(x, k) PROVE Gone(x, k)'
    BY <2>1, <2>2 DEF Gone
  <2> QED
    BY <2>1, <2>2 DEF Burnt
<1>2. ASSUME NEW t \in Thread, Walk(t) PROVE Burnt'
  <2>1. /\ t \in Busy /\ Busy' = Busy /\ UNCHANGED overlaps
        /\ \A u \in Busy : frame'[u].call = frame[u].call
    BY <1>2, WalkFrame
  <2>2. curPrivate' = curPrivate
    BY <1>2 DEF Walk, ReadPublic, KeyGenClear, KeyGenPush, ReadNext, SignBlock,
                SignThrows, CheckSignature
  <2>3. ASSUME NEW x \in signed, ~Overlapped(x.call), NEW k \in 0 .. x.call - 1, Gone(x, k)
        PROVE  /\ ~Holds(nextPair'.private, k)
               /\ (\E u \in Busy : frame[u].call # x.call) => ~Holds(curPrivate, k)
               /\ \A i \in 1 .. Len(x.sig) : x.sig[i][1] = k
               /\ \A y \in signed : y.call # x.call => ~Uses(y.sig, k)
    <3>1. x.call \in 1 .. calls
      BY DEF Typed, SignedOK
    <3>2. x.call <= frame[t].call
      BY <3>1, <2>1, <2>3 DEF Overlaps
    <3>3. k # frame[t].call
      BY <3>1, <3>2, <2>1, <1>0
    <3>4. ~Holds(nextPair'.private, k)
      BY <1>2, <2>3, <3>3, PairHolds DEF Gone
    <3> QED
      BY <2>3, <3>4 DEF Gone
  <2>4. CASE signed' = signed
    <3>1. ASSUME NEW x \in signed, ~Overlapped(x.call), NEW k \in 0 .. x.call - 1, Gone(x, k)
          PROVE  Gone(x, k)'
      BY <2>1, <2>2, <2>3, <2>4, <3>1 DEF Gone
    <3> QED
      BY <2>1, <2>4, <3>1 DEF Burnt, Overlapped
  <2>5. CASE signed' # signed
    <3>1. /\ SignBlock(t) /\ pc[t] = "sign" /\ UNCHANGED <<nextPair, curPrivate>>
      BY <1>2, <2>5, Signing
    <3>2. PICK sig \in Seq(SecretsTo(calls)) :
             /\ signed' = signed \cup {[call |-> frame[t].call, sig |-> sig]}
             /\ \A k : Uses(sig, k) => Holds(curPrivate, k)
             /\ sig = <<>> \/ Whole(curPrivate)
      BY <1>2, <2>5, Signing
    <3>3. PICK new : new = [call |-> frame[t].call, sig |-> sig]
      OBVIOUS
    <3>4. new.call = frame[t].call /\ new.sig = sig /\ signed' = signed \cup {new}
      BY <3>2, <3>3
    <3>5. \A x \in signed : x.call # new.call
      BY <3>1, <3>4, <2>1 DEF Fresh
    <3>6. ASSUME NEW x \in signed, ~Overlapped(x.call), NEW k \in 0 .. x.call - 1, Gone(x, k)
          PROVE  Gone(x, k)'
      <4>1. ~Holds(curPrivate, k)
        BY <2>1, <2>3, <3>4, <3>5, <3>6
      <4>2. ~Uses(new.sig, k)
        BY <4>1, <3>2, <3>4
      <4> QED
        BY <2>1, <2>2, <2>3, <3>4, <3>6, <4>1, <4>2 DEF Gone
    <3>7. ASSUME ~Overlapped(new.call), new.sig # <<>>
          PROVE  \E k \in 0 .. new.call - 1 : Gone(new, k)'
      <4>1. PICK k \in 0 .. frame[t].call - 1 :
               /\ curPrivate = PrivateKey(k)
               /\ \A x \in signed : ~Uses(x.sig, k)
        BY <2>1, <3>1, <3>2, <3>4, <3>7 DEF SignsUnused
      <4>2. \A i \in 1 .. Len(new.sig) : new.sig[i][1] = k
        <5>1. ASSUME NEW i \in 1 .. Len(sig) PROVE sig[i][1] = k
          <6>1. Uses(sig, sig[i][1])
            BY <5>1 DEF Uses
          <6> QED
            BY <6>1, <3>2, <4>1, KeyHolds
        <5> QED
          BY <5>1, <3>4
      <4>3. ~Holds(nextPair.private, k)
        <5>1. nextPair.private = PrivateKey(frame[t].call)
          BY <2>1, <3>1, <3>4, <3>7 DEF Alone, AloneAt, Pair
        <5>2. k # frame[t].call
          BY <4>1, <1>0, <2>1
        <5> QED
          BY <5>1, <5>2, KeyHolds
      <4>4. \A u \in Busy : frame[u].call = new.call
        BY <2>1, <3>4, <3>7, AloneIsNewest
      <4>5. Gone(new, k)'
        BY <2>1, <2>2, <3>1, <3>4, <4>1, <4>2, <4>3, <4>4 DEF Gone
      <4> QED
        BY <3>4, <4>1, <4>5
    <3> QED
      BY <2>1, <3>4, <3>6, <3>7 DEF Burnt, Overlapped
  <2> QED
    BY <2>4, <2>5
<1>3. ASSUME NEW t \in Thread, Broadcast(t) PROVE Burnt'
  <2>1. /\ Busy' = Busy \ {t}
        /\ \A u \in Thread : u # t => frame'[u] = frame[u]
        /\ UNCHANGED <<nextPair, curPrivate, overlaps, signed>>
    BY <1>3, EndFrame
  <2>2. \A u \in Busy' : u \in Busy /\ frame'[u] = frame[u]
    BY <1>0, <2>1
  <2>3. ASSUME NEW x \in signed, NEW k, Gone(x, k) PROVE Gone(x, k)'
    BY <2>1, <2>2, <2>3 DEF Gone
  <2> QED
    BY <2>1, <2>3 DEF Burnt, Overlapped
<1>4. CASE Elsewhere
  BY <1>4, ElsewhereFrame DEF Burnt, Gone, Overlapped
<1> QED
  BY <1>1, <1>2, <1>3, <1>4, Steps

\* The inductive invariant of OneTime.
OneTimeInv == ChainInv /\ Fresh /\ Settles /\ SignsUnused /\ Burnt

\* Two signatures share a one-time key, so that both secrets of a place are
\* given away, only if each of the calls of signBlock that made them had
\* overlapped another.
THEOREM KeysAreOneTime == Spec => []OneTime
<1>1. Init => OneTimeInv
  <2> SUFFICES ASSUME Init PROVE OneTimeInv
    OBVIOUS
  <2>1. Busy = {} /\ signed = {} /\ curPrivate = NoKey /\ calls = 0
    BY DEF Init, Busy
  <2>2. Unused(0)
    BY <2>1, KeyHolds DEF Unused
  <2>3. Made(0)
    BY DEF Init, Made, InLoop
  <2>4. Settles
    BY <2>1, <2>2, <2>3 DEF Settles
  <2> QED
    BY InitChain, <2>1, <2>4 DEF OneTimeInv, Fresh, SignsUnused, Burnt
<1>2. OneTimeInv /\ [Next]_vars => OneTimeInv'
  BY StepChain, StepFresh, StepSettles, StepSignsUnused, StepBurnt DEF OneTimeInv, ChainInv
<1>3. ASSUME OneTimeInv PROVE OneTime
  <2>0. Fresh /\ Burnt /\ SignedOK
    BY <1>3 DEF OneTimeInv, ChainInv, Typed
  <2>1. ASSUME NEW x \in signed, NEW y \in signed, NEW i \in 1 .. KeyLen,
               x.sig # <<>>, y.sig # <<>>, x.sig[i][1] = y.sig[i][1], x.sig[i] # y.sig[i]
        PROVE  Overlapped(x.call)
    <3>1. SUFFICES ASSUME ~Overlapped(x.call) PROVE FALSE
      OBVIOUS
    <3>2. PICK k \in 0 .. x.call - 1 : Gone(x, k)
      BY <2>0, <2>1, <3>1 DEF Burnt
    <3>3. i \in 1 .. Len(x.sig) /\ i \in 1 .. Len(y.sig)
      BY <2>0, <2>1 DEF SignedOK
    <3>4. Uses(y.sig, k)
      BY <2>1, <3>2, <3>3 DEF Gone, Uses
    <3>5. y.call = x.call
      BY <3>2, <3>4 DEF Gone
    <3> QED
      BY <2>0, <2>1, <3>5 DEF Fresh
  <2> QED
    BY <2>1 DEF OneTime
<1> QED
  BY <1>1, <1>2, <1>3, PTL DEF Spec
=============================================================================
