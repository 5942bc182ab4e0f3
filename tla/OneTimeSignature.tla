-------------------------- MODULE OneTimeSignature --------------------------
(***************************************************************************)
(* The one-time signatures of lib/signature/hash.cc.                       *)
(*                                                                         *)
(* A message is a sequence of characters, numbers of CharBits bits.  What  *)
(* getRandomBits returns is a secret that never comes twice: the key pair, *)
(* the place and the list it was drawn for.  SHA-256 is injective.         *)
(***************************************************************************)
EXTENDS Integers, Sequences

CONSTANTS
    KeyLen,     \* KEY_LEN_
    CharBits    \* the bits of a character

ASSUME KeyAssumption ==
    /\ KeyLen \in Nat \ {0}
    /\ CharBits \in Nat \ {0}
    /\ KeyLen % CharBits = 0

hash(secret) == [hashed |-> secret]

\* A SigKey that was not generated.
NoKey == [S0 |-> <<>>, S1 |-> <<>>]

Whole(key) == Len(key.S0) = KeyLen /\ Len(key.S1) = KeyLen

\* What iteration i of KeyGen pushes for key pair k.
Secret(k, i, bit) == <<k, i, bit>>

PrivateKey(k) == [S0 |-> [i \in 1 .. KeyLen |-> Secret(k, i, 0)],
                  S1 |-> [i \in 1 .. KeyLen |-> Secret(k, i, 1)]]

PublicKey(k) == [S0 |-> [i \in 1 .. KeyLen |-> hash(Secret(k, i, 0))],
                 S1 |-> [i \in 1 .. KeyLen |-> hash(Secret(k, i, 1))]]

-----------------------------------------------------------------------------
\* Bit j of character c.
CharBit(c, j) == (c \div 2^j) % 2

\* Bit i of string_to_bitset, which is given the first KeyLen \div CharBits
\* characters of m and leaves the bits after the last character zero.
Bit(m, i) ==
    LET place == (i - 1) \div CharBits + 1
    IN  IF place <= Len(m) THEN CharBit(m[place], (i - 1) % CharBits) ELSE 0

Sign(m, key) ==
    IF ~Whole(key)
    THEN <<>>
    ELSE [i \in 1 .. KeyLen |-> IF Bit(m, i) = 1 THEN key.S1[i] ELSE key.S0[i]]

\* -1: invalid key or signature; 0: the signature is wrong; 1: it is right.
Verify(m, sig, key) ==
    IF ~Whole(key) \/ Len(sig) # KeyLen
    THEN -1
    ELSE IF \A i \in 1 .. KeyLen :
              hash(sig[i]) = IF Bit(m, i) = 1 THEN key.S1[i] ELSE key.S0[i]
         THEN 1
         ELSE 0
=============================================================================
