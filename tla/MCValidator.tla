---------------------------- MODULE MCValidator ----------------------------
(* An instance of Validator for TLC: two wallets with one coin each.  The  *)
(* files ask for a payment, two payments of the same coin whose sum wraps  *)
(* around, a payment of the other wallet, the spending of a coin twice in  *)
(* one transaction, of a coin that is not there (as the repository's       *)
(* tx2.json does) and of nothing.                                          *)
EXTENDS Validator

In(t, o)  == [txID |-> t, outputIndex |-> o]
Out(v, w) == [value |-> v, receiverID |-> w]
File(w, ins, outs) == [sender |-> w, inputs |-> ins, outputs |-> outs]

TwoWallets == <<7, 8>>

SomeFiles ==
    { File(7, <<In(0, 0)>>, <<Out(2, 8)>>),
      File(7, <<In(0, 0)>>, <<Out(9, 8), Out(9, 7)>>),
      File(8, <<In(1, 0)>>, <<Out(2, 7)>>),
      File(8, <<In(1, 0), In(1, 0)>>, <<Out(4, 7)>>),
      File(8, <<In(1, 1)>>, <<Out(2, 8)>>),
      File(7, <<>>, <<>>) }
=============================================================================
