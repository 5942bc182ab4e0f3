----------------------------- MODULE MCEventLoop -----------------------------
(* Instances of EventLoop for TLC: each producer has its own event type,   *)
(* as in class Validator.                                                  *)
EXTENDS EventLoop

OwnType == [p \in Producer |-> p]
=============================================================================
