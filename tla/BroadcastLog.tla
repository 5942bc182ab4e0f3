---------------------------- MODULE BroadcastLog ----------------------------
(***************************************************************************)
(* What ValidatorClientImpl (lib/comms/client.cc) promises its users:      *)
(* "Sends the specified message to all configured servers."  All messages  *)
(* are in one log, and every server is called with them in the order of    *)
(* that log, once each.  Module Bracha takes this for granted.             *)
(***************************************************************************)
EXTENDS Naturals, Sequences

CONSTANTS
    Server,   \* the configured servers
    Message   \* what may be broadcast

VARIABLES
    log,      \* the messages broadcast so far
    calls     \* calls[d]: the messages that Talk was called with on d

Init ==
    /\ log = <<>>
    /\ calls = [d \in Server |-> <<>>]

Broadcast(m) ==
    /\ log' = Append(log, m)
    /\ UNCHANGED calls

Talk(d) ==
    /\ Len(calls[d]) < Len(log)
    /\ calls' = [calls EXCEPT ![d] = Append(@, log[Len(@) + 1])]
    /\ UNCHANGED log

Next ==
    \/ \E m \in Message : Broadcast(m)
    \/ \E d \in Server : Talk(d)

Spec == Init /\ [][Next]_<<log, calls>>
=============================================================================
