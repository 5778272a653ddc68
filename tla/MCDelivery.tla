----------------------------- MODULE MCDelivery -----------------------------
(* Instances of Delivery for TLC. *)
EXTENDS Delivery, TLC

CONSTANTS c1, c2

Second == {<<c2, c1>>}

\* No action reads what was received, what was due, or which messages wait in
\* the queue of a session, only how many; CloseTold speaks of none of it: states
\* that differ in nothing else are one.
Unread ==
  <<roomVars, listening, rdone, [c \in Client |-> Len(queue[c])], session, cancelled, writing,
    alive, handling, passVars, sent, net, untold, late>>
=============================================================================
