--------------------------- MODULE RoomBroadcast ---------------------------
(***************************************************************************)
(* What a room promises about broadcasts, without queues and goroutines:   *)
(* the broadcasts of all members are published one after the other, those  *)
(* of one sender in the order sent and without a gap; each is due to       *)
(* everyone who is a member at that moment, except that a sender does not  *)
(* hear itself unless it asked to; and what a member has got is, at any    *)
(* time, an initial part of what was due to it.                            *)
(***************************************************************************)
EXTENDS Naturals, Sequences

CONSTANTS Client

VARIABLES
  present,    \* the members
  published,  \* the number of broadcasts published of each sender
  due,        \* the broadcasts each client is to get
  got         \* the broadcasts each client has got

vars == <<present, published, due, got>>

Wants(c, m) == m.from = c => m.includeSelf

Init ==
  /\ present = {}
  /\ published = [c \in Client |-> 0]
  /\ due = [c \in Client |-> <<>>]
  /\ got = [c \in Client |-> <<>>]

Enter(c) ==
  /\ due[c] = <<>>
  /\ present' = present \cup {c}
  /\ UNCHANGED <<published, due, got>>

Exit(c) ==
  /\ present' = present \ {c}
  /\ UNCHANGED <<published, due, got>>

Publish(s, self) ==
  LET m == [type |-> "broadcast", from |-> s, n |-> published[s] + 1, includeSelf |-> self]
  IN  /\ published' = [published EXCEPT ![s] = @ + 1]
      /\ due' = [c \in Client |->
                   IF c \in present /\ Wants(c, m) THEN Append(due[c], m) ELSE due[c]]
      /\ UNCHANGED <<present, got>>

Deliver(c) ==
  /\ Len(got[c]) < Len(due[c])
  /\ got' = [got EXCEPT ![c] = Append(@, due[c][Len(@) + 1])]
  /\ UNCHANGED <<present, published, due>>

Next ==
  \E c \in Client : Enter(c) \/ Exit(c) \/ Deliver(c) \/ \E self \in BOOLEAN : Publish(c, self)

Spec == Init /\ [][Next]_vars
=============================================================================
