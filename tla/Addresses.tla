----------------------------- MODULE Addresses -----------------------------
(***************************************************************************)
(* Machine ids (src/rpc/address.go).  Every machine sorts the configured   *)
(* list of RPC addresses for itself and calls the address at position i of *)
(* the sorted list Ai.  An id travels in room addresses, connection        *)
(* addresses and file ids, and every machine that reads one looks it up in *)
(* the list it computed.                                                   *)
(*                                                                         *)
(* An address is a number, ordered as its text is.  Positions in a sorted  *)
(* list are stated by counting, without the sorting.                       *)
(***************************************************************************)
EXTENDS Integers, Sequences, FiniteSets

\* The places of a list before and up to an address in the order of sorting.
Below(list, a) == {i \in DOMAIN list : list[i] < a}

UpTo(list, a) == {i \in DOMAIN list : list[i] <= a}

Configured(list) == {list[i] : i \in DOMAIN list}

\* An address that is listed twice takes two positions.
Holds(list, id, a) ==
  /\ a \in Configured(list)
  /\ Cardinality(Below(list, a)) <= id /\ id < Cardinality(UpTo(list, a))

MachineIds(list) == 0 .. (Len(list) - 1)

\* machineInfo of a machine with this list.
MachineAt(list, id) == CHOOSE a \in Configured(list) : Holds(list, id, a)

\* selfMachineId of address a: the last of its positions wins.
SelfId(list, a) == Cardinality(UpTo(list, a)) - 1

\* The same addresses, each as often, in whatever order.
SameList(s, t) ==
  \E f \in [DOMAIN s -> DOMAIN t] :
    /\ \A i, j \in DOMAIN s : f[i] = f[j] => i = j
    /\ \A k \in DOMAIN t : \E i \in DOMAIN s : f[i] = k
    /\ \A i \in DOMAIN s : t[f[i]] = s[i]
=============================================================================
