----------------------------- MODULE MCLogStore -----------------------------
(* Instances of LogStore for TLC. *)
EXTENDS LogStore, TLC

CONSTANTS A, B, f1, f2, f3, r1, r2, g1

\* Two contents uploaded to machine A; one of them also to machine B.
MCHome == [f \in File |-> IF f = f3 THEN B ELSE A]
MCSize == [f \in File |-> IF f = f2 THEN 2 ELSE 1]

\* Every file by itself; the files of machine A; or two files of one group, one of them also by itself.
Alone == File \X {NoGroup}
AtA == {f1, f2} \X {NoGroup}
Grouped == {<<f1, NoGroup>>, <<f1, g1>>, <<f2, g1>>}

\* A client deletes one log, or two in one request: of one machine, of two.
Single == {<<f>> : f \in File}
Both == {<<f1, f2>>}
Pairs == {<<f1, f3>>}

Symmetry == Permutations(Request)
=============================================================================
