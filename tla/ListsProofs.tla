---------------------------- MODULE ListsProofs ----------------------------
(* What the proofs use of lists, and of the operators of Lists. *)
EXTENDS Lists, SequenceTheorems, WellFoundedInduction, TLAPS

\* A set of natural numbers has a first one: the form in which induction over
\* the length of a list is used here.
LEMMA First ==
  ASSUME NEW S \in SUBSET Nat, S # {}
  PROVE  \E i \in S : \A j \in S : i <= j
<1> DEFINE R == OpToRel(<, Nat)
<1>1. \E x \in S : \A y \in S : ~ (<<y, x>> \in R)
  BY NatLessThanWellFounded, WFMin
<1>2. \A x, y \in Nat : y < x => <<y, x>> \in R
  BY DEF OpToRel
<1> HIDE DEF R
<1>3. \A x, y \in Nat : ~(y < x) => x <= y
  OBVIOUS
<1> QED
  BY <1>1, <1>2, <1>3

\* A set that has 0, and with a number the next, has all.
LEMMA Induction ==
  ASSUME NEW S \in SUBSET Nat, 0 \in S, \A n \in S : n + 1 \in S
  PROVE  S = Nat
<1> SUFFICES ASSUME Nat \ S # {} PROVE FALSE
  OBVIOUS
<1>1. PICK i \in Nat \ S : \A j \in Nat \ S : i <= j
  <2> DEFINE T == Nat \ S
  <2>1. T \in SUBSET Nat /\ T # {}
    OBVIOUS
  <2> HIDE DEF T
  <2>2. \E i \in T : \A j \in T : i <= j
    BY <2>1, First
  <2> QED
    BY <2>2 DEF T
<1>2. i # 0 /\ i - 1 \in Nat
  BY <1>1
<1>3. i - 1 \in S
  BY <1>1, <1>2
<1>4. (i - 1) + 1 = i
  BY <1>1
<1> QED
  BY <1>1, <1>3, <1>4

\* A set of lists that has the empty one, and with a list every longer by one
\* element, has all.
LEMMA ListInduction ==
  ASSUME NEW S, NEW P \in SUBSET Seq(S), <<>> \in P,
         \A s \in P : \A x \in S : Append(s, x) \in P
  PROVE  P = Seq(S)
<1> DEFINE N == {n \in Nat : \A s \in Seq(S) : Len(s) = n => s \in P}
<1>1. 0 \in N
  BY EmptySeq
<1>2. ASSUME NEW n \in N PROVE n + 1 \in N
  <2> SUFFICES ASSUME NEW s \in Seq(S), Len(s) = n + 1 PROVE s \in P
    OBVIOUS
  <2>0. n \in Nat /\ s # <<>>
    BY EmptySeq
  <2>1. PICK t \in Seq(S), x \in S : s = Append(t, x)
    BY <2>0, SequenceEmptyOrAppend
  <2>2. Len(t) = n
    BY <2>1, AppendProperties, LenProperties
  <2> QED
    BY <2>1, <2>2
<1>3. N = Nat
  <2> HIDE DEF N
  <2>1. N \in SUBSET Nat
    BY DEF N
  <2> QED
    BY <1>1, <1>2, <2>1, Induction
<1>4. \A s \in Seq(S) : s \in P
  BY <1>3, LenProperties
<1> QED
  BY <1>4

LEMMA TailList ==
  ASSUME NEW S, NEW s \in Seq(S), s # <<>>
  PROVE  /\ Tail(s) \in Seq(S) /\ Head(s) \in S
         /\ Elements(s) = {Head(s)} \cup Elements(Tail(s))
<1>1. Tail(s) \in Seq(S) /\ Head(s) = s[1] /\ Len(s) \in Nat \ {0} /\ Len(Tail(s)) = Len(s) - 1
  OBVIOUS
<1>2. \A j \in 1 .. Len(s) - 1 : Tail(s)[j] = s[j + 1]
  OBVIOUS
<1>3. \A x : x \in Elements(s) => x = Head(s) \/ x \in Elements(Tail(s))
  <2> SUFFICES ASSUME NEW i \in 1 .. Len(s) PROVE s[i] = Head(s) \/ s[i] \in Elements(Tail(s))
    BY DEF Elements
  <2>1. CASE i = 1
    BY <1>1, <2>1
  <2>2. CASE i # 1
    <3> DEFINE j == i - 1
    <3>1. j \in 1 .. Len(s) - 1 /\ j + 1 = i
      BY <1>1, <2>2
    <3>2. Tail(s)[j] = s[j + 1] /\ j \in DOMAIN Tail(s)
      BY <1>1, <1>2, <3>1
    <3> HIDE DEF j
    <3> QED
      BY <3>1, <3>2 DEF Elements
  <2> QED
    BY <2>1, <2>2
<1>4. Head(s) \in Elements(s)
  BY <1>1 DEF Elements
<1>5. \A x \in Elements(Tail(s)) : x \in Elements(s)
  BY <1>1, <1>2 DEF Elements
<1> QED
  BY <1>1, <1>3, <1>4, <1>5

LEMMA TailShorter ==
  ASSUME NEW S, NEW s \in Seq(S), s # <<>>
  PROVE  Tail(s) # s
<1> DEFINE t == Tail(s)
<1>1. Len(t) = Len(s) - 1 /\ Len(s) \in Nat
  OBVIOUS
<1> HIDE DEF t
<1>2. Len(t) # Len(s)
  BY <1>1
<1>3. t # s
  BY <1>2
<1> QED
  BY <1>3 DEF t

LEMMA AppendList ==
  ASSUME NEW S, NEW s \in Seq(S), NEW x \in S
  PROVE  Append(s, x) \in Seq(S) /\ Elements(Append(s, x)) = Elements(s) \cup {x}
<1>1. Append(s, x) \in Seq(S) /\ Len(Append(s, x)) = Len(s) + 1 /\ Len(s) \in Nat
  OBVIOUS
<1>2. \A j \in 1 .. Len(s) + 1 : Append(s, x)[j] = IF j = Len(s) + 1 THEN x ELSE s[j]
  OBVIOUS
<1> QED
  BY <1>1, <1>2 DEF Elements

-----------------------------------------------------------------------------
(* Lists without repetition *)

Once(s) == \A i, j \in DOMAIN s : s[i] = s[j] => i = j

LEMMA OnceTail ==
  ASSUME NEW S, NEW s \in Seq(S), s # <<>>, Once(s)
  PROVE  Once(Tail(s)) /\ Head(s) \notin Elements(Tail(s))
<1>1. /\ DOMAIN s = 1 .. Len(s) /\ DOMAIN Tail(s) = 1 .. Len(Tail(s)) /\ Len(s) \in Nat \ {0}
      /\ Len(Tail(s)) = Len(s) - 1 /\ Head(s) = s[1]
      /\ \A i \in 1 .. Len(Tail(s)) : Tail(s)[i] = s[i + 1]
  BY HeadTailProperties, LenProperties, EmptySeq
<1>2. \A i \in 1 .. Len(Tail(s)) : i + 1 \in DOMAIN s /\ i + 1 # 1
  BY <1>1
<1>3. 1 \in DOMAIN s
  BY <1>1
<1>4. Once(Tail(s))
  <2> SUFFICES ASSUME NEW i \in 1 .. Len(Tail(s)), NEW j \in 1 .. Len(Tail(s)),
                      Tail(s)[i] = Tail(s)[j]
               PROVE  i = j
    BY <1>1 DEF Once
  <2>1. s[i + 1] = s[j + 1]
    BY <1>1
  <2>2. i + 1 = j + 1
    BY <1>2, <2>1 DEF Once
  <2> QED
    BY <1>1, <2>2
<1>5. Head(s) \notin Elements(Tail(s))
  <2> SUFFICES ASSUME NEW i \in 1 .. Len(Tail(s)), Head(s) = Tail(s)[i] PROVE FALSE
    BY <1>1 DEF Elements
  <2>1. s[i + 1] = s[1]
    BY <1>1
  <2> QED
    BY <1>2, <1>3, <2>1 DEF Once
<1> QED
  BY <1>4, <1>5

LEMMA OnceAppend ==
  ASSUME NEW S, NEW s \in Seq(S), NEW x \in S, Once(s), x \notin Elements(s)
  PROVE  Once(Append(s, x))
<1> DEFINE t == Append(s, x)
<1>1. /\ DOMAIN s = 1 .. Len(s) /\ DOMAIN t = 1 .. Len(s) + 1 /\ Len(s) \in Nat
      /\ t[Len(s) + 1] = x /\ \A i \in 1 .. Len(s) : t[i] = s[i]
  BY AppendProperties, LenProperties
<1>2. \A i \in 1 .. Len(s) : t[i] # x
  BY <1>1 DEF Elements
<1>4. \A i, j \in 1 .. Len(s) : s[i] = s[j] => i = j
  BY <1>1 DEF Once
<1> HIDE DEF t
<1>3. Once(t)
  <2> SUFFICES ASSUME NEW i \in 1 .. Len(s) + 1, NEW j \in 1 .. Len(s) + 1, t[i] = t[j]
               PROVE  i = j
    BY <1>1 DEF Once
  <2>1. CASE i = Len(s) + 1 \/ j = Len(s) + 1
    BY <1>1, <1>2, <2>1
  <2>2. CASE i # Len(s) + 1 /\ j # Len(s) + 1
    <3>1. i \in 1 .. Len(s) /\ j \in 1 .. Len(s)
      BY <1>1, <2>2
    <3>2. s[i] = s[j]
      BY <1>1, <3>1
    <3> QED
      BY <1>4, <3>1, <3>2
  <2> QED
    BY <2>1, <2>2
<1> QED
  BY <1>3 DEF t

-----------------------------------------------------------------------------
(* Only, by the last element of the list *)

OnlyUpTo(s, S) ==
  CHOOSE f : f = [n \in 0 .. Len(s) |->
                    IF n = 0 THEN <<>>
                    ELSE IF s[n] \in S THEN Append(f[n - 1], s[n]) ELSE f[n - 1]]

\* The function that Only takes the last value of exists.
LEMMA OnlyUpToEquation ==
  ASSUME NEW S, NEW s, Len(s) \in Nat
  PROVE  OnlyUpTo(s, S) = [n \in 0 .. Len(s) |->
                         IF n = 0 THEN <<>>
                         ELSE IF s[n] \in S THEN Append(OnlyUpTo(s, S)[n - 1], s[n])
                         ELSE OnlyUpTo(s, S)[n - 1]]
<1> DEFINE Good(f, k) == f = [n \in 0 .. k |->
                                IF n = 0 THEN <<>>
                                ELSE IF s[n] \in S THEN Append(f[n - 1], s[n]) ELSE f[n - 1]]
           K == {k \in Nat : \E f : Good(f, k)}
<1>1. 0 \in K
  <2>1. Good([n \in 0 .. 0 |-> <<>>], 0)
    OBVIOUS
  <2> QED
    BY <2>1
<1>2. ASSUME NEW k \in K PROVE k + 1 \in K
  <2>1. PICK f : Good(f, k)
    OBVIOUS
  <2> DEFINE last == IF s[k + 1] \in S THEN Append(f[k], s[k + 1]) ELSE f[k]
             g == [n \in 0 .. k + 1 |-> IF n = k + 1 THEN last ELSE f[n]]
  <2>2. \A n \in 0 .. k : g[n] = f[n]
    OBVIOUS
  <2>3. g[k + 1] = last
    OBVIOUS
  <2>4. \A n \in 0 .. k + 1 :
          g[n] = IF n = 0 THEN <<>>
                 ELSE IF s[n] \in S THEN Append(g[n - 1], s[n]) ELSE g[n - 1]
    <3> SUFFICES ASSUME NEW n \in 0 .. k + 1
                 PROVE  g[n] = IF n = 0 THEN <<>>
                               ELSE IF s[n] \in S THEN Append(g[n - 1], s[n]) ELSE g[n - 1]
      OBVIOUS
    <3>1. CASE n = 0
      BY <2>1, <2>2, <3>1
    <3>2. CASE n \in 1 .. k
      <4>0. n \in 0 .. k /\ n # 0
        BY <3>2
      <4>1. f[n] = IF s[n] \in S THEN Append(f[n - 1], s[n]) ELSE f[n - 1]
        BY <2>1, <4>0
      <4>2. g[n] = f[n] /\ g[n - 1] = f[n - 1] /\ n # 0
        BY <2>2, <3>2
      <4> QED
        BY <4>1, <4>2
    <3>3. CASE n = k + 1
      <4>1. g[n - 1] = f[k] /\ n # 0
        BY <2>2, <3>3
      <4> QED
        BY <2>3, <3>3, <4>1
    <3> QED
      BY <3>1, <3>2, <3>3
  <2>5. g = [n \in 0 .. k + 1 |-> g[n]]
    OBVIOUS
  <2> HIDE DEF g
  <2>6. Good(g, k + 1)
    BY <2>4, <2>5
  <2> QED
    BY <2>6
<1>3. Len(s) \in K
  <2> HIDE DEF K
  <2>1. K \in SUBSET Nat
    BY DEF K
  <2> QED
    BY <1>1, <1>2, <2>1, Induction
<1>4. \E f : Good(f, Len(s))
  BY <1>3
<1> QED
  BY <1>4 DEF OnlyUpTo

LEMMA OnlyIsLast == \A s, S : Only(s, S) = OnlyUpTo(s, S)[Len(s)]
BY DEF Only, OnlyUpTo

\* Two lists that begin alike have the same elements of interest that far.
LEMMA OnlyUpToAgree ==
  ASSUME NEW s, Len(s) \in Nat, NEW t, Len(t) \in Nat, NEW S,
         NEW k \in Nat, k <= Len(s), k <= Len(t),
         \A i \in 1 .. k : s[i] = t[i]
  PROVE  OnlyUpTo(s, S)[k] = OnlyUpTo(t, S)[k]
<1> DEFINE f == OnlyUpTo(s, S)
           g == OnlyUpTo(t, S)
           K == {n \in Nat : n <= k => f[n] = g[n]}
<1>1. \A n \in 0 .. k : f[n] = IF n = 0 THEN <<>>
                               ELSE IF s[n] \in S THEN Append(f[n - 1], s[n]) ELSE f[n - 1]
  <2>1. f = [n \in 0 .. Len(s) |-> IF n = 0 THEN <<>>
                                   ELSE IF s[n] \in S THEN Append(f[n - 1], s[n]) ELSE f[n - 1]]
    BY OnlyUpToEquation
  <2> HIDE DEF f
  <2>2. \A n \in 0 .. k : n \in 0 .. Len(s)
    OBVIOUS
  <2> QED
    BY <2>1, <2>2
<1>2. \A n \in 0 .. k : g[n] = IF n = 0 THEN <<>>
                               ELSE IF t[n] \in S THEN Append(g[n - 1], t[n]) ELSE g[n - 1]
  <2>1. g = [n \in 0 .. Len(t) |-> IF n = 0 THEN <<>>
                                   ELSE IF t[n] \in S THEN Append(g[n - 1], t[n]) ELSE g[n - 1]]
    BY OnlyUpToEquation
  <2> HIDE DEF g
  <2>2. \A n \in 0 .. k : n \in 0 .. Len(t)
    OBVIOUS
  <2> QED
    BY <2>1, <2>2
<1> HIDE DEF f, g
<1>3. 0 \in K
  BY <1>1, <1>2
<1>4. ASSUME NEW n \in K PROVE n + 1 \in K
  <2> SUFFICES ASSUME n + 1 <= k PROVE f[n + 1] = g[n + 1]
    OBVIOUS
  <2>1. n + 1 \in 0 .. k /\ n + 1 \in 1 .. k /\ n + 1 # 0 /\ (n + 1) - 1 = n /\ f[n] = g[n]
    OBVIOUS
  <2>2. f[n + 1] = IF s[n + 1] \in S THEN Append(f[n], s[n + 1]) ELSE f[n]
    BY <1>1, <2>1
  <2>3. g[n + 1] = IF t[n + 1] \in S THEN Append(g[n], t[n + 1]) ELSE g[n]
    BY <1>2, <2>1
  <2> QED
    BY <2>1, <2>2, <2>3
<1>5. K = Nat
  <2>1. K \in SUBSET Nat
    OBVIOUS
  <2> HIDE DEF K
  <2> QED
    BY <1>3, <1>4, <2>1, Induction
<1> QED
  BY <1>5 DEF f, g

LEMMA OnlyNil == \A S : Only(<<>>, S) = <<>>
<1> SUFFICES ASSUME NEW S PROVE Only(<<>>, S) = <<>>
  OBVIOUS
<1> DEFINE s == <<>>
<1>1. Len(s) = 0
  OBVIOUS
<1> HIDE DEF s
<1>2. OnlyUpTo(s, S)[0] = <<>>
  BY <1>1, OnlyUpToEquation
<1>3. Only(s, S) = <<>>
  BY <1>1, <1>2, OnlyIsLast
<1> QED
  BY <1>3 DEF s

LEMMA OnlyAppend ==
  ASSUME NEW A, NEW s \in Seq(A), NEW x \in A, NEW S
  PROVE  Only(Append(s, x), S) = IF x \in S THEN Append(Only(s, S), x) ELSE Only(s, S)
<1> DEFINE t == Append(s, x)
<1>1. /\ Len(s) \in Nat /\ Len(t) = Len(s) + 1 /\ t[Len(s) + 1] = x
      /\ \A i \in 1 .. Len(s) : t[i] = s[i]
  BY AppendProperties, LenProperties
<1> HIDE DEF t
<1>2. OnlyUpTo(t, S)[Len(s)] = OnlyUpTo(s, S)[Len(s)]
  <2> DEFINE k == Len(s)
  <2>1. /\ k \in Nat /\ Len(t) \in Nat /\ k <= Len(t) /\ k <= Len(s)
        /\ \A i \in 1 .. k : t[i] = s[i]
    BY <1>1
  <2>2. OnlyUpTo(t, S)[k] = OnlyUpTo(s, S)[k]
    <3> HIDE DEF k
    <3> QED
      BY <1>1, <2>1, OnlyUpToAgree
  <2> QED
    BY <2>2
<1>3. OnlyUpTo(t, S)[Len(t)] = IF x \in S THEN Append(OnlyUpTo(t, S)[Len(s)], x) ELSE OnlyUpTo(t, S)[Len(s)]
  <2> DEFINE f == OnlyUpTo(t, S)
  <2>1. f = [n \in 0 .. Len(t) |-> IF n = 0 THEN <<>>
                                   ELSE IF t[n] \in S THEN Append(f[n - 1], t[n]) ELSE f[n - 1]]
    BY <1>1, OnlyUpToEquation
  <2> HIDE DEF f
  <2>2. Len(t) \in 0 .. Len(t) /\ Len(t) # 0 /\ Len(t) - 1 = Len(s)
    BY <1>1
  <2>3. f[Len(t)] = IF t[Len(t)] \in S THEN Append(f[Len(t) - 1], t[Len(t)]) ELSE f[Len(t) - 1]
    BY <2>1, <2>2
  <2> QED
    BY <1>1, <2>2, <2>3 DEF f
<1> QED
  BY <1>2, <1>3, OnlyIsLast DEF t

\* What is of interest may be said in different ways.
LEMMA OnlyAgree ==
  ASSUME NEW A, NEW s \in Seq(A), NEW S, NEW T, \A x \in Elements(s) : x \in S <=> x \in T
  PROVE  Only(s, S) = Only(s, T)
<1> DEFINE Alike(t) == \A x \in Elements(t) : x \in S <=> x \in T
           P == {t \in Seq(A) : Alike(t) => Only(t, S) = Only(t, T)}
<1>1. <<>> \in P
  BY OnlyNil, EmptySeq
<1>2. ASSUME NEW t \in P, NEW x \in A PROVE Append(t, x) \in P
  <2>1. /\ t \in Seq(A) /\ Append(t, x) \in Seq(A)
        /\ Elements(Append(t, x)) = Elements(t) \cup {x}
    BY AppendList
  <2>2. /\ Only(Append(t, x), S) = IF x \in S THEN Append(Only(t, S), x) ELSE Only(t, S)
        /\ Only(Append(t, x), T) = IF x \in T THEN Append(Only(t, T), x) ELSE Only(t, T)
    BY <2>1, OnlyAppend
  <2> QED
    BY <2>1, <2>2
<1>3. P \in SUBSET Seq(A)
  OBVIOUS
<1>4. P = Seq(A)
  <2> HIDE DEF P
  <2> QED
    BY <1>1, <1>2, <1>3, ListInduction
<1>5. s \in P
  BY <1>4
<1> QED
  BY <1>5

LEMMA OnlyList ==
  ASSUME NEW A, NEW s \in Seq(A), NEW S
  PROVE  Only(s, S) \in Seq(S) /\ Only(s, S) \in Seq(A)
<1> DEFINE P == {t \in Seq(A) : Only(t, S) \in Seq(S) /\ Only(t, S) \in Seq(A)}
<1>1. <<>> \in P
  BY OnlyNil, EmptySeq
<1>2. ASSUME NEW t \in P, NEW x \in A PROVE Append(t, x) \in P
  <2>1. t \in Seq(A) /\ Only(t, S) \in Seq(S) /\ Only(t, S) \in Seq(A)
    OBVIOUS
  <2>2. Append(t, x) \in Seq(A)
    BY <2>1, AppendProperties
  <2>3. Only(Append(t, x), S) = IF x \in S THEN Append(Only(t, S), x) ELSE Only(t, S)
    BY <2>1, OnlyAppend
  <2>4. x \in S => Append(Only(t, S), x) \in Seq(S) /\ Append(Only(t, S), x) \in Seq(A)
    BY <2>1, AppendProperties
  <2> QED
    BY <2>1, <2>2, <2>3, <2>4
<1>3. P \in SUBSET Seq(A)
  OBVIOUS
<1>4. P = Seq(A)
  <2> HIDE DEF P
  <2> QED
    BY <1>1, <1>2, <1>3, ListInduction
<1> QED
  BY <1>4

LEMMA OnlyElements ==
  ASSUME NEW A, NEW s \in Seq(A), NEW S
  PROVE  Elements(Only(s, S)) = Elements(s) \cap S
<1> DEFINE P == {t \in Seq(A) : Elements(Only(t, S)) = Elements(t) \cap S}
<1>1. <<>> \in P
  BY OnlyNil, EmptySeq DEF Elements
<1>2. ASSUME NEW t \in P, NEW x \in A PROVE Append(t, x) \in P
  <2>1. /\ t \in Seq(A) /\ Append(t, x) \in Seq(A) /\ Elements(Only(t, S)) = Elements(t) \cap S
        /\ Elements(Append(t, x)) = Elements(t) \cup {x}
    BY AppendList
  <2>2. Only(t, S) \in Seq(A)
    BY <2>1, OnlyList
  <2>3. Elements(Append(Only(t, S), x)) = Elements(Only(t, S)) \cup {x}
    <3> DEFINE u == Only(t, S)
    <3>1. u \in Seq(A)
      BY <2>2
    <3> HIDE DEF u
    <3>2. Elements(Append(u, x)) = Elements(u) \cup {x}
      BY <3>1, AppendList
    <3> QED
      BY <3>2 DEF u
  <2>4. Only(Append(t, x), S) = IF x \in S THEN Append(Only(t, S), x) ELSE Only(t, S)
    BY <2>1, OnlyAppend
  <2> QED
    BY <2>1, <2>3, <2>4
<1>3. P \in SUBSET Seq(A)
  OBVIOUS
<1>4. P = Seq(A)
  <2> HIDE DEF P
  <2> QED
    BY <1>1, <1>2, <1>3, ListInduction
<1> QED
  BY <1>4

LEMMA OnlyShorter ==
  ASSUME NEW A, NEW s \in Seq(A), NEW S
  PROVE  Len(Only(s, S)) <= Len(s)
<1> DEFINE P == {t \in Seq(A) : Len(Only(t, S)) <= Len(t)}
<1>1. <<>> \in P
  BY OnlyNil, EmptySeq
<1>2. ASSUME NEW t \in P, NEW x \in A PROVE Append(t, x) \in P
  <2>1. t \in Seq(A) /\ Only(t, S) \in Seq(A) /\ Len(Only(t, S)) <= Len(t)
    BY OnlyList
  <2>2. /\ Append(t, x) \in Seq(A) /\ Len(Append(t, x)) = Len(t) + 1
        /\ Len(Append(Only(t, S), x)) = Len(Only(t, S)) + 1
        /\ Len(t) \in Nat /\ Len(Only(t, S)) \in Nat
    BY <2>1, AppendProperties, LenProperties
  <2>3. Only(Append(t, x), S) = IF x \in S THEN Append(Only(t, S), x) ELSE Only(t, S)
    BY <2>1, OnlyAppend
  <2>4. Len(Only(Append(t, x), S)) = Len(Only(t, S)) + 1 \/ Len(Only(Append(t, x), S)) = Len(Only(t, S))
    BY <2>2, <2>3
  <2> QED
    BY <2>1, <2>2, <2>4
<1>3. P \in SUBSET Seq(A)
  OBVIOUS
<1>4. P = Seq(A)
  <2> HIDE DEF P
  <2> QED
    BY <1>1, <1>2, <1>3, ListInduction
<1> QED
  BY <1>4

LEMMA OnceWithoutLast ==
  ASSUME NEW S, NEW s \in Seq(S), NEW x \in S, Once(Append(s, x))
  PROVE  Once(s) /\ x \notin Elements(s)
<1> DEFINE t == Append(s, x)
<1>1. /\ DOMAIN s = 1 .. Len(s) /\ DOMAIN t = 1 .. Len(s) + 1 /\ Len(s) \in Nat
      /\ t[Len(s) + 1] = x /\ \A i \in 1 .. Len(s) : t[i] = s[i]
  BY AppendProperties, LenProperties
<1>2. Once(t)
  OBVIOUS
<1> HIDE DEF t
<1>3. \A i \in 1 .. Len(s) : i \in DOMAIN t /\ i # Len(s) + 1
  BY <1>1
<1>4. Once(s)
  BY <1>1, <1>2, <1>3 DEF Once
<1>5. ASSUME NEW i \in 1 .. Len(s), s[i] = x PROVE FALSE
  <2>1. t[i] = t[Len(s) + 1] /\ Len(s) + 1 \in DOMAIN t
    BY <1>1, <1>5
  <2> QED
    BY <1>2, <1>3, <2>1 DEF Once
<1> QED
  BY <1>1, <1>4, <1>5 DEF Elements

LEMMA OnlyOnce ==
  ASSUME NEW A, NEW s \in Seq(A), NEW S, Once(s)
  PROVE  Once(Only(s, S))
<1> DEFINE P == {t \in Seq(A) : Once(t) => Once(Only(t, S))}
<1>1. <<>> \in P
  BY OnlyNil, EmptySeq
<1>2. ASSUME NEW t \in P, NEW x \in A PROVE Append(t, x) \in P
  <2>1. t \in Seq(A) /\ Append(t, x) \in Seq(A)
    BY AppendList
  <2> SUFFICES ASSUME Once(Append(t, x)) PROVE Once(Only(Append(t, x), S))
    BY <2>1
  <2>2. Once(t) /\ x \notin Elements(t)
    BY <2>1, OnceWithoutLast
  <2>3. Once(Only(t, S))
    BY <2>2
  <2>4. Only(t, S) \in Seq(A) /\ x \notin Elements(Only(t, S))
    BY <2>1, <2>2, OnlyList, OnlyElements
  <2>5. Once(Append(Only(t, S), x))
    <3> DEFINE u == Only(t, S)
    <3>1. u \in Seq(A) /\ Once(u) /\ x \notin Elements(u)
      BY <2>3, <2>4
    <3> HIDE DEF u
    <3>2. Once(Append(u, x))
      BY <3>1, OnceAppend
    <3> QED
      BY <3>2 DEF u
  <2>6. Only(Append(t, x), S) = IF x \in S THEN Append(Only(t, S), x) ELSE Only(t, S)
    BY <2>1, OnlyAppend
  <2> QED
    BY <2>3, <2>5, <2>6
<1>3. P \in SUBSET Seq(A)
  OBVIOUS
<1>4. P = Seq(A)
  <2> HIDE DEF P
  <2> QED
    BY <1>1, <1>2, <1>3, ListInduction
<1> QED
  BY <1>4

LEMMA ConcatAppend ==
  ASSUME NEW A, NEW s \in Seq(A), NEW t \in Seq(A), NEW x \in A
  PROVE  s \o Append(t, x) = Append(s \o t, x)
<1> DEFINE u == <<x>>
<1>1. u \in Seq(A) /\ s \o t \in Seq(A)
  BY ConcatProperties
<1>2. Append(t, x) = t \o u /\ Append(s \o t, x) = (s \o t) \o u
  BY <1>1, AppendIsConcat
<1> HIDE DEF u
<1>3. (s \o t) \o u = s \o (t \o u)
  BY <1>1, ConcatAssociative
<1> QED
  BY <1>2, <1>3

LEMMA OnlyConcat ==
  ASSUME NEW A, NEW s \in Seq(A), NEW t \in Seq(A), NEW S
  PROVE  Only(s \o t, S) = Only(s, S) \o Only(t, S)
<1> DEFINE P == {u \in Seq(A) : Only(s \o u, S) = Only(s, S) \o Only(u, S)}
<1>0. Only(s, S) \in Seq(A)
  BY OnlyList
<1>1. <<>> \in P
  <2>1. s \o <<>> = s /\ Only(s, S) \o <<>> = Only(s, S)
    BY <1>0, ConcatEmptySeq
  <2> QED
    BY <2>1, OnlyNil, EmptySeq
<1>2. ASSUME NEW u \in P, NEW x \in A PROVE Append(u, x) \in P
  <2>0. /\ u \in Seq(A) /\ Append(u, x) \in Seq(A) /\ <<x>> \in Seq(A) /\ s \o u \in Seq(A)
        /\ Only(s \o u, S) = Only(s, S) \o Only(u, S) /\ Only(u, S) \in Seq(A)
    <3>1. u \in Seq(A) /\ Only(s \o u, S) = Only(s, S) \o Only(u, S)
      OBVIOUS
    <3>2. Append(u, x) \in Seq(A) /\ s \o u \in Seq(A) /\ <<x>> \in Seq(A)
      BY <3>1, AppendProperties, ConcatProperties
    <3>3. Only(u, S) \in Seq(A)
      BY <3>1, OnlyList
    <3> QED
      BY <3>1, <3>2, <3>3
  <2>1. s \o Append(u, x) = Append(s \o u, x)
    BY <2>0, ConcatAppend
  <2>2. Only(s \o Append(u, x), S) = IF x \in S THEN Append(Only(s \o u, S), x) ELSE Only(s \o u, S)
    <3> DEFINE v == s \o u
    <3>1. v \in Seq(A)
      BY <2>0
    <3> HIDE DEF v
    <3>2. Only(Append(v, x), S) = IF x \in S THEN Append(Only(v, S), x) ELSE Only(v, S)
      BY <3>1, OnlyAppend
    <3> QED
      BY <2>1, <3>2 DEF v
  <2>3. Append(Only(s, S) \o Only(u, S), x) = Only(s, S) \o Append(Only(u, S), x)
    <3> DEFINE a == Only(s, S)
               b == Only(u, S)
    <3>1. a \in Seq(A) /\ b \in Seq(A)
      BY <1>0, <2>0
    <3> HIDE DEF a, b
    <3>2. a \o Append(b, x) = Append(a \o b, x)
      BY <3>1, ConcatAppend
    <3> QED
      BY <3>2 DEF a, b
  <2>4. Only(Append(u, x), S) = IF x \in S THEN Append(Only(u, S), x) ELSE Only(u, S)
    BY <2>0, OnlyAppend
  <2> QED
    BY <2>0, <2>2, <2>3, <2>4
<1>3. P \in SUBSET Seq(A)
  OBVIOUS
<1>4. P = Seq(A)
  <2> HIDE DEF P
  <2> QED
    BY <1>1, <1>2, <1>3, ListInduction
<1> QED
  BY <1>4

\* By the first element.
LEMMA OnlyTail ==
  ASSUME NEW A, NEW s \in Seq(A), s # <<>>, NEW S
  PROVE  Only(s, S) = IF Head(s) \in S THEN <<Head(s)>> \o Only(Tail(s), S) ELSE Only(Tail(s), S)
<1> DEFINE h == <<Head(s)>>
           r == Tail(s)
           e == <<>>
<1>1. /\ Head(s) \in A /\ r \in Seq(A) /\ h \in Seq(A) /\ e \in Seq(A) /\ Len(h) = 1 /\ h[1] = s[1]
      /\ h = Append(e, Head(s)) /\ Len(s) \in Nat /\ Len(r) = Len(s) - 1
      /\ \A i \in 1 .. Len(r) : r[i] = s[i + 1]
  BY HeadTailProperties, LenProperties
<1>2. s = h \o r
  <2> HIDE DEF h, r
  <2>1. /\ h \o r \in Seq(A) /\ Len(h \o r) = Len(h) + Len(r)
        /\ \A i \in 1 .. Len(h) + Len(r) : (h \o r)[i] = IF i <= Len(h) THEN h[i] ELSE r[i - Len(h)]
    BY <1>1, ConcatProperties
  <2>2. \A i \in 1 .. Len(s) : s[i] = (h \o r)[i]
    BY <1>1, <2>1
  <2> QED
    BY <1>1, <2>1, <2>2, SeqEqual
<1>4. Only(h, S) = IF Head(s) \in S THEN h ELSE e
  <2> HIDE DEF h
  <2>1. Only(e, S) = e
    BY OnlyNil
  <2> HIDE DEF e
  <2>2. Only(Append(e, Head(s)), S) = IF Head(s) \in S THEN Append(Only(e, S), Head(s)) ELSE Only(e, S)
    BY <1>1, OnlyAppend
  <2> QED
    BY <1>1, <2>1, <2>2
<1>5. Only(s, S) = Only(h, S) \o Only(r, S)
  <2> HIDE DEF h, r
  <2>0. h \in Seq(A) /\ r \in Seq(A)
    BY <1>1
  <2>1. Only(h \o r, S) = Only(h, S) \o Only(r, S)
    BY <2>0, OnlyConcat
  <2> QED
    BY Zenon, <1>2, <2>1
<1>6. Only(r, S) \in Seq(A)
  BY <1>1, OnlyList
<1>7. e \o Only(r, S) = Only(r, S)
  BY <1>6, ConcatEmptySeq
<1> HIDE DEF h, r, e
<1>8. Only(s, S) = IF Head(s) \in S THEN h \o Only(r, S) ELSE Only(r, S)
  BY <1>4, <1>5, <1>7
<1> QED
  BY <1>8 DEF h, r

LEMMA Prefixed ==
  ASSUME NEW A, NEW x \in A, NEW t \in Seq(A)
  PROVE  /\ <<x>> \o t \in Seq(A) /\ Head(<<x>> \o t) = x /\ Len(<<x>> \o t) = Len(t) + 1
         /\ (<<x>> \o t)[1] = x /\ \A i \in 1 .. Len(t) : (<<x>> \o t)[i + 1] = t[i]
<1> DEFINE h == <<x>>
           s == h \o t
<1>1. h \in Seq(A) /\ Len(h) = 1 /\ h[1] = x /\ Len(t) \in Nat
  OBVIOUS
<1> HIDE DEF h
<1>2. /\ s \in Seq(A) /\ Len(s) = Len(h) + Len(t)
      /\ \A i \in 1 .. Len(h) + Len(t) : s[i] = IF i <= Len(h) THEN h[i] ELSE t[i - Len(h)]
  BY <1>1, ConcatProperties
<1> HIDE DEF s
<1>3. s[1] = x /\ Len(s) = Len(t) + 1
  BY <1>1, <1>2
<1>4. \A i \in 1 .. Len(t) : s[i + 1] = t[i]
  <2> SUFFICES ASSUME NEW i \in 1 .. Len(t) PROVE s[i + 1] = t[i]
    OBVIOUS
  <2>1. i + 1 \in 1 .. Len(h) + Len(t) /\ ~(i + 1 <= Len(h)) /\ (i + 1) - Len(h) = i
    BY <1>1
  <2> QED
    BY <1>2, <2>1
<1>5. Head(s) = s[1]
  OBVIOUS
<1> QED
  BY <1>2, <1>3, <1>4, <1>5 DEF s, h
=============================================================================
