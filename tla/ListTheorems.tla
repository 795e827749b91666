---------------------------- MODULE ListTheorems ----------------------------
(***************************************************************************)
(* What the operators of ListOps keep of a list, whatever its length.      *)
(***************************************************************************)
EXTENDS ListOps, FiniteSetsExt, FiniteSetTheorems, SequenceTheorems, WellFoundedInduction, TLAPS

-----------------------------------------------------------------------------
(* Induction.                                                              *)

\* Numbers are well-founded, in the form that the library's theorem can be used.
LEMMA NatIsWellFounded == IsWellFoundedOn({p \in Nat \X Nat : p[1] < p[2]}, Nat)
<1>1. OpToRel(<, Nat) = {p \in Nat \X Nat : p[1] < p[2]}
  BY Zenon DEF OpToRel
<1> QED
  BY <1>1, NatLessThanWellFounded

\* A set of numbers has a least one, which Min finds.
LEMMA MinIsLeast ==
    ASSUME NEW s \in SUBSET Nat, s # {}
    PROVE  Min(s) \in s /\ \A i \in s : Min(s) <= i
<1> DEFINE Less == {p \in Nat \X Nat : p[1] < p[2]}
<1>1. PICK x \in s : \A y \in s : ~(<<y, x>> \in Less)
  BY NatIsWellFounded, WFMin
<1>2. \A y \in s : x <= y
  <2> TAKE y \in s
  <2>1. <<y, x>> \in Less \/ ~(y < x)
    OBVIOUS
  <2> HIDE DEF Less
  <2> QED
    BY <1>1, <2>1
<1> QED
  BY <1>2 DEF Min

\* The smaller of two numbers.
LEMMA MinOfTwo ==
    ASSUME NEW m \in Int, NEW n \in Int
    PROVE  Min({m, n}) = IF m <= n THEN m ELSE n
BY DEF Min

\* A set of numbers that has 0, and with each number the next, has all.
LEMMA NatInSet ==
    ASSUME NEW S, 0 \in S, \A n \in Nat : n \in S => n + 1 \in S
    PROVE  Nat \subseteq S
<1> SUFFICES ASSUME Nat \ S # {} PROVE FALSE
  OBVIOUS
<1> DEFINE x == Min(Nat \ S)
<1>1. x \in Nat \ S /\ \A i \in Nat \ S : x <= i
  BY MinIsLeast
<1> HIDE DEF x
<1>2. x # 0 /\ x - 1 \in Nat
  BY <1>1
<1>3. x - 1 \in S
  BY <1>1, <1>2
<1> QED
  BY <1>1, <1>2, <1>3

\* A set of numbers with a bound has a greatest, which Max finds.
LEMMA MaxIsGreatest ==
    ASSUME NEW n \in Nat, NEW s \in SUBSET (1..n), s # {}
    PROVE  Max(s) \in s /\ \A i \in s : i <= Max(s)
<1> DEFINE P == {k \in Nat : \A t \in SUBSET (1..k) : t # {} => \E x \in t : \A i \in t : x >= i}
<1>1. 0 \in P
  <2>1. 1..0 = {}
    OBVIOUS
  <2> QED
    BY <2>1
<1>2. ASSUME NEW k \in Nat, k \in P PROVE k + 1 \in P
  <2> SUFFICES ASSUME NEW t \in SUBSET (1..(k + 1)), t # {}
               PROVE  \E x \in t : \A i \in t : x >= i
    OBVIOUS
  <2>1. CASE k + 1 \in t
    BY <2>1
  <2>2. CASE k + 1 \notin t
    <3>1. t \in SUBSET (1..k)
      BY <2>2
    <3> QED
      BY <1>2, <3>1
  <2> QED
    BY <2>1, <2>2
<1> HIDE DEF P
<1>3. n \in P
  BY <1>1, <1>2, NatInSet
<1>4. \E x \in s : \A i \in s : x >= i
  BY <1>3 DEF P
<1> QED
  BY <1>4 DEF Max

\* The set of the first numbers has the last of them as its greatest.
LEMMA MaxOfFirst ==
    ASSUME NEW n \in Nat, NEW s \in SUBSET (1..(n + 1)), n + 1 \in s
    PROVE  Max(s) = n + 1
<1>1. Max(s) \in s /\ \A i \in s : i <= Max(s)
  BY MaxIsGreatest
<1>2. Max(s) \in 1..(n + 1) /\ n + 1 <= Max(s)
  BY <1>1
<1> QED
  BY <1>2

-----------------------------------------------------------------------------
(* The folds as recursive functions on sets of places.                     *)

Keeps(h, s, S, n) ==
    h = [t \in SUBSET (1..n) |->
            IF t = {} THEN <<>>
            ELSE IF s[Max(t)] \in S THEN Append(h[t \ {Max(t)}], s[Max(t)])
            ELSE h[t \ {Max(t)}]]

\* There is such a function.
LEMMA KeepsExists ==
    ASSUME NEW s, NEW S, NEW n \in Nat
    PROVE  \E h : Keeps(h, s, S, n)
<1> DEFINE P == {k \in Nat : \E h : Keeps(h, s, S, k)}
<1>1. 0 \in P
  <2>1. Keeps([t \in SUBSET (1..0) |-> <<>>], s, S, 0)
    BY DEF Keeps
  <2> QED
    BY <2>1
<1>2. ASSUME NEW k \in Nat, k \in P PROVE k + 1 \in P
  <2>1. PICK h : Keeps(h, s, S, k)
    BY <1>2
  <2> DEFINE g == [t \in SUBSET (1..(k + 1)) |->
                     IF k + 1 \notin t THEN h[t]
                     ELSE IF s[k + 1] \in S THEN Append(h[t \ {k + 1}], s[k + 1])
                     ELSE h[t \ {k + 1}]]
             e == [t \in SUBSET (1..(k + 1)) |->
                     IF t = {} THEN <<>>
                     ELSE IF s[Max(t)] \in S THEN Append(g[t \ {Max(t)}], s[Max(t)])
                     ELSE g[t \ {Max(t)}]]
  <2>2. ASSUME NEW t \in SUBSET (1..(k + 1)) PROVE g[t] = e[t]
    <3>1. CASE k + 1 \in t
      <4>1. Max(t) = k + 1 /\ t \ {k + 1} \in SUBSET (1..k) /\ t # {}
        BY <3>1, MaxOfFirst
      <4>2. g[t \ {k + 1}] = h[t \ {k + 1}]
        BY <4>1
      <4> QED
        BY <3>1, <4>1, <4>2
    <3>2. CASE k + 1 \notin t
      <4>1. t \in SUBSET (1..k)
        BY <3>2
      <4>2. g[t] = h[t]
        BY <3>2
      <4>3. CASE t = {}
        BY <2>1, <4>1, <4>2, <4>3 DEF Keeps
      <4>4. CASE t # {}
        <5>1. Max(t) \in t
          BY <4>1, <4>4, MaxIsGreatest
        <5>2. t \ {Max(t)} \in SUBSET (1..k)
          BY <4>1
        <5>3. g[t \ {Max(t)}] = h[t \ {Max(t)}]
          BY <5>2
        <5>4. h[t] = IF s[Max(t)] \in S THEN Append(h[t \ {Max(t)}], s[Max(t)])
                     ELSE h[t \ {Max(t)}]
          BY <2>1, <4>1, <4>4 DEF Keeps
        <5>5. e[t] = IF s[Max(t)] \in S THEN Append(g[t \ {Max(t)}], s[Max(t)])
                     ELSE g[t \ {Max(t)}]
          BY <4>4
        <5> QED
          BY <4>2, <5>3, <5>4, <5>5
      <4> QED
        BY <4>3, <4>4
    <3> QED
      BY <3>1, <3>2
  <2>3. g = e
    <3>1. g = [t \in SUBSET (1..(k + 1)) |-> g[t]] /\ e = [t \in SUBSET (1..(k + 1)) |-> e[t]]
      OBVIOUS
    <3> HIDE DEF g, e
    <3>2. [t \in SUBSET (1..(k + 1)) |-> g[t]] = [t \in SUBSET (1..(k + 1)) |-> e[t]]
      BY <2>2
    <3> QED
      BY <3>1, <3>2
  <2> HIDE DEF g
  <2>4. Keeps(g, s, S, k + 1)
    BY <2>3 DEF Keeps
  <2> QED
    BY <2>4
<1> HIDE DEF P
<1>3. n \in P
  BY <1>1, <1>2, NatInSet
<1> QED
  BY <1>3 DEF P

\* Lists that begin alike are kept alike.
LEMMA KeepsUnique ==
    ASSUME NEW s, NEW r, NEW S, NEW n \in Nat, NEW m \in Nat, n <= m,
           \A i \in 1..n : s[i] = r[i],
           NEW h, Keeps(h, s, S, n), NEW g, Keeps(g, r, S, m)
    PROVE  h[1..n] = g[1..n]
<1> DEFINE P == {k \in Nat : k <= n => \A t \in SUBSET (1..k) : h[t] = g[t]}
<1>1. 0 \in P
  <2>1. {} \in SUBSET (1..n) /\ {} \in SUBSET (1..m) /\ 1..0 = {}
    OBVIOUS
  <2>2. h[{}] = <<>> /\ g[{}] = <<>>
    BY <2>1 DEF Keeps
  <2> QED
    BY <2>1, <2>2
<1>2. ASSUME NEW k \in Nat, k \in P PROVE k + 1 \in P
  <2> SUFFICES ASSUME k + 1 <= n, NEW t \in SUBSET (1..(k + 1))
               PROVE  h[t] = g[t]
    OBVIOUS
  <2>1. CASE k + 1 \in t
    <3>1. Max(t) = k + 1 /\ t \ {k + 1} \in SUBSET (1..k) /\ t # {}
      BY <2>1, MaxOfFirst
    <3>2. h[t \ {k + 1}] = g[t \ {k + 1}] /\ s[k + 1] = r[k + 1]
      BY <1>2, <3>1
    <3>3. t \in SUBSET (1..n) /\ t \in SUBSET (1..m)
      OBVIOUS
    <3>4. h[t] = IF s[k + 1] \in S THEN Append(h[t \ {k + 1}], s[k + 1]) ELSE h[t \ {k + 1}]
      BY <3>1, <3>3 DEF Keeps
    <3>5. g[t] = IF r[k + 1] \in S THEN Append(g[t \ {k + 1}], r[k + 1]) ELSE g[t \ {k + 1}]
      BY <3>1, <3>3 DEF Keeps
    <3> QED
      BY <3>2, <3>4, <3>5
  <2>2. CASE k + 1 \notin t
    <3>1. t \in SUBSET (1..k)
      BY <2>2
    <3> QED
      BY <1>2, <3>1
  <2> QED
    BY <2>1, <2>2
<1> HIDE DEF P
<1>3. n \in P
  BY <1>1, <1>2, NatInSet
<1> QED
  BY <1>3 DEF P

\* Among by such a function.
LEMMA AmongIs ==
    ASSUME NEW T, NEW s \in Seq(T), NEW S
    PROVE  \E h : Keeps(h, s, S, Len(s)) /\ Among(s, S) = h[1..Len(s)]
<1> DEFINE h == CHOOSE h : Keeps(h, s, S, Len(s))
<1>1. Keeps(h, s, S, Len(s))
  BY KeepsExists
<1>2. DOMAIN s = 1..Len(s)
  OBVIOUS
<1>3. Among(s, S) = h[1..Len(s)]
  BY <1>2 DEF Among, FoldLeft, MapThenFoldSet, Keeps
<1> QED
  BY <1>1, <1>3

-----------------------------------------------------------------------------
(* What is kept.                                                           *)

\* Nothing is kept of nothing.
LEMMA AmongEmpty ==
    ASSUME NEW S
    PROVE  Among(<<>>, S) = <<>>
<1>1. PICK h : Keeps(h, <<>>, S, Len(<<>>)) /\ Among(<<>>, S) = h[1..Len(<<>>)]
  <2>1. <<>> \in Seq({})
    OBVIOUS
  <2> QED
    BY <2>1, AmongIs
<1>2. 1..Len(<<>>) = {} /\ {} \in SUBSET (1..Len(<<>>))
  OBVIOUS
<1> QED
  BY <1>1, <1>2 DEF Keeps

\* One more element is kept or not.
LEMMA AmongAppend ==
    ASSUME NEW T, NEW s \in Seq(T), NEW e \in T, NEW S
    PROVE  Among(Append(s, e), S) =
               IF e \in S THEN Append(Among(s, S), e) ELSE Among(s, S)
<1> DEFINE n == Len(s)
           r == Append(s, e)
<1>1. n \in Nat /\ r \in Seq(T) /\ Len(r) = n + 1 /\ r[n + 1] = e /\ \A i \in 1..n : s[i] = r[i]
  OBVIOUS
<1>2. PICK h : Keeps(h, s, S, n) /\ Among(s, S) = h[1..n]
  BY AmongIs
<1>3. PICK g : Keeps(g, r, S, n + 1) /\ Among(r, S) = g[1..(n + 1)]
  BY <1>1, AmongIs
<1> HIDE DEF n, r
<1>4. h[1..n] = g[1..n]
  BY <1>1, <1>2, <1>3, KeepsUnique
<1>5. /\ 1..(n + 1) \in SUBSET (1..(n + 1)) /\ n + 1 \in 1..(n + 1)
      /\ 1..(n + 1) # {} /\ (1..(n + 1)) \ {n + 1} = 1..n
  BY <1>1
<1>6. Max(1..(n + 1)) = n + 1
  BY <1>1, <1>5, MaxOfFirst
<1>7. g[1..(n + 1)] = IF r[n + 1] \in S THEN Append(g[1..n], r[n + 1]) ELSE g[1..n]
  BY <1>3, <1>5, <1>6 DEF Keeps
<1> QED
  BY <1>1, <1>2, <1>3, <1>4, <1>7 DEF r

\* What holds of the empty list, and with a list of any that is one longer.
LEMMA ListInSet ==
    ASSUME NEW T, NEW P, <<>> \in P,
           \A s \in Seq(T), e \in T : s \in P => Append(s, e) \in P
    PROVE  Seq(T) \subseteq P
<1> DEFINE N == {n \in Nat : \A s \in Seq(T) : Len(s) = n => s \in P}
<1>1. 0 \in N
  <2>1. \A s \in Seq(T) : Len(s) = 0 => s = <<>>
    OBVIOUS
  <2> QED
    BY <2>1
<1>2. ASSUME NEW n \in Nat, n \in N PROVE n + 1 \in N
  <2> SUFFICES ASSUME NEW s \in Seq(T), Len(s) = n + 1 PROVE s \in P
    OBVIOUS
  <2> DEFINE r == SubSeq(s, 1, n)
  <2>1. r \in Seq(T) /\ Len(r) = n /\ s[n + 1] \in T /\ s = Append(r, s[n + 1])
    OBVIOUS
  <2> HIDE DEF r
  <2> QED
    BY <1>2, <2>1
<1> HIDE DEF N
<1>3. Nat \subseteq N
  BY <1>1, <1>2, NatInSet
<1> QED
  BY <1>3 DEF N

\* What is kept is the elements that are in the set.
LEMMA AmongKeeps ==
    ASSUME NEW T, NEW s \in Seq(T), NEW S
    PROVE  /\ Among(s, S) \in Seq(T)
           /\ Len(Among(s, S)) <= Len(s)
           /\ ToSet(Among(s, S)) = ToSet(s) \cap S
<1> DEFINE P == {r \in Seq(T) : /\ Among(r, S) \in Seq(T)
                                /\ Len(Among(r, S)) <= Len(r)
                                /\ ToSet(Among(r, S)) = ToSet(r) \cap S}
<1>1. <<>> \in P
  <2>1. <<>> \in Seq(T) /\ Len(<<>>) = 0 /\ DOMAIN <<>> = {}
    OBVIOUS
  <2>2. ToSet(<<>>) = {}
    BY <2>1 DEF ToSet
  <2>3. /\ Among(<<>>, S) \in Seq(T) /\ Len(Among(<<>>, S)) <= Len(<<>>)
        /\ ToSet(Among(<<>>, S)) = ToSet(<<>>) \cap S
    <3>1. Among(<<>>, S) = <<>> /\ {} = {} \cap S
      BY AmongEmpty
    <3>2. Len(Among(<<>>, S)) <= Len(<<>>)
      BY <2>1, <3>1
    <3>3. ToSet(Among(<<>>, S)) = ToSet(<<>>) \cap S
      BY <2>2, <3>1, Zenon
    <3> QED
      BY <2>1, <3>1, <3>2, <3>3
  <2> QED
    BY <2>1, <2>3
<1>2. ASSUME NEW r \in Seq(T), NEW e \in T, r \in P PROVE Append(r, e) \in P
  <2>1. Among(Append(r, e), S) = IF e \in S THEN Append(Among(r, S), e) ELSE Among(r, S)
    BY AmongAppend
  <2>2. \A q \in Seq(T) : /\ Append(q, e) \in Seq(T) /\ Len(Append(q, e)) = Len(q) + 1
                          /\ ToSet(Append(q, e)) = ToSet(q) \cup {e}
    <3> TAKE q \in Seq(T)
    <3>1. /\ Append(q, e) \in Seq(T) /\ Len(Append(q, e)) = Len(q) + 1
          /\ DOMAIN q = 1..Len(q) /\ DOMAIN Append(q, e) = 1..(Len(q) + 1)
          /\ \A i \in 1..Len(q) : Append(q, e)[i] = q[i]
          /\ Append(q, e)[Len(q) + 1] = e
      OBVIOUS
    <3> QED
      BY <3>1 DEF ToSet
  <2>3. /\ Among(r, S) \in Seq(T) /\ Len(Among(r, S)) <= Len(r)
        /\ ToSet(Among(r, S)) = ToSet(r) \cap S /\ Len(r) \in Nat /\ Len(Among(r, S)) \in Nat
    BY <1>2
  <2>4. /\ Append(r, e) \in Seq(T) /\ Among(Append(r, e), S) \in Seq(T)
        /\ Len(Among(Append(r, e), S)) <= Len(Append(r, e))
    BY <2>1, <2>2, <2>3
  <2>5. ToSet(Among(Append(r, e), S)) = ToSet(Append(r, e)) \cap S
    BY <2>1, <2>2, <2>3
  <2> QED
    BY <2>4, <2>5
<1> HIDE DEF P
<1>3. s \in P
  BY <1>1, <1>2, ListInSet
<1> QED
  BY <1>3 DEF P

\* The elements of a list that is put together.
LEMMA ConcatSet ==
    ASSUME NEW T, NEW s \in Seq(T), NEW r \in Seq(T)
    PROVE  ToSet(s \o r) = ToSet(s) \cup ToSet(r)
<1>1. /\ s \o r \in Seq(T) /\ Len(s \o r) = Len(s) + Len(r)
      /\ DOMAIN (s \o r) = 1..(Len(s) + Len(r)) /\ DOMAIN s = 1..Len(s) /\ DOMAIN r = 1..Len(r)
      /\ Len(s) \in Nat /\ Len(r) \in Nat
      /\ \A i \in 1..(Len(s) + Len(r)) : (s \o r)[i] = IF i <= Len(s) THEN s[i] ELSE r[i - Len(s)]
  OBVIOUS
<1>2. ASSUME NEW i \in 1..Len(s) PROVE (s \o r)[i] = s[i] /\ i \in 1..(Len(s) + Len(r))
  BY <1>1
<1>3. ASSUME NEW i \in 1..Len(r)
      PROVE  (s \o r)[Len(s) + i] = r[i] /\ Len(s) + i \in 1..(Len(s) + Len(r))
  BY <1>1
<1>4. ASSUME NEW i \in 1..(Len(s) + Len(r)), i > Len(s)
      PROVE  (s \o r)[i] = r[i - Len(s)] /\ i - Len(s) \in 1..Len(r)
  BY <1>1, <1>4
<1>5. ToSet(s) \subseteq ToSet(s \o r) /\ ToSet(r) \subseteq ToSet(s \o r)
  <2>1. /\ \A i \in DOMAIN s : s[i] \in ToSet(s \o r)
        /\ \A i \in DOMAIN r : r[i] \in ToSet(s \o r)
    <3> DEFINE l == s \o r
    <3>1. \A i \in 1..(Len(s) + Len(r)) : l[i] \in ToSet(l)
      BY <1>1 DEF ToSet
    <3>2. /\ \A i \in 1..Len(s) : l[i] = s[i] /\ i \in 1..(Len(s) + Len(r))
          /\ \A i \in 1..Len(r) : l[Len(s) + i] = r[i] /\ Len(s) + i \in 1..(Len(s) + Len(r))
      BY <1>2, <1>3
    <3> HIDE DEF l
    <3>3. \A i \in 1..Len(s) : s[i] \in ToSet(l)
      BY <3>1, <3>2
    <3>4. \A i \in 1..Len(r) : r[i] \in ToSet(l)
      BY <3>1, <3>2
    <3> QED
      BY <1>1, <3>3, <3>4 DEF l
  <2> QED
    BY <2>1 DEF ToSet
<1>6. ASSUME NEW i \in 1..(Len(s) + Len(r)) PROVE (s \o r)[i] \in ToSet(s) \cup ToSet(r)
  <2>1. CASE i <= Len(s)
    BY <1>1, <2>1 DEF ToSet
  <2>2. CASE i > Len(s)
    BY <1>1, <1>4, <2>2 DEF ToSet
  <2> QED
    BY <1>1, <2>1, <2>2
<1>7. ToSet(s \o r) \subseteq ToSet(s) \cup ToSet(r)
  BY <1>1, <1>6 DEF ToSet
<1> QED
  BY <1>5, <1>7

\* What is kept of two lists one after the other.
LEMMA AmongConcat ==
    ASSUME NEW T, NEW s \in Seq(T), NEW r \in Seq(T), NEW S
    PROVE  Among(s \o r, S) = Among(s, S) \o Among(r, S)
<1> DEFINE P == {q \in Seq(T) : Among(s \o q, S) = Among(s, S) \o Among(q, S)}
<1>0. Among(s, S) \in Seq(T)
  BY AmongKeeps
<1>1. <<>> \in P
  BY <1>0, AmongEmpty
<1>2. ASSUME NEW q \in Seq(T), NEW e \in T, q \in P PROVE Append(q, e) \in P
  <2>1. s \o Append(q, e) = Append(s \o q, e) /\ s \o q \in Seq(T)
    OBVIOUS
  <2>2. Among(Append(s \o q, e), S) =
            IF e \in S THEN Append(Among(s \o q, S), e) ELSE Among(s \o q, S)
    BY <2>1, AmongAppend
  <2>3. Among(Append(q, e), S) = IF e \in S THEN Append(Among(q, S), e) ELSE Among(q, S)
    BY AmongAppend
  <2>4. Among(q, S) \in Seq(T)
    BY AmongKeeps
  <2>5. Among(s, S) \o Append(Among(q, S), e) = Append(Among(s, S) \o Among(q, S), e)
    BY <1>0, <2>4
  <2>6. Among(s \o Append(q, e), S) = Among(s, S) \o Among(Append(q, e), S)
    BY <1>2, <2>1, <2>2, <2>3, <2>5
  <2> QED
    BY <2>6
<1> HIDE DEF P
<1>3. r \in P
  BY <1>1, <1>2, ListInSet
<1> QED
  BY <1>3 DEF P

\* A list without repetitions stays one.
LEMMA AmongInjective ==
    ASSUME NEW T, NEW s \in Seq(T), NEW S, IsInjective(s)
    PROVE  IsInjective(Among(s, S))
<1> DEFINE P == {q \in Seq(T) : IsInjective(q) => IsInjective(Among(q, S))}
<1>1. <<>> \in P
  BY AmongEmpty DEF IsInjective
<1>2. ASSUME NEW q \in Seq(T), NEW e \in T, q \in P PROVE Append(q, e) \in P
  <2> SUFFICES ASSUME IsInjective(Append(q, e)) PROVE IsInjective(Among(Append(q, e), S))
    OBVIOUS
  <2>0. ASSUME NEW r \in Seq(T)
        PROVE  IsInjective(Append(r, e)) <=> IsInjective(r) /\ e \notin ToSet(r)
    <3>1. /\ Append(r, e) \in Seq(T) /\ Len(Append(r, e)) = Len(r) + 1 /\ Len(r) \in Nat
          /\ DOMAIN r = 1..Len(r) /\ DOMAIN Append(r, e) = 1..(Len(r) + 1)
          /\ \A i \in 1..Len(r) : Append(r, e)[i] = r[i]
          /\ Append(r, e)[Len(r) + 1] = e
      OBVIOUS
    <3>2. e \notin ToSet(r) <=> \A i \in 1..Len(r) : r[i] # e
      BY <3>1 DEF ToSet
    <3>3. ASSUME IsInjective(Append(r, e)) PROVE IsInjective(r) /\ e \notin ToSet(r)
      <4>1. \A i, j \in 1..(Len(r) + 1) : Append(r, e)[i] = Append(r, e)[j] => i = j
        BY <3>1, <3>3 DEF IsInjective
      <4>2. \A i \in 1..Len(r) : i \in 1..(Len(r) + 1) /\ i # Len(r) + 1
        BY <3>1
      <4>3. \A i \in 1..Len(r) : r[i] # e
        <5>1. Len(r) + 1 \in 1..(Len(r) + 1)
          BY <3>1
        <5> QED
          BY <3>1, <4>1, <4>2, <5>1
      <4>4. \A i, j \in 1..Len(r) : r[i] = r[j] => i = j
        BY <3>1, <4>1, <4>2
      <4> QED
        BY <3>1, <3>2, <4>3, <4>4 DEF IsInjective
    <3>4. ASSUME IsInjective(r), e \notin ToSet(r) PROVE IsInjective(Append(r, e))
      <4>1. \A i, j \in 1..Len(r) : r[i] = r[j] => i = j
        BY <3>1, <3>4 DEF IsInjective
      <4>2. \A i, j \in 1..(Len(r) + 1) : Append(r, e)[i] = Append(r, e)[j] => i = j
        BY <3>1, <3>2, <3>4, <4>1
      <4> QED
        BY <3>1, <4>2 DEF IsInjective
    <3> QED
      BY <3>3, <3>4
  <2>1. IsInjective(q) /\ e \notin ToSet(q)
    BY <2>0
  <2>2. Among(Append(q, e), S) = IF e \in S THEN Append(Among(q, S), e) ELSE Among(q, S)
    BY AmongAppend
  <2>3. Among(q, S) \in Seq(T) /\ ToSet(Among(q, S)) \subseteq ToSet(q)
    BY AmongKeeps
  <2> QED
    BY <1>2, <2>0, <2>1, <2>2, <2>3
<1> HIDE DEF P
<1>3. s \in P
  BY <1>1, <1>2, ListInSet
<1> QED
  BY <1>3 DEF P

\* A list of elements of the set is kept, one without any is dropped.
LEMMA AmongAllOrNone ==
    ASSUME NEW T, NEW s \in Seq(T), NEW S
    PROVE  /\ (\A i \in DOMAIN s : s[i] \in S) => Among(s, S) = s
           /\ (\A i \in DOMAIN s : s[i] \notin S) => Among(s, S) = <<>>
<1> DEFINE P == {q \in Seq(T) : /\ (\A i \in DOMAIN q : q[i] \in S) => Among(q, S) = q
                                /\ (\A i \in DOMAIN q : q[i] \notin S) => Among(q, S) = <<>>}
<1>1. <<>> \in P
  BY AmongEmpty
<1>2. ASSUME NEW q \in Seq(T), NEW e \in T, q \in P PROVE Append(q, e) \in P
  <2>1. /\ Append(q, e) \in Seq(T) /\ Len(Append(q, e)) = Len(q) + 1 /\ Len(q) \in Nat
        /\ DOMAIN q = 1..Len(q) /\ DOMAIN Append(q, e) = 1..(Len(q) + 1)
        /\ \A i \in 1..Len(q) : Append(q, e)[i] = q[i]
        /\ Append(q, e)[Len(q) + 1] = e
    OBVIOUS
  <2>2. Among(Append(q, e), S) = IF e \in S THEN Append(Among(q, S), e) ELSE Among(q, S)
    BY AmongAppend
  <2>3. (\A i \in DOMAIN q : q[i] \in S) => Among(q, S) = q
    BY <1>2
  <2>4. (\A i \in DOMAIN q : q[i] \notin S) => Among(q, S) = <<>>
    BY <1>2
  <2>5. (\A i \in DOMAIN Append(q, e) : Append(q, e)[i] \in S)
        => Among(Append(q, e), S) = Append(q, e)
    BY <2>1, <2>2, <2>3
  <2>6. (\A i \in DOMAIN Append(q, e) : Append(q, e)[i] \notin S)
        => Among(Append(q, e), S) = <<>>
    BY <2>1, <2>2, <2>4
  <2> QED
    BY <2>1, <2>5, <2>6
<1> HIDE DEF P
<1>3. s \in P
  BY <1>1, <1>2, ListInSet
<1> QED
  BY <1>3 DEF P

\* A list is its head and the rest.
LEMMA HeadAndRest ==
    ASSUME NEW T, NEW s \in Seq(T), s # <<>>
    PROVE  /\ ToSet(s) = {Head(s)} \cup ToSet(Tail(s))
           /\ Head(s) \in T /\ Tail(s) \in Seq(T)
<1>1. /\ Len(s) \in Nat \ {0} /\ DOMAIN s = 1..Len(s) /\ Tail(s) \in Seq(T) /\ Head(s) \in T
      /\ DOMAIN Tail(s) = 1..(Len(s) - 1) /\ Head(s) = s[1]
      /\ \A i \in 1..(Len(s) - 1) : Tail(s)[i] = s[i + 1]
  OBVIOUS
<1>2. \A i \in 1..(Len(s) - 1) : i + 1 \in 1..Len(s)
  BY <1>1
<1>3. \A i \in 1..Len(s) : i = 1 \/ (i - 1 \in 1..(Len(s) - 1) /\ Tail(s)[i - 1] = s[i])
  BY <1>1
<1>4. \A i \in 1..Len(s) : s[i] \in {Head(s)} \cup ToSet(Tail(s))
  BY <1>1, <1>3 DEF ToSet
<1>5. \A i \in 1..(Len(s) - 1) : Tail(s)[i] \in ToSet(s)
  BY <1>1, <1>2 DEF ToSet
<1>6. Head(s) \in ToSet(s)
  BY <1>1 DEF ToSet
<1>7. ToSet(s) \subseteq {Head(s)} \cup ToSet(Tail(s))
  BY <1>1, <1>4 DEF ToSet
<1>8. ToSet(Tail(s)) \subseteq ToSet(s)
  BY <1>1, <1>5 DEF ToSet
<1> QED
  BY <1>1, <1>6, <1>7, <1>8

\* The head of a list is among the elements of a set, or it is not.
LEMMA AmongHead ==
    ASSUME NEW T, NEW s \in Seq(T), s # <<>>, NEW S
    PROVE  Len(Among(s, S)) = Len(Among(Tail(s), S)) + (IF Head(s) \in S THEN 1 ELSE 0)
<1>1. PICK h : h \in Seq(T) /\ h = Append(<<>>, Head(s))
  <2>1. Head(s) \in T
    BY HeadAndRest
  <2>2. Append(<<>>, Head(s)) \in Seq(T)
    BY <2>1
  <2> QED
    BY <2>2, Zenon
<1>2. PICK r : r \in Seq(T) /\ r = Tail(s)
  BY HeadAndRest
<1>3. s = h \o r
  BY <1>1, <1>2
<1>4. Among(h \o r, S) = Among(h, S) \o Among(r, S)
  <2>1. h \in Seq(T) /\ r \in Seq(T)
    BY <1>1, <1>2, Zenon
  <2> QED
    BY <2>1, AmongConcat
<1>5. Among(s, S) = Among(h, S) \o Among(r, S)
  BY <1>3, <1>4, Zenon
<1>6. Among(Append(<<>>, Head(s)), S) =
          IF Head(s) \in S THEN Append(Among(<<>>, S), Head(s)) ELSE Among(<<>>, S)
  <2>1. <<>> \in Seq(T) /\ Head(s) \in T
    BY HeadAndRest
  <2> QED
    BY <2>1, AmongAppend
<1>7. Among(h, S) = IF Head(s) \in S THEN Append(<<>>, Head(s)) ELSE <<>>
  BY <1>1, <1>6, AmongEmpty, Zenon
<1>8. Len(Among(h, S)) = IF Head(s) \in S THEN 1 ELSE 0
  BY <1>7
<1>9. Among(h, S) \in Seq(T) /\ Among(r, S) \in Seq(T)
  BY <1>1, <1>2, AmongKeeps
<1>10. Len(Among(s, S)) = Len(Among(h, S)) + Len(Among(r, S))
  BY <1>5, <1>9, ConcatProperties
<1>11. Len(Among(h, S)) \in Nat /\ Len(Among(r, S)) \in Nat
  BY <1>9
<1> QED
  BY <1>2, <1>8, <1>10, <1>11

\* What the head and the tail of a list without repetitions have.
LEMMA HeadAndTail ==
    ASSUME NEW T, NEW s \in Seq(T), s # <<>>, IsInjective(s)
    PROVE  /\ ToSet(s) = {Head(s)} \cup ToSet(Tail(s)) /\ Head(s) \notin ToSet(Tail(s))
           /\ Tail(s) \in Seq(T) /\ IsInjective(Tail(s))
<1>1. /\ Len(s) \in Nat \ {0} /\ DOMAIN s = 1..Len(s)
      /\ DOMAIN Tail(s) = 1..(Len(s) - 1) /\ Head(s) = s[1]
      /\ \A i \in 1..(Len(s) - 1) : Tail(s)[i] = s[i + 1]
  OBVIOUS
<1>2. \A i \in 1..(Len(s) - 1) : i + 1 \in 1..Len(s) /\ i + 1 # 1
  BY <1>1
<1>3. 1 \in 1..Len(s)
  BY <1>1
<1>4. \A i, j \in 1..Len(s) : s[i] = s[j] => i = j
  BY <1>1 DEF IsInjective
<1>5. IsInjective(Tail(s))
  BY <1>1, <1>2, <1>4 DEF IsInjective
<1>6. Head(s) \notin ToSet(Tail(s))
  BY <1>1, <1>2, <1>3, <1>4 DEF ToSet
<1> QED
  BY <1>5, <1>6, HeadAndRest

\* Two lists with nothing in common.
LEMMA ConcatInjective ==
    ASSUME NEW T, NEW s \in Seq(T), NEW r \in Seq(T), IsInjective(s), IsInjective(r),
           ToSet(s) \cap ToSet(r) = {}
    PROVE  IsInjective(s \o r)
<1> DEFINE l == s \o r
<1>1. /\ DOMAIN l = 1..(Len(s) + Len(r)) /\ DOMAIN s = 1..Len(s) /\ DOMAIN r = 1..Len(r)
      /\ Len(s) \in Nat /\ Len(r) \in Nat
      /\ \A i \in 1..(Len(s) + Len(r)) : l[i] = IF i <= Len(s) THEN s[i] ELSE r[i - Len(s)]
  OBVIOUS
<1>2. ASSUME NEW i \in 1..(Len(s) + Len(r))
      PROVE  \/ i \in 1..Len(s) /\ l[i] = s[i]
             \/ i > Len(s) /\ i - Len(s) \in 1..Len(r) /\ l[i] = r[i - Len(s)]
  BY <1>1
<1> HIDE DEF l
<1>3. \A i \in 1..Len(s), j \in 1..Len(r) : s[i] # r[j]
  BY <1>1 DEF ToSet
<1>4. \A i, j \in 1..Len(s) : s[i] = s[j] => i = j
  BY <1>1 DEF IsInjective
<1>5. \A i, j \in 1..Len(r) : r[i] = r[j] => i = j
  BY <1>1 DEF IsInjective
<1>6. ASSUME NEW i \in 1..(Len(s) + Len(r)), NEW j \in 1..(Len(s) + Len(r)), l[i] = l[j]
      PROVE  i = j
  <2>1. CASE i \in 1..Len(s) /\ l[i] = s[i]
    BY <1>2, <1>3, <1>4, <1>6, <2>1
  <2>2. CASE i > Len(s) /\ i - Len(s) \in 1..Len(r) /\ l[i] = r[i - Len(s)]
    <3>1. CASE j \in 1..Len(s) /\ l[j] = s[j]
      BY <1>3, <1>6, <2>2, <3>1
    <3>2. CASE j > Len(s) /\ j - Len(s) \in 1..Len(r) /\ l[j] = r[j - Len(s)]
      <4>1. i - Len(s) = j - Len(s)
        BY <1>5, <1>6, <2>2, <3>2
      <4> QED
        BY <1>1, <4>1
    <3> QED
      BY <1>2, <3>1, <3>2
  <2> QED
    BY <1>2, <2>1, <2>2
<1> QED
  BY <1>1, <1>6 DEF IsInjective, l

-----------------------------------------------------------------------------
(* Sums, by the same way.                                                  *)

Sums(h, s, n) ==
    h = [t \in SUBSET (1..n) |-> IF t = {} THEN 0 ELSE h[t \ {Max(t)}] + s[Max(t)]]

\* There is such a function.
LEMMA SumsExists ==
    ASSUME NEW s, NEW n \in Nat
    PROVE  \E h : Sums(h, s, n)
<1> DEFINE P == {k \in Nat : \E h : Sums(h, s, k)}
<1>1. 0 \in P
  <2>1. Sums([t \in SUBSET (1..0) |-> 0], s, 0)
    BY DEF Sums
  <2> QED
    BY <2>1
<1>2. ASSUME NEW k \in Nat, k \in P PROVE k + 1 \in P
  <2>1. PICK h : Sums(h, s, k)
    BY <1>2
  <2> DEFINE g == [t \in SUBSET (1..(k + 1)) |->
                     IF k + 1 \notin t THEN h[t] ELSE h[t \ {k + 1}] + s[k + 1]]
             e == [t \in SUBSET (1..(k + 1)) |->
                     IF t = {} THEN 0 ELSE g[t \ {Max(t)}] + s[Max(t)]]
  <2>2. ASSUME NEW t \in SUBSET (1..(k + 1)) PROVE g[t] = e[t]
    <3>1. CASE k + 1 \in t
      <4>1. Max(t) = k + 1 /\ t \ {k + 1} \in SUBSET (1..k) /\ t # {}
        BY <3>1, MaxOfFirst
      <4>2. g[t \ {k + 1}] = h[t \ {k + 1}]
        BY <4>1
      <4> QED
        BY <3>1, <4>1, <4>2
    <3>2. CASE k + 1 \notin t
      <4>1. t \in SUBSET (1..k)
        BY <3>2
      <4>2. g[t] = h[t]
        BY <3>2
      <4>3. CASE t = {}
        BY <2>1, <4>1, <4>2, <4>3 DEF Sums
      <4>4. CASE t # {}
        <5>1. Max(t) \in t
          BY <4>1, <4>4, MaxIsGreatest
        <5>2. t \ {Max(t)} \in SUBSET (1..k)
          BY <4>1
        <5>3. g[t \ {Max(t)}] = h[t \ {Max(t)}]
          BY <5>2
        <5>4. h[t] = h[t \ {Max(t)}] + s[Max(t)]
          BY <2>1, <4>1, <4>4 DEF Sums
        <5>5. e[t] = g[t \ {Max(t)}] + s[Max(t)]
          BY <4>4
        <5> QED
          BY <4>2, <5>3, <5>4, <5>5
      <4> QED
        BY <4>3, <4>4
    <3> QED
      BY <3>1, <3>2
  <2>3. g = e
    <3>1. g = [t \in SUBSET (1..(k + 1)) |-> g[t]] /\ e = [t \in SUBSET (1..(k + 1)) |-> e[t]]
      OBVIOUS
    <3> HIDE DEF g, e
    <3>2. [t \in SUBSET (1..(k + 1)) |-> g[t]] = [t \in SUBSET (1..(k + 1)) |-> e[t]]
      BY <2>2
    <3> QED
      BY <3>1, <3>2
  <2> HIDE DEF g
  <2>4. Sums(g, s, k + 1)
    BY <2>3 DEF Sums
  <2> QED
    BY <2>4
<1> HIDE DEF P
<1>3. n \in P
  BY <1>1, <1>2, NatInSet
<1> QED
  BY <1>3 DEF P

\* Lists that begin alike are summed up alike.
LEMMA SumsUnique ==
    ASSUME NEW s, NEW r, NEW n \in Nat, NEW m \in Nat, n <= m,
           \A i \in 1..n : s[i] = r[i],
           NEW h, Sums(h, s, n), NEW g, Sums(g, r, m)
    PROVE  h[1..n] = g[1..n]
<1> DEFINE P == {k \in Nat : k <= n => \A t \in SUBSET (1..k) : h[t] = g[t]}
<1>1. 0 \in P
  <2>1. {} \in SUBSET (1..n) /\ {} \in SUBSET (1..m) /\ 1..0 = {}
    OBVIOUS
  <2>2. h[{}] = 0 /\ g[{}] = 0
    BY <2>1 DEF Sums
  <2> QED
    BY <2>1, <2>2
<1>2. ASSUME NEW k \in Nat, k \in P PROVE k + 1 \in P
  <2> SUFFICES ASSUME k + 1 <= n, NEW t \in SUBSET (1..(k + 1))
               PROVE  h[t] = g[t]
    OBVIOUS
  <2>1. CASE k + 1 \in t
    <3>1. Max(t) = k + 1 /\ t \ {k + 1} \in SUBSET (1..k) /\ t # {}
      BY <2>1, MaxOfFirst
    <3>2. h[t \ {k + 1}] = g[t \ {k + 1}] /\ s[k + 1] = r[k + 1]
      BY <1>2, <3>1
    <3>3. t \in SUBSET (1..n) /\ t \in SUBSET (1..m)
      OBVIOUS
    <3>4. h[t] = h[t \ {k + 1}] + s[k + 1] /\ g[t] = g[t \ {k + 1}] + r[k + 1]
      BY <3>1, <3>3 DEF Sums
    <3> QED
      BY <3>2, <3>4
  <2>2. CASE k + 1 \notin t
    <3>1. t \in SUBSET (1..k)
      BY <2>2
    <3> QED
      BY <1>2, <3>1
  <2> QED
    BY <2>1, <2>2
<1> HIDE DEF P
<1>3. n \in P
  BY <1>1, <1>2, NatInSet
<1> QED
  BY <1>3 DEF P

\* Total by such a function.
LEMMA TotalIs ==
    ASSUME NEW T, NEW s \in Seq(T)
    PROVE  \E h : Sums(h, s, Len(s)) /\ Total(s) = h[1..Len(s)]
<1> DEFINE h == CHOOSE h : Sums(h, s, Len(s))
<1>1. Sums(h, s, Len(s))
  BY SumsExists
<1>2. DOMAIN s = 1..Len(s)
  OBVIOUS
<1>3. Total(s) = h[1..Len(s)]
  BY <1>2 DEF Total, FoldLeft, MapThenFoldSet, Sums
<1> QED
  BY <1>1, <1>3

\* The sum of no numbers.
LEMMA TotalEmpty == Total(<<>>) = 0
<1>1. PICK h : Sums(h, <<>>, Len(<<>>)) /\ Total(<<>>) = h[1..Len(<<>>)]
  <2>1. <<>> \in Seq({})
    OBVIOUS
  <2> QED
    BY <2>1, TotalIs
<1>2. 1..Len(<<>>) = {} /\ {} \in SUBSET (1..Len(<<>>))
  OBVIOUS
<1> QED
  BY <1>1, <1>2 DEF Sums

\* And with one more.
LEMMA TotalAppend ==
    ASSUME NEW T, NEW s \in Seq(T), NEW e \in T
    PROVE  Total(Append(s, e)) = Total(s) + e
<1> DEFINE n == Len(s)
           r == Append(s, e)
<1>1. n \in Nat /\ r \in Seq(T) /\ Len(r) = n + 1 /\ r[n + 1] = e /\ \A i \in 1..n : s[i] = r[i]
  OBVIOUS
<1>2. PICK h : Sums(h, s, n) /\ Total(s) = h[1..n]
  BY TotalIs
<1>3. PICK g : Sums(g, r, n + 1) /\ Total(r) = g[1..(n + 1)]
  BY <1>1, TotalIs
<1> HIDE DEF n, r
<1>4. h[1..n] = g[1..n]
  BY <1>1, <1>2, <1>3, SumsUnique
<1>5. /\ 1..(n + 1) \in SUBSET (1..(n + 1)) /\ n + 1 \in 1..(n + 1)
      /\ 1..(n + 1) # {} /\ (1..(n + 1)) \ {n + 1} = 1..n
  BY <1>1
<1>6. Max(1..(n + 1)) = n + 1
  BY <1>1, <1>5, MaxOfFirst
<1>7. g[1..(n + 1)] = g[1..n] + r[n + 1]
  BY <1>3, <1>5, <1>6 DEF Sums
<1> QED
  BY <1>1, <1>2, <1>3, <1>4, <1>7 DEF r

\* A sum of numbers is a number.
LEMMA TotalNat ==
    ASSUME NEW s \in Seq(Nat)
    PROVE  Total(s) \in Nat
<1> DEFINE P == {q \in Seq(Nat) : Total(q) \in Nat}
<1>1. <<>> \in P
  BY TotalEmpty
<1>2. ASSUME NEW q \in Seq(Nat), NEW e \in Nat, q \in P PROVE Append(q, e) \in P
  <2>1. Total(Append(q, e)) = Total(q) + e /\ Total(q) \in Nat /\ Append(q, e) \in Seq(Nat)
    BY <1>2, TotalAppend
  <2> QED
    BY <2>1
<1> HIDE DEF P
<1>3. s \in P
  BY <1>1, <1>2, ListInSet
<1> QED
  BY <1>3 DEF P

=============================================================================
