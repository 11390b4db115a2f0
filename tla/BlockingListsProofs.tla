-------------------------- MODULE BlockingListsProofs --------------------------
(***************************************************************************)
(* Redis's lists and blocked clients, for every set of clients, keys and   *)
(* blocking commands and any number of elements.                           *)
(***************************************************************************)
EXTENDS BlockingLists, SequenceTheorems, FiniteSetTheorems,
        WellFoundedInduction, TLAPS

-------------------------------------------------------------------------------
(* Induction over the natural numbers, for a set of them. *)
LEMMA FromZeroOn ==
    ASSUME NEW T, 0 \in T, \A n \in Nat : n \in T => n + 1 \in T
    PROVE  \A n \in Nat : n \in T
  <1> DEFINE R == OpToRel(<, Nat)
             U == Nat \ T
  <1>1. IsWellFoundedOn(R, Nat)
    BY NatLessThanWellFounded
  <1> SUFFICES ASSUME U # {} PROVE FALSE
    OBVIOUS
  <1>2. PICK n \in U : \A m \in U : ~(<<m, n>> \in R)
    BY <1>1, WFMin
  <1>3. \A m \in U : ~(m < n)
    BY <1>2 DEF OpToRel
  <1>4. n \in Nat /\ n \notin T
    OBVIOUS
  <1>5. n # 0
    BY <1>4, Zenon
  <1>6. n - 1 \in Nat /\ n - 1 < n /\ (n - 1) + 1 = n
    BY <1>4, <1>5
  <1>7. n - 1 \in T
    BY <1>3, <1>6
  <1>8. (n - 1) + 1 \in T
    BY <1>6, <1>7, Zenon
  <1> QED BY <1>4, <1>6, <1>8, Zenon

(* The loop of Without over the first m clients of q. *)
Keeps(f, q, X, m) ==
    f = [n \in 0..m |-> IF n = 0 THEN <<>>
                        ELSE IF q[n] \in X THEN f[n - 1] ELSE Append(f[n - 1], q[n])]

(* There is such a loop for every m. *)
LEMMA KeepsExists ==
    ASSUME NEW q, NEW X, NEW m \in Nat
    PROVE  \E f : Keeps(f, q, X, m)
  <1> DEFINE P(n) == \E f : Keeps(f, q, X, n)
             T == {n \in Nat : P(n)}
  <1>1. 0 \in T
    <2>1. Keeps([n \in 0..0 |-> <<>>], q, X, 0)
      BY DEF Keeps
    <2> QED BY <2>1
  <1>2. ASSUME NEW n \in Nat, n \in T PROVE n + 1 \in T
    <2>1. PICK f : Keeps(f, q, X, n)
      BY <1>2
    <2> DEFINE last == IF q[n + 1] \in X THEN f[n] ELSE Append(f[n], q[n + 1])
               g == [k \in 0..(n + 1) |-> IF k = n + 1 THEN last ELSE f[k]]
               h == [k \in 0..(n + 1) |->
                        IF k = 0 THEN <<>>
                        ELSE IF q[k] \in X THEN g[k - 1] ELSE Append(g[k - 1], q[k])]
    <2>2. \A k \in 0..n : f[k] = IF k = 0 THEN <<>>
             ELSE IF q[k] \in X THEN f[k - 1] ELSE Append(f[k - 1], q[k])
      BY <2>1 DEF Keeps
    <2>3. ASSUME NEW k \in 0..(n + 1) PROVE g[k] = h[k]
      <3>1. CASE k = n + 1
        <4>1. g[k - 1] = f[n] /\ g[k] = last /\ k # 0
          BY <3>1
        <4> QED BY <3>1, <4>1
      <3>2. CASE k # n + 1 /\ k # 0
        <4>1. k - 1 \in 0..(n + 1) /\ k - 1 # n + 1 /\ k \in 0..n
          BY <3>2
        <4>2. g[k - 1] = f[k - 1] /\ g[k] = f[k]
          BY <3>2, <4>1
        <4> QED BY <2>2, <3>2, <4>1, <4>2
      <3>3. CASE k = 0
        BY <2>2, <3>3
      <3> QED BY <3>1, <3>2, <3>3
    <2>4. g = h
      <3> HIDE DEF last
      <3> QED BY <2>3
    <2>5. Keeps(g, q, X, n + 1)
      BY <2>4 DEF Keeps
    <2> QED BY <2>5
  <1> HIDE DEF T
  <1>3. m \in T
    BY <1>1, <1>2, FromZeroOn
  <1> QED BY <1>3 DEF T

(* The steps of the loop. *)
LEMMA WithoutLoop ==
    ASSUME NEW S, NEW q \in Seq(S), NEW X
    PROVE  \E f : /\ Without(q, X) = f[Len(q)]
                  /\ f[0] = <<>>
                  /\ \A n \in 1..Len(q) :
                        f[n] = IF q[n] \in X THEN f[n - 1] ELSE Append(f[n - 1], q[n])
  <1> DEFINE f == CHOOSE f : Keeps(f, q, X, Len(q))
  <1>1. Len(q) \in Nat
    OBVIOUS
  <1>2. Keeps(f, q, X, Len(q))
    BY <1>1, KeepsExists, Zenon
  <1>3. Without(q, X) = f[Len(q)]
    BY Zenon DEF Without, Keeps
  <1> HIDE DEF f
  <1>4. \A n \in 0..Len(q) : f[n] = IF n = 0 THEN <<>>
           ELSE IF q[n] \in X THEN f[n - 1] ELSE Append(f[n - 1], q[n])
    BY <1>2 DEF Keeps
  <1>5. f[0] = <<>>
    BY <1>1, <1>4
  <1>6. \A n \in 1..Len(q) :
           f[n] = IF q[n] \in X THEN f[n - 1] ELSE Append(f[n - 1], q[n])
    BY <1>1, <1>4
  <1> QED BY <1>3, <1>5, <1>6

(* w keeps those of the first n members of q that are not in X, in order: g *)
(* says where each comes from.                                              *)
Picks(w, g, q, X, n) ==
    /\ g \in [1..Len(w) -> 1..n]
    /\ \A j \in 1..Len(w) : w[j] = q[g[j]] /\ q[g[j]] \notin X
    /\ \A i, j \in 1..Len(w) : i < j => g[i] < g[j]
    /\ \A i \in 1..n : q[i] \notin X => \E j \in 1..Len(w) : g[j] = i

LEMMA WithoutPicks ==
    ASSUME NEW S, NEW q \in Seq(S), NEW X
    PROVE  /\ Without(q, X) \in Seq(S)
           /\ \E g : Picks(Without(q, X), g, q, X, Len(q))
  <1>1. PICK f : /\ Without(q, X) = f[Len(q)]
                 /\ f[0] = <<>>
                 /\ \A n \in 1..Len(q) :
                       f[n] = IF q[n] \in X THEN f[n - 1] ELSE Append(f[n - 1], q[n])
    BY WithoutLoop
  <1> DEFINE P(n) == n <= Len(q) => f[n] \in Seq(S) /\ \E g : Picks(f[n], g, q, X, n)
             T == {n \in Nat : P(n)}
  <1>2. 0 \in T
    <2>1. Picks(<<>>, [j \in 1..0 |-> 0], q, X, 0)
      BY DEF Picks
    <2>2. <<>> \in Seq(S)
      OBVIOUS
    <2>3. P(0)
      BY <1>1, <2>1, <2>2
    <2> QED BY <2>3
  <1>3. ASSUME NEW n \in Nat, n \in T PROVE n + 1 \in T
    <2> SUFFICES ASSUME n + 1 <= Len(q)
                 PROVE  f[n + 1] \in Seq(S) /\ \E g : Picks(f[n + 1], g, q, X, n + 1)
      OBVIOUS
    <2>1. P(n)
      BY <1>3
    <2>2. PICK g : f[n] \in Seq(S) /\ Picks(f[n], g, q, X, n)
      BY <2>1
    <2>3. f[n + 1] = IF q[n + 1] \in X THEN f[n] ELSE Append(f[n], q[n + 1])
      BY <1>1
    <2>4. q[n + 1] \in S
      OBVIOUS
    <2> DEFINE m == n + 1
               l == Len(f[n])
    <2>5. CASE q[m] \in X
      <3>1. Picks(f[n], g, q, X, m)
        BY <2>2, <2>5 DEF Picks
      <3> QED BY <2>2, <2>3, <2>5, <3>1
    <2>6. CASE q[m] \notin X
      <3> DEFINE w == Append(f[n], q[m])
                 h == [j \in 1..(l + 1) |-> IF j = l + 1 THEN m ELSE g[j]]
      <3>1. l \in Nat /\ w \in Seq(S) /\ Len(w) = l + 1 /\ w[l + 1] = q[m]
            /\ \A j \in 1..l : w[j] = f[n][j]
        BY <2>2, <2>4
      <3>2. /\ h[l + 1] = m /\ \A j \in 1..l : h[j] = g[j] /\ g[j] \in 1..n
            /\ \A j \in 1..(l + 1) : h[j] \in 1..m
        <4>1. \A j \in 1..l : g[j] \in 1..n
          BY <2>2 DEF Picks
        <4>2. \A j \in 1..l : h[j] = g[j]
          BY <3>1
        <4>3. h[l + 1] = m
          BY <3>1
        <4>4. l \in Nat /\ m = n + 1
          BY <3>1
        <4> HIDE DEF h, l, m
        <4>5. \A j \in 1..(l + 1) : j = l + 1 \/ j \in 1..l
          BY <4>4
        <4>6. \A j \in 1..l : h[j] \in 1..m
          BY <4>1, <4>2, <4>4
        <4>7. m \in 1..m
          BY <4>4
        <4> QED BY <4>1, <4>2, <4>3, <4>5, <4>6, <4>7
      <3>3. h \in [1..(l + 1) -> 1..m]
        BY <3>2
      <3> HIDE DEF w, h, l
      <3>4. \A j \in 1..(l + 1) : w[j] = q[h[j]] /\ q[h[j]] \notin X
        <4>1. \A j \in 1..l : w[j] = q[h[j]] /\ q[h[j]] \notin X
          BY <2>2, <3>1, <3>2 DEF Picks, l
        <4> QED BY <2>6, <3>1, <3>2, <4>1
      <3>5. \A i, j \in 1..(l + 1) : i < j => h[i] < h[j]
        <4>1. \A i, j \in 1..l : i < j => h[i] < h[j]
          BY <2>2, <3>1, <3>2 DEF Picks, l
        <4>2. ASSUME NEW i \in 1..(l + 1), NEW j \in 1..(l + 1), i < j PROVE h[i] < h[j]
          <5>1. i \in 1..l /\ h[i] < m
            BY <3>1, <3>2, <4>2
          <5>2. CASE j = l + 1
            BY <3>2, <5>1, <5>2
          <5>3. CASE j # l + 1
            <6>1. j \in 1..l
              BY <3>1, <5>3
            <6> QED BY <4>1, <4>2, <5>1, <6>1
          <5> QED BY <5>2, <5>3
        <4> QED BY <4>2
      <3>6. \A i \in 1..m : q[i] \notin X => \E j \in 1..(l + 1) : h[j] = i
        <4> SUFFICES ASSUME NEW i \in 1..m, q[i] \notin X
                     PROVE  \E j \in 1..(l + 1) : h[j] = i
          OBVIOUS
        <4>1. CASE i = m
          BY <3>1, <3>2, <4>1
        <4>2. CASE i # m
          <5>1. PICK j \in 1..l : g[j] = i
            BY <2>2, <4>2 DEF Picks, l
          <5> QED BY <3>1, <3>2, <5>1
        <4> QED BY <4>1, <4>2
      <3>7. Picks(w, h, q, X, m)
        BY <3>1, <3>3, <3>4, <3>5, <3>6 DEF Picks
      <3>8. f[m] = w
        BY <2>3, <2>6 DEF w
      <3> QED BY <3>1, <3>7, <3>8
    <2> QED BY <2>5, <2>6
  <1> HIDE DEF T
  <1>4. Len(q) \in T
    <2>1. Len(q) \in Nat
      OBVIOUS
    <2> QED BY <1>2, <1>3, <2>1, FromZeroOn
  <1>5. P(Len(q))
    BY <1>4 DEF T
  <1> QED BY <1>1, <1>5

(* No client comes twice in queue q. *)
Distinct(q) == \A i, j \in DOMAIN q : q[i] = q[j] => i = j

(* What Without leaves: those of q not in X, once if they came once, and in *)
(* the order they came.                                                     *)
LEMMA WithoutFacts ==
    ASSUME NEW S, NEW q \in Seq(S), NEW X
    PROVE  /\ Without(q, X) \in Seq(S)
           /\ ToSet(Without(q, X)) = ToSet(q) \ X
           /\ Distinct(q) => Distinct(Without(q, X))
           /\ \A c, d : Ahead(Without(q, X), d, c) => Ahead(q, d, c)
  <1> DEFINE w == Without(q, X)
  <1>1. w \in Seq(S) /\ DOMAIN q = 1..Len(q) /\ Len(q) \in Nat
    BY WithoutPicks
  <1>2. PICK g : Picks(w, g, q, X, Len(q))
    BY WithoutPicks
  <1> HIDE DEF w
  <1>3. DOMAIN w = 1..Len(w) /\ Len(w) \in Nat
    BY <1>1
  <1>4. /\ \A j \in DOMAIN w : g[j] \in DOMAIN q /\ w[j] = q[g[j]] /\ q[g[j]] \notin X
        /\ \A i, j \in DOMAIN w : i < j => g[i] < g[j]
        /\ \A i \in DOMAIN q : q[i] \notin X => \E j \in DOMAIN w : g[j] = i
    BY <1>1, <1>2, <1>3 DEF Picks
  <1>5. ToSet(w) = ToSet(q) \ X
    <2>1. ASSUME NEW x \in ToSet(w) PROVE x \in ToSet(q) \ X
      BY <1>4 DEF ToSet
    <2>2. ASSUME NEW x \in ToSet(q), x \notin X PROVE x \in ToSet(w)
      <3>1. PICK i \in DOMAIN q : q[i] = x
        BY DEF ToSet
      <3>2. PICK j \in DOMAIN w : g[j] = i
        BY <1>4, <2>2, <3>1
      <3> QED BY <1>4, <3>1, <3>2 DEF ToSet
    <2> QED BY <2>1, <2>2
  <1>6. ASSUME Distinct(q) PROVE Distinct(w)
    <2> SUFFICES ASSUME NEW i \in DOMAIN w, NEW j \in DOMAIN w, w[i] = w[j], i # j
                 PROVE  FALSE
      BY DEF Distinct
    <2>1. g[i] = g[j]
      BY <1>4, <1>6 DEF Distinct
    <2>2. i < j \/ j < i
      BY <1>3
    <2>3. g[i] \in Int /\ g[j] \in Int
      BY <1>1, <1>4
    <2> QED BY <1>4, <2>1, <2>2, <2>3
  <1>7. ASSUME NEW c, NEW d, Ahead(w, d, c) PROVE Ahead(q, d, c)
    <2>1. PICK i, j \in DOMAIN w : i < j /\ w[i] = d /\ w[j] = c
      BY <1>7 DEF Ahead
    <2>2. g[i] < g[j] /\ g[i] \in DOMAIN q /\ g[j] \in DOMAIN q
      BY <1>4, <2>1
    <2>3. q[g[i]] = d /\ q[g[j]] = c
      BY <1>4, <2>1
    <2> QED BY <2>2, <2>3 DEF Ahead
  <1> QED BY <1>1, <1>5, <1>6, <1>7 DEF w

(* Without the client in front, the rest of the queue is left. *)
LEMMA WithoutHead ==
    ASSUME NEW S, NEW q \in Seq(S), q # <<>>, Distinct(q)
    PROVE  Without(q, {Head(q)}) = Tail(q)
  <1> DEFINE X == {Head(q)}
  <1>1. PICK f : /\ Without(q, X) = f[Len(q)]
                 /\ f[0] = <<>>
                 /\ \A n \in 1..Len(q) :
                       f[n] = IF q[n] \in X THEN f[n - 1] ELSE Append(f[n - 1], q[n])
    BY WithoutLoop
  <1>2. Len(q) \in Nat \ {0} /\ DOMAIN q = 1..Len(q) /\ Head(q) = q[1]
    BY EmptySeq
  <1>3. q[1] \in X /\ \A n \in 2..Len(q) : q[n] \notin X
    BY <1>2 DEF Distinct
  <1> HIDE DEF X
  <1> DEFINE P(n) == n \in 1..Len(q) => f[n] = SubSeq(q, 2, n)
             T == {n \in Nat : P(n)}
  <1>4. 0 \in T
    BY <1>2
  <1>5. ASSUME NEW n \in Nat, n \in T PROVE n + 1 \in T
    <2> DEFINE m == n + 1
    <2> SUFFICES ASSUME m \in 1..Len(q) PROVE f[m] = SubSeq(q, 2, m)
      OBVIOUS
    <2>1. CASE n = 0
      <3>1. f[1] = <<>>
        BY <1>1, <1>2, <1>3
      <3>2. SubSeq(q, 2, 1) = <<>>
        BY <1>2
      <3>3. m = 1
        BY <2>1
      <3> HIDE DEF m
      <3> QED BY <3>1, <3>2, <3>3, Zenon
    <2>2. CASE n # 0
      <3>1. n \in 1..Len(q) /\ m \in 2..Len(q) /\ m - 1 = n
        BY <1>2, <2>2
      <3>2. f[n] = SubSeq(q, 2, n)
        BY <1>5, <3>1
      <3>3. f[m] = Append(f[n], q[m])
        BY <1>1, <1>3, <3>1
      <3>4. SubSeq(q, 2, m) = SubSeq(q, 2, n) \o <<q[m]>>
        <4>1. 2 \in 1..Len(q) /\ m \in 2..Len(q)
          BY <1>2, <3>1
        <4> HIDE DEF m
        <4> QED BY <3>1, <4>1, SubSeqRecursiveSecond
      <3>5. SubSeq(q, 2, n) \in Seq(S) /\ q[m] \in S
        <4>1. \A k \in 2..n : q[k] \in S
          BY <1>2, <3>1
        <4> QED BY <1>2, <3>1, <4>1
      <3>6. Append(SubSeq(q, 2, n), q[m]) = SubSeq(q, 2, n) \o <<q[m]>>
        BY <3>5, AppendIsConcat
      <3> QED BY <3>2, <3>3, <3>4, <3>6
    <2> QED BY <2>1, <2>2
  <1> HIDE DEF T
  <1>6. \A n \in Nat : n \in T
    BY <1>4, <1>5, FromZeroOn
  <1>7. P(Len(q))
    BY <1>2, <1>6 DEF T
  <1>8. Without(q, X) = SubSeq(q, 2, Len(q))
    BY <1>1, <1>2, <1>7
  <1>9. Tail(q) = SubSeq(q, 2, Len(q))
    BY <1>2, TailIsSubSeq
  <1> QED BY <1>8, <1>9 DEF X
-------------------------------------------------------------------------------
(* The ends of lists. *)

LEMMA ToSetMember ==
    ASSUME NEW S, NEW q \in Seq(S)
    PROVE  /\ ToSet(q) \subseteq S
           /\ \A x : x \in ToSet(q) <=> \E i \in 1..Len(q) : q[i] = x
           /\ q = <<>> <=> ToSet(q) = {}
  <1>1. DOMAIN q = 1..Len(q) /\ Len(q) \in Nat /\ \A i \in 1..Len(q) : q[i] \in S
    OBVIOUS
  <1>2. \A x : x \in ToSet(q) <=> \E i \in 1..Len(q) : q[i] = x
    BY <1>1 DEF ToSet
  <1>3. q = <<>> => ToSet(q) = {}
    BY <1>1, <1>2, EmptySeq
  <1>4. q # <<>> => 1 \in 1..Len(q)
    BY <1>1, EmptySeq
  <1> QED BY <1>1, <1>2, <1>3, <1>4

LEMMA DistinctMembers ==
    ASSUME NEW S, NEW q \in Seq(S)
    PROVE  Distinct(q) <=> \A i, j \in 1..Len(q) : q[i] = q[j] => i = j
  <1>1. DOMAIN q = 1..Len(q)
    OBVIOUS
  <1> QED BY <1>1 DEF Distinct

(* Taking an element from an end. *)
LEMMA Popped ==
    ASSUME NEW S, NEW q \in Seq(S), q # <<>>, NEW w
    PROVE  /\ PopAt(q, w).value \in ToSet(q)
           /\ PopAt(q, w).rest \in Seq(S)
           /\ Distinct(q) => /\ Distinct(PopAt(q, w).rest)
                             /\ ToSet(PopAt(q, w).rest) = ToSet(q) \ {PopAt(q, w).value}
  <1>1. Len(q) \in Nat \ {0} /\ \A i \in 1..Len(q) : q[i] \in S
    BY EmptySeq
  <1>2. CASE w = "head"
    <2> DEFINE f == Tail(q)
    <2>1. PopAt(q, w).value = q[1] /\ PopAt(q, w).rest = f
      BY <1>1, <1>2 DEF PopAt
    <2>2. f \in Seq(S) /\ Len(f) = Len(q) - 1
      /\ \A i \in 1..(Len(q) - 1) : f[i] = q[i + 1]
      BY <1>1
    <2> HIDE DEF f
    <2>3. q[1] \in ToSet(q)
      BY <1>1, ToSetMember
    <2>4. ASSUME Distinct(q) PROVE Distinct(f) /\ ToSet(f) = ToSet(q) \ {q[1]}
      <3>1. \A i, j \in 1..Len(q) : q[i] = q[j] => i = j
        BY <2>4, DistinctMembers
      <3>2. Distinct(f)
        <4>1. \A i, j \in 1..(Len(q) - 1) : f[i] = f[j] => i = j
          BY <1>1, <2>2, <3>1
        <4> QED BY <2>2, <4>1, DistinctMembers
      <3>3. ASSUME NEW x \in ToSet(f) PROVE x \in ToSet(q) /\ x # q[1]
        <4>1. PICK i \in 1..(Len(q) - 1) : f[i] = x
          BY <2>2, ToSetMember
        <4>2. q[i + 1] = x /\ i + 1 \in 1..Len(q) /\ i + 1 # 1 /\ 1 \in 1..Len(q)
          BY <1>1, <2>2, <4>1
        <4> QED BY <3>1, <4>2, ToSetMember
      <3>4. ASSUME NEW x \in ToSet(q), x # q[1] PROVE x \in ToSet(f)
        <4>1. PICK i \in 1..Len(q) : q[i] = x
          BY ToSetMember
        <4>2. i - 1 \in 1..(Len(q) - 1) /\ (i - 1) + 1 = i
          BY <1>1, <3>4, <4>1
        <4>3. f[i - 1] = q[(i - 1) + 1]
          BY <2>2, <4>2
        <4>4. f[i - 1] = x
          BY <4>1, <4>2, <4>3, Zenon
        <4> QED BY <2>2, <4>2, <4>4, ToSetMember
      <3> QED BY <3>2, <3>3, <3>4
    <2> QED BY <2>1, <2>2, <2>3, <2>4
  <1>3. CASE w # "head"
    <2> DEFINE f == SubSeq(q, 1, Len(q) - 1)
    <2>1. PopAt(q, w).value = q[Len(q)] /\ PopAt(q, w).rest = f
      BY <1>1, <1>3 DEF PopAt, Last, Front
    <2>2. f \in Seq(S) /\ Len(f) = Len(q) - 1
      /\ \A i \in 1..(Len(q) - 1) : f[i] = q[i]
      BY <1>1
    <2>3. q[Len(q)] \in ToSet(q)
      BY <1>1, ToSetMember
    <2> HIDE DEF f
    <2>4. ASSUME Distinct(q) PROVE Distinct(f) /\ ToSet(f) = ToSet(q) \ {q[Len(q)]}
      <3>1. \A i, j \in 1..Len(q) : q[i] = q[j] => i = j
        BY <2>4, DistinctMembers
      <3>2. Distinct(f)
        <4>1. \A i, j \in 1..(Len(q) - 1) : f[i] = f[j] => i = j
          BY <1>1, <2>2, <3>1
        <4> QED BY <2>2, <4>1, DistinctMembers
      <3>3. ASSUME NEW x \in ToSet(f) PROVE x \in ToSet(q) /\ x # q[Len(q)]
        <4>1. PICK i \in 1..(Len(q) - 1) : f[i] = x
          BY <2>2, ToSetMember
        <4>2. q[i] = x /\ i \in 1..Len(q) /\ i # Len(q) /\ Len(q) \in 1..Len(q)
          BY <1>1, <2>2, <4>1
        <4> QED BY <3>1, <4>2, ToSetMember
      <3>4. ASSUME NEW x \in ToSet(q), x # q[Len(q)] PROVE x \in ToSet(f)
        <4>1. PICK i \in 1..Len(q) : q[i] = x
          BY ToSetMember
        <4>2. i \in 1..(Len(q) - 1)
          BY <1>1, <3>4, <4>1
        <4> QED BY <2>2, <4>1, <4>2, ToSetMember
      <3> QED BY <3>2, <3>3, <3>4
    <2> QED BY <2>1, <2>2, <2>3, <2>4
  <1> QED BY <1>2, <1>3

(* Joining two lists with nothing in common. *)
LEMMA Joined ==
    ASSUME NEW S, NEW p \in Seq(S), NEW q \in Seq(S)
    PROVE  /\ p \o q \in Seq(S)
           /\ ToSet(p \o q) = ToSet(p) \cup ToSet(q)
           /\ Distinct(p) /\ Distinct(q) /\ ToSet(p) \cap ToSet(q) = {} => Distinct(p \o q)
  <1> DEFINE r == p \o q
             m == Len(p)
             n == Len(q)
  <1>1. /\ m \in Nat /\ n \in Nat /\ r \in Seq(S) /\ Len(r) = m + n
        /\ \A i \in 1..m : r[i] = p[i]
        /\ \A i \in 1..n : r[m + i] = q[i]
    OBVIOUS
  <1> HIDE DEF r, m, n
  <1>2. \A i \in 1..(m + n) : i \in 1..m \/ (i - m \in 1..n /\ r[i] = q[i - m])
    <2> SUFFICES ASSUME NEW i \in 1..(m + n), i \notin 1..m
                 PROVE  i - m \in 1..n /\ r[i] = q[i - m]
      OBVIOUS
    <2>1. i - m \in 1..n /\ m + (i - m) = i
      BY <1>1
    <2>2. r[m + (i - m)] = q[i - m]
      BY <1>1, <2>1
    <2> QED BY <2>1, <2>2
  <1>3. ToSet(r) = ToSet(p) \cup ToSet(q)
    <2>1. ASSUME NEW x \in ToSet(r) PROVE x \in ToSet(p) \/ x \in ToSet(q)
      <3>1. PICK i \in 1..(m + n) : r[i] = x
        BY <1>1, ToSetMember
      <3> QED BY <1>1, <1>2, <3>1, ToSetMember DEF m, n
    <2>2. ASSUME NEW x \in ToSet(p) PROVE x \in ToSet(r)
      <3>1. PICK i \in 1..m : p[i] = x
        BY ToSetMember DEF m
      <3>2. i \in 1..Len(r) /\ r[i] = x
        BY <1>1, <3>1
      <3> QED BY <1>1, <3>2, ToSetMember
    <2>3. ASSUME NEW x \in ToSet(q) PROVE x \in ToSet(r)
      <3>1. PICK i \in 1..n : q[i] = x
        BY ToSetMember DEF n
      <3>2. m + i \in 1..Len(r) /\ r[m + i] = x
        BY <1>1, <3>1
      <3> QED BY <1>1, <3>2, ToSetMember
    <2> QED BY <2>1, <2>2, <2>3
  <1>4. ASSUME Distinct(p), Distinct(q), ToSet(p) \cap ToSet(q) = {} PROVE Distinct(r)
    <2>1. \A i, j \in 1..m : p[i] = p[j] => i = j
      BY <1>4, DistinctMembers DEF m
    <2>2. \A i, j \in 1..n : q[i] = q[j] => i = j
      BY <1>4, DistinctMembers DEF n
    <2>3. \A i \in 1..m, j \in 1..n : p[i] # q[j]
      BY <1>4, ToSetMember DEF m, n
    <2> SUFFICES ASSUME NEW i \in 1..(m + n), NEW j \in 1..(m + n), r[i] = r[j]
                 PROVE  i = j
      BY <1>1, DistinctMembers
    <2>4. CASE i \in 1..m /\ j \in 1..m
      BY <1>1, <2>1, <2>4
    <2>5. CASE i \in 1..m /\ j \notin 1..m
      <3>1. j - m \in 1..n /\ r[j] = q[j - m] /\ r[i] = p[i]
        BY <1>1, <1>2, <2>5
      <3> QED BY <2>3, <2>5, <3>1
    <2>6. CASE i \notin 1..m /\ j \in 1..m
      <3>1. i - m \in 1..n /\ r[i] = q[i - m] /\ r[j] = p[j]
        BY <1>1, <1>2, <2>6
      <3> QED BY <2>3, <2>6, <3>1
    <2>7. CASE i \notin 1..m /\ j \notin 1..m
      <3>1. i - m \in 1..n /\ r[i] = q[i - m] /\ j - m \in 1..n /\ r[j] = q[j - m]
        BY <1>2, <2>7
      <3>2. i - m = j - m
        BY <2>2, <3>1
      <3> QED BY <1>1, <3>2
    <2> QED BY <2>4, <2>5, <2>6, <2>7
  <1> QED BY <1>1, <1>3, <1>4 DEF r

LEMMA Single ==
    ASSUME NEW S, NEW e \in S
    PROVE  <<e>> \in Seq(S) /\ ToSet(<<e>>) = {e} /\ Distinct(<<e>>)
  <1> DEFINE q == <<e>>
  <1>1. q \in Seq(S) /\ Len(q) = 1 /\ q[1] = e
    OBVIOUS
  <1> HIDE DEF q
  <1>2. ToSet(q) = {e} /\ Distinct(q)
    BY <1>1, ToSetMember, DistinctMembers
  <1> QED BY <1>1, <1>2 DEF q
-------------------------------------------------------------------------------
(* What the keys hold. *)

(* v is the value of a key when elements 1..n were pushed. *)
Value(v, n) ==
    /\ v \in [type : {"none", "string", "list"}, elems : Seq(1..n)]
    /\ v.type = "list" <=> v.elems # <<>>

(* The lists in db d have no element in common. *)
Apart(d) ==
    /\ \A k \in Keys : Distinct(d[k].elems)
    /\ \A k, l \in Keys : k # l => ToSet(d[k].elems) \cap ToSet(d[l].elems) = {}

AllOf(d) == UNION {ToSet(d[k].elems) : k \in Keys}

Holds(d, n) ==
    /\ d = [k \in Keys |-> d[k]]
    /\ \A k \in Keys : Value(d[k], n)
    /\ Apart(d)

LEMMA Values ==
    ASSUME NEW n \in Nat
    PROVE  /\ Value(Absent, n) /\ Value(String, n)
           /\ Absent.elems = <<>> /\ String.elems = <<>>
           /\ Absent.type = "none" /\ String.type = "string"
           /\ ToSet(<<>>) = {} /\ Distinct(<<>>)
           /\ \A q \in Seq(1..n) : /\ Value(ListOf(q), n) /\ ListOf(q).elems = q
                                   /\ q # <<>> => ListOf(q).type = "list"
                                   /\ q = <<>> => ListOf(q).type = "none"
  <1>1. <<>> \in Seq(1..n)
    OBVIOUS
  <1>2. Value(Absent, n) /\ Absent.elems = <<>> /\ Absent.type = "none"
    BY <1>1 DEF Value, Absent
  <1>3. Value(String, n) /\ String.elems = <<>> /\ String.type = "string"
    BY <1>1 DEF Value, String
  <1>4. ToSet(<<>>) = {} /\ Distinct(<<>>)
    BY <1>1, ToSetMember, DistinctMembers
  <1>5. ASSUME NEW q \in Seq(1..n)
        PROVE  /\ Value(ListOf(q), n) /\ ListOf(q).elems = q
               /\ q # <<>> => ListOf(q).type = "list"
               /\ q = <<>> => ListOf(q).type = "none"
    <2>1. CASE q = <<>>
      <3>1. ListOf(q) = Absent
        BY <2>1 DEF ListOf
      <3> QED BY <1>2, <2>1, <3>1
    <2>2. CASE q # <<>>
      <3> DEFINE v == [type |-> "list", elems |-> q]
      <3>1. ListOf(q) = v
        BY <2>2 DEF ListOf
      <3>2. v \in [type : {"none", "string", "list"}, elems : Seq(1..n)]
            /\ v.elems = q /\ v.type = "list"
        OBVIOUS
      <3> HIDE DEF v
      <3> QED BY <2>2, <3>1, <3>2 DEF Value
    <2> QED BY <2>1, <2>2
  <1> QED BY <1>2, <1>3, <1>4, <1>5

LEMMA ValueParts ==
    ASSUME NEW n, NEW v, Value(v, n)
    PROVE  /\ v.elems \in Seq(1..n) /\ (v.type = "list" <=> v.elems # <<>>)
           /\ v.type \in {"none", "string", "list"}
  BY DEF Value

(* No element of v is in another key than k; what d holds with v at k. *)
Fits(d, k, v, n) ==
    /\ Holds(d, n) /\ Value(v, n) /\ Distinct(v.elems)
    /\ ToSet(v.elems) \cap (AllOf(d) \ ToSet(d[k].elems)) = {}
HoldsWith(e, d, k, v, n) ==
    Holds(e, n) /\ AllOf(e) = (AllOf(d) \ ToSet(d[k].elems)) \cup ToSet(v.elems)

LEMMA KeySet ==
    ASSUME NEW n, NEW d, NEW k \in Keys, NEW v, Fits(d, k, v, n),
           NEW e, e = [d EXCEPT ![k] = v]
    PROVE  HoldsWith(e, d, k, v, n)
  <1>0. /\ Holds(d, n) /\ Value(v, n) /\ Distinct(v.elems)
        /\ ToSet(v.elems) \cap (AllOf(d) \ ToSet(d[k].elems)) = {}
    BY DEF Fits
  <1>1. e = [l \in Keys |-> e[l]] /\ e[k] = v /\ \A l \in Keys : l # k => e[l] = d[l]
    BY <1>0 DEF Holds
  <1>2. ASSUME NEW l \in Keys, l # k
        PROVE  /\ ToSet(d[l].elems) \cap ToSet(d[k].elems) = {}
               /\ ToSet(d[l].elems) \subseteq AllOf(d) \ ToSet(d[k].elems)
    <2>1. ToSet(d[l].elems) \cap ToSet(d[k].elems) = {}
      BY <1>0, <1>2 DEF Holds, Apart
    <2>2. ToSet(d[l].elems) \subseteq AllOf(d)
      BY DEF AllOf
    <2> QED BY <2>1, <2>2
  <1>3. \A l \in Keys : l # k => ToSet(d[l].elems) \cap ToSet(v.elems) = {}
    BY <1>0, <1>2
  <1>4. Apart(e)
    <2>1. \A l \in Keys : Distinct(e[l].elems)
      BY <1>0, <1>1 DEF Holds, Apart
    <2>2. ASSUME NEW l \in Keys, NEW m \in Keys, l # m
          PROVE  ToSet(e[l].elems) \cap ToSet(e[m].elems) = {}
      <3>1. CASE l = k
        BY <1>1, <1>3, <2>2, <3>1
      <3>2. CASE m = k
        BY <1>1, <1>3, <2>2, <3>2
      <3>3. CASE l # k /\ m # k
        BY <1>0, <1>1, <2>2, <3>3 DEF Holds, Apart
      <3> QED BY <3>1, <3>2, <3>3
    <2> QED BY <2>1, <2>2 DEF Apart
  <1>5. Holds(e, n)
    <2>1. \A l \in Keys : Value(e[l], n)
      BY <1>0, <1>1 DEF Holds
    <2> QED BY <1>1, <1>4, <2>1 DEF Holds
  <1>6. AllOf(e) = (AllOf(d) \ ToSet(d[k].elems)) \cup ToSet(v.elems)
    <2>1. ASSUME NEW x \in AllOf(e)
          PROVE  x \in (AllOf(d) \ ToSet(d[k].elems)) \cup ToSet(v.elems)
      <3>1. PICK l \in Keys : x \in ToSet(e[l].elems)
        BY DEF AllOf
      <3> QED BY <1>1, <1>2, <3>1
    <2>2. ASSUME NEW x \in ToSet(v.elems) PROVE x \in AllOf(e)
      BY <1>1 DEF AllOf
    <2>3. ASSUME NEW x \in AllOf(d), x \notin ToSet(d[k].elems) PROVE x \in AllOf(e)
      <3>1. PICK l \in Keys : x \in ToSet(d[l].elems)
        BY DEF AllOf
      <3>2. x \in ToSet(e[l].elems)
        BY <1>1, <2>3, <3>1
      <3> QED BY <3>2 DEF AllOf
    <2> QED BY <2>1, <2>2, <2>3
  <1> QED BY <1>5, <1>6 DEF HoldsWith

(* More elements than the lists hold were pushed. *)
LEMMA HoldsMore ==
    ASSUME NEW n \in Nat, NEW m \in Nat, n <= m, NEW d, Holds(d, n)
    PROVE  Holds(d, m)
  <1>1. 1..n \subseteq 1..m
    OBVIOUS
  <1>2. Seq(1..n) \subseteq Seq(1..m)
    BY <1>1
  <1>3. \A k \in Keys : Value(d[k], m)
    <2> SUFFICES ASSUME NEW k \in Keys PROVE Value(d[k], m)
      OBVIOUS
    <2>1. Value(d[k], n)
      BY DEF Holds
    <2> QED BY <1>2, <2>1 DEF Value
  <1> QED BY <1>3 DEF Holds
-------------------------------------------------------------------------------
(* What a step does to the lists. *)

Store ==
    /\ Holds(db, pushed)
    /\ pushed \in 0..MaxElements
    /\ taken \cup dropped \subseteq 1..pushed
    /\ AllOf(db) \cap (taken \cup dropped) = {}

Took(k, w) ==
    /\ db[k].type = "list"
    /\ db' = [db EXCEPT ![k] = ListOf(PopAt(db[k].elems, w).rest)]
    /\ taken' = taken \cup {PopAt(db[k].elems, w).value}
    /\ UNCHANGED <<pushed, dropped>>

Moved(k, l, w) ==
    /\ db[k].type = "list"
    /\ LET pop == PopAt(db[k].elems, w)
           elems == IF k = l THEN pop.rest ELSE db[l].elems
       IN  db' = [db EXCEPT ![k] = ListOf(pop.rest),
                            ![l] = ListOf(PushAt(elems, pop.value, "head"))]
    /\ UNCHANGED <<pushed, taken, dropped>>

Joins(k, n, w) ==
    /\ pushed + n <= MaxElements
    /\ db' = [db EXCEPT ![k] = ListOf(
                IF w = "head" THEN [i \in 1..n |-> pushed + n + 1 - i] \o db[k].elems
                              ELSE db[k].elems \o [i \in 1..n |-> pushed + i])]
    /\ pushed' = pushed + n
    /\ UNCHANGED <<taken, dropped>>

Becomes(k, v) ==
    /\ v = Absent \/ v = String
    /\ db' = [db EXCEPT ![k] = v]
    /\ dropped' = dropped \cup ToSet(db[k].elems)
    /\ UNCHANGED <<pushed, taken>>

Renames(k, l) ==
    /\ k # l
    /\ db' = [db EXCEPT ![l] = db[k], ![k] = Absent]
    /\ dropped' = dropped \cup ToSet(db[l].elems)
    /\ UNCHANGED <<pushed, taken>>

StoreStep ==
    \/ UNCHANGED dbvars
    \/ \E k \in Keys : \E w : Took(k, w)
    \/ \E k, l \in Keys : \E w : Moved(k, l, w)
    \/ \E k \in Keys, n \in 1..MaxPush : \E w : Joins(k, n, w)
    \/ \E k \in Keys : \E v : Becomes(k, v)
    \/ \E k, l \in Keys : Renames(k, l)

HandoffStep == Queue!Next \/ UNCHANGED <<AllOf(db), taken, dropped>>

LEMMA StoredAll == /\ Queue!Next <=> \/ \E E \in SUBSET (1..MaxElements) :
                                           Queue!Put(E) \/ Queue!Drop(E)
                                     \/ \E e \in 1..MaxElements : Queue!Take(e)
                   /\ \A E : Queue!Put(E) <=>
                         /\ E \cap (AllOf(db) \cup taken \cup dropped) = {}
                         /\ AllOf(db)' = AllOf(db) \cup E
                         /\ UNCHANGED <<taken, dropped>>
                   /\ \A E : Queue!Drop(E) <=>
                         /\ E \subseteq AllOf(db)
                         /\ AllOf(db)' = AllOf(db) \ E
                         /\ dropped' = dropped \cup E
                         /\ UNCHANGED taken
                   /\ \A e : Queue!Take(e) <=>
                         /\ e \in AllOf(db)
                         /\ AllOf(db)' = AllOf(db) \ {e}
                         /\ taken' = taken \cup {e}
                         /\ UNCHANGED dropped
  BY DEF Queue!Next, Queue!Put, Queue!Drop, Queue!Take, Queue!Known, AllOf

LEMMA KeyFacts ==
    ASSUME Store, NEW k \in Keys
    PROVE  /\ db[k].elems \in Seq(1..pushed) /\ Distinct(db[k].elems)
           /\ (db[k].type = "list" <=> db[k].elems # <<>>)
           /\ ToSet(db[k].elems) \subseteq AllOf(db)
           /\ pushed \in Nat /\ AllOf(db) \subseteq 1..pushed /\ AllOf(db) \subseteq 1..MaxElements
           /\ db[k].type \in {"none", "string", "list"} /\ Value(db[k], pushed)
           /\ \A l \in Keys : k # l => ToSet(db[k].elems) \cap ToSet(db[l].elems) = {}
  <1>1. \A l \in Keys : db[l].elems \in Seq(1..pushed)
    BY DEF Store, Holds, Value
  <1>2. AllOf(db) \subseteq 1..pushed
    <2>1. \A l \in Keys : ToSet(db[l].elems) \subseteq 1..pushed
      BY <1>1, ToSetMember
    <2> QED BY <2>1 DEF AllOf
  <1>3. pushed \in Nat /\ pushed <= MaxElements /\ MaxElements \in Nat
    BY BlockingListsAssumption DEF Store
  <1>4. 1..pushed \subseteq 1..MaxElements
    BY <1>3
  <1>5. Value(db[k], pushed)
    BY DEF Store, Holds
  <1>6. ToSet(db[k].elems) \subseteq AllOf(db)
    BY DEF AllOf
  <1> QED BY <1>1, <1>2, <1>3, <1>4, <1>5, <1>6, ValueParts DEF Store, Holds, Apart

LEMMA TookKeeps ==
    ASSUME Store, NEW k \in Keys, NEW w, Took(k, w)
    PROVE  Store' /\ HandoffStep
  <1> DEFINE q == db[k].elems
             e == PopAt(q, w).value
             r == PopAt(q, w).rest
  <1>1. q \in Seq(1..pushed) /\ q # <<>> /\ Distinct(q)
    BY KeyFacts DEF Took
  <1>2. e \in ToSet(q) /\ r \in Seq(1..pushed) /\ Distinct(r) /\ ToSet(r) = ToSet(q) \ {e}
    BY <1>1, Popped
  <1>3. Value(ListOf(r), pushed) /\ ListOf(r).elems = r /\ pushed \in Nat
    BY <1>2, Values, KeyFacts
  <1>4. db' = [db EXCEPT ![k] = ListOf(r)] /\ taken' = taken \cup {e}
        /\ pushed' = pushed /\ dropped' = dropped
    BY DEF Took
  <1>5. ToSet(q) \subseteq AllOf(db) /\ AllOf(db) \subseteq 1..pushed
        /\ AllOf(db) \subseteq 1..MaxElements
    BY KeyFacts
  <1> HIDE DEF q, e, r
  <1>6. Holds(db', pushed) /\ AllOf(db') = (AllOf(db) \ ToSet(q)) \cup ToSet(r)
    <2> DEFINE v == ListOf(r)
    <2>1. Value(v, pushed) /\ v.elems = r /\ db' = [db EXCEPT ![k] = v]
      BY <1>3, <1>4
    <2> HIDE DEF v
    <2>2. Fits(db, k, v, pushed)
      BY <1>2, <2>1 DEF Store, q, Fits
    <2>3. HoldsWith(db', db, k, v, pushed)
      BY <2>1, <2>2, KeySet
    <2> QED BY <2>1, <2>3 DEF q, HoldsWith
  <1>7. AllOf(db)' = AllOf(db) \ {e}
    BY <1>2, <1>5, <1>6 DEF AllOf
  <1>8. Store'
    BY <1>2, <1>4, <1>5, <1>6, <1>7 DEF Store
  <1>9. Queue!Take(e) /\ e \in 1..MaxElements
    BY <1>2, <1>4, <1>5, <1>7, StoredAll
  <1> QED BY <1>8, <1>9, StoredAll DEF HandoffStep

LEMMA MovedKeeps ==
    ASSUME Store, NEW k \in Keys, NEW l \in Keys, NEW w, Moved(k, l, w)
    PROVE  Store' /\ HandoffStep
  <1> DEFINE q == db[k].elems
             e == PopAt(q, w).value
             r == PopAt(q, w).rest
             d == [db EXCEPT ![k] = ListOf(r)]
             p == PushAt(d[l].elems, e, "head")
  <1>1. q \in Seq(1..pushed) /\ q # <<>> /\ Distinct(q)
    BY KeyFacts DEF Moved
  <1>2. e \in ToSet(q) /\ r \in Seq(1..pushed) /\ Distinct(r) /\ ToSet(r) = ToSet(q) \ {e}
    BY <1>1, Popped
  <1>3. Value(ListOf(r), pushed) /\ ListOf(r).elems = r /\ pushed \in Nat
    BY <1>2, Values, KeyFacts
  <1>4. pushed' = pushed /\ dropped' = dropped /\ taken' = taken
    BY DEF Moved
  <1>5. ToSet(q) \subseteq AllOf(db) /\ AllOf(db) \subseteq 1..pushed
        /\ AllOf(db) \subseteq 1..MaxElements
    BY KeyFacts
  <1>6. d[l].elems = IF k = l THEN r ELSE db[l].elems
    BY <1>3 DEF Store, Holds
  <1>7. db' = [d EXCEPT ![l] = ListOf(p)]
    BY <1>6 DEF Moved
  <1>8. p = <<e>> \o d[l].elems
    BY DEF PushAt
  <1> HIDE DEF q, e, r, p
  <1>9. Holds(d, pushed) /\ AllOf(d) = AllOf(db) \ {e}
    <2>1. ToSet(r) \cap (AllOf(db) \ ToSet(q)) = {}
      BY <1>2
    <2> DEFINE v == ListOf(r)
    <2>2. Value(v, pushed) /\ v.elems = r /\ d = [db EXCEPT ![k] = v]
      BY <1>3
    <2> HIDE DEF v, d
    <2>3. Fits(db, k, v, pushed)
      BY <1>2, <2>1, <2>2 DEF Store, q, Fits
    <2>4. HoldsWith(d, db, k, v, pushed)
      BY <2>2, <2>3, KeySet
    <2> QED BY <1>2, <1>5, <2>2, <2>4 DEF q, HoldsWith
  <1> HIDE DEF d
  <1>10. d[l].elems \in Seq(1..pushed) /\ Distinct(d[l].elems)
         /\ ToSet(d[l].elems) \subseteq AllOf(d)
    BY <1>9, ValueParts DEF Holds, Apart, AllOf
  <1>11. p \in Seq(1..pushed) /\ Distinct(p) /\ ToSet(p) = ToSet(d[l].elems) \cup {e}
    <2>1. e \in 1..pushed
      BY <1>2, <1>5
    <2>2. <<e>> \in Seq(1..pushed) /\ ToSet(<<e>>) = {e} /\ Distinct(<<e>>)
      BY <2>1, Single
    <2>3. ToSet(<<e>>) \cap ToSet(d[l].elems) = {}
      BY <1>9, <1>10, <2>2
    <2> DEFINE one == <<e>>
               old == d[l].elems
    <2>4. p = one \o old /\ old \in Seq(1..pushed) /\ Distinct(old)
          /\ one \in Seq(1..pushed) /\ Distinct(one) /\ ToSet(one) = {e}
          /\ ToSet(one) \cap ToSet(old) = {}
      BY <1>8, <1>10, <2>2, <2>3
    <2> HIDE DEF one, old
    <2>5. p \in Seq(1..pushed) /\ Distinct(p) /\ ToSet(p) = ToSet(one) \cup ToSet(old)
      BY <2>4, Joined
    <2> QED BY <2>4, <2>5 DEF old
  <1>12. Value(ListOf(p), pushed) /\ ListOf(p).elems = p
    BY <1>3, <1>11, Values
  <1>13. Holds(db', pushed) /\ AllOf(db') = (AllOf(d) \ ToSet(d[l].elems)) \cup ToSet(p)
    <2> DEFINE v == ListOf(p)
    <2>1. Value(v, pushed) /\ v.elems = p /\ db' = [d EXCEPT ![l] = v]
      BY <1>7, <1>12
    <2> HIDE DEF v
    <2>2. Fits(d, l, v, pushed)
      BY <1>9, <1>11, <2>1 DEF Fits
    <2>3. HoldsWith(db', d, l, v, pushed)
      BY <2>1, <2>2, KeySet
    <2> QED BY <2>1, <2>3 DEF HoldsWith
  <1>14. AllOf(db)' = AllOf(db)
    BY <1>2, <1>5, <1>9, <1>10, <1>11, <1>13 DEF AllOf
  <1>15. Store'
    BY <1>4, <1>13, <1>14 DEF Store
  <1> QED BY <1>4, <1>14, <1>15 DEF HandoffStep

(* The elements of a push are new and distinct. *)
LEMMA New ==
    ASSUME NEW p \in Nat, NEW n \in Nat, NEW f,
           \/ f = [i \in 1..n |-> p + n + 1 - i]
           \/ f = [i \in 1..n |-> p + i]
    PROVE  f \in Seq(1..(p + n)) /\ ToSet(f) = (p + 1)..(p + n) /\ Distinct(f)
  <1>1. CASE f = [i \in 1..n |-> p + n + 1 - i]
    <2>1. \A i \in 1..n : f[i] = p + n + 1 - i
      BY <1>1
    <2>2. f \in [1..n -> 1..(p + n)]
      BY <1>1
    <2>3. f \in Seq(1..(p + n)) /\ Len(f) = n
      BY <2>2
    <2>4. ASSUME NEW x \in (p + 1)..(p + n) PROVE \E i \in 1..n : f[i] = x
      <3>1. p + n + 1 - x \in 1..n /\ p + n + 1 - (p + n + 1 - x) = x
        OBVIOUS
      <3>2. f[p + n + 1 - x] = p + n + 1 - (p + n + 1 - x)
        BY <2>1, <3>1
      <3> QED BY <3>1, <3>2
    <2>5. \A i \in 1..n : f[i] \in (p + 1)..(p + n)
      BY <2>1
    <2>6. \A i, j \in 1..n : f[i] = f[j] => i = j
      BY <2>1
    <2>7. ToSet(f) = (p + 1)..(p + n)
      <3>1. \A x : x \in ToSet(f) <=> \E i \in 1..n : f[i] = x
        BY <2>3, ToSetMember
      <3> DEFINE E == (p + 1)..(p + n)
      <3>2. \A x \in E : \E i \in 1..n : f[i] = x
        BY <2>4
      <3>3. \A i \in 1..n : f[i] \in E
        BY <2>5
      <3> HIDE DEF E
      <3>4. ToSet(f) = E
        BY <3>1, <3>2, <3>3
      <3> QED BY <3>4 DEF E
    <2>8. Distinct(f)
      BY <2>3, <2>6, DistinctMembers
    <2> QED BY <2>3, <2>7, <2>8
  <1>2. CASE f = [i \in 1..n |-> p + i]
    <2>1. \A i \in 1..n : f[i] = p + i
      BY <1>2
    <2>2. f \in [1..n -> 1..(p + n)]
      BY <1>2
    <2>3. f \in Seq(1..(p + n)) /\ Len(f) = n
      BY <2>2
    <2>4. ASSUME NEW x \in (p + 1)..(p + n) PROVE \E i \in 1..n : f[i] = x
      <3>1. x - p \in 1..n /\ p + (x - p) = x
        OBVIOUS
      <3>2. f[x - p] = p + (x - p)
        BY <2>1, <3>1
      <3> QED BY <3>1, <3>2
    <2>5. \A i \in 1..n : f[i] \in (p + 1)..(p + n)
      BY <2>1
    <2>6. \A i, j \in 1..n : f[i] = f[j] => i = j
      BY <2>1
    <2>7. ToSet(f) = (p + 1)..(p + n)
      <3>1. \A x : x \in ToSet(f) <=> \E i \in 1..n : f[i] = x
        BY <2>3, ToSetMember
      <3> DEFINE E == (p + 1)..(p + n)
      <3>2. \A x \in E : \E i \in 1..n : f[i] = x
        BY <2>4
      <3>3. \A i \in 1..n : f[i] \in E
        BY <2>5
      <3> HIDE DEF E
      <3>4. ToSet(f) = E
        BY <3>1, <3>2, <3>3
      <3> QED BY <3>4 DEF E
    <2>8. Distinct(f)
      BY <2>3, <2>6, DistinctMembers
    <2> QED BY <2>3, <2>7, <2>8
  <1> QED BY <1>1, <1>2

LEMMA JoinsKeeps ==
    ASSUME Store, NEW k \in Keys, NEW n \in 1..MaxPush, NEW w, Joins(k, n, w)
    PROVE  Store' /\ HandoffStep
  <1> DEFINE new == IF w = "head" THEN [i \in 1..n |-> pushed + n + 1 - i]
                                  ELSE [i \in 1..n |-> pushed + i]
             q == IF w = "head" THEN new \o db[k].elems ELSE db[k].elems \o new
             m == pushed + n
             E == (pushed + 1)..m
             v == ListOf(q)
  <1>1. pushed \in Nat /\ n \in Nat /\ m \in Nat /\ pushed <= m /\ m <= MaxElements
    BY KeyFacts, BlockingListsAssumption DEF Joins
  <1>2. new \in Seq(1..m) /\ ToSet(new) = E /\ Distinct(new)
    <2>1. \/ new = [i \in 1..n |-> pushed + n + 1 - i]
          \/ new = [i \in 1..n |-> pushed + i]
      OBVIOUS
    <2> HIDE DEF new
    <2> QED BY <1>1, <2>1, New
  <1>3. db' = [db EXCEPT ![k] = v] /\ pushed' = m /\ taken' = taken /\ dropped' = dropped
    BY DEF Joins
  <1>4. Holds(db, m)
    BY <1>1, HoldsMore DEF Store
  <1>5. db[k].elems \in Seq(1..m) /\ Distinct(db[k].elems)
        /\ ToSet(db[k].elems) \subseteq AllOf(db) /\ AllOf(db) \subseteq 1..pushed
        /\ AllOf(db) \subseteq 1..MaxElements
    BY <1>4, KeyFacts, ValueParts DEF Holds
  <1> HIDE DEF new
  <1>6. E \cap 1..pushed = {} /\ E \subseteq 1..m /\ 1..pushed \subseteq 1..m
        /\ 1..m \subseteq 1..MaxElements
    BY <1>1, BlockingListsAssumption
  <1> HIDE DEF E, m
  <1>7. q \in Seq(1..m) /\ Distinct(q) /\ ToSet(q) = ToSet(db[k].elems) \cup E
    <2> DEFINE old == db[k].elems
    <2>1. old \in Seq(1..m) /\ Distinct(old) /\ ToSet(old) \cap E = {}
      BY <1>5, <1>6
    <2> HIDE DEF old
    <2>2. CASE w = "head"
      <3>1. q = new \o old
        BY <2>2 DEF old
      <3> HIDE DEF q
      <3> QED BY <1>2, <2>1, <3>1, Joined DEF old
    <2>3. CASE w # "head"
      <3>1. q = old \o new
        BY <2>3 DEF old
      <3> HIDE DEF q
      <3> QED BY <1>2, <2>1, <3>1, Joined DEF old
    <2> QED BY <2>2, <2>3
  <1> HIDE DEF q
  <1>8. Value(v, m) /\ v.elems = q
    BY <1>1, <1>7, Values
  <1> HIDE DEF v
  <1>9. Fits(db, k, v, m)
    BY <1>4, <1>5, <1>6, <1>7, <1>8 DEF Fits
  <1>10. HoldsWith(db', db, k, v, m)
    BY <1>3, <1>9, KeySet
  <1>11. Holds(db', m) /\ AllOf(db)' = AllOf(db) \cup E
    BY <1>5, <1>7, <1>8, <1>10 DEF HoldsWith, AllOf
  <1>12. Store'
    <2>1. AllOf(db) \cap (taken \cup dropped) = {} /\ taken \cup dropped \subseteq 1..pushed
      BY DEF Store
    <2>2. m \in 0..MaxElements
      BY <1>1, BlockingListsAssumption
    <2>3. AllOf(db)' \cap (taken' \cup dropped') = {} /\ taken' \cup dropped' \subseteq 1..m
      BY <1>3, <1>6, <1>11, <2>1
    <2> QED BY <1>3, <1>11, <2>2, <2>3 DEF Store
  <1>13. Queue!Put(E) /\ E \in SUBSET (1..MaxElements)
    <2>1. E \cap (AllOf(db) \cup taken \cup dropped) = {}
      BY <1>5, <1>6 DEF Store
    <2>2. Queue!Put(E)
      BY <1>3, <1>11, <2>1, StoredAll
    <2> QED BY <1>6, <2>2
  <1> QED BY <1>12, <1>13, StoredAll DEF HandoffStep

LEMMA BecomesKeeps ==
    ASSUME Store, NEW k \in Keys, NEW v, Becomes(k, v)
    PROVE  Store' /\ HandoffStep
  <1> DEFINE E == ToSet(db[k].elems)
  <1>1. Value(v, pushed) /\ v.elems = <<>> /\ ToSet(v.elems) = {} /\ Distinct(v.elems)
    <2>1. pushed \in Nat
      BY KeyFacts
    <2>2. CASE v = Absent
      BY <2>1, <2>2, Values
    <2>3. CASE v = String
      BY <2>1, <2>3, Values
    <2> QED BY <2>2, <2>3 DEF Becomes
  <1>2. db' = [db EXCEPT ![k] = v] /\ pushed' = pushed /\ taken' = taken
        /\ dropped' = dropped \cup E
    BY DEF Becomes
  <1>3. E \subseteq AllOf(db) /\ AllOf(db) \subseteq 1..pushed /\ AllOf(db) \subseteq 1..MaxElements
    BY KeyFacts
  <1>4. Fits(db, k, v, pushed)
    BY <1>1 DEF Fits, Store
  <1>5. HoldsWith(db', db, k, v, pushed)
    BY <1>2, <1>4, KeySet
  <1>6. Holds(db', pushed) /\ AllOf(db)' = AllOf(db) \ E
    BY <1>1, <1>5 DEF HoldsWith, AllOf
  <1> HIDE DEF E
  <1>7. Store'
    <2>1. AllOf(db) \cap (taken \cup dropped) = {} /\ taken \cup dropped \subseteq 1..pushed
      BY DEF Store
    <2>2. AllOf(db)' \cap (taken' \cup dropped') = {} /\ taken' \cup dropped' \subseteq 1..pushed
      BY <1>2, <1>3, <1>6, <2>1
    <2> QED BY <1>2, <1>6, <2>2 DEF Store
  <1>8. Queue!Drop(E) /\ E \in SUBSET (1..MaxElements)
    BY <1>2, <1>3, <1>6, StoredAll
  <1> QED BY <1>7, <1>8, StoredAll DEF HandoffStep

LEMMA RenamesKeeps ==
    ASSUME Store, NEW k \in Keys, NEW l \in Keys, Renames(k, l)
    PROVE  Store' /\ HandoffStep
  <1> DEFINE E == ToSet(db[l].elems)
             F == ToSet(db[k].elems)
             v == db[k]
             d == [db EXCEPT ![k] = Absent]
  <1>1. k # l /\ pushed' = pushed /\ taken' = taken /\ dropped' = dropped \cup E
    BY DEF Renames
  <1>2. db' = [d EXCEPT ![l] = v]
    BY <1>1 DEF Renames
  <1>3. /\ E \subseteq AllOf(db) /\ AllOf(db) \subseteq 1..pushed
        /\ AllOf(db) \subseteq 1..MaxElements
        /\ F \subseteq AllOf(db) /\ E \cap F = {}
    BY <1>1, KeyFacts
  <1>4. Value(Absent, pushed) /\ ToSet(Absent.elems) = {} /\ Distinct(Absent.elems)
    <2>1. pushed \in Nat
      BY KeyFacts
    <2> QED BY <2>1, Values
  <1>5. d = [db EXCEPT ![k] = Absent] /\ d[l] = db[l]
    BY <1>1 DEF Store, Holds
  <1> HIDE DEF d
  <1>6. Holds(d, pushed) /\ AllOf(d) = AllOf(db) \ F
    <2>1. Fits(db, k, Absent, pushed)
      BY <1>4 DEF Fits, Store
    <2>2. HoldsWith(d, db, k, Absent, pushed)
      BY <1>5, <2>1, KeySet
    <2> QED BY <1>4, <2>2 DEF HoldsWith
  <1>7. Holds(db', pushed) /\ AllOf(db)' = AllOf(db) \ E
    <2>1. Value(v, pushed) /\ Distinct(v.elems) /\ ToSet(v.elems) = F
      BY KeyFacts
    <2> HIDE DEF v, F, E
    <2>2. Fits(d, l, v, pushed)
      BY <1>6, <2>1 DEF Fits
    <2>3. HoldsWith(db', d, l, v, pushed)
      BY <1>2, <2>2, KeySet
    <2>4. ToSet(d[l].elems) = E
      BY <1>5 DEF E
    <2>5. Holds(db', pushed) /\ AllOf(db') = (AllOf(d) \ E) \cup F
      BY <2>1, <2>3, <2>4 DEF HoldsWith
    <2>6. AllOf(db') = AllOf(db) \ E
      BY <1>3, <1>6, <2>5
    <2> QED BY <2>5, <2>6 DEF AllOf
  <1> HIDE DEF E, F, v
  <1>8. Store'
    <2>1. AllOf(db) \cap (taken \cup dropped) = {} /\ taken \cup dropped \subseteq 1..pushed
      BY DEF Store
    <2>2. AllOf(db)' \cap (taken' \cup dropped') = {} /\ taken' \cup dropped' \subseteq 1..pushed
      BY <1>1, <1>3, <1>7, <2>1
    <2> QED BY <1>1, <1>7, <2>2 DEF Store
  <1>9. Queue!Drop(E) /\ E \in SUBSET (1..MaxElements)
    BY <1>1, <1>3, <1>7, StoredAll
  <1> QED BY <1>8, <1>9, StoredAll DEF HandoffStep

LEMMA StoreKept ==
    ASSUME Store, StoreStep
    PROVE  Store' /\ HandoffStep
  <1>1. CASE UNCHANGED dbvars
    BY <1>1 DEF dbvars, Store, HandoffStep, AllOf
  <1>2. CASE \E k \in Keys : \E w : Took(k, w)
    BY <1>2, TookKeeps
  <1>3. CASE \E k, l \in Keys : \E w : Moved(k, l, w)
    BY <1>3, MovedKeeps
  <1>4. CASE \E k \in Keys, n \in 1..MaxPush : \E w : Joins(k, n, w)
    BY <1>4, JoinsKeeps
  <1>5. CASE \E k \in Keys : \E v : Becomes(k, v)
    BY <1>5, BecomesKeeps
  <1>6. CASE \E k, l \in Keys : Renames(k, l)
    BY <1>6, RenamesKeeps
  <1> QED BY <1>1, <1>2, <1>3, <1>4, <1>5, <1>6 DEF StoreStep
-------------------------------------------------------------------------------
(* The queues of blocked clients. *)

Queues ==
    /\ blocking_keys \in [Keys -> Seq(Clients)]
    /\ client \in [Clients -> [cmd : Commands \cup {None}, keys : SUBSET Keys, left : Int]]
    /\ \A c \in Clients : client[c].cmd = None => client[c] = NotBlocked
    /\ \A c \in Clients : client[c].cmd # None => client[c].keys = ToSet(client[c].cmd.keys)
    /\ \A k \in Keys : Distinct(blocking_keys[k])
    /\ \A k \in Keys, c \in Clients : c \in ToSet(blocking_keys[k]) <=> k \in client[c].keys

(* A client that is not blocked is in no queue. *)
LEMMA Unqueued ==
    ASSUME Queues, NEW c \in Clients, NEW k \in Keys, k \in client[c].keys
    PROVE  client[c].cmd # None
  BY DEF Queues, NotBlocked

LEMMA CommandParts ==
    ASSUME NEW cmd \in Commands
    PROVE  /\ cmd \in Command /\ cmd # None /\ cmd.op \in {"pop", "move"}
           /\ cmd.keys \in Seq(Keys) /\ cmd.keys # <<>>
           /\ cmd.keys[1] \in Keys
           /\ ToSet(cmd.keys) \subseteq Keys /\ cmd.timeout \in Nat
           /\ cmd.op = "move" => cmd.dst \in Keys /\ ToSet(cmd.keys) = {cmd.keys[1]}
  <1>1. cmd \in Command /\ cmd # None /\ cmd.keys # <<>>
    BY BlockingListsAssumption
  <1>2. cmd.op \in {"pop", "move"} /\ cmd.keys \in Seq(Keys) /\ cmd.timeout \in Nat
    BY <1>1 DEF Command
  <1>3. cmd.op = "move" => Len(cmd.keys) = 1 /\ cmd.dst \in Keys
    BY BlockingListsAssumption
  <1> DEFINE q == cmd.keys
  <1>4. q \in Seq(Keys) /\ q # <<>> /\ (cmd.op = "move" => Len(q) = 1)
    BY <1>1, <1>2, <1>3
  <1> HIDE DEF q
  <1>5. q[1] \in Keys /\ ToSet(q) \subseteq Keys
    BY <1>4, EmptySeq, ToSetMember
  <1>6. cmd.op = "move" => ToSet(q) = {q[1]}
    BY <1>4, ToSetMember
  <1> QED BY <1>1, <1>2, <1>3, <1>5, <1>6 DEF q

(* The queue with one more client. *)
LEMMA Appended ==
    ASSUME NEW S, NEW q \in Seq(S), NEW c \in S
    PROVE  /\ Append(q, c) \in Seq(S)
           /\ ToSet(Append(q, c)) = ToSet(q) \cup {c}
           /\ Distinct(q) /\ c \notin ToSet(q) => Distinct(Append(q, c))
           /\ \A d, e : Ahead(Append(q, c), d, e) /\ e # c => Ahead(q, d, e)
  <1> DEFINE p == Append(q, c)
             one == <<c>>
  <1>1. p = q \o one
    BY AppendIsConcat
  <1>2. p \in Seq(S) /\ Len(p) = Len(q) + 1 /\ Len(q) \in Nat /\ p[Len(q) + 1] = c
        /\ \A i \in 1..Len(q) : p[i] = q[i]
    OBVIOUS
  <1>3. one \in Seq(S) /\ ToSet(one) = {c} /\ Distinct(one)
    BY Single
  <1> HIDE DEF p, one
  <1>4. ToSet(p) = ToSet(q) \cup {c}
    BY <1>1, <1>3, Joined
  <1>5. ASSUME Distinct(q), c \notin ToSet(q) PROVE Distinct(p)
    BY <1>1, <1>3, <1>5, Joined
  <1>6. ASSUME NEW d, NEW e, Ahead(p, d, e), e # c PROVE Ahead(q, d, e)
    <2>1. DOMAIN p = 1..(Len(q) + 1) /\ DOMAIN q = 1..Len(q)
      BY <1>2
    <2>2. PICK i, j \in DOMAIN p : i < j /\ p[i] = d /\ p[j] = e
      BY <1>6 DEF Ahead
    <2>3. j # Len(q) + 1
      BY <1>2, <1>6, <2>2
    <2>4. i \in DOMAIN q /\ j \in DOMAIN q
      BY <1>2, <2>1, <2>2, <2>3
    <2>5. q[i] = d /\ q[j] = e
      BY <1>2, <2>1, <2>2, <2>4
    <2> QED BY <2>2, <2>4, <2>5 DEF Ahead
  <1> QED BY <1>2, <1>4, <1>5, <1>6 DEF p

QueueStep ==
    \/ UNCHANGED <<blocking_keys, client>>
    \/ Tick
    \/ \E S \in SUBSET Clients : Unblock(S, Released(S))
    \/ \E c \in Clients, cmd \in Commands :
          ~Blocked(c) /\ BlockForKeys(c, cmd, blocking_keys)

(* Nobody gets ahead of another in a queue. *)
InOrder ==
    \A k \in Keys, c, d \in Clients :
        Ahead(blocking_keys'[k], d, c) /\ k \in client[c].keys => Ahead(blocking_keys[k], d, c)

(* A client one time unit later. *)
LEMMA Later ==
    ASSUME NEW C, NEW D, NEW b \in [cmd : C, keys : D, left : Int],
           NEW t, t = [b EXCEPT !.left = b.left - 1]
    PROVE  t \in [cmd : C, keys : D, left : Int] /\ t.cmd = b.cmd /\ t.keys = b.keys
  <1>1. b.left \in Int /\ b.cmd \in C /\ b.keys \in D
    OBVIOUS
  <1>2. t = [cmd |-> b.cmd, keys |-> b.keys, left |-> b.left - 1]
    OBVIOUS
  <1>3. t \in [cmd : C, keys : D, left : Int] /\ t.cmd = b.cmd /\ t.keys = b.keys
    BY <1>1, <1>2
  <1> QED BY <1>3

LEMMA TickKeeps ==
    ASSUME Queues, Tick
    PROVE  Queues' /\ InOrder
  <1> USE DEF Queues
  <1>1. blocking_keys' = blocking_keys
    BY DEF Tick
  <1>2. client' = [c \in Clients |->
          IF Timed(c) /\ client[c].left >= 0
          THEN [client[c] EXCEPT !.left = @ - 1] ELSE client[c]]
    BY DEF Tick
  <1>3. ASSUME NEW c \in Clients
        PROVE  /\ client'[c] \in [cmd : Commands \cup {None}, keys : SUBSET Keys, left : Int]
               /\ client'[c].cmd = client[c].cmd /\ client'[c].keys = client[c].keys
               /\ client[c].cmd = None => client'[c] = client[c]
    <2> DEFINE R == [cmd : Commands \cup {None}, keys : SUBSET Keys, left : Int]
               b == client[c]
    <2>0. PICK t : t = [b EXCEPT !.left = b.left - 1]
      OBVIOUS
    <2>1. client'[c] = IF Timed(c) /\ b.left >= 0 THEN t ELSE b
      BY <1>2, <2>0
    <2>2. b \in R
      OBVIOUS
    <2>3. t \in R /\ t.cmd = b.cmd /\ t.keys = b.keys
      BY <2>0, <2>2, Later
    <2>4. b.cmd = None => ~Timed(c)
      BY DEF Timed, Blocked
    <2> QED BY <2>1, <2>2, <2>3, <2>4
  <1>4. client' \in [Clients -> [cmd : Commands \cup {None}, keys : SUBSET Keys, left : Int]]
    BY <1>2, <1>3
  <1> QED BY <1>1, <1>3, <1>4 DEF InOrder

LEMMA ReleaseKeeps ==
    ASSUME Queues, NEW S \in SUBSET Clients, Unblock(S, Released(S))
    PROVE  Queues' /\ InOrder
  <1>1. blocking_keys' = Released(S)
        /\ client' = [c \in Clients |-> IF c \in S THEN NotBlocked ELSE client[c]]
    BY DEF Unblock
  <1>2. ASSUME NEW k \in Keys
        PROVE  /\ blocking_keys'[k] \in Seq(Clients)
               /\ Distinct(blocking_keys'[k])
               /\ \A c \in Clients : c \in ToSet(blocking_keys'[k])
                                        <=> k \in client[c].keys /\ c \notin S
               /\ \A c, d \in Clients :
                     Ahead(blocking_keys'[k], d, c) => Ahead(blocking_keys[k], d, c)
    <2> DEFINE q == blocking_keys[k]
               X == {c \in S : k \in client[c].keys}
               p == blocking_keys'[k]
    <2>1. p = Without(q, X)
      BY <1>1 DEF Released
    <2>2. q \in Seq(Clients) /\ Distinct(q)
          /\ \A c \in Clients : c \in ToSet(q) <=> k \in client[c].keys
      BY DEF Queues
    <2>3. \A c \in Clients : c \in X <=> c \in S /\ k \in client[c].keys
      OBVIOUS
    <2> HIDE DEF p, q, X
    <2>4. /\ p \in Seq(Clients) /\ ToSet(p) = ToSet(q) \ X /\ Distinct(p)
          /\ \A c, d : Ahead(p, d, c) => Ahead(q, d, c)
      BY <2>1, <2>2, WithoutFacts
    <2>5. \A c \in Clients : c \in ToSet(p) <=> k \in client[c].keys /\ c \notin S
      BY <2>2, <2>3, <2>4
    <2> QED BY <2>4, <2>5 DEF p, q
  <1>3. blocking_keys' \in [Keys -> Seq(Clients)]
    BY <1>1, <1>2 DEF Released
  <1>4. NotBlocked \in [cmd : Commands \cup {None}, keys : SUBSET Keys, left : Int]
        /\ NotBlocked.cmd = None /\ NotBlocked.keys = {}
    BY DEF NotBlocked
  <1>5. client' \in [Clients -> [cmd : Commands \cup {None}, keys : SUBSET Keys, left : Int]]
    BY <1>1, <1>4 DEF Queues
  <1>6. ASSUME NEW c \in Clients
        PROVE  /\ c \in S => client'[c] = NotBlocked
               /\ c \notin S => client'[c] = client[c]
    BY <1>1
  <1>7. \A c \in Clients : /\ client'[c].cmd = None => client'[c] = NotBlocked
                           /\ client'[c].cmd # None => client'[c].keys = ToSet(client'[c].cmd.keys)
    BY <1>4, <1>6 DEF Queues
  <1>8. \A k \in Keys, c \in Clients :
           c \in ToSet(blocking_keys'[k]) <=> k \in client'[c].keys
    BY <1>2, <1>4, <1>6
  <1> QED BY <1>2, <1>3, <1>5, <1>7, <1>8 DEF Queues, InOrder

LEMMA BlockKeeps ==
    ASSUME Queues, NEW c \in Clients, NEW cmd \in Commands, ~Blocked(c),
           BlockForKeys(c, cmd, blocking_keys)
    PROVE  Queues' /\ InOrder
  <1>1. blocking_keys' = [k \in Keys |-> IF k \in ToSet(cmd.keys)
                                         THEN Append(blocking_keys[k], c)
                                         ELSE blocking_keys[k]]
    BY DEF BlockForKeys
  <1> DEFINE b == [cmd |-> cmd, keys |-> ToSet(cmd.keys), left |-> cmd.timeout]
  <1>2. client' = [client EXCEPT ![c] = b]
    BY DEF BlockForKeys
  <1>3. b \in [cmd : Commands \cup {None}, keys : SUBSET Keys, left : Int]
        /\ b.cmd = cmd /\ b.keys = ToSet(cmd.keys) /\ cmd # None
    BY CommandParts
  <1> HIDE DEF b
  <1>4. client' \in [Clients -> [cmd : Commands \cup {None}, keys : SUBSET Keys, left : Int]]
    BY <1>2, <1>3 DEF Queues
  <1>5. client'[c] = b /\ \A d \in Clients : d # c => client'[d] = client[d]
    BY <1>2 DEF Queues
  <1>6. client[c] = NotBlocked /\ client[c].keys = {}
    BY DEF Queues, Blocked, NotBlocked
  <1>7. ASSUME NEW k \in Keys
        PROVE  /\ blocking_keys'[k] \in Seq(Clients)
               /\ Distinct(blocking_keys'[k])
               /\ \A d \in Clients : d \in ToSet(blocking_keys'[k])
                     <=> k \in client[d].keys \/ (d = c /\ k \in ToSet(cmd.keys))
               /\ \A d, e \in Clients : Ahead(blocking_keys'[k], e, d) /\ k \in client[d].keys
                                           => Ahead(blocking_keys[k], e, d)
    <2> DEFINE q == blocking_keys[k]
               p == blocking_keys'[k]
    <2>1. q \in Seq(Clients) /\ Distinct(q)
          /\ \A d \in Clients : d \in ToSet(q) <=> k \in client[d].keys
      BY DEF Queues
    <2>2. CASE k \in ToSet(cmd.keys)
      <3>1. p = Append(q, c)
        BY <1>1, <2>2
      <3>2. c \notin ToSet(q)
        BY <1>6, <2>1
      <3> HIDE DEF p, q
      <3>3. /\ p \in Seq(Clients) /\ ToSet(p) = ToSet(q) \cup {c} /\ Distinct(p)
            /\ \A d, e : Ahead(p, d, e) /\ e # c => Ahead(q, d, e)
        BY <2>1, <3>1, <3>2, Appended
      <3>4. \A d \in Clients : k \in client[d].keys => d # c
        BY <1>6
      <3>5. \A d \in Clients : d \in ToSet(p)
               <=> k \in client[d].keys \/ (d = c /\ k \in ToSet(cmd.keys))
        BY <2>1, <2>2, <3>3
      <3>6. \A d, e \in Clients : Ahead(p, e, d) /\ k \in client[d].keys => Ahead(q, e, d)
        BY <3>3, <3>4
      <3> QED BY <3>3, <3>5, <3>6 DEF p, q
    <2>3. CASE k \notin ToSet(cmd.keys)
      <3>1. p = q
        BY <1>1, <2>3
      <3> QED BY <2>1, <2>3, <3>1
    <2> QED BY <2>2, <2>3
  <1>8. blocking_keys' \in [Keys -> Seq(Clients)]
    BY <1>1, <1>7
  <1>9. \A d \in Clients : /\ client'[d].cmd = None => client'[d] = NotBlocked
                           /\ client'[d].cmd # None => client'[d].keys = ToSet(client'[d].cmd.keys)
    BY <1>3, <1>5 DEF Queues
  <1>10. \A k \in Keys, d \in Clients :
            d \in ToSet(blocking_keys'[k]) <=> k \in client'[d].keys
    <2> SUFFICES ASSUME NEW k \in Keys, NEW d \in Clients
                 PROVE  d \in ToSet(blocking_keys'[k]) <=> k \in client'[d].keys
      OBVIOUS
    <2>1. CASE d = c
      BY <1>3, <1>5, <1>6, <1>7, <2>1
    <2>2. CASE d # c
      BY <1>5, <1>7, <2>2
    <2> QED BY <2>1, <2>2
  <1> QED BY <1>4, <1>7, <1>8, <1>9, <1>10 DEF Queues, InOrder

LEMMA QueuesKept ==
    ASSUME Queues, QueueStep
    PROVE  Queues' /\ InOrder
  <1>1. CASE UNCHANGED <<blocking_keys, client>>
    BY <1>1 DEF Queues, InOrder
  <1> QED BY <1>1, TickKeeps, ReleaseKeeps, BlockKeeps DEF QueueStep

(* Being in a queue once, and in no other, as Registered counts it. *)
LEMMA CountedOnce ==
    ASSUME Queues
    PROVE  Registered
  <1> SUFFICES ASSUME NEW k \in Keys, NEW c \in Clients
               PROVE  Cardinality({i \in DOMAIN blocking_keys[k] : blocking_keys[k][i] = c})
                        = IF k \in client[c].keys THEN 1 ELSE 0
    BY DEF Registered
  <1> DEFINE q == blocking_keys[k]
             A == {i \in DOMAIN q : q[i] = c}
  <1>1. Distinct(q) /\ (c \in ToSet(q) <=> k \in client[c].keys)
    BY DEF Queues
  <1>2. c \in ToSet(q) <=> A # {}
    BY DEF ToSet
  <1>3. \A i, j \in A : i = j
    BY <1>1 DEF Distinct
  <1> HIDE DEF A
  <1>4. CASE A = {}
    BY <1>1, <1>2, <1>4, FS_EmptySet DEF A
  <1>5. CASE A # {}
    <2>1. PICK i \in A : A = {i}
      BY <1>3, <1>5
    <2>2. Cardinality(A) = 1
      BY <2>1, FS_Singleton
    <2> QED BY <1>1, <1>2, <1>5, <2>2 DEF A
  <1> QED BY <1>4, <1>5
-------------------------------------------------------------------------------
(* Keys that are queued for service. *)

(* ready_keys and the keys signaled only grow, together; a key that has come  *)
(* to hold a list is among them if anybody waits for it in queues W.          *)
ReadyStep(W) ==
    /\ ready_keys' \in Seq(Keys) /\ signaled' \subseteq Keys
    /\ ToSet(ready_keys) \subseteq ToSet(ready_keys')
    /\ signaled' \subseteq signaled \cup ToSet(ready_keys') /\ signaled \subseteq signaled'
    /\ \A k \in Keys : db'[k].type = "list" /\ W[k] # <<>> =>
          db[k].type = "list" \/ k \in signaled'

LEMMA Signals ==
    ASSUME ready_keys \in Seq(Keys), signaled \subseteq Keys,
           NEW k \in Keys, NEW type, NEW W, SignalKeyAsReady(k, type, W)
    PROVE  /\ ready_keys' \in Seq(Keys) /\ signaled' \subseteq Keys
           /\ ToSet(ready_keys) \subseteq ToSet(ready_keys')
           /\ signaled' \subseteq signaled \cup ToSet(ready_keys') /\ signaled \subseteq signaled'
           /\ type = "list" /\ W[k] # <<>> => k \in signaled'
  <1>1. CASE type = "list" /\ W[k] # <<>> /\ k \notin signaled
    <2>1. ready_keys' = Append(ready_keys, k) /\ signaled' = signaled \cup {k}
      BY <1>1 DEF SignalKeyAsReady
    <2>2. Append(ready_keys, k) \in Seq(Keys)
          /\ ToSet(Append(ready_keys, k)) = ToSet(ready_keys) \cup {k}
      BY Appended
    <2>3. ready_keys' \in Seq(Keys) /\ ToSet(ready_keys') = ToSet(ready_keys) \cup {k}
      BY <2>1, <2>2
    <2> QED BY <2>1, <2>3
  <1>2. CASE ~(type = "list" /\ W[k] # <<>> /\ k \notin signaled)
    <2>1. ready_keys' = ready_keys /\ signaled' = signaled
      BY <1>2 DEF SignalKeyAsReady, readyvars
    <2> QED BY <1>2, <2>1
  <1> QED BY <1>1, <1>2

(* Nothing is signalled and no key comes to hold a list. *)
LEMMA NoSignal ==
    ASSUME ready_keys \in Seq(Keys), signaled \subseteq Keys, NEW W, UNCHANGED readyvars,
           \A k \in Keys : db'[k].type = "list" => db[k].type = "list"
    PROVE  ReadyStep(W)
  BY DEF ReadyStep, readyvars

LEMMA TookTypes ==
    ASSUME Store, NEW k \in Keys, NEW w, Took(k, w)
    PROVE  \A l \in Keys : db'[l].type = "list" => db[l].type = "list"
  <1>1. db' = [db EXCEPT ![k] = ListOf(PopAt(db[k].elems, w).rest)] /\ db[k].type = "list"
    BY DEF Took
  <1>2. \A l \in Keys : l # k => db'[l] = db[l]
    BY <1>1 DEF Store, Holds
  <1> QED BY <1>1, <1>2

LEMMA MovedTypes ==
    ASSUME Store, NEW k \in Keys, NEW l \in Keys, NEW w, Moved(k, l, w)
    PROVE  \A x \in Keys : db'[x].type = "list" => db[x].type = "list" \/ x = l
  <1>1. \A x \in Keys : x # l /\ x # k => db'[x] = db[x]
    BY DEF Moved, Store, Holds
  <1>2. db[k].type = "list"
    BY DEF Moved
  <1> QED BY <1>1, <1>2

(* The least of a set of numbers. *)
LEMMA Least ==
    ASSUME NEW S, S \subseteq Nat, S # {}
    PROVE  Min(S) \in S
  <1> DEFINE R == OpToRel(<, Nat)
  <1>1. IsWellFoundedOn(R, Nat)
    BY NatLessThanWellFounded
  <1>2. PICK n \in S : \A m \in S : ~(<<m, n>> \in R)
    BY <1>1, WFMin
  <1>3. \A m \in S : ~(m < n)
    BY <1>2 DEF OpToRel
  <1>4. \A m \in S : n <= m
    BY <1>3
  <1> QED BY <1>4 DEF Min
-------------------------------------------------------------------------------
(* What a blocking command does, with queues W. *)

Waits(c, cmd, W) ==
    /\ executing = None /\ BlockForKeys(c, cmd, W) /\ UNCHANGED <<dbvars, readyvars>>
    /\ \A k \in ToSet(cmd.keys) : db[k].type = "none"
Answers(c, W) == Unblock({c}, W) /\ UNCHANGED <<dbvars, readyvars>>
Takes(c, W) ==
    Unblock({c}, W) /\ UNCHANGED readyvars /\ \E k \in Keys : \E w : Took(k, w)
Moves(c, W) ==
    /\ Unblock({c}, W)
    /\ \E k, l \in Keys : \E w :
          /\ Moved(k, l, w) /\ db[l].type # "string"
          /\ IF db[l].type = "none" THEN SignalKeyAsReady(l, "list", W)
                                    ELSE UNCHANGED readyvars

LEMMA Processed ==
    ASSUME Store, NEW c \in Clients, NEW cmd, cmd \in Commands, NEW W, Process(c, cmd, W)
    PROVE  Waits(c, cmd, W) \/ Answers(c, W) \/ Takes(c, W) \/ Moves(c, W)
  <1>1. ASSUME Wait(c, cmd, W), \A k \in ToSet(cmd.keys) : db[k].type = "none"
        PROVE  Waits(c, cmd, W) \/ Answers(c, W)
    BY <1>1 DEF Wait, Waits, Answers
  <1>2. ASSUME Refuse(c, W) PROVE Answers(c, W)
    BY <1>2 DEF Refuse, Answers
  <1>3. CASE cmd.op = "pop" /\ BlockingPop(c, cmd, W)
    <2> DEFINE q == cmd.keys
               present == {i \in DOMAIN q : db[q[i]].type # "none"}
               k == q[Min(present)]
               pop == PopAt(db[k].elems, cmd.where)
    <2>1. \/ present = {} /\ Wait(c, cmd, W)
          \/ present # {} /\ db[k].type # "list" /\ Refuse(c, W)
          \/ /\ present # {} /\ db[k].type = "list"
             /\ db' = [db EXCEPT ![k] = ListOf(pop.rest)]
             /\ taken' = taken \cup {pop.value}
             /\ Unblock({c}, W)
             /\ UNCHANGED <<pushed, dropped, readyvars>>
      BY <1>3 DEF BlockingPop
    <2>2. q \in Seq(Keys)
      BY CommandParts
    <2>3. CASE present = {} /\ Wait(c, cmd, W)
      <3>1. \A k1 \in ToSet(q) : db[k1].type = "none"
        BY <2>3 DEF ToSet
      <3> QED BY <1>1, <2>3, <3>1
    <2>4. CASE present # {} /\ db[k].type # "list" /\ Refuse(c, W)
      BY <1>2, <2>4
    <2>5. CASE /\ present # {} /\ db[k].type = "list"
               /\ db' = [db EXCEPT ![k] = ListOf(pop.rest)]
               /\ taken' = taken \cup {pop.value}
               /\ Unblock({c}, W)
               /\ UNCHANGED <<pushed, dropped, readyvars>>
      <3>1. k \in Keys
        <4> HIDE DEF q
        <4>1. DOMAIN q = 1..Len(q) /\ \A i \in DOMAIN q : q[i] \in Keys
          BY <2>2
        <4>2. present \subseteq Nat
          BY <4>1
        <4>3. Min(present) \in present
          BY <2>5, <4>2, Least
        <4> QED BY <4>1, <4>3
      <3>2. Took(k, cmd.where)
        <4> HIDE DEF k
        <4> QED BY <2>5 DEF Took
      <3>3. Unblock({c}, W) /\ UNCHANGED readyvars
        BY <2>5
      <3> HIDE DEF k
      <3> QED BY <3>1, <3>2, <3>3 DEF Takes
    <2> HIDE DEF present, k, pop
    <2> QED BY <2>1, <2>3, <2>4, <2>5
  <1>4. CASE cmd.op = "move" /\ BlockingMove(c, cmd, W)
    <2> DEFINE k == cmd.keys[1]
               l == cmd.dst
               pop == PopAt(db[k].elems, cmd.where)
               elems == IF k = l THEN pop.rest ELSE db[l].elems
    <2>1. k \in Keys /\ l \in Keys /\ ToSet(cmd.keys) = {k}
      BY <1>4, CommandParts
    <2>2. \/ db[k].type = "none" /\ Wait(c, cmd, W)
          \/ Refuse(c, W)
          \/ /\ db[k].type = "list" /\ db[l].type # "string"
             /\ db' = [db EXCEPT ![k] = ListOf(pop.rest),
                                 ![l] = ListOf(PushAt(elems, pop.value, "head"))]
             /\ IF db[l].type = "none" THEN SignalKeyAsReady(l, "list", W)
                                       ELSE UNCHANGED readyvars
             /\ Unblock({c}, W)
             /\ UNCHANGED <<pushed, taken, dropped>>
      BY <1>4, Zenon DEF BlockingMove
    <2>3. CASE db[k].type = "none" /\ Wait(c, cmd, W)
      <3>1. \A k1 \in ToSet(cmd.keys) : db[k1].type = "none"
        BY <2>1, <2>3
      <3> QED BY <1>1, <2>3, <3>1
    <2>4. CASE Refuse(c, W)
      BY <1>2, <2>4
    <2>5. CASE /\ db[k].type = "list" /\ db[l].type # "string"
               /\ db' = [db EXCEPT ![k] = ListOf(pop.rest),
                                   ![l] = ListOf(PushAt(elems, pop.value, "head"))]
               /\ IF db[l].type = "none" THEN SignalKeyAsReady(l, "list", W)
                                         ELSE UNCHANGED readyvars
               /\ Unblock({c}, W)
               /\ UNCHANGED <<pushed, taken, dropped>>
      <3>1. Moved(k, l, cmd.where)
        BY <2>5 DEF Moved
      <3> HIDE DEF k, l
      <3> QED BY <2>1, <2>5, <3>1 DEF Moves
    <2> QED BY <2>2, <2>3, <2>4, <2>5
  <1> QED BY <1>3, <1>4 DEF Process
(* The destination of a move is signalled when it is created. *)
LEMMA MovedReady ==
    ASSUME Store, ready_keys \in Seq(Keys), signaled \subseteq Keys,
           NEW k \in Keys, NEW l \in Keys, NEW w, NEW W, Moved(k, l, w), db[l].type # "string",
           IF db[l].type = "none" THEN SignalKeyAsReady(l, "list", W) ELSE UNCHANGED readyvars
    PROVE  ReadyStep(W)
  <1>1. \A x \in Keys : db'[x].type = "list" => db[x].type = "list" \/ x = l
    BY MovedTypes
  <1>2. CASE db[l].type = "none"
    BY <1>1, <1>2, Signals DEF ReadyStep
  <1>3. CASE db[l].type # "none"
    <2>1. db[l].type = "list"
      BY <1>3, KeyFacts
    <2> QED BY <1>1, <1>3, <2>1, NoSignal
  <1> QED BY <1>2, <1>3
-------------------------------------------------------------------------------
(* The loop that serves blocked clients. *)

(* The keys that are served now or will be, before the loop ends. *)
Queued == ToSet(ready_keys) \cup ToSet(batch) \cup {serving.key}

Loop ==
    /\ ready_keys \in Seq(Keys) /\ signaled \subseteq Keys
    /\ executing \in Clients \cup {None} /\ handling \in BOOLEAN
    /\ batch \in Seq(Keys)
    /\ serving \in [key : Keys \cup {None}, todo : Seq(Clients)]
    /\ handling => executing = None
    /\ ~handling => batch = <<>> /\ serving = NotServing
    /\ ready_keys # <<>> => handling \/ executing # None
    /\ signaled \subseteq ToSet(ready_keys) \cup ToSet(batch)
    /\ serving.key = None => serving.todo = <<>>
    /\ serving.key # None /\ db[serving.key].type = "list" =>
          blocking_keys[serving.key] = serving.todo
    /\ \A k \in Keys : db[k].type = "list" /\ blocking_keys[k] # <<>> => k \in Queued

LEMMA Idle == /\ NotServing.key = None /\ NotServing.todo = <<>>
              /\ NotServing \in [key : Keys \cup {None}, todo : Seq(Clients)]
              /\ ToSet(<<>>) = {}
  <1>1. NotServing.key = None /\ NotServing.todo = <<>>
        /\ NotServing \in [key : Keys \cup {None}, todo : Seq(Clients)]
    BY DEF NotServing
  <1>2. <<>> \in Seq({}) /\ ToSet(<<>>) \subseteq {}
    <2>1. <<>> \in Seq({})
      OBVIOUS
    <2> QED BY <2>1, ToSetMember
  <1> QED BY <1>1, <1>2

(* A command or the end of one, between two turns of the loop. *)
LEMMA LoopAfterCommand ==
    ASSUME Loop, ~handling, ReadyStep(blocking_keys),
           \A k \in Keys : db'[k].type = "list" /\ blocking_keys'[k] # <<>>
                              => blocking_keys[k] # <<>>,
           executing' \in Clients \cup {None},
           handling' \in BOOLEAN, handling' => executing' = None,
           ready_keys' # <<>> => handling' \/ executing' # None,
           batch' = batch, serving' = serving
    PROVE  Loop'
  <1>1. batch = <<>> /\ serving = NotServing /\ ToSet(batch) = {} /\ serving.key = None
        /\ serving.todo = <<>>
    BY Idle DEF Loop
  <1>2. signaled' \subseteq ToSet(ready_keys')
    <2>1. signaled \subseteq ToSet(ready_keys)
      BY <1>1 DEF Loop
    <2> QED BY <2>1 DEF ReadyStep
  <1>3. \A k \in Keys : db[k].type = "list" /\ blocking_keys[k] # <<>> => k \in ToSet(ready_keys)
    <2> SUFFICES ASSUME NEW k \in Keys, db[k].type = "list", blocking_keys[k] # <<>>
                 PROVE  k \in ToSet(ready_keys)
      OBVIOUS
    <2>1. k \in Queued
      BY DEF Loop
    <2>2. k # None
      BY BlockingListsAssumption
    <2> QED BY <1>1, <2>1, <2>2 DEF Queued
  <1>4. ASSUME NEW k \in Keys, db'[k].type = "list", blocking_keys'[k] # <<>>
        PROVE  k \in ToSet(ready_keys')
    <2>1. blocking_keys[k] # <<>>
      BY <1>4
    <2>2. db[k].type = "list" \/ k \in signaled'
      BY <1>4, <2>1 DEF ReadyStep
    <2>3. ToSet(ready_keys) \subseteq ToSet(ready_keys')
      BY DEF ReadyStep
    <2> QED BY <1>2, <1>3, <2>1, <2>2, <2>3
  <1>5. ready_keys' \in Seq(Keys) /\ signaled' \subseteq Keys
    BY DEF ReadyStep
  <1>6. \A k \in Keys : db'[k].type = "list" /\ blocking_keys'[k] # <<>> => k \in Queued'
    BY <1>4 DEF Queued
  <1>7. batch' = <<>> /\ serving' = NotServing /\ ToSet(batch') = {} /\ serving'.key = None
        /\ serving'.todo = <<>> /\ batch' \in Seq(Keys)
        /\ serving' \in [key : Keys \cup {None}, todo : Seq(Clients)]
    BY <1>1 DEF Loop
  <1> QED BY <1>2, <1>5, <1>6, <1>7 DEF Loop

(* A step that leaves what the loop looks at alone. *)
LEMMA LoopUntouched ==
    ASSUME Loop, UNCHANGED <<db, readyvars, loopvars, executing, blocking_keys>>
    PROVE  Loop'
  BY DEF Loop, Queued, readyvars, loopvars

LEMMA CallsEnd ==
    ASSUME Loop, NEW c \in Clients, Calls(c), ReadyStep(blocking_keys),
           \A k \in Keys : db'[k].type = "list" /\ blocking_keys'[k] # <<>>
                              => blocking_keys[k] # <<>>
    PROVE  Loop'
  <1>1. /\ ~handling /\ handling' = (executing = None /\ ready_keys' # <<>>)
        /\ executing' = executing /\ batch' = batch /\ serving' = serving
    BY DEF Calls
  <1>2. executing' \in Clients \cup {None} /\ handling' \in BOOLEAN
        /\ (handling' => executing' = None)
        /\ (ready_keys' # <<>> => handling' \/ executing' # None)
    BY <1>1 DEF Loop
  <1> QED BY <1>1, <1>2, LoopAfterCommand
-------------------------------------------------------------------------------
(* Every step, in its parts. *)

Inv == Store /\ Queues /\ Loop

(* An answer to a client that is not blocked changes nothing about clients. *)
LEMMA Answered ==
    ASSUME Queues, NEW c \in Clients, ~Blocked(c), Unblock({c}, blocking_keys)
    PROVE  UNCHANGED <<blocking_keys, client>>
  <1>1. blocking_keys' = blocking_keys
        /\ client' = [d \in Clients |-> IF d \in {c} THEN NotBlocked ELSE client[d]]
    BY DEF Unblock
  <1>2. client = [d \in Clients |-> client[d]] /\ client[c] = NotBlocked
    BY DEF Queues, Blocked
  <1>3. \A d \in Clients : client'[d] = client[d]
    BY <1>1, <1>2
  <1> QED BY <1>1, <1>2, <1>3

LEMMA BlockStep ==
    ASSUME Inv, NEW c \in Clients, NEW cmd \in Commands, Block(c, cmd)
    PROVE  StoreStep /\ QueueStep /\ Loop'
  <1>1. Process(c, cmd, blocking_keys) /\ Calls(c) /\ ~Blocked(c)
    BY DEF Block, Calls
  <1>2. ready_keys \in Seq(Keys) /\ signaled \subseteq Keys
    BY DEF Inv, Loop
  <1>3. CASE Waits(c, cmd, blocking_keys)
    <2>1. StoreStep /\ QueueStep
      BY <1>1, <1>3 DEF Waits, StoreStep, QueueStep
    <2>2. ReadyStep(blocking_keys)
      BY <1>2, <1>3, NoSignal DEF Waits, dbvars
    <2>3. \A k \in Keys : db'[k].type = "list" /\ blocking_keys'[k] # <<>>
                              => blocking_keys[k] # <<>>
      <3> SUFFICES ASSUME NEW k \in Keys, db'[k].type = "list"
                   PROVE  blocking_keys'[k] = blocking_keys[k]
        OBVIOUS
      <3>1. k \notin ToSet(cmd.keys)
        BY <1>3 DEF Waits, dbvars
      <3> QED BY <1>3, <3>1 DEF Waits, BlockForKeys
    <2> QED BY <1>1, <2>1, <2>2, <2>3, CallsEnd DEF Inv
  <1>4. ASSUME Unblock({c}, blocking_keys), ReadyStep(blocking_keys)
        PROVE  QueueStep /\ Loop'
    <2>1. UNCHANGED <<blocking_keys, client>>
      BY <1>1, <1>4, Answered DEF Inv
    <2>2. Loop'
      BY <1>1, <1>4, <2>1, CallsEnd DEF Inv
    <2> QED BY <2>1, <2>2 DEF QueueStep
  <1>5. CASE Answers(c, blocking_keys)
    <2>1. ReadyStep(blocking_keys)
      BY <1>2, <1>5, NoSignal DEF Answers, dbvars
    <2> QED BY <1>4, <1>5, <2>1 DEF Answers, StoreStep
  <1>6. CASE Takes(c, blocking_keys)
    <2>1. PICK k, w : k \in Keys /\ Took(k, w)
      BY <1>6 DEF Takes
    <2>2. ReadyStep(blocking_keys)
      BY <1>2, <1>6, <2>1, TookTypes, NoSignal DEF Inv, Takes
    <2> QED BY <1>4, <1>6, <2>1, <2>2 DEF Takes, StoreStep
  <1>7. CASE Moves(c, blocking_keys)
    <2>1. PICK k, l, w :
             /\ k \in Keys /\ l \in Keys
             /\ Moved(k, l, w) /\ db[l].type # "string"
             /\ IF db[l].type = "none" THEN SignalKeyAsReady(l, "list", blocking_keys)
                                       ELSE UNCHANGED readyvars
      BY <1>7 DEF Moves
    <2>2. ReadyStep(blocking_keys)
      BY <1>2, <2>1, MovedReady DEF Inv
    <2> QED BY <1>4, <1>7, <2>1, <2>2 DEF Moves, StoreStep
  <1> QED BY <1>1, <1>3, <1>5, <1>6, <1>7, Processed DEF Inv

LEMMA PushStep ==
    ASSUME Inv, NEW c \in Clients, NEW k \in Keys, NEW n \in 1..MaxPush, NEW w,
           Push(c, k, n, w)
    PROVE  StoreStep /\ QueueStep /\ Loop'
  <1>1. UNCHANGED <<blocking_keys, client>> /\ Calls(c)
    BY DEF Push
  <1>2. Joins(k, n, w)
    BY DEF Push, Joins
  <1>3. db' = [db EXCEPT ![k] = db'[k]] /\ \A l \in Keys : l # k => db'[l] = db[l]
    BY <1>2 DEF Joins, Inv, Store, Holds
  <1>4. ready_keys \in Seq(Keys) /\ signaled \subseteq Keys
    BY DEF Inv, Loop
  <1>5. ReadyStep(blocking_keys)
    <2>1. db[k].type \in {"none", "list"}
      BY KeyFacts DEF Inv, Push
    <2>2. CASE db[k].type = "none"
      <3>1. SignalKeyAsReady(k, "list", blocking_keys)
        BY <2>2 DEF Push
      <3> QED BY <1>3, <1>4, <3>1, Signals DEF ReadyStep
    <2>3. CASE db[k].type = "list"
      <3>1. UNCHANGED readyvars
        BY <2>3 DEF Push
      <3>2. \A l \in Keys : db'[l].type = "list" => db[l].type = "list"
        BY <1>3, <2>3
      <3> QED BY <1>4, <3>1, <3>2, NoSignal
    <2> QED BY <2>1, <2>2, <2>3
  <1>6. Loop'
    BY <1>1, <1>5, CallsEnd DEF Inv
  <1> QED BY <1>1, <1>2, <1>6 DEF StoreStep, QueueStep

LEMMA ReplaceStep ==
    ASSUME Inv, NEW c \in Clients, NEW k \in Keys, NEW v, v = Absent \/ v = String,
           Replace(c, k, v)
    PROVE  StoreStep /\ QueueStep /\ Loop'
  <1>1. UNCHANGED <<blocking_keys, client, readyvars>> /\ Calls(c)
    BY DEF Replace
  <1>2. Becomes(k, v)
    BY DEF Replace, Becomes
  <1>3. \A l \in Keys : db'[l].type = "list" => db[l].type = "list"
    <2>1. v.type # "list"
      BY DEF Absent, String
    <2>2. \A l \in Keys : db'[l] = IF l = k THEN v ELSE db[l]
      BY <1>2 DEF Becomes, Inv, Store, Holds
    <2> QED BY <2>1, <2>2
  <1>4. ready_keys \in Seq(Keys) /\ signaled \subseteq Keys
    BY DEF Inv, Loop
  <1>5. ReadyStep(blocking_keys)
    BY <1>1, <1>3, <1>4, NoSignal
  <1>6. Loop'
    BY <1>1, <1>5, CallsEnd DEF Inv
  <1> QED BY <1>1, <1>2, <1>6 DEF StoreStep, QueueStep

LEMMA RenameStep ==
    ASSUME Inv, NEW c \in Clients, NEW k \in Keys, NEW l \in Keys, Rename(c, k, l)
    PROVE  StoreStep /\ QueueStep /\ Loop'
  <1>1. UNCHANGED <<blocking_keys, client>> /\ Calls(c)
        /\ SignalKeyAsReady(l, db[k].type, blocking_keys)
    BY DEF Rename
  <1>2. Renames(k, l)
    BY DEF Rename, Renames
  <1>3. \A x \in Keys : /\ x # l /\ db'[x].type = "list" => db[x].type = "list"
                        /\ x = l => db'[x] = db[k]
    <2>1. Absent.type # "list"
      BY DEF Absent
    <2>2. db'[k] = Absent /\ db'[l] = db[k]
          /\ \A x \in Keys : x # k /\ x # l => db'[x] = db[x]
      BY <1>2 DEF Renames, Inv, Store, Holds
    <2> QED BY <2>1, <2>2
  <1>4. ready_keys \in Seq(Keys) /\ signaled \subseteq Keys
    BY DEF Inv, Loop
  <1>5. ReadyStep(blocking_keys)
    <2>1. /\ ready_keys' \in Seq(Keys) /\ signaled' \subseteq Keys
          /\ ToSet(ready_keys) \subseteq ToSet(ready_keys')
          /\ signaled' \subseteq signaled \cup ToSet(ready_keys') /\ signaled \subseteq signaled'
          /\ db[k].type = "list" /\ blocking_keys[l] # <<>> => l \in signaled'
      BY <1>1, <1>4, Signals
    <2>2. \A x \in Keys : db'[x].type = "list" /\ blocking_keys[x] # <<>> =>
             db[x].type = "list" \/ x \in signaled'
      BY <1>3, <2>1
    <2> QED BY <2>1, <2>2 DEF ReadyStep
  <1>6. Loop'
    BY <1>1, <1>5, CallsEnd DEF Inv
  <1> QED BY <1>1, <1>2, <1>6 DEF StoreStep, QueueStep

(* EXEC, its end, and the clients that leave between two commands. *)
LEMMA ExecStep ==
    ASSUME Inv, (\E c \in Clients : Exec(c)) \/ ExecEnds
    PROVE  StoreStep /\ QueueStep /\ Loop'
  <1>1. /\ UNCHANGED <<dbvars, readyvars, blocking_keys, client, batch, serving>>
        /\ ~handling
        /\ executing' \in Clients \cup {None} /\ handling' \in BOOLEAN
        /\ (handling' => executing' = None)
        /\ (ready_keys' # <<>> => handling' \/ executing' # None)
    <2>1. ASSUME NEW c \in Clients, Exec(c)
          PROVE  /\ UNCHANGED <<dbvars, readyvars, blocking_keys, client, batch, serving>>
                 /\ ~handling /\ executing' = c /\ handling' = FALSE
      BY <2>1 DEF Exec, loopvars, Inv, Loop
    <2>2. \A c \in Clients : c # None
      BY BlockingListsAssumption
    <2>3. ASSUME ExecEnds
          PROVE  /\ UNCHANGED <<dbvars, readyvars, blocking_keys, client, batch, serving>>
                 /\ ~handling /\ executing' = None /\ handling' = (ready_keys # <<>>)
                 /\ ready_keys' = ready_keys
      BY <2>3 DEF ExecEnds, Inv, Loop, readyvars
    <2> QED BY <2>1, <2>2, <2>3
  <1>2. ready_keys \in Seq(Keys) /\ signaled \subseteq Keys
    BY DEF Inv, Loop
  <1>3. ReadyStep(blocking_keys)
    BY <1>1, <1>2, NoSignal DEF dbvars
  <1>4. Loop'
    BY <1>1, <1>3, LoopAfterCommand DEF Inv
  <1> QED BY <1>1, <1>4 DEF StoreStep, QueueStep

(* Releasing clients makes no queue longer. *)
LEMMA ReleasedLess ==
    ASSUME Queues, NEW S \in SUBSET Clients, NEW k \in Keys
    PROVE  /\ Released(S)[k] \in Seq(Clients)
           /\ Released(S)[k] # <<>> => blocking_keys[k] # <<>>
  <1> DEFINE q == blocking_keys[k]
             X == {c \in S : k \in client[c].keys}
             p == Released(S)[k]
  <1>1. p = Without(q, X)
    BY DEF Released
  <1>2. q \in Seq(Clients)
    BY DEF Queues
  <1> HIDE DEF p, q, X
  <1>3. p \in Seq(Clients) /\ ToSet(p) = ToSet(q) \ X
    BY <1>1, <1>2, WithoutFacts
  <1>4. p # <<>> => q # <<>>
    BY <1>2, <1>3, ToSetMember
  <1> QED BY <1>3, <1>4 DEF p, q

LEMMA LeaveStep ==
    ASSUME Inv, BeforeSleep \/ \E c \in Clients : Disconnect(c)
    PROVE  StoreStep /\ QueueStep /\ Loop' /\ db' = db
  <1>1. PICK S \in SUBSET Clients : Unblock(S, Released(S))
        /\ UNCHANGED <<dbvars, readyvars, loopvars, executing>> /\ ~handling /\ executing = None
    BY DEF BeforeSleep, Disconnect, Expired
  <1>2. ready_keys \in Seq(Keys) /\ signaled \subseteq Keys
    BY DEF Inv, Loop
  <1>3. ReadyStep(blocking_keys)
    BY <1>1, <1>2, NoSignal DEF dbvars
  <1>4. \A k \in Keys : blocking_keys'[k] # <<>> => blocking_keys[k] # <<>>
    BY <1>1, ReleasedLess DEF Unblock, Inv
  <1>5. Loop'
    <2>1. executing' \in Clients \cup {None} /\ handling' = FALSE
          /\ ready_keys' = <<>> /\ batch' = batch /\ serving' = serving
      BY <1>1 DEF Inv, Loop, readyvars, loopvars
    <2> QED BY <1>1, <1>3, <1>4, <2>1, LoopAfterCommand DEF Inv
  <1> QED BY <1>1, <1>5 DEF StoreStep, QueueStep, dbvars
-------------------------------------------------------------------------------
(* The turns of the loop. *)

LEMMA TakeReadyKeysStep ==
    ASSUME Inv, TakeReadyKeys
    PROVE  Loop'
  <1>1. /\ handling /\ batch = <<>> /\ serving = NotServing
        /\ batch' = ready_keys /\ ready_keys' = <<>>
        /\ UNCHANGED <<db, signaled, handling, serving, executing, blocking_keys>>
    BY DEF TakeReadyKeys, dbvars
  <1>2. ToSet(batch) = {} /\ ToSet(ready_keys') = {} /\ batch' \in Seq(Keys)
        /\ ready_keys' \in Seq(Keys)
    BY <1>1, Idle DEF Inv, Loop
  <1> QED BY <1>1, <1>2 DEF Inv, Loop, Queued

LEMMA TakeKeyStep ==
    ASSUME Inv, TakeKey
    PROVE  Loop'
  <1> DEFINE k == Head(batch)
             r == [key |-> k, todo |-> blocking_keys[k]]
  <1>1. /\ handling /\ batch # <<>> /\ serving = NotServing
        /\ batch' = Tail(batch) /\ serving' = r
        /\ signaled' = signaled \ {k}
        /\ UNCHANGED <<db, ready_keys, handling, executing, blocking_keys>>
    BY DEF TakeKey, dbvars
  <1>2. batch \in Seq(Keys)
    BY DEF Inv, Loop
  <1>3. k \in Keys /\ Tail(batch) \in Seq(Keys) /\ ToSet(batch) = {k} \cup ToSet(Tail(batch))
    <2> DEFINE one == <<k>>
               t == Tail(batch)
    <2>1. k \in Keys /\ t \in Seq(Keys) /\ batch = one \o t
      BY <1>1, <1>2, HeadTailProperties
    <2>2. one \in Seq(Keys) /\ ToSet(one) = {k}
      BY <2>1, Single
    <2> HIDE DEF one, t
    <2>3. ToSet(batch) = ToSet(one) \cup ToSet(t)
      <3> HIDE DEF k, r
      <3>1. ToSet(one \o t) = ToSet(one) \cup ToSet(t)
        BY <2>1, <2>2, Joined
      <3> QED BY <2>1, <3>1, Zenon
    <2> QED BY <2>1, <2>2, <2>3 DEF t
  <1> HIDE DEF k
  <1>4. r \in [key : Keys \cup {None}, todo : Seq(Clients)] /\ r.key = k
        /\ r.todo = blocking_keys[k] /\ k # None
    BY <1>3, BlockingListsAssumption DEF Inv, Queues
  <1> HIDE DEF r
  <1>5. serving.key = None
    BY <1>1, Idle
  <1>6. \A x \in Keys : x # None
    BY BlockingListsAssumption
  <1>7. \A x \in Keys : db'[x].type = "list" /\ blocking_keys'[x] # <<>> => x \in Queued'
    BY <1>1, <1>3, <1>4, <1>5, <1>6 DEF Inv, Loop, Queued
  <1>8. signaled' \subseteq ToSet(ready_keys') \cup ToSet(batch')
    BY <1>1, <1>3 DEF Inv, Loop
  <1> QED BY <1>1, <1>3, <1>4, <1>7, <1>8 DEF Inv, Loop

LEMMA KeyServedStep ==
    ASSUME Inv, KeyServed
    PROVE  Loop'
  <1>1. /\ serving # NotServing /\ serving.todo = <<>> /\ serving' = NotServing
        /\ UNCHANGED <<db, readyvars, handling, batch, executing, blocking_keys>>
    BY DEF KeyServed, dbvars
  <1>2. handling
    BY <1>1 DEF Inv, Loop
  <1>3. ASSUME NEW x \in Keys, db[x].type = "list", blocking_keys[x] # <<>>
        PROVE  x # serving.key
    <2> SUFFICES ASSUME x = serving.key PROVE FALSE
      OBVIOUS
    <2>1. x # None
      BY BlockingListsAssumption
    <2>2. blocking_keys[x] = serving.todo
      BY <1>3, <2>1 DEF Inv, Loop
    <2> QED BY <1>1, <1>3, <2>2
  <1>4. \A x \in Keys : db'[x].type = "list" /\ blocking_keys'[x] # <<>> => x \in Queued'
    <2>1. \A x \in Keys : db[x].type = "list" /\ blocking_keys[x] # <<>> =>
             x \in ToSet(ready_keys) \cup ToSet(batch)
      BY <1>3 DEF Inv, Loop, Queued
    <2> QED BY <1>1, <2>1 DEF Queued, readyvars
  <1> QED BY <1>1, <1>2, <1>4, Idle DEF Inv, Loop, readyvars

LEMMA HandlingEndsStep ==
    ASSUME Inv, HandlingEnds
    PROVE  Loop'
  BY DEF HandlingEnds, Inv, Loop, Queued, dbvars, readyvars

(* The client served next is the oldest of those blocked on the key. *)
LEMMA ServedNext ==
    ASSUME Inv, serving.todo # <<>>
    PROVE  LET c == Head(serving.todo)
               k == serving.key
           IN  /\ handling /\ executing = None /\ k \in Keys /\ c \in Clients
               /\ Tail(serving.todo) \in Seq(Clients)
               /\ db[k].type = "list" =>
                     /\ blocking_keys[k] = serving.todo
                     /\ k \in client[c].keys /\ client[c].cmd \in Commands
                     /\ k \in ToSet(client[c].cmd.keys)
                     /\ Released({c})[k] = Tail(serving.todo)
  <1> DEFINE q == serving.todo
             c == Head(q)
             k == serving.key
  <1>1. handling /\ executing = None
    <2>1. handling
      BY Idle DEF Inv, Loop
    <2> QED BY <2>1 DEF Inv, Loop
  <1>2. q \in Seq(Clients) /\ k \in Keys
    BY DEF Inv, Loop
  <1>3. c \in Clients /\ Tail(q) \in Seq(Clients) /\ c = q[1] /\ c \in ToSet(q)
    <2> HIDE DEF q
    <2>1. q # <<>>
      BY DEF q
    <2> QED BY <1>2, <2>1, EmptySeq, ToSetMember
  <1>4. ASSUME db[k].type = "list"
        PROVE  /\ blocking_keys[k] = q
               /\ k \in client[c].keys /\ client[c].cmd \in Commands
               /\ k \in ToSet(client[c].cmd.keys)
               /\ Released({c})[k] = Tail(q)
    <2>1. blocking_keys[k] = q
      <3>1. k # None
        BY <1>2, BlockingListsAssumption
      <3> QED BY <1>4, <3>1 DEF Inv, Loop
    <2>2. k \in client[c].keys
      BY <1>2, <1>3, <2>1 DEF Inv, Queues
    <2>3. client[c].cmd # None
      BY <1>2, <1>3, <2>2, Unqueued DEF Inv
    <2>4. client[c].cmd \in Commands /\ client[c].keys = ToSet(client[c].cmd.keys)
      <3>1. client[c] \in [cmd : Commands \cup {None}, keys : SUBSET Keys, left : Int]
        BY <1>3 DEF Inv, Queues
      <3>2. client[c].cmd \in Commands \cup {None}
        BY <3>1
      <3> QED BY <1>3, <2>3, <3>2 DEF Inv, Queues
    <2>5. Released({c})[k] = Without(q, {c})
      <3>1. {d \in {c} : k \in client[d].keys} = {c}
        BY <2>2
      <3>2. Released({c})[k] = Without(blocking_keys[k], {d \in {c} : k \in client[d].keys})
        BY <1>2 DEF Released
      <3> QED BY <2>1, <3>1, <3>2
    <2>6. Distinct(q)
      BY <1>2, <2>1 DEF Inv, Queues
    <2>7. Without(q, {c}) = Tail(q)
      BY <1>2, <2>6, WithoutHead
    <2> QED BY <2>1, <2>2, <2>4, <2>5, <2>7
  <1> QED BY <1>1, <1>2, <1>3, <1>4

LEMMA ServeClientStep ==
    ASSUME Inv, ServeClient
    PROVE  StoreStep /\ QueueStep /\ Loop'
  <1> DEFINE c == Head(serving.todo)
             k == serving.key
             t == Tail(serving.todo)
             W == Released({c})
  <1>1. /\ serving.todo # <<>> /\ serving' = [serving EXCEPT !.todo = t]
        /\ UNCHANGED <<handling, batch, executing>>
    BY DEF ServeClient
  <1>2. /\ handling /\ executing = None /\ k \in Keys /\ c \in Clients /\ t \in Seq(Clients)
        /\ db[k].type = "list" =>
              /\ blocking_keys[k] = serving.todo
              /\ k \in client[c].keys /\ client[c].cmd \in Commands
              /\ k \in ToSet(client[c].cmd.keys)
              /\ W[k] = t
    BY <1>1, ServedNext
  <1>3. IF db[k].type = "list"
        THEN Process(c, client[c].cmd, W)
        ELSE UNCHANGED <<dbvars, readyvars, blocking_keys, client>>
    BY DEF ServeClient
  <1>4. serving' \in [key : Keys \cup {None}, todo : Seq(Clients)]
        /\ serving'.key = k /\ serving'.todo = t /\ k # None
    <2>1. serving \in [key : Keys \cup {None}, todo : Seq(Clients)]
      BY DEF Inv, Loop
    <2>2. k # None
      BY <1>2, BlockingListsAssumption
    <2> HIDE DEF t
    <2> QED BY <1>1, <1>2, <2>1, <2>2
  <1>5. ready_keys \in Seq(Keys) /\ signaled \subseteq Keys
    BY DEF Inv, Loop
  <1> HIDE DEF c, k, t, W
  <1>6. CASE db[k].type # "list"
    <2>1. UNCHANGED <<dbvars, readyvars, blocking_keys, client>>
      BY <1>3, <1>6
    <2>2. Loop'
      <3>1. \A x \in Keys : db'[x].type = "list" /\ blocking_keys'[x] # <<>> => x \in Queued'
        BY <1>1, <1>4, <2>1 DEF Inv, Loop, Queued, dbvars, readyvars, k
      <3> QED BY <1>1, <1>2, <1>4, <1>6, <2>1, <3>1 DEF Inv, Loop, dbvars, readyvars
    <2> QED BY <2>1, <2>2 DEF StoreStep, QueueStep
  <1>7. CASE db[k].type = "list"
    <2>1. Process(c, client[c].cmd, W) /\ client[c].cmd \in Commands
      BY <1>2, <1>3, <1>7
    <2>2. Waits(c, client[c].cmd, W) \/ Answers(c, W) \/ Takes(c, W) \/ Moves(c, W)
      BY <1>2, <2>1, Processed DEF Inv
    <2>3. ~Waits(c, client[c].cmd, W)
      BY <1>2, <1>7 DEF Waits
    <2>4. ASSUME Unblock({c}, W), ReadyStep(W),
                 \A x \in Keys : db'[x].type = "list" /\ x = k => db[x].type = "list"
          PROVE  QueueStep /\ Loop'
      <3>1. QueueStep
        BY <1>2, <2>4 DEF QueueStep, W
      <3>2. blocking_keys' = W
        BY <2>4 DEF Unblock
      <3>3. \A x \in Keys : W[x] # <<>> => blocking_keys[x] # <<>>
        BY <1>2, ReleasedLess DEF W, Inv
      <3>4. ASSUME NEW x \in Keys, db'[x].type = "list", blocking_keys'[x] # <<>>
            PROVE  x \in Queued'
        <4>1. db[x].type = "list" \/ x \in signaled'
          BY <2>4, <3>2, <3>4 DEF ReadyStep
        <4>2. CASE db[x].type = "list"
          <5>1. x \in Queued
            BY <3>2, <3>3, <3>4, <4>2 DEF Inv, Loop
          <5> QED BY <1>1, <1>4, <2>4, <5>1 DEF Queued, ReadyStep, k
        <4>3. CASE x \in signaled'
          BY <1>1, <2>4, <4>3 DEF Inv, Loop, Queued, ReadyStep
        <4> QED BY <4>1, <4>2, <4>3
      <3>5. signaled' \subseteq ToSet(ready_keys') \cup ToSet(batch')
        BY <1>1, <2>4 DEF Inv, Loop, ReadyStep
      <3>6. blocking_keys'[serving'.key] = serving'.todo
        BY <1>2, <1>4, <1>7, <3>2
      <3>7. ready_keys' \in Seq(Keys) /\ signaled' \subseteq Keys
        BY <2>4 DEF ReadyStep
      <3>8. Loop'
        BY <1>1, <1>2, <1>4, <3>4, <3>5, <3>6, <3>7 DEF Inv, Loop
      <3> QED BY <3>1, <3>8
    <2>5. CASE Answers(c, W)
      <3>1. ReadyStep(W)
        BY <1>5, <2>5, NoSignal DEF Answers, dbvars
      <3> QED BY <1>7, <2>4, <2>5, <3>1 DEF Answers, StoreStep
    <2>6. CASE Takes(c, W)
      <3>1. PICK l, w : l \in Keys /\ Took(l, w)
        BY <2>6 DEF Takes
      <3>2. ReadyStep(W)
        BY <1>5, <2>6, <3>1, TookTypes, NoSignal DEF Inv, Takes
      <3> QED BY <1>7, <2>4, <2>6, <3>1, <3>2 DEF Takes, StoreStep
    <2>7. CASE Moves(c, W)
      <3>1. PICK x, l, w :
               /\ x \in Keys /\ l \in Keys
               /\ Moved(x, l, w) /\ db[l].type # "string"
               /\ IF db[l].type = "none" THEN SignalKeyAsReady(l, "list", W)
                                         ELSE UNCHANGED readyvars
        BY <2>7 DEF Moves
      <3>2. ReadyStep(W)
        BY <1>5, <3>1, MovedReady DEF Inv
      <3> QED BY <1>7, <2>4, <2>7, <3>1, <3>2 DEF Moves, StoreStep
    <2> QED BY <2>2, <2>3, <2>5, <2>6, <2>7
  <1> QED BY <1>6, <1>7

LEMMA TickStep ==
    ASSUME Inv, Tick
    PROVE  StoreStep /\ QueueStep /\ Loop'
  <1>1. UNCHANGED <<dbvars, readyvars, loopvars, executing, blocking_keys>>
    BY DEF Tick
  <1>2. Loop'
    BY <1>1, LoopUntouched DEF Inv, dbvars
  <1> QED BY <1>1, <1>2 DEF StoreStep, QueueStep

LEMMA Steps ==
    ASSUME Inv, [Next]_vars
    PROVE  StoreStep /\ QueueStep /\ Loop'
  <1>1. ASSUME NEW c \in Clients, NEW cmd \in Commands, Block(c, cmd)
        PROVE  StoreStep /\ QueueStep /\ Loop'
    BY <1>1, BlockStep
  <1>2. ASSUME NEW c \in Clients, NEW k \in Keys, NEW n \in 1..MaxPush,
               NEW w \in {"head", "tail"}, Push(c, k, n, w)
        PROVE  StoreStep /\ QueueStep /\ Loop'
    BY <1>2, PushStep
  <1>3. ASSUME NEW c \in Clients, NEW k \in Keys, Del(c, k) \/ Set(c, k)
        PROVE  StoreStep /\ QueueStep /\ Loop'
    BY <1>3, ReplaceStep DEF Del, Set
  <1>4. ASSUME NEW c \in Clients, NEW k \in Keys, NEW l \in Keys, Rename(c, k, l)
        PROVE  StoreStep /\ QueueStep /\ Loop'
    BY <1>4, RenameStep
  <1>5. ASSUME NEW c \in Clients, Exec(c) \/ Disconnect(c)
        PROVE  StoreStep /\ QueueStep /\ Loop'
    BY <1>5, ExecStep, LeaveStep
  <1>6. ASSUME ExecEnds \/ BeforeSleep
        PROVE  StoreStep /\ QueueStep /\ Loop'
    BY <1>6, ExecStep, LeaveStep
  <1>7. ASSUME Handle
        PROVE  StoreStep /\ QueueStep /\ Loop'
    <2>1. ASSUME TakeReadyKeys \/ TakeKey \/ KeyServed \/ HandlingEnds
          PROVE  UNCHANGED <<dbvars, blocking_keys, client>>
      BY <2>1 DEF TakeReadyKeys, TakeKey, KeyServed, HandlingEnds
    <2>2. CASE TakeReadyKeys \/ TakeKey \/ KeyServed \/ HandlingEnds
      <3>1. Loop'
        BY <2>2, TakeReadyKeysStep, TakeKeyStep, KeyServedStep, HandlingEndsStep
      <3> QED BY <2>1, <2>2, <3>1 DEF StoreStep, QueueStep
    <2> QED BY <1>7, <2>2, ServeClientStep DEF Handle
  <1>8. ASSUME UNCHANGED vars
        PROVE  StoreStep /\ QueueStep /\ Loop'
    <2>1. UNCHANGED <<dbvars, blocking_keys, client>>
          /\ UNCHANGED <<db, readyvars, loopvars, executing, blocking_keys>>
      BY <1>8 DEF vars, dbvars, readyvars, loopvars
    <2>2. Loop'
      BY <2>1, LoopUntouched DEF Inv
    <2> QED BY <2>1, <2>2 DEF StoreStep, QueueStep
  <1> QED BY <1>1, <1>2, <1>3, <1>4, <1>5, <1>6, <1>7, <1>8, TickStep DEF Next

LEMMA Start == Init => Inv
  <1> SUFFICES ASSUME Init PROVE Inv
    OBVIOUS
  <1>1. pushed = 0 /\ taken = {} /\ dropped = {} /\ db = [k \in Keys |-> Absent]
        /\ blocking_keys = [k \in Keys |-> <<>>] /\ client = [c \in Clients |-> NotBlocked]
    BY DEF Init
  <1>2. /\ Value(Absent, 0) /\ Absent.elems = <<>> /\ ToSet(<<>>) = {} /\ Distinct(<<>>)
        /\ Absent.type = "none"
    BY Values
  <1>3. \A k \in Keys : db[k] = Absent /\ db[k].elems = <<>>
    BY <1>1, <1>2
  <1>4. Store
    <2>1. Apart(db) /\ AllOf(db) = {}
      BY <1>2, <1>3 DEF Apart, AllOf
    <2>2. Holds(db, 0)
      BY <1>1, <1>2, <1>3, <2>1 DEF Holds
    <2>3. 0 \in 0..MaxElements
      BY BlockingListsAssumption
    <2> QED BY <1>1, <2>1, <2>2, <2>3 DEF Store
  <1>5. Queues
    <2>1. NotBlocked \in [cmd : Commands \cup {None}, keys : SUBSET Keys, left : Int]
          /\ NotBlocked.cmd = None /\ NotBlocked.keys = {}
      BY DEF NotBlocked
    <2>2. <<>> \in Seq(Clients)
      OBVIOUS
    <2> QED BY <1>1, <1>2, <2>1, <2>2 DEF Queues
  <1>6. Loop
    <2>1. <<>> \in Seq(Keys)
      OBVIOUS
    <2> QED BY <1>1, <1>2, <1>3, <2>1, Idle DEF Init, Loop
  <1> QED BY <1>4, <1>5, <1>6 DEF Inv

LEMMA Inductive == Spec => []Inv
  <1>1. Inv /\ [Next]_vars => Inv'
    BY Steps, StoreKept, QueuesKept DEF Inv
  <1> QED BY <1>1, Start, PTL DEF Spec
-------------------------------------------------------------------------------
(* Theorems *)

(* Keys, queues, clients and the loop have their types: what a woken client's *)
(* command takes is an element, and its blocked state names a command.        *)
THEOREM TypeCorrect == Spec => []TypeOK
  <1>1. Inv => TypeOK
    <2> SUFFICES ASSUME Inv PROVE TypeOK
      OBVIOUS
    <2>1. db \in [Keys -> [type : {"none", "string", "list"}, elems : Seq(1..pushed)]]
          /\ \A k \in Keys : db[k].type = "list" <=> db[k].elems # <<>>
      <3>1. db = [k \in Keys |-> db[k]]
        BY DEF Inv, Store, Holds
      <3>2. \A k \in Keys :
               /\ db[k] \in [type : {"none", "string", "list"}, elems : Seq(1..pushed)]
               /\ db[k].type = "list" <=> db[k].elems # <<>>
        BY DEF Inv, Store, Holds, Value
      <3> QED BY <3>1, <3>2
    <2> QED BY <2>1 DEF Inv, Store, Queues, Loop, TypeOK
  <1> QED BY <1>1, Inductive, PTL

(* Whenever the server is back in its event loop, no client waits for a key   *)
(* that holds a list: every key that came to hold one while somebody waited   *)
(* is in ready_keys, in the batch or being served until its clients are.      *)
THEOREM WakeupsKept == Spec => []NoMissedWakeup
  <1>1. Inv => NoMissedWakeup
    <2> SUFFICES ASSUME Inv, ~handling, executing = None, NEW c \in Clients,
                        NEW k \in client[c].keys, db[k].type = "list"
                 PROVE  FALSE
      BY DEF NoMissedWakeup
    <2>1. k \in Keys
      BY DEF Inv, Queues
    <2>2. c \in ToSet(blocking_keys[k]) /\ blocking_keys[k] \in Seq(Clients)
      BY <2>1 DEF Inv, Queues
    <2>3. blocking_keys[k] # <<>>
      BY <2>2, ToSetMember
    <2>4. k \in Queued
      BY <2>1, <2>3 DEF Inv, Loop
    <2>5. ready_keys = <<>> /\ batch = <<>> /\ serving.key = None /\ ToSet(<<>>) = {}
      BY Idle DEF Inv, Loop
    <2> QED BY <2>1, <2>4, <2>5, BlockingListsAssumption DEF Queued
  <1> QED BY <1>1, Inductive, PTL

(* A client is in the queue of each key it is blocked on, once, and in no     *)
(* other.                                                                     *)
THEOREM QueuesAgree == Spec => []Registered
  <1>1. Inv => Registered
    BY CountedOnce DEF Inv
  <1> QED BY <1>1, Inductive, PTL

(* What a command does to the clients that did not send it: nothing. *)
LEMMA OthersStay ==
    ASSUME Inv, NEW x \in Clients, NEW cmd, cmd \in Commands, NEW W, Process(x, cmd, W),
           NEW c \in Clients, c # x
    PROVE  client'[c] = client[c]
  <1>1. Unblock({x}, W) \/ BlockForKeys(x, cmd, W)
    BY Processed DEF Inv, Waits, Answers, Takes, Moves
  <1>2. client \in [Clients -> [cmd : Commands \cup {None}, keys : SUBSET Keys, left : Int]]
    BY DEF Inv, Queues
  <1> QED BY <1>1, <1>2 DEF Unblock, BlockForKeys

LEMMA BehindWaits ==
    ASSUME Inv, Next, NEW k \in Keys, NEW c \in Clients, NEW d \in Clients,
           client[c].keys = {k}, Ahead(blocking_keys[k], d, c), db' # db
    PROVE  client'[c].cmd # None
  <1>1. client[c].cmd # None
    BY Unqueued DEF Inv
  <1>2. CASE client' = client
    BY <1>1, <1>2
  <1>3. ASSUME NEW x \in Clients, NEW cmd \in Commands, Block(x, cmd)
        PROVE  client'[c].cmd # None
    <2>1. ~Blocked(x) /\ Process(x, cmd, blocking_keys)
      BY <1>3 DEF Block, Calls
    <2>2. c # x
      BY <1>1, <2>1 DEF Blocked
    <2> QED BY <1>1, <2>1, <2>2, OthersStay
  <1>4. CASE ServeClient
    <2> DEFINE x == Head(serving.todo)
    <2>1. db[serving.key].type = "list" /\ serving.todo # <<>>
          /\ Process(x, client[x].cmd, Released({x}))
      BY <1>4 DEF ServeClient, dbvars
    <2>2. /\ serving.key \in Keys /\ x \in Clients
          /\ blocking_keys[serving.key] = serving.todo
          /\ serving.key \in client[x].keys /\ client[x].cmd \in Commands
      BY <2>1, ServedNext
    <2>3. x # c
      <3> SUFFICES ASSUME x = c PROVE FALSE
        OBVIOUS
      <3>1. serving.key = k
        BY <2>2
      <3> DEFINE q == blocking_keys[k]
      <3>2. q \in Seq(Clients) /\ Distinct(q) /\ q # <<>> /\ Head(q) = c
        BY <2>1, <2>2, <3>1 DEF Inv, Queues
      <3>3. PICK i, j \in DOMAIN q : i < j /\ q[j] = c
        BY DEF Ahead
      <3> HIDE DEF q
      <3>4. Head(q) = q[1] /\ DOMAIN q = 1..Len(q) /\ 1 \in DOMAIN q /\ Len(q) \in Nat
        BY <3>2, EmptySeq
      <3>5. j = 1
        BY <3>2, <3>3, <3>4 DEF Distinct
      <3> QED BY <3>3, <3>4, <3>5
    <2> HIDE DEF x
    <2> QED BY <1>1, <2>1, <2>2, <2>3, OthersStay
  <1>5. ASSUME NEW x \in Clients, Disconnect(x) PROVE FALSE
    BY <1>5, LeaveStep
  <1>6. ~Tick /\ ~BeforeSleep
    BY LeaveStep DEF Tick, dbvars
  <1>7. ASSUME Next, ~ServeClient, \A x \in Clients : ~Disconnect(x),
               \A x \in Clients, cmd \in Commands : ~Block(x, cmd)
        PROVE  client' = client
    BY <1>6, <1>7 DEF Next, Push, Del, Set, Replace, Rename, Exec, ExecEnds, Handle,
                      TakeReadyKeys, TakeKey, KeyServed, HandlingEnds
  <1> QED BY <1>2, <1>3, <1>4, <1>5, <1>7

(* Clients that wait for one and the same key are served in the order they    *)
(* came: only the first of its queue is answered with an element, and neither *)
(* blocking nor leaving lets anybody get ahead.                               *)
THEOREM ServedInOrder == Spec => OldestFirst
  <1>1. ASSUME Inv, [Next]_vars
        PROVE  [\A k \in Keys, c, d \in Clients :
                  /\ /\ client[c].keys = {k} /\ client[d].keys = {k}
                     /\ Ahead(blocking_keys[k], d, c) /\ db' # db
                     => client'[c].cmd # None
                  /\ Ahead(blocking_keys'[k], d, c) /\ k \in client[c].keys
                     => Ahead(blocking_keys[k], d, c)]_vars
    <2>1. InOrder
      BY <1>1, Steps, QueuesKept DEF Inv
    <2>2. CASE Next
      BY <1>1, <2>1, <2>2, BehindWaits DEF InOrder
    <2> QED BY <1>1, <2>2
  <1> QED BY <1>1, Inductive, PTL DEF Spec, OldestFirst

(* The lists implement Handoff: what is pushed is stored until one client     *)
(* takes it or it is deleted, and no element is handed out twice, whatever    *)
(* moves, renames and served clients do with the lists.                       *)
THEOREM ImplementsHandoff == Spec => HandsOff
  <1>1. Init => Queue!Init
    <2> SUFFICES ASSUME Init PROVE Queue!Init
      OBVIOUS
    <2>1. \A k \in Keys : ToSet(db[k].elems) = {}
      BY Values DEF Init
    <2> QED BY <2>1 DEF Queue!Init, Init
  <1>2. Inv /\ [Next]_vars => [Queue!Next]_<<AllOf(db), taken, dropped>>
    BY Steps, StoreKept DEF Inv, HandoffStep
  <1>3. Inv /\ [Next]_vars =>
           [Queue!Next]_<<UNION {ToSet(db[k].elems) : k \in Keys}, taken, dropped>>
    BY <1>2 DEF AllOf
  <1> QED BY <1>1, <1>3, Inductive, PTL DEF Spec, HandsOff, Queue!Spec
===============================================================================
