----------------------------- MODULE LootProofs -----------------------------
(***************************************************************************)
(* What Loot promises, for any players, items, workers and bounds: an item *)
(* is picked up once; and, with one worker, quests are rewarded exactly,   *)
(* experience is accounted for, the clients show what the sessions hold,   *)
(* and no item is lost or made up.                                         *)
(***************************************************************************)
EXTENDS Loot, FiniteSetTheorems, FunctionTheorems, WellFoundedInduction, TLAPS
(* What the operators on sequences return that Handlers uses to make and    *)
(* consume the operations of a handler.                                     *)

\* A set of numbers that has a member has a least one.
LEMMA Least ==
    ASSUME NEW U \in SUBSET Nat, U # {}
    PROVE  \E m \in U : \A k \in U : ~(k < m)
  <1> DEFINE R == OpToRel(<, Nat)
  <1>1. IsWellFoundedOn(R, Nat)
    BY NatLessThanWellFounded
  <1>2. \A x, y \in Nat : <<y, x>> \in R <=> y < x
    BY DEF OpToRel
  <1> HIDE DEF R
  <1>3. \E x \in U : \A y \in U : ~(<<y, x>> \in R)
    BY <1>1, WFMin
  <1> QED BY <1>2, <1>3

\* Induction, for a set of numbers instead of a predicate.
LEMMA Induction ==
    ASSUME NEW T, 0 \in T, \A n \in Nat : n \in T => n + 1 \in T
    PROVE  \A n \in Nat : n \in T
  <1> DEFINE U == Nat \ T
  <1> SUFFICES ASSUME U # {} PROVE FALSE
    OBVIOUS
  <1>1. PICK m \in U : \A k \in U : ~(k < m)
    BY Least
  <1>2. m # 0 /\ m - 1 \in Nat /\ m - 1 < m
    OBVIOUS
  <1>3. m - 1 \in T
    BY <1>1, <1>2
  <1> QED BY <1>2, <1>3
-----------------------------------------------------------------------------

\* The recursive function inside FlattenSeq exists.
LEMMA FlattenExists ==
    ASSUME NEW g, NEW n \in Nat
    PROVE  \E f : f = [i \in 1 .. n |-> IF i = 1 THEN g[i] ELSE f[i - 1] \o g[i]]
  <1> DEFINE Good(m, f) == f = [i \in 1 .. m |-> IF i = 1 THEN g[i] ELSE f[i - 1] \o g[i]]
             T == {m \in Nat : \E f : Good(m, f)}
  <1>1. 0 \in T
    <2>1. Good(0, [i \in 1 .. 0 |-> g[i]])
      OBVIOUS
    <2> QED BY <2>1
  <1>2. ASSUME NEW m \in Nat, m \in T PROVE m + 1 \in T
    <2>1. PICK f : Good(m, f)
      BY <1>2
    <2> DEFINE h == [i \in 1 .. m + 1 |->
                       IF i \in 1 .. m THEN f[i]
                       ELSE IF i = 1 THEN g[i] ELSE f[i - 1] \o g[i]]
    <2>2. \A i \in 1 .. m + 1 : h[i] = IF i = 1 THEN g[i] ELSE h[i - 1] \o g[i]
      <3> SUFFICES ASSUME NEW i \in 1 .. m + 1
                   PROVE  h[i] = IF i = 1 THEN g[i] ELSE h[i - 1] \o g[i]
        OBVIOUS
      <3>1. i # 1 => i - 1 \in 1 .. m /\ i - 1 \in 1 .. m + 1
        OBVIOUS
      <3>2. i # 1 => h[i - 1] = f[i - 1]
        BY <3>1
      <3>3. i \in 1 .. m => f[i] = IF i = 1 THEN g[i] ELSE f[i - 1] \o g[i]
        BY <2>1
      <3> QED BY <3>2, <3>3
    <2>3. Good(m + 1, h)
      <3> DEFINE e == [i \in 1 .. m + 1 |-> IF i = 1 THEN g[i] ELSE h[i - 1] \o g[i]]
      <3>1. \A i \in 1 .. m + 1 : h[i] = e[i]
        BY <2>2
      <3>2. /\ h = [i \in 1 .. m + 1 |-> h[i]] /\ e = [i \in 1 .. m + 1 |-> e[i]]
        OBVIOUS
      <3>3. h = e
        <4> HIDE DEF h, e
        <4> QED BY <3>1, <3>2
      <3> QED BY <3>3
    <2>4. \E x : Good(m + 1, x)
      <3> HIDE DEF h, Good
      <3> QED BY <2>3
    <2>5. m + 1 \in Nat
      OBVIOUS
    <2> HIDE DEF Good
    <2> QED BY <2>4, <2>5, Zenon
  <1>3. \A m \in Nat : m \in T
    <2> HIDE DEF T
    <2> QED BY <1>1, <1>2, Induction
  <1> QED BY <1>3

\* SetToSeq lists members of its set.
LEMMA SetToSeqTypes ==
    ASSUME NEW S, IsFiniteSet(S)
    PROVE  /\ Cardinality(S) \in Nat
           /\ SetToSeq(S) \in [1 .. Cardinality(S) -> S]
  <1>1. Cardinality(S) \in Nat /\ ExistsBijection(1 .. Cardinality(S), S)
    BY FS_CardinalityType
  <1>2. PICK f \in [1 .. Cardinality(S) -> S] : IsInjective(f)
    BY <1>1 DEF ExistsBijection, Bijection, Injection
  <1> QED BY <1>1, <1>2 DEF SetToSeq

LEMMA Concat ==
    ASSUME NEW T, NEW s \in Seq(T), NEW t \in Seq(T), NEW r, r = s \o t
    PROVE  /\ r \in Seq(T) /\ Len(r) = Len(s) + Len(t) /\ Len(s) \in Nat /\ Len(t) \in Nat
           /\ \A k \in 1 .. Len(r) : r[k] = IF k <= Len(s) THEN s[k] ELSE t[k - Len(s)]
  OBVIOUS

\* What is left of a handler after its next operation has put ops in front.
LEMMA Rest ==
    ASSUME NEW T, NEW s \in Seq(T), NEW t \in Seq(T), t # <<>>, NEW r, r = s \o Tail(t)
    PROVE  /\ r \in Seq(T)
           /\ Len(r) = Len(s) + Len(t) - 1
           /\ \A k \in 1 .. Len(r) :
                 \/ k \in 1 .. Len(s) /\ r[k] = s[k]
                 \/ k - Len(s) + 1 \in 2 .. Len(t) /\ r[k] = t[k - Len(s) + 1]
           /\ \A k \in 1 .. Len(s) : k \in 1 .. Len(r) /\ r[k] = s[k]
           /\ \A j \in 2 .. Len(t) : /\ j - 1 + Len(s) \in 1 .. Len(r)
                                     /\ r[j - 1 + Len(s)] = t[j]
  <1> DEFINE u == Tail(t)
  <1>1. /\ u \in Seq(T) /\ Len(t) \in Nat \ {0} /\ Len(u) = Len(t) - 1
        /\ \A k \in 1 .. Len(u) : u[k] = t[k + 1]
    OBVIOUS
  <1> HIDE DEF u
  <1>2. r = s \o u
    BY DEF u
  <1>3. /\ r \in Seq(T) /\ Len(r) = Len(s) + Len(u)
        /\ \A k \in 1 .. Len(r) : r[k] = IF k <= Len(s) THEN s[k] ELSE u[k - Len(s)]
    BY <1>1, <1>2, SMTT(30)
  <1>4. Len(s) \in Nat /\ Len(u) \in Nat
    BY <1>1
  <1>5. ASSUME NEW k \in 1 .. Len(r)
        PROVE  \/ k \in 1 .. Len(s) /\ r[k] = s[k]
               \/ k - Len(s) + 1 \in 2 .. Len(t) /\ r[k] = t[k - Len(s) + 1]
    <2>1. CASE k <= Len(s)
      BY <1>3, <1>4, <2>1
    <2>2. CASE ~(k <= Len(s))
      <3>1. k - Len(s) \in 1 .. Len(u) /\ k - Len(s) + 1 \in 2 .. Len(t)
        BY <1>1, <1>3, <1>4, <2>2
      <3>2. r[k] = u[k - Len(s)]
        BY <1>3, <2>2
      <3> QED BY <1>1, <3>1, <3>2
    <2> QED BY <2>1, <2>2
  <1>6. ASSUME NEW j \in 2 .. Len(t)
        PROVE  j - 1 + Len(s) \in 1 .. Len(r) /\ r[j - 1 + Len(s)] = t[j]
    <2>1. j - 1 + Len(s) \in 1 .. Len(r) /\ ~(j - 1 + Len(s) <= Len(s))
      BY <1>1, <1>3, <1>4
    <2>2. j - 1 \in 1 .. Len(u) /\ j - 1 + Len(s) - Len(s) = j - 1 /\ j - 1 + 1 = j
      BY <1>1, <1>4
    <2>3. PICK q \in 1 .. Len(r) : q = j - 1 + Len(s)
      BY <2>1
    <2>4. r[q] = u[q - Len(s)]
      BY <1>3, <2>1, <2>3
    <2>5. u[j - 1] = t[j]
      BY <1>1, <2>2
    <2> QED BY <2>2, <2>3, <2>4, <2>5
  <1>7. \A k \in 1 .. Len(s) : k \in 1 .. Len(r) /\ r[k] = s[k]
    BY <1>3, <1>4
  <1>8. Len(r) = Len(s) + Len(t) - 1
    BY <1>1, <1>3, <1>4
  <1> QED BY <1>3, <1>5, <1>6, <1>7, <1>8

\* SetToSeq lists every member of its set.
LEMMA SetToSeqAll ==
    ASSUME NEW S, IsFiniteSet(S)
    PROVE  \A x \in S : \E i \in 1 .. Cardinality(S) : SetToSeq(S)[i] = x
  <1> DEFINE n == Cardinality(S)
             f == SetToSeq(S)
  <1>1. n \in Nat /\ ExistsBijection(1 .. n, S)
    BY FS_CardinalityType
  <1>2. \E q \in [1 .. n -> S] : IsInjective(q)
    BY <1>1 DEF ExistsBijection, Bijection, Injection
  <1>3. f \in [1 .. n -> S] /\ IsInjective(f)
    BY <1>2 DEF SetToSeq
  <1>4. f \in Injection(1 .. n, S)
    <2> HIDE DEF f, n
    <2> QED BY <1>3 DEF Injection
  <1>5. IsFiniteSet(1 .. n) /\ Cardinality(1 .. n) = n
    BY <1>1, FS_Interval
  <1>6. f \in Surjection(1 .. n, S)
    <2>1. n = Cardinality(S)
      OBVIOUS
    <2> HIDE DEF f, n
    <2> QED BY <1>4, <1>5, <2>1, FS_Injection
  <1> QED BY <1>6, Zenon DEF Surjection

\* FlattenSeq of sequences of one element each.
LEMMA FlattenSingles ==
    ASSUME NEW T, NEW n \in Nat, NEW g \in [1 .. n -> {<<x>> : x \in T}]
    PROVE  /\ FlattenSeq(g) \in Seq(T) /\ Len(FlattenSeq(g)) = n
           /\ \A k \in 1 .. n : FlattenSeq(g)[k] = g[k][1]
  <1> DEFINE Good(r, m) == r \in Seq(T) /\ Len(r) = m /\ \A k \in 1 .. m : r[k] = g[k][1]
  <1>0. /\ g \in Seq({<<x>> : x \in T}) /\ Len(g) = n
        /\ \A i \in 1 .. n : g[i][1] \in T /\ g[i] = <<g[i][1]>>
    OBVIOUS
  <1>1. CASE n = 0
    <2>1. FlattenSeq(g) = g
      BY <1>0, <1>1 DEF FlattenSeq
    <2>2. g = <<>>
      BY <1>0, <1>1
    <2>3. Good(<<>>, 0)
      OBVIOUS
    <2> HIDE DEF Good
    <2>4. FlattenSeq(g) = <<>>
      BY <2>1, <2>2, Zenon
    <2>5. Good(FlattenSeq(g), n)
      BY <1>1, <2>3, <2>4
    <2> QED BY <2>5, Zenon DEF Good
  <1>2. CASE n # 0
    <2> DEFINE f == CHOOSE x : x = [i \in 1 .. n |-> IF i = 1 THEN g[i] ELSE x[i - 1] \o g[i]]
    <2>1. f = [i \in 1 .. n |-> IF i = 1 THEN g[i] ELSE f[i - 1] \o g[i]]
      BY FlattenExists
    <2>2. FlattenSeq(g) = f[n]
      BY <1>0, <1>2 DEF FlattenSeq
    <2> HIDE DEF f
    <2> DEFINE U == {m \in Nat : m \in 1 .. n => Good(f[m], m)}
    <2>3. 0 \in U
      OBVIOUS
    <2>4. ASSUME NEW m \in Nat, m \in U PROVE m + 1 \in U
      <3> SUFFICES ASSUME m + 1 \in 1 .. n PROVE Good(f[m + 1], m + 1)
        OBVIOUS
      <3>1. PICK i \in 1 .. n : i = m + 1
        OBVIOUS
      <3>2. \A j \in 1 .. n : f[j] = IF j = 1 THEN g[j] ELSE f[j - 1] \o g[j]
        BY <2>1, Zenon
      <3>3. f[i] = IF i = 1 THEN g[i] ELSE f[i - 1] \o g[i]
        BY <3>2, Zenon
      <3>4. g[i] = <<g[i][1]>> /\ g[i][1] \in T /\ (i # 1 => i - 1 = m /\ m \in 1 .. n)
        BY <1>0, <3>1
      <3>5. CASE i = 1
        <4>1. f[i] = <<g[i][1]>> /\ Good(<<g[i][1]>>, 1)
          BY <3>3, <3>4, <3>5
        <4> QED BY <3>1, <3>5, <4>1
      <3>6. CASE i # 1
        <4>1. Good(f[m], m)
          BY <2>4, <3>4, <3>6
        <4>2. PICK u : u = f[m]
          OBVIOUS
        <4>3. f[i] = u \o <<g[i][1]>>
          BY <3>3, <3>4, <3>6, <4>2
        <4>4. u \in Seq(T) /\ Len(u) = m /\ \A k \in 1 .. m : u[k] = g[k][1]
          BY <4>1, <4>2
        <4> DEFINE r == u \o <<g[i][1]>>
        <4>5. /\ r \in Seq(T) /\ Len(r) = m + 1
              /\ \A k \in 1 .. m + 1 : r[k] = IF k <= m THEN u[k] ELSE g[i][1]
          BY <3>4, <4>4
        <4> HIDE DEF r
        <4>6. Good(r, m + 1)
          BY <3>1, <4>4, <4>5
        <4> QED BY <3>1, <4>3, <4>6 DEF r
      <3> QED BY <3>5, <3>6
    <2>5. \A m \in Nat : m \in U
      <3> HIDE DEF U
      <3> QED BY <2>3, <2>4, Induction
    <2>6. Good(f[n], n)
      BY <1>2, <2>5
    <2> HIDE DEF Good
    <2>7. Good(FlattenSeq(g), n)
      BY <2>2, <2>6, Zenon
    <2> QED BY <2>7, Zenon DEF Good
  <1> QED BY <1>1, <1>2

\* One operation h[x] for every member x of S: what For makes of them.
Singly(h, S) == [i \in 1 .. Cardinality(S) |-> <<h[SetToSeq(S)[i]]>>]

LEMMA ForEach ==
    ASSUME NEW T, NEW S, IsFiniteSet(S), NEW h \in [S -> T]
    PROVE  /\ FlattenSeq(Singly(h, S)) \in Seq(T)
           /\ \A k \in 1 .. Len(FlattenSeq(Singly(h, S))) :
                 \E x \in S : FlattenSeq(Singly(h, S))[k] = h[x]
           /\ \A x \in S :
                 \E k \in 1 .. Len(FlattenSeq(Singly(h, S))) : FlattenSeq(Singly(h, S))[k] = h[x]
  <1>1. PICK n \in Nat : n = Cardinality(S)
    BY SetToSeqTypes
  <1>2. PICK s \in [1 .. n -> S] : s = SetToSeq(S)
    BY <1>1, SetToSeqTypes
  <1>3. \A x \in S : \E i \in 1 .. n : s[i] = x
    BY <1>1, <1>2, SetToSeqAll
  <1>4. PICK g \in [1 .. n -> {<<x>> : x \in T}] :
            g = Singly(h, S) /\ \A i \in 1 .. n : g[i][1] = h[s[i]]
    <2> DEFINE g == [i \in 1 .. n |-> <<h[s[i]]>>]
    <2>1. \A i \in 1 .. n : h[s[i]] \in T
      BY <1>2
    <2>2. g \in [1 .. n -> {<<x>> : x \in T}]
      BY <2>1, Zenon
    <2>3. \A i \in 1 .. n : g[i][1] = h[s[i]]
      OBVIOUS
    <2>4. g = Singly(h, S)
      BY <1>1, <1>2, Zenon DEF Singly
    <2> QED BY <2>2, <2>3, <2>4, Zenon
  <1>5. PICK r : r = FlattenSeq(g)
    OBVIOUS
  <1>6. r \in Seq(T) /\ Len(r) = n /\ \A k \in 1 .. n : r[k] = g[k][1]
    BY <1>5, FlattenSingles, ZenonT(60)
  <1>7. \A k \in 1 .. Len(r) : \E x \in S : r[k] = h[x]
    BY <1>2, <1>4, <1>6
  <1>8. \A x \in S : \E k \in 1 .. Len(r) : r[k] = h[x]
    BY <1>3, <1>4, <1>6
  <1> QED BY <1>4, <1>5, <1>6, <1>7, <1>8, Zenon
-----------------------------------------------------------------------------

\* Powers of two, from the cardinality of a power set.
LEMMA PowerIsCount ==
    ASSUME NEW n \in Nat
    PROVE  /\ IsFiniteSet(1 .. n) /\ IsFiniteSet(SUBSET (1 .. n))
           /\ Cardinality(SUBSET (1 .. n)) = 2 ^ n
  <1>1. IsFiniteSet(1 .. n) /\ Cardinality(1 .. n) = n
    BY FS_Interval
  <1> QED BY <1>1, FS_SUBSET, Zenon

LEMMA PowerPositive ==
    ASSUME NEW n \in Nat
    PROVE  2 ^ n \in Nat \ {0}
  <1>1. IsFiniteSet(SUBSET (1 .. n)) /\ Cardinality(SUBSET (1 .. n)) = 2 ^ n
    BY PowerIsCount
  <1>2. {} \in SUBSET (1 .. n)
    OBVIOUS
  <1>3. SUBSET (1 .. n) # {}
    BY <1>2
  <1>4. Cardinality(SUBSET (1 .. n)) \in Nat
    BY <1>1, FS_CardinalityType
  <1>5. Cardinality(SUBSET (1 .. n)) # 0
    BY <1>1, <1>3, FS_EmptySet
  <1> QED BY <1>1, <1>4, <1>5, Zenon

LEMMA PowerZero == 2 ^ 0 = 1
  OBVIOUS

LEMMA PowerDoubles ==
    ASSUME NEW n \in Nat
    PROVE  2 ^ (n + 1) = 2 ^ n + 2 ^ n
  <1> DEFINE S == SUBSET (1 .. n)
             T == {B \cup {n + 1} : B \in S}
             f == [B \in S |-> B \cup {n + 1}]
  <1>1. n + 1 \in Nat /\ n + 1 \notin 1 .. n /\ 1 .. n + 1 = (1 .. n) \cup {n + 1}
    OBVIOUS
  <1>2. SUBSET (1 .. n + 1) = S \cup T
    <2>1. ASSUME NEW B \in SUBSET (1 .. n + 1) PROVE B \in S \cup T
      <3>1. CASE n + 1 \in B
        <4>1. B \ {n + 1} \in S /\ B = (B \ {n + 1}) \cup {n + 1}
          BY <1>1, <2>1, <3>1, Zenon
        <4> QED BY <4>1, Zenon
      <3>2. CASE n + 1 \notin B
        BY <1>1, <2>1, <3>2, Zenon
      <3> QED BY <3>1, <3>2
    <2>2. ASSUME NEW B \in S \cup T PROVE B \in SUBSET (1 .. n + 1)
      BY <1>1, <2>2, Zenon
    <2> HIDE DEF S, T
    <2> QED BY <2>1, <2>2, Zenon
  <1>3. S \cap T = {}
    BY <1>1, Zenon
  <1>4. ExistsBijection(S, T)
    <2>1. f \in [S -> T]
      BY Zenon
    <2>2. ASSUME NEW B \in S, NEW C \in S, f[B] = f[C] PROVE B = C
      <3>1. B \cup {n + 1} = C \cup {n + 1} /\ n + 1 \notin B /\ n + 1 \notin C
        BY <1>1, <2>2, Zenon
      <3>2. \A x : x \in B <=> x \in C
        BY <3>1, Zenon
      <3> QED BY <3>2, Zenon
    <2>3. f \in Injection(S, T)
      BY <2>1, <2>2, Fun_IsInj, Zenon
    <2>4. \A y \in T : \E B \in S : f[B] = y
      BY Zenon
    <2>5. f \in Surjection(S, T)
      BY <2>1, <2>4, Zenon DEF Surjection
    <2> QED BY <2>3, <2>5, Zenon DEF Bijection, ExistsBijection
  <1>5. IsFiniteSet(S) /\ Cardinality(S) = 2 ^ n
    BY PowerIsCount
  <1>6. Cardinality(S \cup T) = 2 ^ (n + 1)
    BY <1>1, <1>2, PowerIsCount, Zenon
  <1> HIDE DEF S, T
  <1>7. IsFiniteSet(T) /\ Cardinality(T) = 2 ^ n
    BY <1>4, <1>5, FS_Bijection, Zenon
  <1>8. Cardinality(S \cup T) = Cardinality(S) + Cardinality(T) - Cardinality(S \cap T)
    BY <1>5, <1>7, FS_Union, Zenon
  <1>9. Cardinality(S \cap T) = 0
    BY <1>3, FS_EmptySet, Zenon
  <1>10. 2 ^ n \in Nat
    BY PowerPositive
  <1>11. Cardinality(S \cup T) = 2 ^ n + 2 ^ n - 0
    BY <1>5, <1>7, <1>8, <1>9, Zenon
  <1>12. PICK c \in Nat : c = 2 ^ n
    BY <1>10, Zenon
  <1>13. c + c - 0 = c + c
    OBVIOUS
  <1> QED BY <1>6, <1>11, <1>12, <1>13, Zenon
-----------------------------------------------------------------------------
(* Levels: what exp_for_next_level and the loop after m_xp += return.      *)

LEMMA Multiplies ==
    ASSUME NEW a \in Nat \ {0}, NEW c \in Nat \ {0}
    PROVE  /\ a * c \in Nat \ {0}
           /\ a * (c + c) = a * c + a * c
           /\ a * 1 = a
           /\ a * (c - 1) = a * c - a
  OBVIOUS

\* The cost of a level is positive and doubles with every level.
LEMMA Costs ==
    /\ exp_for_next_level(1) = EXP_BASE
    /\ \A l \in Nat \ {0} :
          /\ exp_for_next_level(l) \in Nat \ {0}
          /\ exp_for_next_level(l + 1) = exp_for_next_level(l) + exp_for_next_level(l)
          /\ EXP_BASE * (2 ^ (l - 1) - 1) = exp_for_next_level(l) - EXP_BASE
  <1>1. EXP_BASE \in Nat \ {0}
    BY LootAssumption
  <1>2. exp_for_next_level(1) = EXP_BASE
    <2>1. exp_for_next_level(1) = EXP_BASE * 2 ^ 0
      BY DEF exp_for_next_level
    <2> QED BY <1>1, <2>1, PowerZero, Multiplies
  <1>3. ASSUME NEW l \in Nat \ {0}
        PROVE  /\ exp_for_next_level(l) \in Nat \ {0}
               /\ exp_for_next_level(l + 1) = exp_for_next_level(l) + exp_for_next_level(l)
               /\ EXP_BASE * (2 ^ (l - 1) - 1) = exp_for_next_level(l) - EXP_BASE
    <2>1. l - 1 \in Nat /\ l - 1 + 1 = l /\ (l + 1) - 1 = l
      OBVIOUS
    <2>2. 2 ^ (l - 1) \in Nat \ {0} /\ 2 ^ (l - 1 + 1) = 2 ^ (l - 1) + 2 ^ (l - 1)
      BY <2>1, PowerPositive, PowerDoubles
    <2>3. PICK c \in Nat \ {0} : c = 2 ^ (l - 1)
      BY <2>2, Zenon
    <2>4. 2 ^ ((l + 1) - 1) = c + c
      BY <2>1, <2>2, <2>3, Zenon
    <2>5. /\ exp_for_next_level(l) = EXP_BASE * c
          /\ exp_for_next_level(l + 1) = EXP_BASE * (c + c)
      BY <2>3, <2>4, Zenon DEF exp_for_next_level
    <2>6. EXP_BASE * (2 ^ (l - 1) - 1) = EXP_BASE * (c - 1)
      BY <2>3, Zenon
    <2>7. /\ EXP_BASE * c \in Nat \ {0} /\ EXP_BASE * (c + c) = EXP_BASE * c + EXP_BASE * c
          /\ EXP_BASE * (c - 1) = EXP_BASE * c - EXP_BASE
      BY <1>1, Multiplies
    <2> QED BY <2>5, <2>6, <2>7, Zenon
  <1> QED BY <1>2, <1>3

\* Some level costs more than any given amount of experience.
LEMMA CostsGrow ==
    \A n \in Nat : exp_for_next_level(n + 1) > n
  <1> DEFINE e(l) == exp_for_next_level(l)
             T == {n \in Nat : e(n + 1) > n}
  <1>1. \A l \in Nat \ {0} : e(l) \in Nat \ {0} /\ e(l + 1) = e(l) + e(l)
    BY Costs
  <1> HIDE DEF e
  <1>2. 0 \in T
    <2>1. e(0 + 1) \in Nat \ {0}
      BY <1>1
    <2> QED BY <2>1
  <1>3. ASSUME NEW n \in Nat, n \in T PROVE n + 1 \in T
    <2>1. n + 1 \in Nat \ {0} /\ e(n + 1) > n
      BY <1>3
    <2>2. e(n + 1) \in Nat /\ e((n + 1) + 1) = e(n + 1) + e(n + 1)
      BY <1>1, <2>1
    <2> QED BY <2>1, <2>2
  <1>4. \A n \in Nat : n \in T
    <2> HIDE DEF T
    <2> QED BY <1>2, <1>3, Induction
  <1> QED BY <1>4 DEF e

\* The loop ends: some function satisfies the equation of LevelUp.  It is the
\* one that goes to the first level that cannot be paid for any more.
LEMMA LevelUpExists ==
    \E f : f = [lx \in (Nat \ {0}) \X Nat |->
                  IF lx[2] >= exp_for_next_level(lx[1])
                  THEN f[<<lx[1] + 1, lx[2] - exp_for_next_level(lx[1])>>]
                  ELSE lx]
  <1> DEFINE e == [l \in Nat \ {0} |-> exp_for_next_level(l)]
             D == (Nat \ {0}) \X Nat
             Stops(l, n) == {m \in Nat : m >= l /\ n < e[m + 1]}
             Ends(l, n) == {r \in D : /\ r[1] \in Stops(l, n) /\ r[2] = n - e[r[1]]
                                      /\ \A k \in Stops(l, n) : ~(k < r[1])}
             Final(l, n) == CHOOSE r : r \in Ends(l, n)
             f == [lx \in D |-> Final(lx[1], e[lx[1]] + lx[2])]
             g == [lx \in D |-> IF lx[2] >= e[lx[1]] THEN f[<<lx[1] + 1, lx[2] - e[lx[1]]>>]
                                                     ELSE lx]
  <1>1. \A l \in Nat \ {0} : e[l] \in Nat \ {0} /\ e[l + 1] = e[l] + e[l]
    <2> SUFFICES ASSUME NEW l \in Nat \ {0}
                 PROVE  e[l] \in Nat \ {0} /\ e[l + 1] = e[l] + e[l]
      OBVIOUS
    <2>1. l + 1 \in Nat \ {0}
      OBVIOUS
    <2>2. e[l] = exp_for_next_level(l) /\ e[l + 1] = exp_for_next_level(l + 1)
      BY <2>1, Zenon
    <2> HIDE DEF e
    <2> QED BY <2>2, Costs
  <1> HIDE DEF e
  <1>2. ASSUME NEW l \in Nat \ {0}, NEW x \in Nat
        PROVE  f[<<l, x>>] = g[<<l, x>>]
    <2>1. <<l, x>> \in D /\ <<l, x>>[1] = l /\ <<l, x>>[2] = x
      OBVIOUS
    <2>2. f[<<l, x>>] = Final(l, e[l] + x)
      BY <2>1 DEF f
    <2>3. e[l] \in Nat /\ e[l] # 0 /\ e[l + 1] = e[l] + e[l]
      BY <1>1
    <2>4. CASE x >= e[l]
      <3>1. l + 1 \in Nat \ {0} /\ x - e[l] \in Nat
        BY <2>3, <2>4
      <3>2. PICK y \in Nat : y = x - e[l]
        BY <3>1
      <3>3. <<l + 1, y>> \in D /\ <<l + 1, y>>[1] = l + 1 /\ <<l + 1, y>>[2] = y
        BY <3>1
      <3>4. f[<<l + 1, y>>] = Final(l + 1, e[l + 1] + y)
        BY <3>3 DEF f
      <3>5. e[l + 1] + y = e[l] + x
        BY <2>3, <3>2
      <3>6. Stops(l + 1, e[l] + x) = Stops(l, e[l] + x)
        <4>1. ASSUME NEW m \in Nat, m >= l, e[l] + x < e[m + 1] PROVE m >= l + 1
          <5>1. m # l
            BY <2>3, <2>4, <4>1
          <5> QED BY <4>1, <5>1
        <4>2. \A m \in Nat : m >= l + 1 => m >= l
          OBVIOUS
        <4> QED BY <4>1, <4>2, Zenon DEF Stops
      <3>7. g[<<l, x>>] = f[<<l + 1, y>>]
        BY <2>1, <2>4, <3>2, Zenon DEF g
      <3>8. Final(l + 1, e[l + 1] + y) = Final(l, e[l] + x)
        <4>1. Final(l + 1, e[l + 1] + y) = Final(l + 1, e[l] + x)
          BY <3>5, Zenon
        <4>2. Ends(l + 1, e[l] + x) = Ends(l, e[l] + x)
          <5> HIDE DEF Stops, D
          <5> QED BY <3>6, Zenon
        <4> HIDE DEF Ends
        <4> QED BY <4>1, <4>2, Zenon
      <3> HIDE DEF f, g, Final
      <3> QED BY <2>2, <3>4, <3>7, <3>8, Zenon
    <2>5. CASE ~(x >= e[l])
      <3>1. l \in Stops(l, e[l] + x)
        BY <2>3, <2>5
      <3>2. \A k \in Stops(l, e[l] + x) : k \in Nat /\ ~(k < l)
        OBVIOUS
      <3>3. PICK n \in Nat : n = e[l] + x /\ n - e[l] = x
        BY <2>3
      <3>4. <<l, x>> \in Ends(l, n)
        <4> HIDE DEF Stops, D
        <4> QED BY <2>1, <3>1, <3>2, <3>3, Zenon
      <3>5. ASSUME NEW r \in Ends(l, n) PROVE r = <<l, x>>
        <4> HIDE DEF Stops
        <4>1. r \in D /\ r[1] \in Nat /\ ~(r[1] < l) /\ ~(l < r[1])
          BY <3>1, <3>2, <3>3
        <4>2. PICK m \in Nat \ {0}, y \in Nat : r = <<m, y>>
          BY <4>1
        <4>3. m = l
          BY <4>1, <4>2
        <4>4. y = n - e[m]
          BY <4>2
        <4> QED BY <3>3, <4>2, <4>3, <4>4, Zenon
      <3>7. Final(l, e[l] + x) = <<l, x>>
        <4> HIDE DEF Ends
        <4> QED BY <3>3, <3>4, <3>5, Zenon
      <3>8. g[<<l, x>>] = <<l, x>>
        BY <2>1, <2>5, Zenon DEF g
      <3> QED BY <2>2, <3>7, <3>8, Zenon
    <2> QED BY <2>4, <2>5
  <1>3. \A lx \in D : f[lx] = g[lx]
    <2> SUFFICES ASSUME NEW lx \in D PROVE f[lx] = g[lx]
      OBVIOUS
    <2>1. PICK l \in Nat \ {0}, x \in Nat : lx = <<l, x>>
      OBVIOUS
    <2> HIDE DEF f, g
    <2> QED BY <1>2, <2>1
  <1>4. f = [lx \in D |-> f[lx]] /\ g = [lx \in D |-> g[lx]]
    <2> HIDE DEF D, Final
    <2> QED OBVIOUS
  <1>5. f = g
    <2> HIDE DEF f, g, D
    <2> QED BY <1>3, <1>4
  <1> HIDE DEF f
  <1> QED BY <1>5, ZenonT(60) DEF g, e, D

\* The loop spends the cost of each level it gives and stops when what is left
\* does not pay for the next one: cost and remainder together stay the same,
\* because the cost of the next level is what all levels so far have cost.
LEMMA LevelUpResult ==
    ASSUME NEW l \in Nat \ {0}, NEW x \in Nat
    PROVE  LET r == Levelled(l, x)
           IN  /\ r[1] \in Nat \ {0} /\ r[2] \in Nat
               /\ r[2] < exp_for_next_level(r[1])
               /\ exp_for_next_level(r[1]) + r[2] = exp_for_next_level(l) + x
  <1> DEFINE e(k) == exp_for_next_level(k)
             D == (Nat \ {0}) \X Nat
             Good(r, n) == /\ r[1] \in Nat \ {0} /\ r[2] \in Nat
                           /\ r[2] < e(r[1]) /\ e(r[1]) + r[2] = n
             Bad == {y \in Nat : \E k \in Nat \ {0} : ~Good(LevelUp[<<k, y>>], e(k) + y)}
  <1>1. \A k \in Nat \ {0} : e(k) \in Nat \ {0} /\ e(k + 1) = e(k) + e(k)
    BY Costs
  <1>2. LevelUp = [lx \in D |-> IF lx[2] >= e(lx[1])
                                THEN LevelUp[<<lx[1] + 1, lx[2] - e(lx[1])>>] ELSE lx]
    BY LevelUpExists, Zenon DEF LevelUp
  <1> HIDE DEF e
  <1>3. ASSUME NEW k \in Nat \ {0}, NEW y \in Nat
        PROVE  LevelUp[<<k, y>>] = IF y >= e(k) THEN LevelUp[<<k + 1, y - e(k)>>] ELSE <<k, y>>
    <2>1. <<k, y>> \in D /\ <<k, y>>[1] = k /\ <<k, y>>[2] = y
      OBVIOUS
    <2> QED BY <1>2, <2>1, Zenon
  <1>4. Bad = {}
    <2> SUFFICES ASSUME Bad # {} PROVE FALSE
      OBVIOUS
    <2>1. PICK y \in Bad : \A z \in Bad : ~(z < y)
      BY Least
    <2>2. PICK k \in Nat \ {0} : y \in Nat /\ ~Good(LevelUp[<<k, y>>], e(k) + y)
      BY <2>1
    <2>3. e(k) \in Nat /\ e(k) # 0 /\ e(k + 1) = e(k) + e(k) /\ k + 1 \in Nat \ {0}
      BY <1>1
    <2>4. CASE y >= e(k)
      <3>1. PICK z \in Nat : z = y - e(k) /\ z < y
        BY <2>2, <2>3, <2>4
      <3>2. z \notin Bad
        BY <2>1, <3>1
      <3>3. Good(LevelUp[<<k + 1, z>>], e(k + 1) + z)
        <4> HIDE DEF Good
        <4> QED BY <2>3, <3>2, Zenon DEF Bad
      <3>4. e(k + 1) + z = e(k) + y
        BY <2>2, <2>3, <3>1
      <3>5. LevelUp[<<k, y>>] = LevelUp[<<k + 1, z>>]
        BY <1>3, <2>2, <2>4, <3>1, Zenon
      <3> HIDE DEF Good
      <3> QED BY <2>2, <3>3, <3>4, <3>5, Zenon
    <2>5. CASE ~(y >= e(k))
      <3>1. LevelUp[<<k, y>>] = <<k, y>>
        BY <1>3, <2>2, <2>5, Zenon
      <3>2. <<k, y>>[1] = k /\ <<k, y>>[2] = y /\ y < e(k)
        BY <2>2, <2>3, <2>5
      <3>3. Good(<<k, y>>, e(k) + y)
        BY <2>2, <3>2, Zenon
      <3> HIDE DEF Good
      <3> QED BY <2>2, <3>1, <3>3, Zenon
    <2> QED BY <2>4, <2>5
  <1>5. Good(LevelUp[<<l, x>>], e(l) + x)
    <2> HIDE DEF Good
    <2>1. \A y \in Nat : \A k \in Nat \ {0} : Good(LevelUp[<<k, y>>], e(k) + y)
      BY <1>4, Zenon
    <2> QED BY <2>1, Zenon
  <1> QED BY <1>5, Zenon DEF Levelled, e
-----------------------------------------------------------------------------
(***************************************************************************)
(* Sums over the players: SumFunction, unfolded and added to.              *)
(***************************************************************************)
\* A member of a set, as the folds choose it, and what the recursive function
\* inside SumFunction says of a set, if it says g of smaller ones.
Pick(s) == CHOOSE x \in s : TRUE
SumOf(f, g, s) == IF s = {} THEN 0 ELSE f[Pick(s)] + g[s \ {Pick(s)}]

LEMMA PickOne ==
    ASSUME NEW S, IsFiniteSet(S), NEW s \in SUBSET S, s # {}
    PROVE  /\ Pick(s) \in s /\ Pick(s) \in S
           /\ s \ {Pick(s)} \in SUBSET S
           /\ Cardinality(s) \in Nat /\ Cardinality(s \ {Pick(s)}) = Cardinality(s) - 1
  <1>1. Pick(s) \in s
    BY DEF Pick
  <1>2. IsFiniteSet(s)
    BY FS_Subset
  <1>3. Cardinality(s) \in Nat /\ Cardinality(s \ {Pick(s)}) = Cardinality(s) - 1
    BY <1>1, <1>2, FS_CardinalityType, FS_RemoveElement
  <1> QED BY <1>1, <1>3

LEMMA SumExists ==
    ASSUME NEW S, IsFiniteSet(S), NEW f
    PROVE  \E g : g = [s \in SUBSET S |-> SumOf(f, g, s)]
  <1> DEFINE Small(n) == {s \in SUBSET S : Cardinality(s) <= n}
             Good(n, g) == g = [s \in Small(n) |-> SumOf(f, g, s)]
             T == {n \in Nat : \E g : Good(n, g)}
  <1>0. \A s \in SUBSET S : Cardinality(s) \in Nat /\ (s # {} => Cardinality(s) # 0)
    BY FS_Subset, FS_CardinalityType, FS_EmptySet
  <1>1. 0 \in T
    <2> DEFINE g == [s \in Small(0) |-> 0]
    <2>1. \A s \in Small(0) : SumOf(f, g, s) = 0
      BY <1>0 DEF SumOf
    <2>2. Good(0, g)
      <3>1. [s \in Small(0) |-> 0] = [s \in Small(0) |-> SumOf(f, g, s)]
        <4> HIDE DEF g, Small
        <4> QED BY <2>1
      <3> QED BY <3>1
    <2>3. \E x : Good(0, x)
      <3> HIDE DEF g, Good
      <3> QED BY <2>2
    <2> HIDE DEF Good
    <2> QED BY <2>3
  <1>2. ASSUME NEW n \in Nat, n \in T PROVE n + 1 \in T
    <2>1. PICK g : Good(n, g)
      BY <1>2
    <2> DEFINE h == [s \in Small(n + 1) |-> SumOf(f, g, s)]
    <2>2. ASSUME NEW s \in Small(n + 1)
          PROVE  h[s] = SumOf(f, h, s)
      <3>1. CASE s = {}
        BY <3>1 DEF SumOf
      <3>2. CASE s # {}
        <4> DEFINE t == s \ {Pick(s)}
        <4>1. t \in Small(n) /\ t \in Small(n + 1)
          <5>1. t \in SUBSET S /\ Cardinality(s) \in Nat /\ Cardinality(t) = Cardinality(s) - 1
            BY <3>2, PickOne
          <5> HIDE DEF t
          <5> QED BY <5>1
        <4>2. g[t] = SumOf(f, g, t)
          <5> HIDE DEF t, Small
          <5> QED BY <2>1, <4>1
        <4>3. h[t] = g[t]
          <5> HIDE DEF t, Small
          <5> QED BY <4>1, <4>2
        <4>4. h[s] = SumOf(f, g, s)
          <5> HIDE DEF t, Small
          <5> QED OBVIOUS
        <4> HIDE DEF h
        <4> QED BY <3>2, <4>3, <4>4 DEF SumOf
      <3> QED BY <3>1, <3>2
    <2>3. Good(n + 1, h)
      <3> DEFINE e == [s \in Small(n + 1) |-> SumOf(f, h, s)]
      <3>1. \A s \in Small(n + 1) : h[s] = e[s]
        BY <2>2
      <3>2. /\ h = [s \in Small(n + 1) |-> h[s]] /\ e = [s \in Small(n + 1) |-> e[s]]
        <4> HIDE DEF Small
        <4> QED OBVIOUS
      <3>3. h = e
        <4> HIDE DEF h, e, Small
        <4> QED BY <3>1, <3>2
      <3> QED BY <3>3
    <2>4. \E x : Good(n + 1, x)
      <3> HIDE DEF h, Good
      <3> QED BY <2>3
    <2>5. n + 1 \in Nat
      OBVIOUS
    <2> HIDE DEF Good
    <2> QED BY <2>4, <2>5, Zenon
  <1>3. \A n \in Nat : n \in T
    <2> HIDE DEF T
    <2> QED BY <1>1, <1>2, Induction
  <1>4. PICK n \in Nat : n = Cardinality(S)
    BY FS_CardinalityType
  <1>5. PICK g : Good(n, g)
    BY <1>3
  <1>6. Small(n) = SUBSET S
    BY <1>4, FS_Subset
  <1> QED BY <1>5, <1>6

\* SumFunction is the value that function has for the whole domain.
LEMMA SumIs ==
    ASSUME NEW S, IsFiniteSet(S), NEW f, DOMAIN f = S
    PROVE  \E g : /\ g = [s \in SUBSET S |-> SumOf(f, g, s)]
                  /\ SumFunction(f) = g[S]
  <1> DEFINE g == CHOOSE x : x = [s \in SUBSET S |-> SumOf(f, x, s)]
  <1>1. g = [s \in SUBSET S |-> SumOf(f, g, s)]
    BY SumExists
  <1>2. SumFunction(f) = g[S]
    BY DEF SumFunction, SumFunctionOnSet, FoldFunctionOnSet, MapThenFoldSet, SumOf, Pick
  <1> HIDE DEF g
  <1> QED BY <1>1, <1>2

\* What holds of the empty set, and of a set if it holds of the set without the
\* member Pick, holds of every finite set (for a set of sets instead of a predicate).
LEMMA PickInduction ==
    ASSUME NEW S, IsFiniteSet(S), NEW U, {} \in U,
           \A s \in SUBSET S : s # {} /\ s \ {Pick(s)} \in U => s \in U
    PROVE  S \in U
  <1> DEFINE T == {n \in Nat : \A s \in SUBSET S : Cardinality(s) = n => s \in U}
  <1>0. \A s \in SUBSET S : Cardinality(s) \in Nat /\ (s # {} <=> Cardinality(s) # 0)
    BY FS_Subset, FS_CardinalityType, FS_EmptySet
  <1>1. 0 \in T
    BY <1>0
  <1>2. ASSUME NEW n \in Nat, n \in T PROVE n + 1 \in T
    <2> SUFFICES ASSUME NEW s \in SUBSET S, Cardinality(s) = n + 1 PROVE s \in U
      OBVIOUS
    <2>1. s # {}
      BY <1>0
    <2>2. s \ {Pick(s)} \in SUBSET S /\ Cardinality(s \ {Pick(s)}) = n
      BY <2>1, PickOne
    <2>3. s \ {Pick(s)} \in U
      BY <1>2, <2>2
    <2> QED BY <2>1, <2>3
  <1>3. \A n \in Nat : n \in T
    <2> HIDE DEF T
    <2> QED BY <1>1, <1>2, Induction
  <1> QED BY <1>0, <1>3

\* The sum of integers is one, the sum of zeros zero, and adding d to one of
\* the numbers adds d to the sum.
LEMMA SumAdds ==
    ASSUME NEW S, IsFiniteSet(S), NEW f \in [S -> Int], NEW h \in [S -> Int],
           NEW p \in S, NEW d \in Int,
           h[p] = f[p] + d, \A q \in S : q # p => h[q] = f[q]
    PROVE  SumFunction(f) \in Int /\ SumFunction(h) = SumFunction(f) + d
  <1>1. PICK g : /\ g = [s \in SUBSET S |-> SumOf(f, g, s)]
                 /\ SumFunction(f) = g[S]
    BY SumIs
  <1>2. PICK k : /\ k = [s \in SUBSET S |-> SumOf(h, k, s)]
                 /\ SumFunction(h) = k[S]
    BY SumIs
  <1> DEFINE Inc(s) == IF p \in s THEN d ELSE 0
             U == {s \in SUBSET S : g[s] \in Int /\ k[s] = g[s] + Inc(s)}
  <1>3. \A s \in SUBSET S : g[s] = SumOf(f, g, s) /\ k[s] = SumOf(h, k, s)
    BY <1>1, <1>2, Zenon
  <1>4. {} \in U
    <2>1. {} \in SUBSET S /\ g[{}] = 0 /\ k[{}] = 0
      BY <1>3 DEF SumOf
    <2> QED BY <2>1
  <1>5. ASSUME NEW s \in SUBSET S, s # {}, s \ {Pick(s)} \in U
        PROVE  s \in U
    <2> DEFINE x == Pick(s)
               t == s \ {x}
    <2>1. x \in s /\ x \in S
      BY <1>5, PickOne
    <2>2. g[s] = f[x] + g[t] /\ k[s] = h[x] + k[t]
      BY <1>3, <1>5 DEF SumOf
    <2>3. g[t] \in Int /\ k[t] = g[t] + Inc(t)
      BY <1>5
    <2>4. f[x] \in Int /\ h[x] \in Int
      BY <2>1
    <2>5. CASE x = p
      <3>1. Inc(t) = 0 /\ Inc(s) = d
        BY <2>1, <2>5
      <3>2. h[x] = f[x] + d
        BY <2>5
      <3> HIDE DEF t, x, Inc
      <3>3. g[s] \in Int /\ k[s] = g[s] + Inc(s)
        BY <2>2, <2>3, <2>4, <3>1, <3>2
      <3> QED BY <3>3
    <2>6. CASE x # p
      <3>1. Inc(t) = Inc(s) /\ Inc(s) \in Int
        BY <2>6
      <3>2. h[x] = f[x]
        BY <2>1, <2>6
      <3> HIDE DEF t, x, Inc
      <3>3. g[s] \in Int /\ k[s] = g[s] + Inc(s)
        BY <2>2, <2>3, <2>4, <3>1, <3>2
      <3> QED BY <3>3
    <2> QED BY <2>5, <2>6
  <1>6. S \in U
    <2> HIDE DEF U
    <2> QED BY <1>4, <1>5, PickInduction
  <1> QED BY <1>1, <1>2, <1>6

LEMMA SumZero ==
    ASSUME NEW S, IsFiniteSet(S)
    PROVE  SumFunction([p \in S |-> 0]) = 0
  <1> DEFINE f == [p \in S |-> 0]
  <1>1. PICK g : /\ g = [s \in SUBSET S |-> SumOf(f, g, s)]
                 /\ SumFunction(f) = g[S]
    BY SumIs
  <1> DEFINE U == {s \in SUBSET S : g[s] = 0}
  <1>2. \A s \in SUBSET S : g[s] = SumOf(f, g, s)
    BY <1>1, Zenon
  <1>3. {} \in U
    BY <1>2 DEF SumOf
  <1>4. ASSUME NEW s \in SUBSET S, s # {}, s \ {Pick(s)} \in U
        PROVE  s \in U
    <2>1. Pick(s) \in S
      BY <1>4, PickOne
    <2>2. g[s] = f[Pick(s)] + g[s \ {Pick(s)}]
      BY <1>2, <1>4 DEF SumOf
    <2>3. f[Pick(s)] = 0 /\ g[s \ {Pick(s)}] = 0
      BY <1>4, <2>1
    <2> QED BY <2>2, <2>3
  <1>5. S \in U
    <2> HIDE DEF U
    <2> QED BY <1>3, <1>4, PickInduction
  <1> QED BY <1>1, <1>5

\* Sums of integers are integers, over no one too.
LEMMA SumInt ==
    ASSUME NEW S, IsFiniteSet(S), NEW f \in [S -> Int]
    PROVE  SumFunction(f) \in Int
  <1>1. CASE S = {}
    <2>1. f = [p \in S |-> 0]
      BY <1>1
    <2> QED BY <2>1, SumZero
  <1>2. CASE S # {}
    <2>1. PICK p \in S : TRUE
      BY <1>2
    <2>2. f[p] = f[p] + 0
      OBVIOUS
    <2> QED BY <2>2, SumAdds
  <1> QED BY <1>1, <1>2
-----------------------------------------------------------------------------
(***************************************************************************)
(* The types of the variables, for any workers.                            *)
(***************************************************************************)
Sheets == [inv : [Slots -> Nat], kills : Nat, level : Nat \ {0}, xp : Nat]
Pasts == [kills : Nat, deaths : Nat, rewards : Nat, earned : Nat, lost : Nat]

Ops == ({"stat", "quest_update", "quest", "gift"} \X PC)
       \cup ({"item_add"} \X PC \X Slots)
       \cup ({"appear", "vanish", "list", "pick", "got"} \X PC \X Items)
       \cup {<<"spawn">>}
       \cup ({"read", "halve"} \X PC \X Nat)
       \cup ({"write"} \X PC \X Nat \X Nat)

\* A worker without a handler has nothing to do.
Shape ==
    /\ pool \in Pools
    /\ todo \in [Workers -> Seq(Ops)]
    /\ job \in [Workers -> {NONE} \cup Kinds \X PC]
    /\ \A w \in Workers : w \notin pool \/ job[w] = NONE => todo[w] = <<>>

Data ==
    /\ g_next_item_id \in 0 .. MAX_ITEMS
    /\ active \in SUBSET Items
    /\ place \in [PC -> {"on", "near", "far"}]
    /\ ingame \in SUBSET PC
    /\ hurt \in SUBSET PC
    /\ me \in [PC -> Sheets]
    /\ row \in [PC -> Sheets]
    /\ shown \in [PC -> Sheets]
    /\ shownItems \in [PC -> SUBSET Items]
    /\ picked \in [Items -> Nat]
    /\ used \in [Slots -> Nat]
    /\ past \in [PC -> Pasts]
    /\ strayed \in SUBSET PC

Typed == Shape /\ Data

\* The arguments of an operation.
LEMMA OpTypes ==
    ASSUME NEW op \in Ops
    PROVE  /\ op[1] \in {"stat", "quest_update", "quest", "gift"} =>
                op[2] \in PC /\ op = <<op[1], op[2]>>
           /\ op[1] = "item_add" =>
                op[2] \in PC /\ op[3] \in Slots /\ op = <<"item_add", op[2], op[3]>>
           /\ op[1] \in {"appear", "vanish", "list", "pick", "got"} =>
                op[2] \in PC /\ op[3] \in Items /\ op = <<op[1], op[2], op[3]>>
           /\ op[1] \in {"read", "halve"} =>
                op[2] \in PC /\ op[3] \in Nat /\ op = <<op[1], op[2], op[3]>>
           /\ op[1] = "write" =>
                op[2] \in PC /\ op[3] \in Nat /\ op[4] \in Nat
  <1>1. CASE op \in {"stat", "quest_update", "quest", "gift"} \X PC
    BY <1>1
  <1>2. CASE op \in {"item_add"} \X PC \X Slots
    BY <1>2
  <1>3. CASE op \in {"appear", "vanish", "list", "pick", "got"} \X PC \X Items
    BY <1>3
  <1>4. CASE op = <<"spawn">>
    BY <1>4
  <1>5. CASE op \in {"read", "halve"} \X PC \X Nat
    BY <1>5
  <1>6. CASE op \in {"write"} \X PC \X Nat \X Nat
    BY <1>6
  <1> QED BY <1>1, <1>2, <1>3, <1>4, <1>5, <1>6 DEF Ops

LEMMA OpsMade ==
    /\ \A name \in {"stat", "quest_update", "quest", "gift"}, p \in PC : <<name, p>> \in Ops
    /\ \A p \in PC, s \in Slots : <<"item_add", p, s>> \in Ops
    /\ \A name \in {"appear", "vanish", "list", "pick", "got"}, p \in PC, i \in Items :
          <<name, p, i>> \in Ops
    /\ <<"spawn">> \in Ops
    /\ \A name \in {"read", "halve"}, p \in PC, x \in Nat : <<name, p, x>> \in Ops
    /\ \A p \in PC, g, x \in Nat : <<"write", p, g, x>> \in Ops
  BY DEF Ops

\* A handler goes on: s is what it had to do, r what it has to do after ops
\* have taken the place of the first operation, if there was one.
Turn(s, ops, r) ==
    /\ s \in Seq(Ops) /\ ops \in Seq(Ops) /\ r \in Seq(Ops)
    /\ \A k \in 1 .. Len(r) :
          \/ k \in 1 .. Len(ops) /\ r[k] = ops[k]
          \/ k - Len(ops) + 1 \in 2 .. Len(s) /\ r[k] = s[k - Len(ops) + 1]
    /\ \A k \in 1 .. Len(ops) : k \in 1 .. Len(r) /\ r[k] = ops[k]
    /\ \A j \in 2 .. Len(s) : j - 1 + Len(ops) \in 1 .. Len(r) /\ r[j - 1 + Len(ops)] = s[j]

LEMMA NextOp ==
    ASSUME Shape, NEW w \in Workers, NEW name, Op(w, name)
    PROVE  /\ w \in pool /\ job[w] # NONE
           /\ todo[w] \in Seq(Ops) /\ todo[w] # <<>> /\ Len(todo[w]) \in Nat \ {0}
           /\ Head(todo[w]) = todo[w][1] /\ Head(todo[w]) \in Ops
           /\ Head(todo[w])[1] = name
           /\ Arg(w, 1) = todo[w][1][2] /\ Arg(w, 2) = todo[w][1][3]
           /\ Arg(w, 3) = todo[w][1][4]
  <1>1. todo[w] \in Seq(Ops) /\ todo[w] # <<>> /\ Head(todo[w])[1] = name
    BY DEF Shape, Op
  <1>2. Len(todo[w]) \in Nat \ {0} /\ Head(todo[w]) = todo[w][1] /\ Head(todo[w]) \in Ops
    <2> HIDE DEF Ops
    <2> QED BY <1>1
  <1>3. w \in pool /\ job[w] # NONE
    BY <1>1 DEF Shape
  <1> QED BY <1>1, <1>2, <1>3 DEF Arg

LEMMA ThenTurn ==
    ASSUME Shape, NEW w \in Workers, NEW name, Op(w, name), NEW ops \in Seq(Ops), Then(w, ops)
    PROVE  /\ Shape' /\ pool' = pool
           /\ Turn(todo[w], ops, todo'[w])
           /\ \A v \in Workers \ {w} : todo'[v] = todo[v]
  <1>1. /\ todo[w] \in Seq(Ops) /\ todo[w] # <<>> /\ w \in pool /\ job[w] # NONE
    BY NextOp
  <1> DEFINE r == ops \o Tail(todo[w])
  <1>2. /\ r \in Seq(Ops)
        /\ \A k \in 1 .. Len(r) :
                 \/ k \in 1 .. Len(ops) /\ r[k] = ops[k]
                 \/ k - Len(ops) + 1 \in 2 .. Len(todo[w])
                    /\ r[k] = todo[w][k - Len(ops) + 1]
        /\ \A k \in 1 .. Len(ops) : k \in 1 .. Len(r) /\ r[k] = ops[k]
        /\ \A j \in 2 .. Len(todo[w]) : /\ j - 1 + Len(ops) \in 1 .. Len(r)
                                        /\ r[j - 1 + Len(ops)] = todo[w][j]
    BY <1>1, Rest
  <1>3. /\ todo' = [todo EXCEPT ![w] = r]
        /\ job' = IF r = <<>> THEN [job EXCEPT ![w] = NONE] ELSE job
        /\ UNCHANGED pool
    BY DEF Then
  <1> HIDE DEF r, Ops
  <1>4. todo'[w] = r /\ \A v \in Workers \ {w} : todo'[v] = todo[v] /\ job'[v] = job[v]
    BY <1>3 DEF Shape
  <1>5. todo' \in [Workers -> Seq(Ops)] /\ job' \in [Workers -> {NONE} \cup Kinds \X PC]
    BY <1>2, <1>3 DEF Shape
  <1>6. job'[w] = IF r = <<>> THEN NONE ELSE job[w]
    BY <1>3, <1>4 DEF Shape
  <1>7. \A v \in Workers : v \notin pool' \/ job'[v] = NONE => todo'[v] = <<>>
    BY <1>1, <1>3, <1>4, <1>6 DEF Shape
  <1>8. Shape'
    BY <1>3, <1>5, <1>7 DEF Shape
  <1>9. Turn(todo[w], ops, r)
    BY <1>1, <1>2, Zenon DEF Turn
  <1> QED BY <1>3, <1>4, <1>8, <1>9

LEMMA TakeTurn ==
    ASSUME Shape, NEW w \in Workers, NEW kind \in Kinds, NEW p \in PC,
           NEW ops \in Seq(Ops), Take(w, kind, p, ops)
    PROVE  /\ Shape' /\ pool' = pool /\ w \in pool
           /\ todo[w] = <<>> /\ todo'[w] = ops
           /\ Turn(todo[w], ops, todo'[w])
           /\ \A v \in Workers \ {w} : todo'[v] = todo[v]
  <1>1. /\ w \in pool /\ job[w] = NONE /\ todo[w] = <<>>
        /\ job' = [job EXCEPT ![w] = IF ops = <<>> THEN NONE ELSE <<kind, p>>]
        /\ todo' = [todo EXCEPT ![w] = ops] /\ UNCHANGED pool
    BY DEF Take, Shape
  <1> HIDE DEF Ops
  <1>2. todo' \in [Workers -> Seq(Ops)] /\ job' \in [Workers -> {NONE} \cup Kinds \X PC]
    BY <1>1 DEF Shape
  <1>3. /\ todo'[w] = ops /\ job'[w] = IF ops = <<>> THEN NONE ELSE <<kind, p>>
        /\ \A v \in Workers \ {w} : todo'[v] = todo[v] /\ job'[v] = job[v]
    BY <1>1 DEF Shape
  <1>4. NONE # <<kind, p>>
    BY LootAssumption
  <1>5. \A v \in Workers : v \notin pool' \/ job'[v] = NONE => todo'[v] = <<>>
    BY <1>1, <1>3, <1>4 DEF Shape
  <1>6. Shape'
    BY <1>1, <1>2, <1>5 DEF Shape
  <1>7. Turn(<<>>, ops, ops)
    BY DEF Turn
  <1> QED BY <1>1, <1>3, <1>6, <1>7
-----------------------------------------------------------------------------
(***************************************************************************)
(* What the handlers have to do.                                           *)
(***************************************************************************)
LEMMA Join2 ==
    ASSUME NEW T, NEW a \in T, NEW b \in T
    PROVE  <<a>> \o <<b>> = <<a, b>>
  <1> DEFINE r == <<a>> \o <<b>>
  <1>1. r \in Seq(T) /\ Len(r) = 2 /\ r[1] = a /\ r[2] = b
    OBVIOUS
  <1> HIDE DEF r
  <1>2. r = <<a, b>>
    BY <1>1
  <1> QED BY <1>2 DEF r

LEMMA Join3 ==
    ASSUME NEW T, NEW a \in T, NEW b \in T, NEW c \in T
    PROVE  <<a, b>> \o <<c>> = <<a, b, c>>
  <1> DEFINE r == <<a, b>> \o <<c>>
  <1>1. r \in Seq(T) /\ Len(r) = 3 /\ r[1] = a /\ r[2] = b /\ r[3] = c
    OBVIOUS
  <1> HIDE DEF r
  <1>2. r = <<a, b, c>>
    BY <1>1
  <1> QED BY <1>2 DEF r

LEMMA Join4 ==
    ASSUME NEW T, NEW a \in T, NEW b \in T, NEW c \in T, NEW d \in T
    PROVE  <<a, b, c>> \o <<d>> = <<a, b, c, d>>
  <1> DEFINE r == <<a, b, c>> \o <<d>>
  <1>1. r \in Seq(T) /\ Len(r) = 4 /\ r[1] = a /\ r[2] = b /\ r[3] = c /\ r[4] = d
    OBVIOUS
  <1> HIDE DEF r
  <1>2. r = <<a, b, c, d>>
    BY <1>1
  <1> QED BY <1>2 DEF r

LEMMA Empties ==
    ASSUME NEW T, NEW s \in Seq(T)
    PROVE  <<>> \o s = s /\ s \o <<>> = s
  OBVIOUS

LEMMA Shorts ==
    ASSUME NEW T
    PROVE  /\ <<>> \in Seq(T)
           /\ \A a \in T : <<a>> \in Seq(T)
           /\ \A a, b \in T : <<a, b>> \in Seq(T)
           /\ \A a, b, c \in T : <<a, b, c>> \in Seq(T)
           /\ \A a, b, c, d \in T : <<a, b, c, d>> \in Seq(T)
  OBVIOUS

LEMMA Numbers ==
    /\ EXP_BASE \in Nat \ {0} /\ KILL_XP \in Nat \ {0} /\ TARGET \in Nat \ {0}
    /\ REWARD_XP \in Nat /\ MAX_ITEMS \in Nat
  BY LootAssumption

LEMMA Finite ==
    /\ \A S \in SUBSET PC : IsFiniteSet(S)
    /\ \A S \in SUBSET Items : IsFiniteSet(S)
    /\ \A S \in SUBSET Slots : IsFiniteSet(S)
  <1>1. IsFiniteSet(PC)
    BY LootAssumption
  <1>2. IsFiniteSet(Items)
    BY Numbers, FS_Interval DEF Items
  <1>3. IsFiniteSet(Slots)
    <2>1. IsFiniteSet({"potion"}) /\ IsFiniteSet({"potion"} \cup {"boost"})
      BY FS_Singleton, FS_AddElement
    <2>2. Slots = {"potion"} \cup {"boost"}
      BY DEF Slots
    <2> QED BY <2>1, <2>2, Zenon
  <1> QED BY <1>1, <1>2, <1>3, FS_Subset

\* One operation for every player of S, or for every item or slot of S.
ToAll(name, S, i) ==
    FlattenSeq([k \in 1 .. Cardinality(S) |-> <<<<name, SetToSeq(S)[k], i>>>>])
OfAll(name, p, S) ==
    FlattenSeq([k \in 1 .. Cardinality(S) |-> <<<<name, p, SetToSeq(S)[k]>>>>])

LEMMA EachOps ==
    ASSUME NEW S, IsFiniteSet(S), NEW h \in [S -> Ops]
    PROVE  \E ops \in Seq(Ops) :
              /\ ops = FlattenSeq(Singly(h, S))
              /\ \A k \in 1 .. Len(ops) : \E x \in S : ops[k] = h[x]
              /\ \A x \in S : \E k \in 1 .. Len(ops) : ops[k] = h[x]
  BY ForEach

LEMMA ToAllOps ==
    ASSUME NEW S \in SUBSET PC, NEW i \in Items, NEW name \in {"appear", "vanish"}
    PROVE  \E ops \in Seq(Ops) :
           /\ ops = ToAll(name, S, i)
           /\ \A k \in 1 .. Len(ops) : \E p \in S : ops[k] = <<name, p, i>>
           /\ \A p \in S : \E k \in 1 .. Len(ops) : ops[k] = <<name, p, i>>
  <1> DEFINE h == [p \in S |-> <<name, p, i>>]
             g == [k \in 1 .. Cardinality(S) |-> <<<<name, SetToSeq(S)[k], i>>>>]
  <1>1. IsFiniteSet(S)
    BY Finite
  <1>2. Cardinality(S) \in Nat /\ SetToSeq(S) \in [1 .. Cardinality(S) -> S]
    BY <1>1, SetToSeqTypes
  <1>3. h \in [S -> Ops] /\ \A p \in S : h[p] = <<name, p, i>>
    BY OpsMade
  <1>4. g = Singly(h, S)
    BY <1>2, <1>3 DEF Singly
  <1> HIDE DEF h, Ops
  <1>5. PICK ops \in Seq(Ops) :
            /\ ops = FlattenSeq(Singly(h, S))
            /\ \A k \in 1 .. Len(ops) : \E x \in S : ops[k] = h[x]
            /\ \A x \in S : \E k \in 1 .. Len(ops) : ops[k] = h[x]
    <2>1. h \in [S -> Ops]
      BY <1>3
    <2> QED BY <1>1, <2>1, EachOps
  <1>6. ops = ToAll(name, S, i)
    BY <1>4, <1>5, Zenon DEF ToAll
  <1>7. ASSUME NEW k \in 1 .. Len(ops)
        PROVE  \E p \in S : ops[k] = <<name, p, i>>
    <2>1. PICK p \in S : ops[k] = h[p]
      BY <1>5
    <2> QED BY <1>3, <2>1, Zenon
  <1>8. ASSUME NEW p \in S
        PROVE  \E k \in 1 .. Len(ops) : ops[k] = <<name, p, i>>
    <2>1. PICK k \in 1 .. Len(ops) : ops[k] = h[p]
      BY <1>5
    <2> QED BY <1>3, <2>1, Zenon
  <1> QED BY <1>5, <1>6, <1>7, <1>8

LEMMA OfAllOps ==
    ASSUME NEW p \in PC, NEW name \in {"pick", "list", "item_add"},
           NEW S \in SUBSET (IF name = "item_add" THEN Slots ELSE Items)
    PROVE  \E ops \in Seq(Ops) :
           /\ ops = OfAll(name, p, S)
           /\ \A k \in 1 .. Len(ops) : \E i \in S : ops[k] = <<name, p, i>>
           /\ \A i \in S : \E k \in 1 .. Len(ops) : ops[k] = <<name, p, i>>
  <1> DEFINE h == [i \in S |-> <<name, p, i>>]
             g == [k \in 1 .. Cardinality(S) |-> <<<<name, p, SetToSeq(S)[k]>>>>]
  <1>1. IsFiniteSet(S)
    BY Finite
  <1>2. Cardinality(S) \in Nat /\ SetToSeq(S) \in [1 .. Cardinality(S) -> S]
    BY <1>1, SetToSeqTypes
  <1>3. h \in [S -> Ops] /\ \A i \in S : h[i] = <<name, p, i>>
    BY OpsMade
  <1>4. g = Singly(h, S)
    BY <1>2, <1>3 DEF Singly
  <1> HIDE DEF h, Ops
  <1>5. PICK ops \in Seq(Ops) :
            /\ ops = FlattenSeq(Singly(h, S))
            /\ \A k \in 1 .. Len(ops) : \E x \in S : ops[k] = h[x]
            /\ \A x \in S : \E k \in 1 .. Len(ops) : ops[k] = h[x]
    <2>1. h \in [S -> Ops]
      BY <1>3
    <2> QED BY <1>1, <2>1, EachOps
  <1>6. ops = OfAll(name, p, S)
    BY <1>4, <1>5, Zenon DEF OfAll
  <1>7. ASSUME NEW k \in 1 .. Len(ops)
        PROVE  \E i \in S : ops[k] = <<name, p, i>>
    <2>1. PICK i \in S : ops[k] = h[i]
      BY <1>5
    <2> QED BY <1>3, <2>1, Zenon
  <1>8. ASSUME NEW i \in S
        PROVE  \E k \in 1 .. Len(ops) : ops[k] = <<name, p, i>>
    <2>1. PICK k \in 1 .. Len(ops) : ops[k] = h[i]
      BY <1>5
    <2> QED BY <1>3, <2>1, Zenon
  <1> QED BY <1>5, <1>6, <1>7, <1>8

Among(s, x) == \E k \in 1 .. Len(s) : s[k] = x
Only(s, X) == \A k \in 1 .. Len(s) : s[k] \in X

\* The arguments of the next operation.
LEMMA HeadTypes ==
    ASSUME Shape, NEW w \in Workers
    PROVE  /\ \A name \in {"stat", "quest_update", "quest", "gift"} : Op(w, name) =>
                Arg(w, 1) \in PC /\ todo[w][1] = <<name, Arg(w, 1)>>
           /\ Op(w, "item_add") => /\ Arg(w, 1) \in PC /\ Arg(w, 2) \in Slots
                                   /\ todo[w][1] = <<"item_add", Arg(w, 1), Arg(w, 2)>>
           /\ \A name \in {"appear", "vanish", "list", "pick", "got"} : Op(w, name) =>
                /\ Arg(w, 1) \in PC /\ Arg(w, 2) \in Items
                /\ todo[w][1] = <<name, Arg(w, 1), Arg(w, 2)>>
           /\ \A name \in {"read", "halve"} : Op(w, name) =>
                /\ Arg(w, 1) \in PC /\ Arg(w, 2) \in Nat
                /\ todo[w][1] = <<name, Arg(w, 1), Arg(w, 2)>>
           /\ Op(w, "write") => Arg(w, 1) \in PC /\ Arg(w, 2) \in Nat /\ Arg(w, 3) \in Nat
  <1> DEFINE h == todo[w][1]
  <1>1. \A name : Op(w, name) => /\ h \in Ops /\ h[1] = name
                                 /\ Arg(w, 1) = h[2] /\ Arg(w, 2) = h[3] /\ Arg(w, 3) = h[4]
    BY NextOp
  <1> HIDE DEF h, Ops
  <1>2. CASE h \in Ops
    <2>1. /\ h[1] \in {"stat", "quest_update", "quest", "gift"} =>
                h[2] \in PC /\ h = <<h[1], h[2]>>
          /\ h[1] = "item_add" =>
                h[2] \in PC /\ h[3] \in Slots /\ h = <<"item_add", h[2], h[3]>>
          /\ h[1] \in {"appear", "vanish", "list", "pick", "got"} =>
                h[2] \in PC /\ h[3] \in Items /\ h = <<h[1], h[2], h[3]>>
          /\ h[1] \in {"read", "halve"} =>
                h[2] \in PC /\ h[3] \in Nat /\ h = <<h[1], h[2], h[3]>>
          /\ h[1] = "write" =>
                h[2] \in PC /\ h[3] \in Nat /\ h[4] \in Nat
      BY <1>2, OpTypes
    <2>2. /\ \A name \in {"stat", "quest_update", "quest", "gift"} : Op(w, name) =>
                Arg(w, 1) \in PC /\ h = <<name, Arg(w, 1)>>
          /\ Op(w, "item_add") => /\ Arg(w, 1) \in PC /\ Arg(w, 2) \in Slots
                                  /\ h = <<"item_add", Arg(w, 1), Arg(w, 2)>>
      BY <1>1, <2>1
    <2>3. /\ \A name \in {"appear", "vanish", "list", "pick", "got"} : Op(w, name) =>
                /\ Arg(w, 1) \in PC /\ Arg(w, 2) \in Items
                /\ h = <<name, Arg(w, 1), Arg(w, 2)>>
      BY <1>1, <2>1
    <2>4. /\ \A name \in {"read", "halve"} : Op(w, name) =>
                /\ Arg(w, 1) \in PC /\ Arg(w, 2) \in Nat
                /\ h = <<name, Arg(w, 1), Arg(w, 2)>>
          /\ Op(w, "write") => Arg(w, 1) \in PC /\ Arg(w, 2) \in Nat /\ Arg(w, 3) \in Nat
      BY <1>1, <2>1
    <2> QED BY <2>2, <2>3, <2>4 DEF h
  <1>3. CASE h \notin Ops
    BY <1>1, <1>3
  <1> QED BY <1>2, <1>3

\* What a sequence joined from two others holds.
LEMMA Joined ==
    ASSUME NEW T, NEW s \in Seq(T), NEW t \in Seq(T), NEW r, r = s \o t
    PROVE  /\ r \in Seq(T)
           /\ \A x : Among(r, x) <=> Among(s, x) \/ Among(t, x)
           /\ \A X : Only(s, X) /\ Only(t, X) => Only(r, X)
  <1>1. /\ r \in Seq(T) /\ Len(r) = Len(s) + Len(t) /\ Len(s) \in Nat /\ Len(t) \in Nat
        /\ \A k \in 1 .. Len(r) : r[k] = IF k <= Len(s) THEN s[k] ELSE t[k - Len(s)]
    BY Concat
  <1>2. /\ \A k \in 1 .. Len(s) : k \in 1 .. Len(r) /\ r[k] = s[k]
        /\ \A k \in 1 .. Len(t) : k + Len(s) \in 1 .. Len(r) /\ r[k + Len(s)] = t[k]
    <2>1. \A k \in 1 .. Len(s) : k \in 1 .. Len(r) /\ r[k] = s[k]
      BY <1>1
    <2>2. ASSUME NEW k \in 1 .. Len(t)
          PROVE  k + Len(s) \in 1 .. Len(r) /\ r[k + Len(s)] = t[k]
      <3>1. PICK j \in 1 .. Len(r) : j = k + Len(s)
        BY <1>1
      <3>2. ~(j <= Len(s)) /\ j - Len(s) = k
        BY <1>1, <3>1
      <3>3. r[j] = t[j - Len(s)]
        BY <1>1, <3>2
      <3> QED BY <3>1, <3>2, <3>3
    <2> QED BY <2>1, <2>2
  <1>3. \A k \in 1 .. Len(r) : \/ k \in 1 .. Len(s) /\ r[k] = s[k]
                               \/ k - Len(s) \in 1 .. Len(t) /\ r[k] = t[k - Len(s)]
    BY <1>1
  <1>4. \A x : Among(r, x) <=> Among(s, x) \/ Among(t, x)
    <2>1. ASSUME NEW x, Among(r, x) PROVE Among(s, x) \/ Among(t, x)
      BY <1>3, <2>1 DEF Among
    <2>2. ASSUME NEW x, Among(s, x) \/ Among(t, x) PROVE Among(r, x)
      BY <1>2, <2>2 DEF Among
    <2> QED BY <2>1, <2>2
  <1>5. \A X : Only(s, X) /\ Only(t, X) => Only(r, X)
    BY <1>3, Zenon DEF Only
  <1> QED BY <1>1, <1>4, <1>5

LEMMA KillWay ==
    ASSUME Shape, NEW w \in Workers, NEW p \in PC, Kill(w, p)
    PROVE  \E ops \in Seq(Ops) :
              /\ Take(w, "recv", p, ops)
              /\ \/ ops = <<<<"read", p, KILL_XP>>, Stat(p)>>
                 \/ ops = <<<<"spawn">>, <<"read", p, KILL_XP>>, Stat(p)>>
                 \/ ops = <<<<"read", p, KILL_XP>>, <<"quest", p>>, Stat(p)>>
                 \/ ops = <<<<"spawn">>, <<"read", p, KILL_XP>>, <<"quest", p>>, Stat(p)>>
  <1> DEFINE a == <<"spawn">>
             b == <<"read", p, KILL_XP>>
             c == <<"quest", p>>
             d == Stat(p)
  <1>1. a \in Ops /\ b \in Ops /\ c \in Ops /\ d \in Ops
    BY OpsMade, Numbers DEF Stat
  <1>2. PICK drop \in BOOLEAN, counts \in BOOLEAN :
            Take(w, "recv", p, (IF drop THEN <<a>> ELSE <<>>) \o <<b>>
                               \o (IF counts THEN <<c>> ELSE <<>>) \o <<d>>)
    BY DEF Kill
  <1> HIDE DEF a, b, c, d, Ops
  <1>3. /\ <<a>> \o <<b>> = <<a, b>> /\ <<b>> \o <<c>> = <<b, c>> /\ <<b>> \o <<d>> = <<b, d>>
        /\ <<a, b>> \o <<c>> = <<a, b, c>> /\ <<a, b>> \o <<d>> = <<a, b, d>>
        /\ <<b, c>> \o <<d>> = <<b, c, d>> /\ <<a, b, c>> \o <<d>> = <<a, b, c, d>>
    <2>1. PICK T : T = Ops
      OBVIOUS
    <2>2. a \in T /\ b \in T /\ c \in T /\ d \in T
      BY <1>1, <2>1
    <2>3. <<a>> \o <<b>> = <<a, b>>
      BY <2>2, Join2, SMTT(30)
    <2>4. <<b>> \o <<c>> = <<b, c>>
      BY <2>2, Join2, SMTT(30)
    <2>5. <<b>> \o <<d>> = <<b, d>>
      BY <2>2, Join2, SMTT(30)
    <2>6. <<a, b>> \o <<c>> = <<a, b, c>>
      BY <2>2, Join3, SMTT(30)
    <2>7. <<a, b>> \o <<d>> = <<a, b, d>>
      BY <2>2, Join3, SMTT(30)
    <2>8. <<b, c>> \o <<d>> = <<b, c, d>>
      BY <2>2, Join3, SMTT(30)
    <2>9. <<a, b, c>> \o <<d>> = <<a, b, c, d>>
      BY <2>2, Join4, SMTT(30)
    <2> QED BY <2>3, <2>4, <2>5, <2>6, <2>7, <2>8, <2>9
  <1>4. /\ <<b>> \in Seq(Ops) /\ <<a, b>> \in Seq(Ops)
        /\ <<b, d>> \in Seq(Ops) /\ <<a, b, d>> \in Seq(Ops)
        /\ <<b, c, d>> \in Seq(Ops) /\ <<a, b, c, d>> \in Seq(Ops)
    BY <1>1, Shorts
  <1>5. /\ <<>> \o <<b>> = <<b>> /\ <<b>> \o <<>> = <<b>> /\ <<a, b>> \o <<>> = <<a, b>>
    BY <1>4, Empties
  <1>6. \/ Take(w, "recv", p, <<b, d>>) \/ Take(w, "recv", p, <<a, b, d>>)
        \/ Take(w, "recv", p, <<b, c, d>>) \/ Take(w, "recv", p, <<a, b, c, d>>)
    <2>1. CASE drop /\ counts
      BY <1>2, <1>3, <2>1, Zenon
    <2>2. CASE drop /\ ~counts
      BY <1>2, <1>3, <1>5, <2>2, Zenon
    <2>3. CASE ~drop /\ counts
      BY <1>2, <1>3, <1>5, <2>3, Zenon
    <2>4. CASE ~drop /\ ~counts
      BY <1>2, <1>3, <1>5, <2>4, Zenon
    <2> QED BY <2>1, <2>2, <2>3, <2>4
  <1> QED BY <1>4, <1>6, Zenon DEF a, b, c, d

LEMMA SpawnWay ==
    ASSUME Typed, NEW w \in Workers, SpawnItem(w)
    PROVE  /\ Op(w, "spawn")
           /\ UNCHANGED <<picked, where, hurt, me, row, client, used, past>>
           /\ \/ Then(w, <<>>) /\ UNCHANGED <<g_next_item_id, active>>
              \/ /\ g_next_item_id \in Items /\ g_next_item_id' = g_next_item_id + 1
                 /\ active' = active \cup {g_next_item_id}
                 /\ \E ops \in Seq(Ops) :
                       /\ Then(w, ops)
                       /\ \A k \in 1 .. Len(ops) :
                             \E p \in Near : ops[k] = <<"appear", p, g_next_item_id>>
                       /\ \A p \in Near : Among(ops, <<"appear", p, g_next_item_id>>)
  <1>1. Op(w, "spawn") /\ UNCHANGED <<picked, where, hurt, me, row, client, used, past>>
    BY DEF SpawnItem
  <1>2. CASE g_next_item_id = MAX_ITEMS
    BY <1>1, <1>2 DEF SpawnItem
  <1>3. CASE g_next_item_id # MAX_ITEMS
    <2>1. g_next_item_id \in Items /\ Near \in SUBSET PC
      BY <1>3, Numbers DEF Typed, Data, Items, Near
    <2>2. /\ g_next_item_id' = g_next_item_id + 1
          /\ active' = active \cup {g_next_item_id}
          /\ Then(w, ToAll("appear", Near, g_next_item_id))
      BY <1>3 DEF SpawnItem, For, ToAll
    <2>3. PICK i \in Items, S \in SUBSET PC : i = g_next_item_id /\ S = Near
      BY <2>1
    <2>4. PICK ops \in Seq(Ops) :
              /\ ops = ToAll("appear", S, i)
              /\ \A k \in 1 .. Len(ops) : \E p \in S : ops[k] = <<"appear", p, i>>
              /\ \A p \in S : \E k \in 1 .. Len(ops) : ops[k] = <<"appear", p, i>>
      BY ToAllOps
    <2>5. /\ Then(w, ops)
          /\ \A k \in 1 .. Len(ops) :
                \E p \in Near : ops[k] = <<"appear", p, g_next_item_id>>
          /\ \A p \in Near : Among(ops, <<"appear", p, g_next_item_id>>)
      BY <2>2, <2>3, <2>4, Zenon DEF Among
    <2> QED BY <1>1, <2>1, <2>2, <2>5
  <1> QED BY <1>2, <1>3

LEMMA ReadWay ==
    ASSUME Typed, NEW w \in Workers, ReadXp(w)
    PROVE  /\ Op(w, "read")
           /\ \E p \in PC, x \in Nat :
                 /\ todo[w][1] = <<"read", p, x>>
                 /\ \E ops \in Seq(Ops) :
                       /\ ops = <<<<"write", p, x, me[p].xp + x>>>>
                       /\ Then(w, ops)
  <1>1. /\ Op(w, "read") /\ Arg(w, 1) \in PC /\ Arg(w, 2) \in Nat
        /\ todo[w][1] = <<"read", Arg(w, 1), Arg(w, 2)>>
    BY HeadTypes DEF ReadXp, Typed
  <1>2. PICK p \in PC, x \in Nat : p = Arg(w, 1) /\ x = Arg(w, 2)
    BY <1>1
  <1>3. me[p].xp + x \in Nat
    BY DEF Typed, Data, Sheets
  <1>4. <<<<"write", p, x, me[p].xp + x>>>> \in Seq(Ops)
    BY <1>3, OpsMade, Shorts
  <1>5. Then(w, <<<<"write", p, x, me[p].xp + x>>>>)
    BY <1>2 DEF ReadXp
  <1> QED BY <1>1, <1>2, <1>4, <1>5, Zenon

LEMMA QuestWay ==
    ASSUME Typed, NEW w \in Workers, ProcessQuestKill(w)
    PROVE  /\ Op(w, "quest")
           /\ \E p \in PC : \E ops \in Seq(Ops) :
                 /\ todo[w][1] = <<"quest", p>>
                 /\ past' = [past EXCEPT ![p].kills = @ + 1]
                 /\ Then(w, ops)
                 /\ \/ /\ me[p].kills + 1 < TARGET
                       /\ me' = [me EXCEPT ![p].kills = me[p].kills + 1]
                       /\ ops = <<QuestUpdate(p)>>
                    \/ /\ me[p].kills + 1 >= TARGET
                       /\ me' = [me EXCEPT ![p].kills = 0]
                       /\ ops = <<<<"read", p, REWARD_XP>>, <<"gift", p>>, Stat(p),
                                  QuestUpdate(p)>>
  <1>1. /\ Op(w, "quest") /\ Arg(w, 1) \in PC /\ todo[w][1] = <<"quest", Arg(w, 1)>>
    BY HeadTypes DEF ProcessQuestKill, Typed
  <1>2. PICK p \in PC : p = Arg(w, 1)
    BY <1>1
  <1>3. me[p].kills \in Nat
    BY DEF Typed, Data, Sheets
  <1> DEFINE a == <<"read", p, REWARD_XP>>
             b == <<"gift", p>>
             c == Stat(p)
             d == QuestUpdate(p)
             k == me[p].kills + 1
  <1>4. a \in Ops /\ b \in Ops /\ c \in Ops /\ d \in Ops
    BY OpsMade, Numbers DEF Stat, QuestUpdate
  <1>5. /\ me' = [me EXCEPT ![p].kills = IF k >= TARGET THEN 0 ELSE k]
        /\ past' = [past EXCEPT ![p].kills = @ + 1]
        /\ Then(w, (IF k >= TARGET THEN <<a, b, c>> ELSE <<>>) \o <<d>>)
    BY <1>2 DEF ProcessQuestKill
  <1>6. k < TARGET <=> ~(k >= TARGET)
    BY <1>3, Numbers
  <1> HIDE DEF a, b, c, d, k, Ops
  <1>7. <<d>> \in Seq(Ops) /\ <<a, b, c, d>> \in Seq(Ops)
    BY <1>4, Shorts
  <1>8. <<a, b, c>> \o <<d>> = <<a, b, c, d>> /\ <<>> \o <<d>> = <<d>>
    <2>1. <<a, b, c>> \o <<d>> = <<a, b, c, d>>
      BY <1>4, Join4, SMTT(30)
    <2>2. <<>> \o <<d>> = <<d>>
      BY <1>7, Empties, Zenon
    <2> QED BY <2>1, <2>2
  <1>9. CASE k >= TARGET
    <2>1. me' = [me EXCEPT ![p].kills = 0] /\ Then(w, <<a, b, c, d>>)
      BY <1>5, <1>8, <1>9, Zenon
    <2> QED BY <1>1, <1>2, <1>5, <1>7, <1>9, <2>1, Zenon DEF a, b, c, d, k
  <1>10. CASE ~(k >= TARGET)
    <2>1. me' = [me EXCEPT ![p].kills = k] /\ Then(w, <<d>>)
      BY <1>5, <1>8, <1>10, Zenon
    <2> QED BY <1>1, <1>2, <1>5, <1>6, <1>7, <1>10, <2>1, Zenon DEF d, k
  <1> QED BY <1>9, <1>10

LEMMA GiftWay ==
    ASSUME Typed, NEW w \in Workers, Gift(w)
    PROVE  /\ Op(w, "gift")
           /\ \E p \in PC : \E ops \in Seq(Ops) :
                 /\ todo[w][1] = <<"gift", p>>
                 /\ me' = [me EXCEPT ![p].inv["boost"] = @ + 1]
                 /\ past' = [past EXCEPT ![p].rewards = @ + 1]
                 /\ ops = <<ItemAdd(p, "boost")>> /\ Then(w, ops)
  <1>1. /\ Op(w, "gift") /\ Arg(w, 1) \in PC /\ todo[w][1] = <<"gift", Arg(w, 1)>>
    BY HeadTypes DEF Gift, Typed
  <1>2. PICK p \in PC : p = Arg(w, 1)
    BY <1>1
  <1>3. <<ItemAdd(p, "boost")>> \in Seq(Ops)
    BY OpsMade, Shorts DEF ItemAdd, Slots
  <1> QED BY <1>1, <1>2, <1>3 DEF Gift

LEMMA MoveWay ==
    ASSUME Typed, NEW w \in Workers, NEW p \in PC, Move(w, p)
    PROVE  /\ UNCHANGED <<world, ingame, hurt, me, row, client, used, past>>
           /\ p \in ingame
           /\ \E t \in {"on", "near", "far"} :
                 /\ place' = [place EXCEPT ![p] = t]
                 /\ strayed' = IF t = "far" THEN strayed \cup {p} ELSE strayed
           /\ \E ops \in Seq(Ops) :
                 /\ Take(w, "recv", p, ops)
                 /\ \A k \in 1 .. Len(ops) : \E i \in active : ops[k] = <<"pick", p, i>>
  <1>1. PICK t \in {"on", "near", "far"} :
            /\ place' = [place EXCEPT ![p] = t]
            /\ strayed' = IF t = "far" THEN strayed \cup {p} ELSE strayed
            /\ Take(w, "recv", p, IF t = "on" THEN OfAll("pick", p, active) ELSE <<>>)
    BY DEF Move, For, OfAll
  <1>2. PICK S \in SUBSET Items : S = active
    BY DEF Typed, Data
  <1>3. PICK ops \in Seq(Ops) :
            /\ ops = OfAll("pick", p, S)
            /\ \A k \in 1 .. Len(ops) : \E i \in S : ops[k] = <<"pick", p, i>>
    BY OfAllOps
  <1>4. <<>> \in Seq(Ops) /\ \A k \in 1 .. Len(<<>>) : FALSE
    OBVIOUS
  <1>5. Take(w, "recv", p, ops) \/ Take(w, "recv", p, <<>>)
    BY <1>1, <1>2, <1>3, Zenon
  <1>6. \E x \in Seq(Ops) :
            /\ Take(w, "recv", p, x)
            /\ \A k \in 1 .. Len(x) : \E i \in active : x[k] = <<"pick", p, i>>
    BY <1>2, <1>3, <1>4, <1>5, Zenon
  <1>7. UNCHANGED <<world, ingame, hurt, me, row, client, used, past>> /\ p \in ingame
    BY DEF Move
  <1> QED BY <1>1, <1>6, <1>7

LEMMA PickWay ==
    ASSUME Typed, NEW w \in Workers, PickUpItem(w)
    PROVE  /\ Op(w, "pick")
           /\ UNCHANGED <<g_next_item_id, where, hurt, me, row, client, used, past>>
           /\ \E p \in PC, i \in Items : \E ops \in Seq(Ops) :
                 /\ todo[w][1] = <<"pick", p, i>>
                 /\ Then(w, ops)
                 /\ \/ /\ i \in active /\ active' = active \ {i}
                       /\ picked' = [picked EXCEPT ![i] = @ + 1]
                       /\ ops = <<<<"got", p, i>>>>
                    \/ i \notin active /\ ops = <<>> /\ UNCHANGED <<active, picked>>
  <1>1. /\ Op(w, "pick") /\ Arg(w, 1) \in PC /\ Arg(w, 2) \in Items
        /\ todo[w][1] = <<"pick", Arg(w, 1), Arg(w, 2)>>
        /\ UNCHANGED <<g_next_item_id, where, hurt, me, row, client, used, past>>
    BY HeadTypes DEF PickUpItem, Typed
  <1>2. PICK p \in PC, i \in Items : p = Arg(w, 1) /\ i = Arg(w, 2)
    BY <1>1
  <1>3. <<>> \in Seq(Ops) /\ <<<<"got", p, i>>>> \in Seq(Ops)
    BY OpsMade, Shorts
  <1>4. \/ /\ i \in active /\ active' = active \ {i}
           /\ picked' = [picked EXCEPT ![i] = @ + 1]
           /\ Then(w, <<<<"got", p, i>>>>)
        \/ i \notin active /\ Then(w, <<>>) /\ UNCHANGED <<active, picked>>
    BY <1>2 DEF PickUpItem
  <1> QED BY <1>1, <1>2, <1>3, <1>4, Zenon

LEMMA GotWay ==
    ASSUME Typed, NEW w \in Workers, Got(w)
    PROVE  /\ Op(w, "got")
           /\ UNCHANGED <<world, where, hurt, row, client, used, past>>
           /\ \E p \in PC, i \in Items : \E ops \in Seq(Ops) :
                 /\ todo[w][1] = <<"got", p, i>>
                 /\ me' = [me EXCEPT ![p].inv["potion"] = @ + 1]
                 /\ Then(w, ops)
                 /\ \A k \in 1 .. Len(ops) : \/ \E q \in Near : ops[k] = <<"vanish", q, i>>
                                             \/ ops[k] = ItemAdd(p, "potion")
                 /\ \A q \in Near : Among(ops, <<"vanish", q, i>>)
                 /\ Among(ops, ItemAdd(p, "potion"))
  <1>1. /\ Op(w, "got") /\ Arg(w, 1) \in PC /\ Arg(w, 2) \in Items
        /\ todo[w][1] = <<"got", Arg(w, 1), Arg(w, 2)>>
        /\ UNCHANGED <<world, where, hurt, row, client, used, past>>
    BY HeadTypes DEF Got, Typed
  <1>2. PICK p \in PC, i \in Items : p = Arg(w, 1) /\ i = Arg(w, 2)
    BY <1>1
  <1>3. PICK S \in SUBSET PC : S = Near
    BY DEF Typed, Data, Near
  <1>4. /\ me' = [me EXCEPT ![p].inv["potion"] = @ + 1]
        /\ Then(w, ToAll("vanish", S, i) \o <<ItemAdd(p, "potion")>>)
    BY <1>2, <1>3 DEF Got, For, ToAll, Audience
  <1>5. PICK s \in Seq(Ops) :
            /\ s = ToAll("vanish", S, i)
            /\ \A k \in 1 .. Len(s) : \E q \in S : s[k] = <<"vanish", q, i>>
            /\ \A q \in S : \E k \in 1 .. Len(s) : s[k] = <<"vanish", q, i>>
    BY ToAllOps
  <1>6. PICK op \in Ops : op = ItemAdd(p, "potion")
    BY OpsMade DEF ItemAdd, Slots
  <1> DEFINE X == {<<"vanish", q, i>> : q \in Near} \cup {op}
  <1> HIDE DEF Ops
  <1>7. PICK t \in Seq(Ops) : t = <<op>> /\ Only(t, X) /\ Among(t, op)
    <2>1. <<op>> \in Seq(Ops) /\ Len(<<op>>) = 1 /\ <<op>>[1] = op /\ 1 .. 1 = {1}
      OBVIOUS
    <2>2. op \in X
      OBVIOUS
    <2> HIDE DEF X
    <2>3. Only(<<op>>, X) /\ Among(<<op>>, op)
      BY <2>1, <2>2, Zenon DEF Only, Among
    <2> QED BY <2>1, <2>3, Zenon
  <1>8. Only(s, X) /\ \A q \in Near : Among(s, <<"vanish", q, i>>)
    BY <1>3, <1>5, Zenon DEF Only, Among
  <1> HIDE DEF X
  <1>9. PICK ops \in Seq(Ops) :
            /\ ops = s \o t /\ Only(ops, X)
            /\ \A x : Among(ops, x) <=> Among(s, x) \/ Among(t, x)
    <2>1. PICK r : r = s \o t
      OBVIOUS
    <2>2. /\ r \in Seq(Ops)
          /\ \A x : Among(r, x) <=> Among(s, x) \/ Among(t, x)
          /\ \A Y : Only(s, Y) /\ Only(t, Y) => Only(r, Y)
      BY <2>1, Joined, Zenon
    <2> QED BY <1>7, <1>8, <2>1, <2>2, Zenon
  <1>10. Then(w, ops)
    BY <1>4, <1>5, <1>6, <1>7, <1>9, Zenon
  <1>11. \A k \in 1 .. Len(ops) : \/ \E q \in Near : ops[k] = <<"vanish", q, i>>
                                  \/ ops[k] = ItemAdd(p, "potion")
    BY <1>6, <1>9, Zenon DEF Only, X
  <1>12. /\ \A q \in Near : Among(ops, <<"vanish", q, i>>)
         /\ Among(ops, ItemAdd(p, "potion"))
    BY <1>6, <1>7, <1>8, <1>9, Zenon
  <1> QED BY <1>1, <1>2, <1>4, <1>10, <1>11, <1>12, Zenon

\* The packets of a login: all there is to show.
LEMMA LoginWay ==
    ASSUME Typed, NEW w \in Workers, NEW p \in PC, Login(w, p)
    PROVE  \E ops \in Seq(Ops) :
              /\ Take(w, "recv", p, ops)
              /\ \A k \in 1 .. Len(ops) :
                    \/ ops[k] = Stat(p) \/ ops[k] = QuestUpdate(p)
                    \/ \E s \in Slots : ops[k] = ItemAdd(p, s)
                    \/ \E i \in active : ops[k] = <<"list", p, i>>
              /\ Among(ops, Stat(p)) /\ Among(ops, QuestUpdate(p))
              /\ \A s \in Slots : row[p].inv[s] > 0 => Among(ops, ItemAdd(p, s))
              /\ \A i \in active : Among(ops, <<"list", p, i>>)
  <1>1. PICK S \in SUBSET Slots : S = {s \in Slots : row[p].inv[s] > 0}
    OBVIOUS
  <1>2. PICK I \in SUBSET Items : I = active
    BY DEF Typed, Data
  <1>3. Take(w, "recv", p, <<Stat(p)>> \o OfAll("item_add", p, S)
                           \o OfAll("list", p, I) \o <<QuestUpdate(p)>>)
    BY <1>1, <1>2 DEF Login, For, OfAll, ItemAdd
  <1>4. PICK s2 \in Seq(Ops) :
            /\ s2 = OfAll("item_add", p, S)
            /\ \A k \in 1 .. Len(s2) : \E s \in S : s2[k] = <<"item_add", p, s>>
            /\ \A s \in S : \E k \in 1 .. Len(s2) : s2[k] = <<"item_add", p, s>>
    BY OfAllOps
  <1>5. PICK s3 \in Seq(Ops) :
            /\ s3 = OfAll("list", p, I)
            /\ \A k \in 1 .. Len(s3) : \E i \in I : s3[k] = <<"list", p, i>>
            /\ \A i \in I : \E k \in 1 .. Len(s3) : s3[k] = <<"list", p, i>>
    BY OfAllOps
  <1>6. PICK a \in Ops, b \in Ops : a = Stat(p) /\ b = QuestUpdate(p)
    BY OpsMade DEF Stat, QuestUpdate
  <1> HIDE DEF Ops
  <1> DEFINE X == {a, b} \cup {ItemAdd(p, s) : s \in Slots} \cup {<<"list", p, i>> : i \in active}
  <1>7. a \in X /\ b \in X
    OBVIOUS
  <1>8. Only(s2, X)
    BY <1>1, <1>4, Zenon DEF Only, ItemAdd
  <1>9. Only(s3, X)
    BY <1>2, <1>5, Zenon DEF Only
  <1>10. ASSUME NEW op \in Ops, op \in X
         PROVE  <<op>> \in Seq(Ops) /\ Only(<<op>>, X) /\ Among(<<op>>, op)
    <2>1. <<op>> \in Seq(Ops) /\ Len(<<op>>) = 1 /\ <<op>>[1] = op /\ 1 .. 1 = {1}
      OBVIOUS
    <2> HIDE DEF X
    <2> QED BY <1>10, <2>1, Zenon DEF Only, Among
  <1> HIDE DEF X
  <1>11. PICK s1 \in Seq(Ops) : s1 = <<a>> /\ Only(s1, X) /\ Among(s1, a)
    BY <1>7, <1>10, Zenon
  <1>12. PICK s4 \in Seq(Ops) : s4 = <<b>> /\ Only(s4, X) /\ Among(s4, b)
    BY <1>7, <1>10, Zenon
  <1>13. ASSUME NEW s \in Seq(Ops), NEW t \in Seq(Ops), Only(s, X), Only(t, X)
         PROVE  \E r \in Seq(Ops) :
                    /\ r = s \o t /\ Only(r, X)
                    /\ \A x : Among(r, x) <=> Among(s, x) \/ Among(t, x)
    <2>1. PICK r : r = s \o t
      OBVIOUS
    <2>2. /\ r \in Seq(Ops)
          /\ \A x : Among(r, x) <=> Among(s, x) \/ Among(t, x)
          /\ \A Y : Only(s, Y) /\ Only(t, Y) => Only(r, Y)
      BY <2>1, Joined, Zenon
    <2> QED BY <1>13, <2>1, <2>2, Zenon
  <1>14. PICK r1 \in Seq(Ops) : /\ r1 = s1 \o s2 /\ Only(r1, X)
                                /\ \A x : Among(r1, x) <=> Among(s1, x) \/ Among(s2, x)
    <2>1. Only(s1, X) /\ Only(s2, X)
      BY <1>8, <1>11
    <2> QED BY <1>13, <2>1, Zenon
  <1>15. PICK r2 \in Seq(Ops) : /\ r2 = r1 \o s3 /\ Only(r2, X)
                                /\ \A x : Among(r2, x) <=> Among(r1, x) \/ Among(s3, x)
    <2>1. Only(r1, X) /\ Only(s3, X)
      BY <1>9, <1>14
    <2> QED BY <1>13, <2>1, Zenon
  <1>16. PICK ops \in Seq(Ops) : /\ ops = r2 \o s4 /\ Only(ops, X)
                                 /\ \A x : Among(ops, x) <=> Among(r2, x) \/ Among(s4, x)
    <2>1. Only(r2, X) /\ Only(s4, X)
      BY <1>12, <1>15
    <2> QED BY <1>13, <2>1, Zenon
  <1>17. Take(w, "recv", p, ops)
    <2>1. /\ OfAll("item_add", p, S) = s2 /\ OfAll("list", p, I) = s3
          /\ <<Stat(p)>> = s1 /\ <<QuestUpdate(p)>> = s4
      BY <1>4, <1>5, <1>6, <1>11, <1>12, Zenon
    <2>2. Take(w, "recv", p, s1 \o s2 \o s3 \o s4)
      BY <1>3, <2>1, Zenon
    <2> QED BY <1>14, <1>15, <1>16, <2>2, Zenon
  <1>18. \A k \in 1 .. Len(ops) :
             \/ ops[k] = Stat(p) \/ ops[k] = QuestUpdate(p)
             \/ \E s \in Slots : ops[k] = ItemAdd(p, s)
             \/ \E i \in active : ops[k] = <<"list", p, i>>
    BY <1>6, <1>16, Zenon DEF Only, X
  <1>19. Among(ops, Stat(p)) /\ Among(ops, QuestUpdate(p))
    BY <1>6, <1>11, <1>12, <1>14, <1>15, <1>16, Zenon
  <1>20. \A s \in Slots : row[p].inv[s] > 0 => Among(ops, ItemAdd(p, s))
    <2>1. \A s \in S : Among(s2, ItemAdd(p, s))
      BY <1>4, Zenon DEF Among, ItemAdd
    <2>2. \A s \in Slots : row[p].inv[s] > 0 => s \in S
      BY <1>1, Zenon
    <2> QED BY <1>14, <1>15, <1>16, <2>1, <2>2, Zenon
  <1>21. \A i \in active : Among(ops, <<"list", p, i>>)
    <2>1. \A i \in active : Among(s3, <<"list", p, i>>)
      BY <1>2, <1>5, Zenon DEF Among
    <2> QED BY <1>15, <1>16, <2>1, Zenon
  <1> QED BY <1>17, <1>18, <1>19, <1>20, <1>21, Zenon

LEMMA ListWay ==
    ASSUME Typed, NEW w \in Workers, ListItem(w)
    PROVE  /\ Op(w, "list")
           /\ \E p \in PC, i \in Items : \E ops \in Seq(Ops) :
                 /\ todo[w][1] = <<"list", p, i>>
                 /\ Then(w, ops)
                 /\ \/ i \in active /\ ops = <<<<"appear", p, i>>>>
                    \/ i \notin active /\ ops = <<>>
  <1>1. /\ Op(w, "list") /\ Arg(w, 1) \in PC /\ Arg(w, 2) \in Items
        /\ todo[w][1] = <<"list", Arg(w, 1), Arg(w, 2)>>
    BY HeadTypes DEF ListItem, Typed
  <1>2. PICK p \in PC, i \in Items : p = Arg(w, 1) /\ i = Arg(w, 2)
    BY <1>1
  <1>3. <<>> \in Seq(Ops) /\ <<<<"appear", p, i>>>> \in Seq(Ops)
    BY OpsMade, Shorts
  <1>4. \/ i \in active /\ Then(w, <<<<"appear", p, i>>>>)
        \/ i \notin active /\ Then(w, <<>>)
    BY <1>2 DEF ListItem
  <1> QED BY <1>1, <1>2, <1>3, <1>4, Zenon

LEMMA ShortWays ==
    ASSUME Typed, NEW w \in Workers, NEW p \in PC
    PROVE  /\ \A s \in Slots : UseItem(w, p, s) =>
                 \E ops \in Seq(Ops) : ops = <<Stat(p), ItemAdd(p, s)>> /\ Take(w, "recv", p, ops)
           /\ Wound(w, p) => \E ops \in Seq(Ops) : ops = <<Stat(p)>> /\ Take(w, "tick", p, ops)
           /\ Die(w, p) => \E ops \in Seq(Ops) :
                 ops = <<<<"halve", p, me[p].xp>>, Stat(p)>> /\ Take(w, "tick", p, ops)
           /\ Disconnect(w, p) => \E ops \in Seq(Ops) :
                 ops = <<>> /\ Take(w, "drop", p, ops)
  <1>1. me[p].xp \in Nat
    BY DEF Typed, Data, Sheets
  <1>2. /\ Stat(p) \in Ops /\ <<"halve", p, me[p].xp>> \in Ops
        /\ \A s \in Slots : ItemAdd(p, s) \in Ops
    BY <1>1, OpsMade DEF Stat, ItemAdd
  <1> HIDE DEF Ops
  <1>3. /\ \A s \in Slots : <<Stat(p), ItemAdd(p, s)>> \in Seq(Ops)
        /\ <<Stat(p)>> \in Seq(Ops) /\ <<<<"halve", p, me[p].xp>>, Stat(p)>> \in Seq(Ops)
        /\ <<>> \in Seq(Ops)
    BY <1>2, Shorts
  <1> QED BY <1>3 DEF UseItem, Wound, Die, Disconnect
-----------------------------------------------------------------------------
(* What an assignment to a part of a sheet leaves of the sheets.           *)

LEMMA SetXp ==
    ASSUME NEW f \in [PC -> Sheets], NEW p \in PC, NEW l \in Nat \ {0}, NEW x \in Nat,
           NEW m, m = [f EXCEPT ![p].level = l, ![p].xp = x]
    PROVE  /\ m \in [PC -> Sheets]
           /\ m[p].inv = f[p].inv /\ m[p].kills = f[p].kills /\ m[p].level = l /\ m[p].xp = x
           /\ \A q \in PC : q # p => m[q] = f[q]
  BY DEF Sheets

LEMMA SetXpOnly ==
    ASSUME NEW f \in [PC -> Sheets], NEW p \in PC, NEW x \in Nat,
           NEW m, m = [f EXCEPT ![p].xp = x]
    PROVE  /\ m \in [PC -> Sheets]
           /\ m[p].inv = f[p].inv /\ m[p].kills = f[p].kills /\ m[p].level = f[p].level
           /\ m[p].xp = x
           /\ \A q \in PC : q # p => m[q] = f[q]
  BY DEF Sheets

LEMMA SetKills ==
    ASSUME NEW f \in [PC -> Sheets], NEW p \in PC, NEW k \in Nat,
           NEW m, m = [f EXCEPT ![p].kills = k]
    PROVE  /\ m \in [PC -> Sheets]
           /\ m[p].inv = f[p].inv /\ m[p].kills = k /\ m[p].level = f[p].level
           /\ m[p].xp = f[p].xp
           /\ \A q \in PC : q # p => m[q] = f[q]
  BY DEF Sheets

LEMMA SetInv ==
    ASSUME NEW f \in [PC -> Sheets], NEW p \in PC, NEW s \in Slots, NEW n \in Nat,
           NEW m, m = [f EXCEPT ![p].inv[s] = n]
    PROVE  /\ m \in [PC -> Sheets]
           /\ m[p].inv[s] = n /\ \A t \in Slots : t # s => m[p].inv[t] = f[p].inv[t]
           /\ m[p].kills = f[p].kills /\ m[p].level = f[p].level /\ m[p].xp = f[p].xp
           /\ \A q \in PC : q # p => m[q] = f[q]
  BY DEF Sheets

LEMMA SetPast ==
    ASSUME NEW f \in [PC -> Pasts], NEW p \in PC, NEW n \in Nat
    PROVE  /\ [f EXCEPT ![p].kills = @ + 1] \in [PC -> Pasts]
           /\ [f EXCEPT ![p].rewards = @ + 1] \in [PC -> Pasts]
           /\ [f EXCEPT ![p].earned = @ + n] \in [PC -> Pasts]
           /\ [f EXCEPT ![p].deaths = @ + 1, ![p].lost = @ + n - n \div 2] \in [PC -> Pasts]
  <1>1. [f EXCEPT ![p].kills = @ + 1] \in [PC -> Pasts]
    BY DEF Pasts
  <1>2. [f EXCEPT ![p].rewards = @ + 1] \in [PC -> Pasts]
    BY DEF Pasts
  <1>3. [f EXCEPT ![p].earned = @ + n] \in [PC -> Pasts]
    BY DEF Pasts
  <1>4. [f EXCEPT ![p].deaths = @ + 1, ![p].lost = @ + n - n \div 2] \in [PC -> Pasts]
    <2>1. PICK d \in Nat : d = n - n \div 2
      OBVIOUS
    <2>2. PICK a \in Nat, b \in Nat : a = f[p].deaths + 1 /\ b = f[p].lost + d
      BY DEF Pasts
    <2>3. [f EXCEPT ![p].deaths = a, ![p].lost = b] \in [PC -> Pasts]
      BY DEF Pasts
    <2>4. [f EXCEPT ![p].deaths = @ + 1, ![p].lost = @ + d]
            = [f EXCEPT ![p].deaths = a, ![p].lost = b]
      BY <2>2 DEF Pasts
    <2> QED BY <2>1, <2>3, <2>4
  <1> QED BY <1>1, <1>2, <1>3, <1>4

LEMMA SheetParts ==
    ASSUME NEW r \in Sheets
    PROVE  /\ r.inv \in [Slots -> Nat] /\ r.kills \in Nat /\ r.level \in Nat \ {0} /\ r.xp \in Nat
           /\ \A s \in Slots : r.inv[s] \in Nat
  BY DEF Sheets
-----------------------------------------------------------------------------
(***************************************************************************)
(* Every step keeps the types, whatever the workers are.                   *)
(***************************************************************************)
\* A step of w: ops take the place of its next operation, or are a handler.
Step(w, ops) ==
    /\ ops \in Seq(Ops)
    /\ \/ \E name : Op(w, name) /\ Then(w, ops)
       \/ \E kind \in Kinds, p \in PC : Take(w, kind, p, ops)

LEMMA StepTurn ==
    ASSUME Shape, NEW w \in Workers, NEW ops, Step(w, ops)
    PROVE  /\ Shape' /\ pool' = pool /\ w \in pool
           /\ Turn(todo[w], ops, todo'[w])
           /\ \A v \in Workers \ {w} : todo'[v] = todo[v]
  <1>1. CASE \E name : Op(w, name) /\ Then(w, ops)
    <2>1. PICK name : Op(w, name) /\ Then(w, ops)
      BY <1>1
    <2>2. w \in pool
      BY <2>1, NextOp
    <2>3. ops \in Seq(Ops)
      BY DEF Step
    <2> HIDE DEF Ops
    <2> QED BY <2>1, <2>2, <2>3, ThenTurn
  <1>2. CASE \E kind \in Kinds, p \in PC : Take(w, kind, p, ops)
    <2>1. PICK kind \in Kinds, p \in PC : Take(w, kind, p, ops)
      BY <1>2
    <2>2. ops \in Seq(Ops)
      BY DEF Step
    <2> HIDE DEF Ops
    <2> QED BY <2>1, <2>2, TakeTurn
  <1> QED BY <1>1, <1>2 DEF Step

Sends(w) == \/ SendStat(w) \/ SendItemAdd(w) \/ SendQuestUpdate(w) \/ SendItemAppear(w)
            \/ SendItemRemove(w)

LEMMA SendsStep ==
    ASSUME Typed, NEW w \in Workers, Sends(w)
    PROVE  Step(w, <<>>) /\ UNCHANGED <<world, where, hurt, me, row, used, past>> /\ Data'
  <1>0. <<>> \in Seq(Ops)
    OBVIOUS
  <1>1. Step(w, <<>>) /\ UNCHANGED <<world, where, hurt, me, row, used, past>>
    BY <1>0 DEF Sends, SendStat, SendItemAdd, SendQuestUpdate, SendItemAppear, SendItemRemove, Step
  <1>2. shown' \in [PC -> Sheets] /\ shownItems' \in [PC -> SUBSET Items]
    <2>1. me \in [PC -> Sheets] /\ shown \in [PC -> Sheets] /\ shownItems \in [PC -> SUBSET Items]
      BY DEF Typed, Data
    <2>2. CASE SendStat(w)
      <3>1. Arg(w, 1) \in PC
        BY <2>2, HeadTypes DEF SendStat, Typed
      <3>2. PICK p \in PC : p = Arg(w, 1)
        BY <3>1
      <3>3. /\ \/ shown' = shown
               \/ shown' = [shown EXCEPT ![p].level = me[p].level, ![p].xp = me[p].xp]
            /\ shownItems' = shownItems
        BY <2>2, <3>2 DEF SendStat, OnStat
      <3>4. me[p].level \in Nat \ {0} /\ me[p].xp \in Nat
        BY <2>1, SheetParts
      <3> QED BY <2>1, <3>3, <3>4, SetXp
    <2>3. CASE SendItemAdd(w)
      <3>1. Arg(w, 1) \in PC /\ Arg(w, 2) \in Slots
        BY <2>3, HeadTypes DEF SendItemAdd, Typed
      <3>2. PICK p \in PC, s \in Slots : p = Arg(w, 1) /\ s = Arg(w, 2)
        BY <3>1
      <3>3. /\ shown' = shown \/ shown' = [shown EXCEPT ![p].inv[s] = me[p].inv[s]]
            /\ shownItems' = shownItems
        BY <2>3, <3>2 DEF SendItemAdd, OnItemAdd
      <3>4. me[p].inv[s] \in Nat
        BY <2>1, SheetParts
      <3> QED BY <2>1, <3>3, <3>4, SetInv, SMTT(30)
    <2>4. CASE SendQuestUpdate(w)
      <3>1. Arg(w, 1) \in PC
        BY <2>4, HeadTypes DEF SendQuestUpdate, Typed
      <3>2. PICK p \in PC : p = Arg(w, 1)
        BY <3>1
      <3>3. /\ shown' = shown \/ shown' = [shown EXCEPT ![p].kills = me[p].kills]
            /\ shownItems' = shownItems
        BY <2>4, <3>2 DEF SendQuestUpdate, OnQuestUpdate
      <3>4. me[p].kills \in Nat
        BY <2>1, SheetParts
      <3> QED BY <2>1, <3>3, <3>4, SetKills
    <2>5. CASE SendItemAppear(w)
      <3>1. Arg(w, 1) \in PC /\ Arg(w, 2) \in Items
        BY <2>5, HeadTypes DEF SendItemAppear, Typed
      <3>2. PICK p \in PC, i \in Items : p = Arg(w, 1) /\ i = Arg(w, 2)
        BY <3>1
      <3>3. /\ \/ shownItems' = shownItems
               \/ shownItems' = [shownItems EXCEPT ![p] = @ \cup {i}]
            /\ shown' = shown
        BY <2>5, <3>2 DEF SendItemAppear, OnItemAppear
      <3> QED BY <2>1, <3>3
    <2>6. CASE SendItemRemove(w)
      <3>1. Arg(w, 1) \in PC /\ Arg(w, 2) \in Items
        BY <2>6, HeadTypes DEF SendItemRemove, Typed
      <3>2. PICK p \in PC, i \in Items : p = Arg(w, 1) /\ i = Arg(w, 2)
        BY <3>1
      <3>3. /\ \/ shownItems' = shownItems
               \/ shownItems' = [shownItems EXCEPT ![p] = @ \ {i}]
            /\ shown' = shown
        BY <2>6, <3>2 DEF SendItemRemove, OnItemRemove
      <3> QED BY <2>1, <3>3
    <2> QED BY <2>2, <2>3, <2>4, <2>5, <2>6 DEF Sends
  <1>3. Data'
    BY <1>1, <1>2 DEF Typed, Data, world, where
  <1> QED BY <1>1, <1>3

Starts(w, p) == \/ Kill(w, p) \/ Move(w, p) \/ Wound(w, p) \/ Die(w, p)
                \/ Disconnect(w, p) \/ Login(w, p)
                \/ \E s \in Slots : UseItem(w, p, s)

LEMMA FreshTyped == Fresh \in Sheets
  BY DEF Fresh, Sheets

LEMMA StartsStep ==
    ASSUME Typed, NEW w \in Workers, NEW p \in PC, Starts(w, p)
    PROVE  Data' /\ \E ops : Step(w, ops)
  <1>1. CASE Kill(w, p)
    <2>1. \E ops : Step(w, ops)
      BY <1>1, KillWay DEF Step, Typed, Kinds
    <2>2. Data'
      BY <1>1 DEF Kill, Typed, Data, world, where, client
    <2> QED BY <2>1, <2>2
  <1>2. CASE Move(w, p)
    <2>1. \E ops : Step(w, ops)
      BY <1>2, MoveWay DEF Step, Kinds
    <2>2. place' \in [PC -> {"on", "near", "far"}] /\ strayed' \in SUBSET PC
      <3>1. PICK t \in {"on", "near", "far"} :
                /\ place' = [place EXCEPT ![p] = t]
                /\ strayed' = IF t = "far" THEN strayed \cup {p} ELSE strayed
        BY <1>2, MoveWay
      <3> QED BY <3>1 DEF Typed, Data
    <2>3. UNCHANGED <<world, ingame, hurt, me, row, client, used, past>>
      BY <1>2 DEF Move
    <2> QED BY <2>1, <2>2, <2>3 DEF Typed, Data, world, client
  <1>3. CASE Wound(w, p)
    <2>1. \E ops : Step(w, ops)
      BY <1>3, ShortWays DEF Step, Kinds
    <2> QED BY <1>3, <2>1 DEF Wound, Typed, Data, world, where, client
  <1>4. CASE Die(w, p)
    <2>1. \E ops : Step(w, ops)
      BY <1>4, ShortWays DEF Step, Kinds
    <2> QED BY <1>4, <2>1 DEF Die, Typed, Data, world, where, client
  <1>5. CASE Disconnect(w, p)
    <2>1. \E ops : Step(w, ops)
      BY <1>5, ShortWays DEF Step, Kinds
    <2>2. ingame' \in SUBSET PC /\ row' \in [PC -> Sheets]
      BY <1>5 DEF Disconnect, Typed, Data
    <2> QED BY <1>5, <2>1, <2>2 DEF Disconnect, Typed, Data, world, client
  <1>6. CASE Login(w, p)
    <2>1. \E ops : Step(w, ops)
      BY <1>6, LoginWay DEF Step, Kinds
    <2>2. /\ ingame' \in SUBSET PC /\ me' \in [PC -> Sheets] /\ shown' \in [PC -> Sheets]
          /\ shownItems' \in [PC -> SUBSET Items] /\ hurt' \in SUBSET PC
      BY <1>6, FreshTyped DEF Login, Restored, Typed, Data
    <2>3. place' \in [PC -> {"on", "near", "far"}] /\ strayed' \in SUBSET PC
      <3>1. PICK t \in {"on", "near", "far"} :
                /\ place' = [place EXCEPT ![p] = t]
                /\ strayed' = IF t = "far" THEN strayed \cup {p} ELSE strayed \ {p}
        BY <1>6 DEF Login
      <3> QED BY <3>1 DEF Typed, Data
    <2>4. UNCHANGED <<world, row, used, past>>
      BY <1>6 DEF Login
    <2> QED BY <2>1, <2>2, <2>3, <2>4 DEF Typed, Data, world
  <1>7. ASSUME NEW s \in Slots, UseItem(w, p, s) PROVE Data' /\ \E ops : Step(w, ops)
    <2>1. \E ops : Step(w, ops)
      BY <1>7, ShortWays DEF Step, Kinds
    <2>2. me \in [PC -> Sheets] /\ me[p].inv[s] \in Nat
      BY SheetParts DEF Typed, Data
    <2>3. me[p].inv[s] > 0 /\ me' = [me EXCEPT ![p].inv[s] = me[p].inv[s] - 1]
      BY <1>7 DEF UseItem
    <2>4. me' \in [PC -> Sheets]
      <3>1. me[p].inv[s] - 1 \in Nat
        BY <2>2, <2>3
      <3> QED BY <2>2, <2>3, <3>1, SetInv
    <2>5. hurt' \in SUBSET PC
      BY <1>7 DEF UseItem, Typed, Data
    <2>6. used' \in [Slots -> Nat]
      BY <1>7 DEF UseItem, Typed, Data
    <2>7. UNCHANGED <<world, where, row, client, past>>
      BY <1>7 DEF UseItem
    <2> QED BY <2>1, <2>4, <2>5, <2>6, <2>7 DEF Typed, Data, world, where, client
  <1> QED BY <1>1, <1>2, <1>3, <1>4, <1>5, <1>6, <1>7 DEF Starts

Works(w) == \/ SpawnItem(w) \/ ReadXp(w) \/ WriteXp(w) \/ ProcessQuestKill(w)
            \/ Gift(w) \/ PickUpItem(w) \/ Got(w) \/ Halve(w) \/ ListItem(w)

LEMMA WriteWay ==
    ASSUME Typed, NEW w \in Workers, WriteXp(w)
    PROVE  /\ Op(w, "write") /\ Step(w, <<>>)
           /\ UNCHANGED <<world, where, row, client, used>>
           /\ \E p \in PC, g, x \in Nat : \E l \in Nat \ {0}, y \in Nat :
                 /\ todo[w][1][1] = "write" /\ todo[w][1][2] = p
                 /\ todo[w][1][3] = g /\ todo[w][1][4] = x
                 /\ y < exp_for_next_level(l)
                 /\ exp_for_next_level(l) + y = exp_for_next_level(me[p].level) + x
                 /\ me' = [me EXCEPT ![p].level = l, ![p].xp = y]
                 /\ hurt' = hurt \ {p}
                 /\ past' = [past EXCEPT ![p].earned = @ + g]
  <1>1. /\ Op(w, "write") /\ Arg(w, 1) \in PC /\ Arg(w, 2) \in Nat /\ Arg(w, 3) \in Nat
    BY HeadTypes DEF WriteXp, Typed
  <1>2. PICK p \in PC, g \in Nat, x \in Nat : p = Arg(w, 1) /\ g = Arg(w, 2) /\ x = Arg(w, 3)
    BY <1>1
  <1>3. /\ todo[w][1][1] = "write" /\ todo[w][1][2] = p
        /\ todo[w][1][3] = g /\ todo[w][1][4] = x
    BY <1>1, <1>2, NextOp DEF Typed
  <1>4. me[p].level \in Nat \ {0}
    BY SheetParts DEF Typed, Data
  <1>5. PICK r : r = Levelled(me[p].level, x)
    OBVIOUS
  <1>6. /\ r[1] \in Nat \ {0} /\ r[2] \in Nat
        /\ r[2] < exp_for_next_level(r[1])
        /\ exp_for_next_level(r[1]) + r[2] = exp_for_next_level(me[p].level) + x
    BY <1>4, <1>5, LevelUpResult, Zenon
  <1>7. /\ me' = [me EXCEPT ![p].level = r[1], ![p].xp = r[2]]
        /\ hurt' = hurt \ {p}
        /\ past' = [past EXCEPT ![p].earned = @ + g]
    BY <1>2, <1>5 DEF WriteXp
  <1>8. Step(w, <<>>) /\ UNCHANGED <<world, where, row, client, used>>
    <2>1. <<>> \in Seq(Ops)
      OBVIOUS
    <2> QED BY <1>1, <2>1 DEF WriteXp, Step
  <1> QED BY <1>1, <1>3, <1>6, <1>7, <1>8, Zenon

\* What WriteXp writes, when only the values written matter.
LEMMA WriteParts ==
    ASSUME Typed, NEW w \in Workers, WriteXp(w)
    PROVE  \E p \in PC, g \in Nat, l \in Nat \ {0}, y \in Nat :
              /\ me' = [me EXCEPT ![p].level = l, ![p].xp = y]
              /\ past' = [past EXCEPT ![p].earned = @ + g]
  <1>1. Arg(w, 1) \in PC /\ Arg(w, 2) \in Nat /\ Arg(w, 3) \in Nat
    BY HeadTypes DEF WriteXp, Typed
  <1>2. PICK p \in PC, g \in Nat, x \in Nat : p = Arg(w, 1) /\ g = Arg(w, 2) /\ x = Arg(w, 3)
    BY <1>1
  <1>3. me[p].level \in Nat \ {0}
    BY SheetParts DEF Typed, Data
  <1>4. PICK r : r = Levelled(me[p].level, x)
    OBVIOUS
  <1>5. r[1] \in Nat \ {0} /\ r[2] \in Nat
    BY <1>3, <1>4, LevelUpResult, ZenonT(60)
  <1>6. me' = [me EXCEPT ![p].level = r[1], ![p].xp = r[2]]
    BY <1>2, <1>4 DEF WriteXp
  <1>7. past' = [past EXCEPT ![p].earned = @ + g]
    BY <1>2 DEF WriteXp
  <1> USE <1>5
  <1> WITNESS p \in PC, g \in Nat, r[1] \in Nat \ {0}, r[2] \in Nat
  <1> QED BY <1>6, <1>7

LEMMA HalveWay ==
    ASSUME Typed, NEW w \in Workers, Halve(w)
    PROVE  /\ Op(w, "halve") /\ Step(w, <<>>)
           /\ UNCHANGED <<world, ingame, row, client, used>>
           /\ \E p \in PC, x \in Nat :
                 /\ todo[w][1] = <<"halve", p, x>>
                 /\ me' = [me EXCEPT ![p].xp = x \div 2]
                 /\ past' = [past EXCEPT ![p].deaths = @ + 1, ![p].lost = @ + x - x \div 2]
                 /\ hurt' = hurt \ {p}
                 /\ place' = [place EXCEPT ![p] = "far"]
                 /\ strayed' = strayed \cup {p}
  <1>1. /\ Op(w, "halve") /\ Arg(w, 1) \in PC /\ Arg(w, 2) \in Nat
        /\ todo[w][1] = <<"halve", Arg(w, 1), Arg(w, 2)>>
    BY HeadTypes DEF Halve, Typed
  <1>2. PICK p \in PC, x \in Nat : p = Arg(w, 1) /\ x = Arg(w, 2)
    BY <1>1
  <1>3. <<>> \in Seq(Ops)
    OBVIOUS
  <1>4. Step(w, <<>>) /\ UNCHANGED <<world, ingame, row, client, used>>
    BY <1>1, <1>3 DEF Halve, Step
  <1>5. /\ me' = [me EXCEPT ![p].xp = x \div 2]
        /\ past' = [past EXCEPT ![p].deaths = @ + 1, ![p].lost = @ + x - x \div 2]
        /\ hurt' = hurt \ {p}
        /\ place' = [place EXCEPT ![p] = "far"]
        /\ strayed' = strayed \cup {p}
    BY <1>2 DEF Halve
  <1> QED BY <1>1, <1>2, <1>4, <1>5, Zenon

LEMMA WorksStep ==
    ASSUME Typed, NEW w \in Workers, Works(w)
    PROVE  Data' /\ \E ops : Step(w, ops)
  <1>0. me \in [PC -> Sheets] /\ past \in [PC -> Pasts]
    BY DEF Typed, Data
  <1>1. CASE SpawnItem(w)
    <2>1. <<>> \in Seq(Ops)
      OBVIOUS
    <2>2. \E ops : Step(w, ops)
      BY <1>1, <2>1, SpawnWay DEF Step
    <2>3. g_next_item_id' \in 0 .. MAX_ITEMS /\ active' \in SUBSET Items
      <3>1. g_next_item_id \in Items => g_next_item_id + 1 \in 0 .. MAX_ITEMS
        BY Numbers DEF Items
      <3> QED BY <1>1, <3>1, SpawnWay DEF Typed, Data
    <2>4. UNCHANGED <<picked, where, hurt, me, row, client, used, past>>
      BY <1>1, SpawnWay
    <2> QED BY <2>2, <2>3, <2>4 DEF Typed, Data, where, client
  <1>2. CASE ReadXp(w)
    <2>1. \E ops : Step(w, ops)
      BY <1>2, ReadWay DEF Step
    <2> QED BY <1>2, <2>1 DEF ReadXp, Typed, Data, world, where, client
  <1>3. CASE WriteXp(w)
    <2>1. Step(w, <<>>) /\ UNCHANGED <<world, where, row, client, used>>
      BY <1>3, WriteWay
    <2>2. PICK p \in PC, g \in Nat, x \in Nat : \E l \in Nat \ {0}, y \in Nat :
              /\ todo[w][1][1] = "write" /\ todo[w][1][2] = p
              /\ todo[w][1][3] = g /\ todo[w][1][4] = x
              /\ y < exp_for_next_level(l)
              /\ exp_for_next_level(l) + y = exp_for_next_level(me[p].level) + x
              /\ me' = [me EXCEPT ![p].level = l, ![p].xp = y]
              /\ hurt' = hurt \ {p}
              /\ past' = [past EXCEPT ![p].earned = @ + g]
      BY <1>3, WriteWay, Zenon
    <2>3. PICK l \in Nat \ {0}, y \in Nat :
              /\ me' = [me EXCEPT ![p].level = l, ![p].xp = y]
              /\ hurt' = hurt \ {p}
              /\ past' = [past EXCEPT ![p].earned = @ + g]
      BY <2>2
    <2>4. me' \in [PC -> Sheets]
      BY <1>0, <2>3 DEF Sheets
    <2>5. past' \in [PC -> Pasts]
      BY <1>0, <2>3, SetPast
    <2>6. hurt' \in SUBSET PC
      BY <2>3 DEF Typed, Data
    <2> QED BY <2>1, <2>4, <2>5, <2>6 DEF Typed, Data, world, where, client
  <1>4. CASE ProcessQuestKill(w)
    <2>1. \E ops : Step(w, ops)
      BY <1>4, QuestWay DEF Step
    <2>2. PICK p \in PC : /\ past' = [past EXCEPT ![p].kills = @ + 1]
                          /\ \/ me' = [me EXCEPT ![p].kills = me[p].kills + 1]
                             \/ me' = [me EXCEPT ![p].kills = 0]
      BY <1>4, QuestWay
    <2>3. me[p].kills + 1 \in Nat /\ 0 \in Nat
      BY <1>0, SheetParts
    <2>4. me' \in [PC -> Sheets]
      <3>1. CASE me' = [me EXCEPT ![p].kills = me[p].kills + 1]
        BY <1>0, <2>3, <3>1, SetKills, Zenon
      <3>2. CASE me' = [me EXCEPT ![p].kills = 0]
        BY <1>0, <2>3, <3>2, SetKills, Zenon
      <3> QED BY <2>2, <3>1, <3>2
    <2>5. past' \in [PC -> Pasts]
      <3>1. 0 \in Nat
        OBVIOUS
      <3> QED BY <1>0, <2>2, <3>1, SetPast
    <2>6. UNCHANGED <<world, where, hurt, row, client, used>>
      BY <1>4 DEF ProcessQuestKill
    <2> QED BY <2>1, <2>4, <2>5, <2>6 DEF Typed, Data, world, where, client
  <1>5. CASE Gift(w)
    <2>1. \E ops : Step(w, ops)
      BY <1>5, GiftWay DEF Step
    <2>2. PICK p \in PC : /\ past' = [past EXCEPT ![p].rewards = @ + 1]
                          /\ me' = [me EXCEPT ![p].inv["boost"] = @ + 1]
      BY <1>5, GiftWay
    <2>3. me[p].inv["boost"] + 1 \in Nat /\ "boost" \in Slots
      BY <1>0, SheetParts DEF Slots
    <2>4. me' = [me EXCEPT ![p].inv["boost"] = me[p].inv["boost"] + 1]
      BY <2>2
    <2>5. me' \in [PC -> Sheets]
      BY <1>0, <2>3, <2>4, SetInv
    <2>6. past' \in [PC -> Pasts]
      <3>1. 0 \in Nat
        OBVIOUS
      <3> QED BY <1>0, <2>2, <3>1, SetPast
    <2>7. UNCHANGED <<world, where, hurt, row, client, used>>
      BY <1>5 DEF Gift
    <2> QED BY <2>1, <2>5, <2>6, <2>7 DEF Typed, Data, world, where, client
  <1>6. CASE PickUpItem(w)
    <2>1. \E ops : Step(w, ops)
      BY <1>6, PickWay DEF Step
    <2>2. active' \in SUBSET Items /\ picked' \in [Items -> Nat]
      BY <1>6, PickWay, SMTT(30) DEF Typed, Data
    <2>3. UNCHANGED <<g_next_item_id, where, hurt, me, row, client, used, past>>
      BY <1>6, PickWay
    <2> QED BY <2>1, <2>2, <2>3 DEF Typed, Data, where, client
  <1>7. CASE Got(w)
    <2>1. \E ops : Step(w, ops)
      BY <1>7, GotWay DEF Step
    <2>2. PICK p \in PC : me' = [me EXCEPT ![p].inv["potion"] = @ + 1]
      BY <1>7, GotWay
    <2>3. me[p].inv["potion"] + 1 \in Nat /\ "potion" \in Slots
      BY <1>0, SheetParts DEF Slots
    <2>4. me' = [me EXCEPT ![p].inv["potion"] = me[p].inv["potion"] + 1]
      BY <2>2
    <2>5. me' \in [PC -> Sheets]
      BY <1>0, <2>3, <2>4, SetInv
    <2>6. UNCHANGED <<world, where, hurt, row, client, used, past>>
      BY <1>7, GotWay
    <2> QED BY <2>1, <2>5, <2>6 DEF Typed, Data, world, where, client
  <1>8. CASE Halve(w)
    <2>1. Step(w, <<>>) /\ UNCHANGED <<world, ingame, row, client, used>>
      BY <1>8, HalveWay
    <2>2. PICK p \in PC, x \in Nat :
              /\ me' = [me EXCEPT ![p].xp = x \div 2]
              /\ past' = [past EXCEPT ![p].deaths = @ + 1, ![p].lost = @ + x - x \div 2]
              /\ hurt' = hurt \ {p}
              /\ place' = [place EXCEPT ![p] = "far"]
              /\ strayed' = strayed \cup {p}
      BY <1>8, HalveWay
    <2>3. x \div 2 \in Nat
      OBVIOUS
    <2>4. me' \in [PC -> Sheets]
      BY <1>0, <2>2, <2>3, SetXpOnly
    <2>5. past' \in [PC -> Pasts]
      BY <1>0, <2>2, SetPast
    <2>6. /\ hurt' \in SUBSET PC /\ place' \in [PC -> {"on", "near", "far"}]
          /\ strayed' \in SUBSET PC
      BY <2>2 DEF Typed, Data
    <2> QED BY <2>1, <2>4, <2>5, <2>6 DEF Typed, Data, world, client
  <1>9. CASE ListItem(w)
    <2>1. \E ops : Step(w, ops)
      BY <1>9, ListWay DEF Step
    <2> QED BY <1>9, <2>1 DEF ListItem, Typed, Data, world, where, client
  <1> QED BY <1>1, <1>2, <1>3, <1>4, <1>5, <1>6, <1>7, <1>8, <1>9 DEF Works

LEMMA NextCases ==
    ASSUME Next
    PROVE  \E w \in Workers : Sends(w) \/ Works(w) \/ \E p \in PC : Starts(w, p)
  BY DEF Next, Sends, Works, Starts

LEMMA NextTyped ==
    ASSUME Typed, Next
    PROVE  Typed'
  <1>1. PICK w \in Workers : Sends(w) \/ Works(w) \/ \E p \in PC : Starts(w, p)
    BY NextCases
  <1>2. Data' /\ \E ops : Step(w, ops)
    BY <1>1, SendsStep, WorksStep, StartsStep
  <1>3. Shape'
    BY <1>2, StepTurn DEF Typed
  <1> QED BY <1>2, <1>3 DEF Typed

LEMMA InitTyped ==
    ASSUME Init
    PROVE  Typed
  <1>1. Shape
    BY DEF Init, Waiting, Shape
  <1>2. Data
    <2>1. /\ me \in [PC -> Sheets] /\ row \in [PC -> Sheets] /\ shown \in [PC -> Sheets]
      BY FreshTyped DEF Init
    <2>2. past \in [PC -> Pasts]
      BY DEF Init, Pasts
    <2>3. g_next_item_id \in 0 .. MAX_ITEMS
      BY Numbers DEF Init
    <2> QED BY <2>1, <2>2, <2>3 DEF Init, Data
  <1> QED BY <1>1, <1>2 DEF Typed

LEMMA SameTyped ==
    ASSUME Typed, UNCHANGED vars
    PROVE  Typed'
  BY DEF Typed, Shape, Data, vars, handlers

\* The variables of Loot keep their types.
THEOREM TypeCorrect == Spec => []Typed
  <1>1. Init => Typed
    BY InitTyped
  <1>2. Typed /\ [Next]_vars => Typed'
    BY NextTyped, SameTyped
  <1> QED BY <1>1, <1>2, PTL DEF Spec
-----------------------------------------------------------------------------
(***************************************************************************)
(* One picker, for any workers: an item is picked up by the handler that   *)
(* clears active, ids are never given twice.                               *)
(***************************************************************************)
Once ==
    \A i \in Items : /\ picked[i] <= 1
                     /\ i \in active => picked[i] = 0 /\ i < g_next_item_id
                     /\ i >= g_next_item_id => picked[i] = 0

LEMMA NextOnce ==
    ASSUME Typed, Once, Next
    PROVE  Once'
  <1>1. PICK w \in Workers : Sends(w) \/ Works(w) \/ \E p \in PC : Starts(w, p)
    BY NextCases
  <1>2. CASE SpawnItem(w)
    <2>1. picked' = picked /\ g_next_item_id \in Nat
      BY <1>2, SpawnWay DEF Typed, Data
    <2>2. \/ UNCHANGED <<g_next_item_id, active>>
          \/ /\ g_next_item_id' = g_next_item_id + 1
             /\ active' = active \cup {g_next_item_id}
      BY <1>2, SpawnWay
    <2> QED BY <2>1, <2>2 DEF Once, Typed, Data, Items
  <1>3. CASE PickUpItem(w)
    <2>1. g_next_item_id' = g_next_item_id /\ g_next_item_id \in Nat
      BY <1>3, PickWay DEF Typed, Data
    <2>2. PICK i \in Items :
              \/ /\ i \in active /\ active' = active \ {i}
                 /\ picked' = [picked EXCEPT ![i] = @ + 1]
              \/ UNCHANGED <<active, picked>>
      BY <1>3, PickWay
    <2>3. picked \in [Items -> Nat]
      BY DEF Typed, Data
    <2>4. CASE UNCHANGED <<active, picked>>
      BY <2>1, <2>4 DEF Once
    <2>5. CASE /\ i \in active /\ active' = active \ {i}
               /\ picked' = [picked EXCEPT ![i] = @ + 1]
      <3>1. picked[i] = 0 /\ i < g_next_item_id /\ i \in Nat
        BY <2>5 DEF Once, Items
      <3>2. picked'[i] = 1 /\ i \notin active' /\ ~(i >= g_next_item_id')
        BY <2>1, <2>3, <2>5, <3>1
      <3>3. \A j \in Items : j # i => picked'[j] = picked[j] /\ (j \in active' <=> j \in active)
        BY <2>3, <2>5
      <3> QED BY <2>1, <3>2, <3>3 DEF Once
    <2> QED BY <2>2, <2>4, <2>5
  <1>4. CASE ~SpawnItem(w) /\ ~PickUpItem(w)
    <2>1. Sends(w) => UNCHANGED world
      BY SendsStep
    <2>2. Works(w) => UNCHANGED world
      BY <1>4 DEF Works, ReadXp, WriteXp, ProcessQuestKill, Gift, Got, Halve, ListItem
    <2>3. \A p \in PC : Starts(w, p) => UNCHANGED world
      BY DEF Starts, Kill, Move, Wound, Die, Disconnect, Login, UseItem
    <2>4. UNCHANGED world
      BY <1>1, <2>1, <2>2, <2>3
    <2> QED BY <2>4 DEF Once, world
  <1> QED BY <1>2, <1>3, <1>4

\* However many workers there are and however their handlers overlap, an item is
\* picked up at most once: do_move's compare_exchange on active.
THEOREM PickedOnce == Spec => []OnePicker
  <1>1. Init => Once
    BY DEF Init, Once
  <1>2. Typed /\ Once /\ [Next]_vars => Once'
    <2>1. Once /\ UNCHANGED vars => Once'
      BY DEF Once, vars
    <2> QED BY <2>1, NextOnce
  <1>3. Once => OnePicker
    BY DEF Once, OnePicker
  <1> QED BY <1>1, <1>2, <1>3, TypeCorrect, PTL DEF Spec
-----------------------------------------------------------------------------
(***************************************************************************)
(* One worker.  What is left of its handler then has a form of its own:    *)
(* a value that was read is written in the next step, a kill counts once,  *)
(* whoever gains or loses experience is told, and a handler either drops   *)
(* or shows items or picks them up.  Everybody it concerns is in the game. *)
(***************************************************************************)
Fleeting == {"write", "halve", "got"}
Counting == {"quest", "gift"}
Earning == {"read", "write", "halve"}
Picking == {"pick", "got", "vanish"}
Showing == {"spawn", "list", "appear"}

\* At most one of the operations counts a kill or gives a reward for it, ...
Single(s) ==
    \A j, k \in 1 .. Len(s) : s[j][1] \in Counting /\ s[k][1] \in Counting => j = k

\* ... none picks up items while another one shows them.
Apart(s) ==
    \A j, k \in 1 .. Len(s) : ~(s[j][1] \in Picking /\ s[k][1] \in Showing)

Told(s) ==
    \A k \in 1 .. Len(s) :
        s[k][1] \in Earning => \E j \in 1 .. Len(s) : j > k /\ s[j] = Stat(s[k][2])

Soon(s) == \A k \in 1 .. Len(s) : s[k][1] \in Fleeting => k = 1

Script(s) == Single(s) /\ Apart(s) /\ Told(s) /\ Soon(s)

Present(s, G) == \A k \in 1 .. Len(s) : s[k][1] # "spawn" => s[k][2] \in G

\* The operations that only the first one of s can bring about.
Follows(s, name) ==
    /\ name = "gift" => s # <<>> /\ s[1][1] = "quest"
    /\ name = "write" => s # <<>> /\ s[1][1] = "read"
    /\ name = "got" => s # <<>> /\ s[1][1] = "pick"
    /\ name = "vanish" => s # <<>> /\ s[1][1] = "got"
    /\ name = "appear" => s # <<>> /\ s[1][1] \in {"spawn", "list"}
    /\ name = "halve" => s = <<>>

\* ops may take the place of the first operation of s.
Fits(s, ops) ==
    /\ Single(ops) /\ Apart(ops) /\ Soon(ops)
    /\ \A k \in 1 .. Len(ops) :
          /\ Follows(s, ops[k][1])
          /\ ops[k][1] \in Counting => s = <<>> \/ s[1][1] \in Counting
          /\ ops[k][1] \in Picking => s = <<>> \/ s[1][1] \in Picking
          /\ ops[k][1] \in Showing => s = <<>> \/ s[1][1] \in Showing
          /\ ops[k][1] \in Earning =>
                \/ \E j \in 1 .. Len(ops) : j > k /\ ops[j] = Stat(ops[k][2])
                \/ s # <<>> /\ s[1][1] \in Earning /\ s[1][2] = ops[k][2]

\* Kills are counted, and rewarded once for TARGET of them.
Paid(rewards) == rewards * TARGET
Due(s, p) == IF Among(s, <<"gift", p>>) THEN TARGET ELSE 0
Count(s) ==
    \A p \in PC : /\ Held(p).kills < TARGET
                  /\ past[p].kills = Paid(past[p].rewards) + Held(p).kills + Due(s, p)

\* Experience is accounted for, and a value on its way is up to date.
Account(s) ==
    /\ \A p \in PC :
          /\ Held(p).xp < exp_for_next_level(Held(p).level)
          /\ exp_for_next_level(Held(p).level) + Held(p).xp + past[p].lost
               = past[p].earned + EXP_BASE
    /\ \A k \in 1 .. Len(s) :
          /\ s[k][1] = "write" => s[k][4] = me[s[k][2]].xp + s[k][3]
          /\ s[k][1] = "halve" => s[k][3] = me[s[k][2]].xp

\* The client shows what the session has, or a packet is about to say it.
Sees(a, b, s, p) ==
    /\ (a.level = b.level /\ a.xp = b.xp) \/ Among(s, Stat(p))
    /\ \A t \in Slots : a.inv[t] = b.inv[t] \/ Among(s, ItemAdd(p, t))
    /\ a.kills = b.kills \/ Among(s, QuestUpdate(p))
Informed(s) == \A p \in ingame : Sees(shown[p], me[p], s, p)

\* The same for the items of the world, unless the player has been far away.
Pictured(s) ==
    /\ \A p \in ingame \ strayed :
          /\ place[p] # "far"
          /\ \A i \in active \ shownItems[p] :
                Among(s, <<"appear", p, i>>) \/ Among(s, <<"list", p, i>>)
          /\ \A i \in shownItems[p] \ active :
                Among(s, <<"vanish", p, i>>) \/ \E q \in PC : Among(s, <<"got", q, i>>)
    /\ \A p \in PC, i \in Items :
          /\ Among(s, <<"appear", p, i>>) => i \in active
          /\ Among(s, <<"vanish", p, i>>) \/ Among(s, <<"got", p, i>>) => i \notin active

Later(s, x) == \E j \in 2 .. Len(s) : s[j] = x

\* What is pending after a step.
LEMMA Pending ==
    ASSUME NEW s, NEW ops, NEW r, Turn(s, ops, r)
    PROVE  \A x : /\ Among(r, x) <=> Among(ops, x) \/ Later(s, x)
                  /\ Among(s, x) <=> (s # <<>> /\ s[1] = x) \/ Later(s, x)
  <1>1. s \in Seq(Ops) /\ Len(s) \in Nat /\ Len(ops) \in Nat
    BY DEF Turn
  <1>2. ASSUME NEW x
        PROVE  Among(r, x) <=> Among(ops, x) \/ Later(s, x)
    BY <1>1, ZenonT(60) DEF Turn, Among, Later
  <1>3. ASSUME NEW x
        PROVE  Among(s, x) <=> (s # <<>> /\ s[1] = x) \/ Later(s, x)
    BY <1>1 DEF Among, Later
  <1> QED BY <1>2, <1>3

\* An operation after a step is a new one, or was there before, further back.
LEMMA Origin ==
    ASSUME NEW s, NEW ops, NEW r, Turn(s, ops, r), NEW k \in 1 .. Len(r)
    PROVE  \/ k \in 1 .. Len(ops) /\ r[k] = ops[k]
           \/ \E j \in 1 .. Len(s) : /\ j > 1 /\ k = j - 1 + Len(ops) /\ r[k] = s[j]
                                     /\ s # <<>> /\ 1 \in 1 .. Len(s)
  <1>1. s \in Seq(Ops) /\ Len(s) \in Nat /\ Len(ops) \in Nat /\ Len(r) \in Nat
    BY DEF Turn
  <1>2. CASE k \in 1 .. Len(ops) /\ r[k] = ops[k]
    BY <1>2
  <1>3. CASE k - Len(ops) + 1 \in 2 .. Len(s) /\ r[k] = s[k - Len(ops) + 1]
    <2>1. PICK j \in 2 .. Len(s) : j = k - Len(ops) + 1
      BY <1>3
    <2>2. j > 1 /\ j \in 1 .. Len(s) /\ k = j - 1 + Len(ops) /\ 1 \in 1 .. Len(s) /\ Len(s) # 0
      BY <1>1, <2>1
    <2>3. s # <<>>
      BY <2>2
    <2> QED BY <1>3, <2>1, <2>2, <2>3
  <1> QED BY <1>2, <1>3 DEF Turn

LEMMA ScriptTurn ==
    ASSUME NEW s, NEW ops, NEW r, Turn(s, ops, r), Script(s), Fits(s, ops)
    PROVE  Script(r)
  <1>0. s \in Seq(Ops) /\ Len(s) \in Nat /\ Len(ops) \in Nat /\ Len(r) \in Nat
    BY DEF Turn
  <1>1. Soon(r)
    BY <1>0, Origin DEF Soon, Script, Fits
  <1>2. Single(r)
    <2> SUFFICES ASSUME NEW j \in 1 .. Len(r), NEW k \in 1 .. Len(r),
                        r[j][1] \in Counting, r[k][1] \in Counting
                 PROVE  j = k
      BY DEF Single
    <2>0. \/ j \in 1 .. Len(ops) /\ r[j] = ops[j]
          \/ \E a \in 1 .. Len(s) : /\ a > 1 /\ j = a - 1 + Len(ops) /\ r[j] = s[a]
                                    /\ s # <<>> /\ 1 \in 1 .. Len(s)
      BY Origin
    <2>00. \/ k \in 1 .. Len(ops) /\ r[k] = ops[k]
           \/ \E b \in 1 .. Len(s) : /\ b > 1 /\ k = b - 1 + Len(ops) /\ r[k] = s[b]
                                     /\ s # <<>> /\ 1 \in 1 .. Len(s)
      BY Origin
    <2>1. CASE j \in 1 .. Len(ops) /\ r[j] = ops[j] /\ k \in 1 .. Len(ops) /\ r[k] = ops[k]
      BY <2>1 DEF Fits, Single
    <2>2. \A a, b \in 1 .. Len(s) :
              ~(a = 1 /\ b > 1 /\ s[a][1] \in Counting /\ s[b][1] \in Counting)
      BY <1>0 DEF Script, Single
    <2>3. CASE j \in 1 .. Len(ops) /\ r[j] = ops[j] /\ ~(k \in 1 .. Len(ops) /\ r[k] = ops[k])
      BY <2>2, <2>3, Origin, SMTT(30) DEF Fits
    <2>4. CASE k \in 1 .. Len(ops) /\ r[k] = ops[k] /\ ~(j \in 1 .. Len(ops) /\ r[j] = ops[j])
      BY <2>2, <2>4, Origin, SMTT(30) DEF Fits
    <2>5. CASE ~(k \in 1 .. Len(ops) /\ r[k] = ops[k]) /\ ~(j \in 1 .. Len(ops) /\ r[j] = ops[j])
      <3>1. PICK a \in 1 .. Len(s) : j = a - 1 + Len(ops) /\ r[j] = s[a]
        BY <2>0, <2>5
      <3>2. PICK b \in 1 .. Len(s) : k = b - 1 + Len(ops) /\ r[k] = s[b]
        BY <2>00, <2>5
      <3>3. s[a][1] \in Counting /\ s[b][1] \in Counting
        BY <3>1, <3>2
      <3>4. a = b
        BY <3>3 DEF Script, Single
      <3> QED BY <3>1, <3>2, <3>4
    <2> QED BY <2>1, <2>3, <2>4, <2>5
  <1>3. Apart(r)
    <2> SUFFICES ASSUME NEW j \in 1 .. Len(r), NEW k \in 1 .. Len(r),
                        r[j][1] \in Picking, r[k][1] \in Showing
                 PROVE  FALSE
      BY DEF Apart
    <2>0. \/ j \in 1 .. Len(ops) /\ r[j] = ops[j]
          \/ \E a \in 1 .. Len(s) : /\ a > 1 /\ j = a - 1 + Len(ops) /\ r[j] = s[a]
                                    /\ s # <<>> /\ 1 \in 1 .. Len(s)
      BY Origin
    <2>1. \A a, b \in 1 .. Len(s) : ~(s[a][1] \in Picking /\ s[b][1] \in Showing)
      BY DEF Script, Apart
    <2>2. CASE j \in 1 .. Len(ops) /\ r[j] = ops[j] /\ k \in 1 .. Len(ops) /\ r[k] = ops[k]
      BY <2>2 DEF Fits, Apart
    <2>3. CASE j \in 1 .. Len(ops) /\ r[j] = ops[j] /\ ~(k \in 1 .. Len(ops) /\ r[k] = ops[k])
      <3>1. PICK b \in 1 .. Len(s) : r[k] = s[b] /\ s # <<>> /\ 1 \in 1 .. Len(s)
        BY <2>3, Origin
      <3>2. s[1][1] \in Picking
        BY <2>3, <3>1 DEF Fits
      <3> QED BY <2>1, <3>1, <3>2
    <2>4. CASE k \in 1 .. Len(ops) /\ r[k] = ops[k] /\ ~(j \in 1 .. Len(ops) /\ r[j] = ops[j])
      <3>1. PICK a \in 1 .. Len(s) : r[j] = s[a] /\ s # <<>> /\ 1 \in 1 .. Len(s)
        BY <2>0, <2>4
      <3>2. s[1][1] \in Showing
        BY <2>4, <3>1 DEF Fits
      <3> QED BY <2>1, <3>1, <3>2
    <2>5. CASE ~(k \in 1 .. Len(ops) /\ r[k] = ops[k]) /\ ~(j \in 1 .. Len(ops) /\ r[j] = ops[j])
      <3>1. PICK a \in 1 .. Len(s) : r[j] = s[a]
        BY <2>0, <2>5
      <3>2. PICK b \in 1 .. Len(s) : r[k] = s[b]
        BY <2>5, Origin
      <3> QED BY <2>1, <3>1, <3>2
    <2> QED BY <2>2, <2>3, <2>4, <2>5
  <1>4. Told(r)
    <2> SUFFICES ASSUME NEW k \in 1 .. Len(r), r[k][1] \in Earning
                 PROVE  \E j \in 1 .. Len(r) : j > k /\ r[j] = Stat(r[k][2])
      BY DEF Told
    <2>1. ASSUME NEW b \in 1 .. Len(s), b > 1
          PROVE  b - 1 + Len(ops) \in 1 .. Len(r) /\ r[b - 1 + Len(ops)] = s[b]
      BY <1>0, <2>1 DEF Turn
    <2>2. CASE k \in 1 .. Len(ops) /\ r[k] = ops[k]
      <3>1. CASE \E j \in 1 .. Len(ops) : j > k /\ ops[j] = Stat(ops[k][2])
        BY <2>2, <3>1 DEF Turn
      <3>2. CASE s # <<>> /\ s[1][1] \in Earning /\ s[1][2] = ops[k][2]
        <4>1. 1 \in 1 .. Len(s)
          BY <1>0, <3>2
        <4>2. PICK b \in 1 .. Len(s) : b > 1 /\ s[b] = Stat(s[1][2])
          BY <3>2, <4>1 DEF Script, Told
        <4>3. b - 1 + Len(ops) > k
          BY <1>0, <2>2, <4>2
        <4> QED BY <2>1, <2>2, <3>2, <4>2, <4>3
      <3> QED BY <2>2, <3>1, <3>2 DEF Fits
    <2>3. CASE ~(k \in 1 .. Len(ops) /\ r[k] = ops[k])
      <3>1. PICK a \in 1 .. Len(s) : a > 1 /\ k = a - 1 + Len(ops) /\ r[k] = s[a]
        BY <2>3, Origin
      <3>2. PICK b \in 1 .. Len(s) : b > a /\ s[b] = Stat(s[a][2])
        BY <3>1 DEF Script, Told
      <3>3. b > 1 /\ b - 1 + Len(ops) > k
        BY <1>0, <3>1, <3>2
      <3> QED BY <2>1, <3>1, <3>2, <3>3
    <2> QED BY <2>2, <2>3
  <1> QED BY <1>1, <1>2, <1>3, <1>4 DEF Script

LEMMA PresentTurn ==
    ASSUME NEW s, NEW ops, NEW r, Turn(s, ops, r), NEW G, Present(s, G), Present(ops, G)
    PROVE  Present(r, G)
  BY Origin DEF Present

\* Operations that only tell, or only pick up, or only show, fit.
LEMMA FitsNames ==
    ASSUME NEW s, NEW ops, NEW All,
           \/ All = {"pick", "stat", "item_add", "quest_update"} /\ s = <<>>
           \/ All = {"vanish", "item_add"} /\ s # <<>> /\ s[1][1] = "got"
           \/ All = {"list", "stat", "item_add", "quest_update"} /\ s = <<>>
           \/ All = {"appear"} /\ s # <<>> /\ s[1][1] \in {"spawn", "list"},
           \A k \in 1 .. Len(ops) : ops[k][1] \in All
    PROVE  Fits(s, ops)
  <1>1. \A n \in All : n \notin Fleeting /\ n \notin Counting /\ n \notin Earning
    BY DEF Fleeting, Counting, Earning, Picking, Showing
  <1>2. /\ \A m, n \in All : ~(m \in Picking /\ n \in Showing)
        /\ \A n \in All : n \in Picking => s = <<>> \/ s[1][1] \in Picking
        /\ \A n \in All : n \in Showing => s = <<>> \/ s[1][1] \in Showing
        /\ \A n \in All : Follows(s, n)
    BY DEF Picking, Showing, Follows
  <1>3. Single(ops) /\ Apart(ops) /\ Soon(ops)
    BY <1>1, <1>2 DEF Single, Apart, Soon
  <1> QED BY <1>1, <1>2, <1>3 DEF Fits

LEMMA FitsPicking ==
    ASSUME NEW s, NEW ops
    PROVE  /\ (\A k \in 1 .. Len(ops) :
                  ops[k][1] \in {"pick", "stat", "item_add", "quest_update"}) => Fits(<<>>, ops)
           /\ s # <<>> /\ s[1][1] = "got"
              /\ (\A k \in 1 .. Len(ops) : ops[k][1] \in {"vanish", "item_add"})
                => Fits(s, ops)
  BY FitsNames

LEMMA FitsShowing ==
    ASSUME NEW s, NEW ops
    PROVE  /\ (\A k \in 1 .. Len(ops) :
                  ops[k][1] \in {"list", "stat", "item_add", "quest_update"}) => Fits(<<>>, ops)
           /\ s # <<>> /\ s[1][1] \in {"spawn", "list"}
              /\ (\A k \in 1 .. Len(ops) : ops[k][1] \in {"appear"}) => Fits(s, ops)
  BY FitsNames

LEMMA FitsNone ==
    ASSUME NEW s
    PROVE  Fits(s, <<>>)
  BY DEF Fits, Single, Apart, Soon

\* The handler of a kill fits.
LEMMA FitsKill ==
    ASSUME NEW p, NEW ops,
           \/ ops = <<<<"read", p, KILL_XP>>, Stat(p)>>
           \/ ops = <<<<"spawn">>, <<"read", p, KILL_XP>>, Stat(p)>>
           \/ ops = <<<<"read", p, KILL_XP>>, <<"quest", p>>, Stat(p)>>
           \/ ops = <<<<"spawn">>, <<"read", p, KILL_XP>>, <<"quest", p>>, Stat(p)>>
    PROVE  Fits(<<>>, ops)
  <1>1. PICK n : /\ n \in 2 .. 4 /\ Len(ops) = n /\ ops[n] = Stat(p)
                 /\ \A k \in 1 .. n - 1 :
                       \/ ops[k][1] = "spawn" /\ k = 1
                       \/ ops[k][1] = "read" /\ ops[k][2] = p /\ k \in {1, 2}
                       \/ ops[k][1] = "quest" /\ k = n - 1
    <2>1. CASE ops = <<<<"read", p, KILL_XP>>, Stat(p)>>
      <3> WITNESS 2
      <3> QED BY <2>1 DEF Stat
    <2>2. CASE ops = <<<<"spawn">>, <<"read", p, KILL_XP>>, Stat(p)>>
      <3> WITNESS 3
      <3> QED BY <2>2 DEF Stat
    <2>3. CASE ops = <<<<"read", p, KILL_XP>>, <<"quest", p>>, Stat(p)>>
      <3> WITNESS 3
      <3> QED BY <2>3 DEF Stat
    <2>4. CASE ops = <<<<"spawn">>, <<"read", p, KILL_XP>>, <<"quest", p>>, Stat(p)>>
      <3> WITNESS 4
      <3> QED BY <2>4 DEF Stat
    <2> QED BY <2>1, <2>2, <2>3, <2>4
  <1>2. ops[n][1] = "stat"
    BY <1>1 DEF Stat
  <1>3. \A k \in 1 .. n : \/ k = n /\ ops[k][1] = "stat"
                          \/ k \in 1 .. n - 1
    BY <1>1, <1>2
  <1>4. Single(ops)
    BY <1>1, <1>3 DEF Single, Counting
  <1>5. Apart(ops)
    BY <1>1, <1>3 DEF Apart, Picking
  <1>6. Soon(ops)
    BY <1>1, <1>3 DEF Soon, Fleeting
  <1>7. \A k \in 1 .. n : ops[k][1] \in Earning =>
            \E j \in 1 .. n : j > k /\ ops[j] = Stat(ops[k][2])
    BY <1>1, <1>3 DEF Earning
  <1>8. \A k \in 1 .. n : Follows(<<>>, ops[k][1])
    BY <1>1, <1>3 DEF Follows
  <1> QED BY <1>1, <1>4, <1>5, <1>6, <1>7, <1>8 DEF Fits

\* So do the other short ones: a reward, a death, the second half of an access.
LEMMA FitsShort ==
    ASSUME NEW s, NEW p, NEW x, NEW y
    PROVE  /\ s # <<>> /\ s[1] = <<"quest", p>> =>
                Fits(s, <<<<"read", p, x>>, <<"gift", p>>, Stat(p), QuestUpdate(p)>>)
           /\ Fits(<<>>, <<<<"halve", p, x>>, Stat(p)>>)
           /\ s # <<>> /\ s[1] = <<"read", p, x>> => Fits(s, <<<<"write", p, x, y>>>>)
           /\ s # <<>> /\ s[1] = <<"pick", p, x>> => Fits(s, <<<<"got", p, x>>>>)
  <1>1. ASSUME s # <<>>, s[1] = <<"quest", p>>
        PROVE  Fits(s, <<<<"read", p, x>>, <<"gift", p>>, Stat(p), QuestUpdate(p)>>)
    <2> DEFINE ops == <<<<"read", p, x>>, <<"gift", p>>, Stat(p), QuestUpdate(p)>>
    <2>1. /\ Len(ops) = 4 /\ ops[1][1] = "read" /\ ops[1][2] = p /\ ops[2][1] = "gift"
          /\ ops[3] = Stat(p) /\ ops[3][1] = "stat" /\ ops[4][1] = "quest_update"
      BY DEF Stat, QuestUpdate
    <2>2. s[1][1] \in Counting
      BY <1>1 DEF Counting
    <2> HIDE DEF ops
    <2>3. \A k \in 1 .. 4 : k = 1 \/ k = 2 \/ k = 3 \/ k = 4
      OBVIOUS
    <2>4. Single(ops) /\ Apart(ops) /\ Soon(ops)
      BY <2>1, <2>3 DEF Single, Apart, Soon, Counting, Picking, Fleeting
    <2>5. \A k \in 1 .. 4 : /\ ops[k][1] \notin Picking /\ ops[k][1] \notin Showing
                            /\ ops[k][1] \in Earning => k = 1
                            /\ Follows(s, ops[k][1])
      BY <1>1, <2>1, <2>3 DEF Picking, Showing, Earning, Follows
    <2>6. Fits(s, ops)
      BY <2>1, <2>2, <2>4, <2>5 DEF Fits
    <2> QED BY <2>6 DEF ops
  <1>2. Fits(<<>>, <<<<"halve", p, x>>, Stat(p)>>)
    <2> DEFINE ops == <<<<"halve", p, x>>, Stat(p)>>
    <2>1. /\ Len(ops) = 2 /\ ops[1][1] = "halve" /\ ops[1][2] = p
          /\ ops[2] = Stat(p) /\ ops[2][1] = "stat"
      BY DEF Stat
    <2> HIDE DEF ops
    <2>2. \A k \in 1 .. 2 : k = 1 \/ k = 2
      OBVIOUS
    <2>3. Fits(<<>>, ops)
      BY <2>1, <2>2
      DEF Fits, Follows, Single, Apart, Soon, Counting, Picking, Showing, Earning, Fleeting
    <2> QED BY <2>3 DEF ops
  <1>3. ASSUME s # <<>>, s[1] = <<"read", p, x>>
        PROVE  Fits(s, <<<<"write", p, x, y>>>>)
    <2> DEFINE ops == <<<<"write", p, x, y>>>>
    <2>1. Len(ops) = 1 /\ ops[1][1] = "write" /\ ops[1][2] = p
      OBVIOUS
    <2>2. s[1][1] = "read" /\ s[1][2] = p
      BY <1>3
    <2> HIDE DEF ops
    <2>3. \A k \in 1 .. 1 : k = 1
      OBVIOUS
    <2>4. Fits(s, ops)
      BY <1>3, <2>1, <2>2, <2>3
         DEF Fits, Follows, Single, Apart, Soon, Counting, Picking, Showing, Earning, Fleeting
    <2> QED BY <2>4 DEF ops
  <1>4. ASSUME s # <<>>, s[1] = <<"pick", p, x>>
        PROVE  Fits(s, <<<<"got", p, x>>>>)
    <2> DEFINE ops == <<<<"got", p, x>>>>
    <2>1. Len(ops) = 1 /\ ops[1][1] = "got"
      OBVIOUS
    <2>2. s[1][1] = "pick"
      BY <1>4
    <2> HIDE DEF ops
    <2>3. \A k \in 1 .. 1 : k = 1
      OBVIOUS
    <2>4. Fits(s, ops)
      BY <1>4, <2>1, <2>2, <2>3
         DEF Fits, Follows, Single, Apart, Soon, Counting, Picking, Showing, Earning, Fleeting
    <2> QED BY <2>4 DEF ops
  <1> QED BY <1>1, <1>2, <1>3, <1>4

\* Every operation that works on its data is followed by operations that fit.
LEMMA WorksFit ==
    ASSUME Typed, NEW w \in Workers, Works(w), Present(todo[w], ingame)
    PROVE  /\ ingame' = ingame /\ todo[w] # <<>>
           /\ \E ops : Step(w, ops) /\ Fits(todo[w], ops) /\ Present(ops, ingame)
  <1> DEFINE s == todo[w]
  <1>0. ASSUME NEW name, Op(w, name)
        PROVE  /\ s # <<>> /\ s[1][1] = name /\ Len(s) \in Nat \ {0}
               /\ name # "spawn" => s[1][2] \in ingame
    <2>1. s # <<>> /\ s[1][1] = name /\ Len(s) \in Nat \ {0}
      BY <1>0, NextOp DEF Typed
    <2> QED BY <2>1 DEF Present
  <1>1. Near \subseteq ingame
    BY DEF Near
  <1>2. Present(<<>>, ingame)
    BY DEF Present
  <1>3. CASE SpawnItem(w)
    <2>1. Op(w, "spawn") /\ ingame' = ingame
      BY <1>3, SpawnWay DEF where
    <2>2. s # <<>> /\ s[1][1] = "spawn"
      BY <1>0, <2>1
    <2>3. CASE Then(w, <<>>)
      <3>1. <<>> \in Seq(Ops)
        OBVIOUS
      <3> QED BY <1>2, <2>1, <2>2, <2>3, <3>1, FitsNone DEF Step
    <2>4. CASE \E ops \in Seq(Ops) :
                  /\ Then(w, ops)
                  /\ \A k \in 1 .. Len(ops) :
                        \E p \in Near : ops[k] = <<"appear", p, g_next_item_id>>
      <3>1. PICK ops \in Seq(Ops) :
                  /\ Then(w, ops)
                  /\ \A k \in 1 .. Len(ops) :
                        \E p \in Near : ops[k] = <<"appear", p, g_next_item_id>>
        BY <2>4
      <3>2. \A k \in 1 .. Len(ops) : ops[k][1] = "appear" /\ ops[k][2] \in ingame
        BY <1>1, <3>1
      <3>3. Fits(s, ops)
        <4> HIDE DEF s
        <4> QED BY <2>2, <3>2, FitsShowing
      <3>4. Present(ops, ingame)
        BY <3>2 DEF Present
      <3> QED BY <2>1, <2>2, <3>1, <3>3, <3>4 DEF Step
    <2> QED BY <1>3, <2>3, <2>4, SpawnWay
  <1>4. CASE ReadXp(w)
    <2>1. Op(w, "read") /\ ingame' = ingame
      BY <1>4 DEF ReadXp, where
    <2>2. PICK p \in PC, x \in Nat :
              /\ s[1] = <<"read", p, x>>
              /\ \E ops \in Seq(Ops) : ops = <<<<"write", p, x, me[p].xp + x>>>> /\ Then(w, ops)
      BY <1>4, ReadWay
    <2>3. PICK ops \in Seq(Ops) : ops = <<<<"write", p, x, me[p].xp + x>>>> /\ Then(w, ops)
      BY <2>2
    <2>4. s # <<>> /\ p \in ingame
      BY <1>0, <2>1, <2>2
    <2>5. Fits(s, ops)
      <3> HIDE DEF s
      <3> QED BY <2>2, <2>3, <2>4, FitsShort
    <2>6. Present(ops, ingame)
      BY <2>3, <2>4 DEF Present
    <2> QED BY <2>1, <2>3, <2>4, <2>5, <2>6 DEF Step
  <1>5. CASE WriteXp(w)
    <2>1. Op(w, "write") /\ Step(w, <<>>) /\ ingame' = ingame
      BY <1>5, WriteWay DEF where
    <2> QED BY <1>0, <1>2, <2>1, FitsNone
  <1>6. CASE ProcessQuestKill(w)
    <2>1. Op(w, "quest") /\ ingame' = ingame
      BY <1>6 DEF ProcessQuestKill, where
    <2>2. PICK p \in PC : \E ops \in Seq(Ops) :
              /\ s[1] = <<"quest", p>>
              /\ Then(w, ops)
              /\ \/ ops = <<QuestUpdate(p)>>
                 \/ ops = <<<<"read", p, REWARD_XP>>, <<"gift", p>>, Stat(p), QuestUpdate(p)>>
      BY <1>6, QuestWay
    <2>3. PICK ops \in Seq(Ops) :
              /\ s[1] = <<"quest", p>>
              /\ Then(w, ops)
              /\ \/ ops = <<QuestUpdate(p)>>
                 \/ ops = <<<<"read", p, REWARD_XP>>, <<"gift", p>>, Stat(p), QuestUpdate(p)>>
      BY <2>2
    <2>4. s # <<>> /\ p \in ingame
      BY <1>0, <2>1, <2>3
    <2>5. CASE ops = <<QuestUpdate(p)>>
      <3>1. \A k \in 1 .. Len(ops) : ops[k][1] = "quest_update" /\ ops[k][2] = p
        BY <2>5 DEF QuestUpdate
      <3>2. Fits(s, ops)
        <4> HIDE DEF s
        <4> QED BY <3>1 DEF Fits, Follows, Single, Apart, Soon, Counting, Picking, Showing, Earning,
                            Fleeting
      <3>3. Present(ops, ingame)
        BY <2>4, <3>1 DEF Present
      <3> QED BY <2>1, <2>3, <2>4, <3>2, <3>3 DEF Step
    <2>6. CASE ops = <<<<"read", p, REWARD_XP>>, <<"gift", p>>, Stat(p), QuestUpdate(p)>>
      <3>1. \A k \in 1 .. Len(ops) : ops[k][2] = p
        BY <2>6 DEF QuestUpdate, Stat
      <3>2. Fits(s, ops)
        <4> HIDE DEF s
        <4> QED BY <2>3, <2>4, <2>6, FitsShort
      <3>3. Present(ops, ingame)
        BY <2>4, <3>1 DEF Present
      <3> QED BY <2>1, <2>3, <2>4, <3>2, <3>3 DEF Step
    <2> QED BY <2>3, <2>5, <2>6
  <1>7. CASE Gift(w)
    <2>1. Op(w, "gift") /\ ingame' = ingame
      BY <1>7 DEF Gift, where
    <2>2. PICK p \in PC : \E ops \in Seq(Ops) :
              s[1] = <<"gift", p>> /\ ops = <<ItemAdd(p, "boost")>> /\ Then(w, ops)
      BY <1>7, GiftWay
    <2>3. PICK ops \in Seq(Ops) : ops = <<ItemAdd(p, "boost")>> /\ Then(w, ops)
      BY <2>2
    <2>4. s # <<>> /\ p \in ingame
      BY <1>0, <2>1, <2>2
    <2>5. \A k \in 1 .. Len(ops) : ops[k][1] = "item_add" /\ ops[k][2] = p
      BY <2>3 DEF ItemAdd
    <2>6. Fits(s, ops)
      <3> HIDE DEF s
      <3> QED BY <2>5
      DEF Fits, Follows, Single, Apart, Soon, Counting, Picking, Showing, Earning, Fleeting
    <2>7. Present(ops, ingame)
      BY <2>4, <2>5 DEF Present
    <2> QED BY <2>1, <2>3, <2>4, <2>6, <2>7 DEF Step
  <1>8. CASE PickUpItem(w)
    <2>1. Op(w, "pick") /\ ingame' = ingame
      BY <1>8 DEF PickUpItem, where
    <2>2. PICK p \in PC, i \in Items : \E ops \in Seq(Ops) :
              /\ s[1] = <<"pick", p, i>> /\ Then(w, ops)
              /\ ops = <<<<"got", p, i>>>> \/ ops = <<>>
      BY <1>8, PickWay
    <2>3. PICK ops \in Seq(Ops) : /\ s[1] = <<"pick", p, i>> /\ Then(w, ops)
                                  /\ ops = <<<<"got", p, i>>>> \/ ops = <<>>
      BY <2>2
    <2>4. s # <<>> /\ p \in ingame
      BY <1>0, <2>1, <2>3
    <2>5. Fits(s, ops)
      <3> HIDE DEF s
      <3> QED BY <2>3, <2>4, FitsShort, FitsNone
    <2>6. Present(ops, ingame)
      BY <2>3, <2>4 DEF Present
    <2> QED BY <2>1, <2>3, <2>4, <2>5, <2>6 DEF Step
  <1>9. CASE Got(w)
    <2>1. Op(w, "got") /\ ingame' = ingame
      BY <1>9 DEF Got, where
    <2>2. PICK p \in PC, i \in Items : \E ops \in Seq(Ops) :
              /\ s[1] = <<"got", p, i>>
              /\ me' = [me EXCEPT ![p].inv["potion"] = @ + 1]
              /\ Then(w, ops)
              /\ \A k \in 1 .. Len(ops) : \/ \E q \in Near : ops[k] = <<"vanish", q, i>>
                                          \/ ops[k] = ItemAdd(p, "potion")
              /\ \A q \in Near : Among(ops, <<"vanish", q, i>>)
              /\ Among(ops, ItemAdd(p, "potion"))
      BY <1>9, GotWay, Zenon
    <2>3. PICK ops \in Seq(Ops) :
              /\ s[1] = <<"got", p, i>> /\ Then(w, ops)
              /\ \A k \in 1 .. Len(ops) : \/ \E q \in Near : ops[k] = <<"vanish", q, i>>
                                          \/ ops[k] = ItemAdd(p, "potion")
      BY <2>2
    <2>4. s # <<>> /\ p \in ingame /\ s[1][1] = "got"
      BY <1>0, <2>1, <2>3
    <2>5. \A k \in 1 .. Len(ops) : ops[k][1] \in {"vanish", "item_add"} /\ ops[k][2] \in ingame
      BY <1>1, <2>3, <2>4 DEF ItemAdd
    <2>6. Fits(s, ops)
      <3> HIDE DEF s
      <3> QED BY <2>4, <2>5, FitsPicking
    <2>7. Present(ops, ingame)
      BY <2>5 DEF Present
    <2> QED BY <2>1, <2>3, <2>4, <2>6, <2>7 DEF Step
  <1>10. CASE Halve(w)
    <2>1. Op(w, "halve") /\ Step(w, <<>>) /\ ingame' = ingame
      BY <1>10, HalveWay
    <2> QED BY <1>0, <1>2, <2>1, FitsNone
  <1>11. CASE ListItem(w)
    <2>1. Op(w, "list") /\ ingame' = ingame
      BY <1>11 DEF ListItem, where
    <2>2. PICK p \in PC, i \in Items : \E ops \in Seq(Ops) :
              /\ s[1] = <<"list", p, i>> /\ Then(w, ops)
              /\ ops = <<<<"appear", p, i>>>> \/ ops = <<>>
      BY <1>11, ListWay
    <2>3. PICK ops \in Seq(Ops) : /\ s[1] = <<"list", p, i>> /\ Then(w, ops)
                                  /\ ops = <<<<"appear", p, i>>>> \/ ops = <<>>
      BY <2>2
    <2>4. s # <<>> /\ p \in ingame /\ s[1][1] = "list"
      BY <1>0, <2>1, <2>3
    <2>5. \A k \in 1 .. Len(ops) : ops[k][1] = "appear" /\ ops[k][2] = p
      BY <2>3
    <2>6. Fits(s, ops)
      <3> HIDE DEF s
      <3> QED BY <2>4, <2>5, FitsShowing
    <2>7. Present(ops, ingame)
      BY <2>4, <2>5 DEF Present
    <2> QED BY <2>1, <2>3, <2>4, <2>6, <2>7 DEF Step
  <1> QED BY <1>3, <1>4, <1>5, <1>6, <1>7, <1>8, <1>9, <1>10, <1>11 DEF Works

\* A handler is taken up by a worker with nothing to do, and fits.
LEMMA StartsFit ==
    ASSUME Typed, NEW w \in Workers, NEW p \in PC, Starts(w, p)
    PROVE  /\ todo[w] = <<>>
           /\ \E ops : /\ Step(w, ops) /\ Fits(todo[w], ops) /\ Present(ops, ingame')
                       /\ Die(w, p) \/ \A k \in 1 .. Len(ops) : ops[k][1] # "halve"
  <1>0. ASSUME NEW ops \in Seq(Ops), NEW kind \in Kinds, Take(w, kind, p, ops)
        PROVE  todo[w] = <<>> /\ Step(w, ops)
    <2>1. todo[w] = <<>>
      BY <1>0, TakeTurn DEF Typed
    <2>2. Step(w, ops)
      BY <1>0 DEF Step
    <2> QED BY <2>1, <2>2
  <1>1. {"recv", "tick", "drop"} = Kinds
    BY DEF Kinds
  <1>2. CASE Kill(w, p)
    <2>1. PICK ops \in Seq(Ops) :
              /\ Take(w, "recv", p, ops)
              /\ \/ ops = <<<<"read", p, KILL_XP>>, Stat(p)>>
                 \/ ops = <<<<"spawn">>, <<"read", p, KILL_XP>>, Stat(p)>>
                 \/ ops = <<<<"read", p, KILL_XP>>, <<"quest", p>>, Stat(p)>>
                 \/ ops = <<<<"spawn">>, <<"read", p, KILL_XP>>, <<"quest", p>>, Stat(p)>>
      BY <1>2, KillWay DEF Typed
    <2>2. todo[w] = <<>> /\ Step(w, ops)
      BY <1>0, <1>1, <2>1
    <2>3. Fits(<<>>, ops)
      BY <2>1, FitsKill
    <2>4. p \in ingame'
      BY <1>2 DEF Kill, Near, where
    <2>5. \A k \in 1 .. Len(ops) : ops[k][1] # "halve" /\ (ops[k][1] # "spawn" => ops[k][2] = p)
      BY <2>1 DEF Stat
    <2>6. Present(ops, ingame')
      BY <2>4, <2>5 DEF Present
    <2> QED BY <2>2, <2>3, <2>5, <2>6
  <1>3. CASE Move(w, p)
    <2>1. PICK ops \in Seq(Ops) :
              /\ Take(w, "recv", p, ops)
              /\ \A k \in 1 .. Len(ops) : \E i \in active : ops[k] = <<"pick", p, i>>
      BY <1>3, MoveWay
    <2>2. todo[w] = <<>> /\ Step(w, ops)
      BY <1>0, <1>1, <2>1
    <2>3. \A k \in 1 .. Len(ops) : ops[k][1] = "pick" /\ ops[k][2] = p
      BY <2>1
    <2>4. Fits(<<>>, ops)
      BY <2>3, FitsPicking
    <2>5. p \in ingame'
      BY <1>3 DEF Move
    <2>6. Present(ops, ingame')
      BY <2>3, <2>5 DEF Present
    <2> QED BY <2>2, <2>3, <2>4, <2>6
  <1>4. CASE Wound(w, p)
    <2>1. PICK ops \in Seq(Ops) : ops = <<Stat(p)>> /\ Take(w, "tick", p, ops)
      BY <1>4, ShortWays
    <2>2. todo[w] = <<>> /\ Step(w, ops)
      BY <1>0, <1>1, <2>1
    <2>3. \A k \in 1 .. Len(ops) : ops[k][1] = "stat" /\ ops[k][2] = p
      BY <2>1 DEF Stat
    <2>4. Fits(<<>>, ops)
      BY <2>3, FitsPicking
    <2>5. p \in ingame'
      BY <1>4 DEF Wound, where
    <2>6. Present(ops, ingame')
      BY <2>3, <2>5 DEF Present
    <2> QED BY <2>2, <2>3, <2>4, <2>6
  <1>5. CASE Die(w, p)
    <2>1. PICK ops \in Seq(Ops) :
              ops = <<<<"halve", p, me[p].xp>>, Stat(p)>> /\ Take(w, "tick", p, ops)
      BY <1>5, ShortWays
    <2>2. todo[w] = <<>> /\ Step(w, ops)
      BY <1>0, <1>1, <2>1
    <2>3. \A k \in 1 .. Len(ops) : ops[k][2] = p
      BY <2>1 DEF Stat
    <2>4. Fits(<<>>, ops)
      BY <2>1, FitsShort
    <2>5. p \in ingame'
      BY <1>5 DEF Die, where
    <2>6. Present(ops, ingame')
      BY <2>3, <2>5 DEF Present
    <2> QED BY <1>5, <2>2, <2>4, <2>6
  <1>6. CASE Disconnect(w, p)
    <2>1. PICK ops \in Seq(Ops) : ops = <<>> /\ Take(w, "drop", p, ops)
      BY <1>6, ShortWays
    <2>2. todo[w] = <<>> /\ Step(w, ops)
      BY <1>0, <1>1, <2>1
    <2>3. Fits(<<>>, ops)
      BY <2>1, FitsNone
    <2>4. Present(ops, ingame')
      BY <2>1 DEF Present
    <2> QED BY <2>1, <2>2, <2>3, <2>4
  <1>7. CASE Login(w, p)
    <2>1. PICK ops \in Seq(Ops) :
              /\ Take(w, "recv", p, ops)
              /\ \A k \in 1 .. Len(ops) :
                    \/ ops[k] = Stat(p) \/ ops[k] = QuestUpdate(p)
                    \/ \E s \in Slots : ops[k] = ItemAdd(p, s)
                    \/ \E i \in active : ops[k] = <<"list", p, i>>
      BY <1>7, LoginWay
    <2>2. todo[w] = <<>> /\ Step(w, ops)
      BY <1>0, <1>1, <2>1
    <2>3. \A k \in 1 .. Len(ops) :
              /\ ops[k][1] \in {"list", "stat", "item_add", "quest_update"} /\ ops[k][2] = p
      BY <2>1 DEF Stat, QuestUpdate, ItemAdd
    <2>4. Fits(<<>>, ops)
      BY <2>3, FitsShowing
    <2>5. p \in ingame'
      BY <1>7 DEF Login
    <2>6. Present(ops, ingame')
      BY <2>3, <2>5 DEF Present
    <2> QED BY <2>2, <2>3, <2>4, <2>6
  <1>8. ASSUME NEW s \in Slots, UseItem(w, p, s)
        PROVE  /\ todo[w] = <<>>
               /\ \E ops : /\ Step(w, ops) /\ Fits(todo[w], ops) /\ Present(ops, ingame')
                           /\ \A k \in 1 .. Len(ops) : ops[k][1] # "halve"
    <2>1. PICK ops \in Seq(Ops) : ops = <<Stat(p), ItemAdd(p, s)>> /\ Take(w, "recv", p, ops)
      BY <1>8, ShortWays
    <2>2. todo[w] = <<>> /\ Step(w, ops)
      BY <1>0, <1>1, <2>1
    <2>3. \A k \in 1 .. Len(ops) : ops[k][1] \in {"stat", "item_add"} /\ ops[k][2] = p
      BY <2>1 DEF Stat, ItemAdd
    <2>4. Fits(<<>>, ops)
      BY <2>3, FitsPicking
    <2>5. p \in ingame'
      BY <1>8 DEF UseItem, where
    <2>6. Present(ops, ingame')
      BY <2>3, <2>5 DEF Present
    <2> QED BY <2>2, <2>3, <2>4, <2>6
  <1> QED BY <1>2, <1>3, <1>4, <1>5, <1>6, <1>7, <1>8 DEF Starts

LEMMA SendsFit ==
    ASSUME Typed, NEW w \in Workers, Sends(w)
    PROVE  /\ ingame' = ingame /\ todo[w] # <<>>
           /\ Step(w, <<>>) /\ Fits(todo[w], <<>>) /\ Present(<<>>, ingame)
  <1>1. Step(w, <<>>) /\ ingame' = ingame
    BY SendsStep DEF where
  <1>2. todo[w] # <<>>
    BY DEF Sends, SendStat, SendItemAdd, SendQuestUpdate, SendItemAppear, SendItemRemove, Op
  <1>3. Fits(todo[w], <<>>) /\ Present(<<>>, ingame)
    BY FitsNone DEF Present
  <1> QED BY <1>1, <1>2, <1>3

\* The only worker takes every step.
LEMMA AloneBefore ==
    ASSUME Typed, Next, NEW w \in Workers, pool' = {w}
    PROVE  pool = {w} /\ (Sends(w) \/ Works(w) \/ \E p \in PC : Starts(w, p))
  <1>1. PICK v \in Workers : Sends(v) \/ Works(v) \/ \E p \in PC : Starts(v, p)
    BY NextCases
  <1>2. \E ops : Step(v, ops)
    BY <1>1, SendsStep, WorksStep, StartsStep
  <1>3. pool' = pool /\ v \in pool
    BY <1>2, StepTurn DEF Typed
  <1> QED BY <1>1, <1>3

\* With one worker, what is left of a handler has the form Script says.
Scripted == \A w \in Workers : pool = {w} => Script(todo[w]) /\ Present(todo[w], ingame)

LEMMA NextScripted ==
    ASSUME Typed, Scripted, Next
    PROVE  Scripted'
  <1> SUFFICES ASSUME NEW w \in Workers, pool' = {w}
               PROVE  Script(todo'[w]) /\ Present(todo'[w], ingame')
    BY DEF Scripted
  <1>1. pool = {w} /\ (Sends(w) \/ Works(w) \/ \E p \in PC : Starts(w, p))
    BY AloneBefore
  <1>2. Script(todo[w]) /\ Present(todo[w], ingame)
    BY <1>1 DEF Scripted
  <1>3. \E ops : /\ Step(w, ops) /\ Fits(todo[w], ops) /\ Present(ops, ingame')
                 /\ Present(todo[w], ingame')
    <2>1. CASE Sends(w)
      BY <1>2, <2>1, SendsFit
    <2>2. CASE Works(w)
      BY <1>2, <2>2, WorksFit
    <2>3. ASSUME NEW p \in PC, Starts(w, p)
          PROVE  \E ops : /\ Step(w, ops) /\ Fits(todo[w], ops) /\ Present(ops, ingame')
                          /\ Present(todo[w], ingame')
      <3>1. todo[w] = <<>>
        BY <2>3, StartsFit
      <3>2. Present(todo[w], ingame')
        BY <3>1 DEF Present
      <3> QED BY <2>3, <3>2, StartsFit
    <2> QED BY <1>1, <2>1, <2>2, <2>3
  <1>4. PICK ops : /\ Step(w, ops) /\ Fits(todo[w], ops) /\ Present(ops, ingame')
                   /\ Present(todo[w], ingame')
    BY <1>3
  <1>5. Turn(todo[w], ops, todo'[w])
    BY <1>4, StepTurn DEF Typed
  <1> QED BY <1>2, <1>4, <1>5, ScriptTurn, PresentTurn

LEMMA InitScripted ==
    ASSUME Init
    PROVE  Scripted
  BY DEF Init, Waiting, Scripted, Script, Single, Apart, Told, Soon, Present

\* What every step of the only worker has in common.
LEMMA AloneFit ==
    ASSUME Typed, Scripted, Next, NEW w \in Workers, pool' = {w}
    PROVE  /\ Script(todo[w]) /\ Present(todo[w], ingame)
           /\ \E ops : /\ Turn(todo[w], ops, todo'[w]) /\ Fits(todo[w], ops)
                       /\ \/ \E p \in PC : Die(w, p)
                          \/ \A k \in 1 .. Len(ops) : ops[k][1] # "halve"
  <1>1. pool = {w} /\ (Sends(w) \/ Works(w) \/ \E p \in PC : Starts(w, p))
    BY AloneBefore
  <1>2. Script(todo[w]) /\ Present(todo[w], ingame)
    BY <1>1 DEF Scripted
  <1>3. \E ops : /\ Step(w, ops) /\ Fits(todo[w], ops)
                 /\ \/ \E p \in PC : Die(w, p)
                    \/ \A k \in 1 .. Len(ops) : ops[k][1] # "halve"
    <2>1. ASSUME Sends(w) \/ Works(w)
          PROVE  \E ops : /\ Step(w, ops) /\ Fits(todo[w], ops)
                         /\ \A k \in 1 .. Len(ops) : ops[k][1] # "halve"
      <3>1. todo[w] # <<>> /\ \E ops : Step(w, ops) /\ Fits(todo[w], ops)
        BY <1>2, <2>1, SendsFit, WorksFit
      <3> QED BY <3>1 DEF Fits, Follows
    <2> QED BY <1>1, <2>1, StartsFit
  <1>4. \A ops : Step(w, ops) => Turn(todo[w], ops, todo'[w])
    BY StepTurn DEF Typed
  <1> QED BY <1>2, <1>3, <1>4

\* Whether p is in the game or not, logging in or out changes nothing of what it holds.
LEMMA HeldTyped ==
    ASSUME Data, NEW p \in PC
    PROVE  Held(p) \in Sheets
  BY DEF Data, Held

LEMMA HeldUnchanged ==
    ASSUME Typed, NEW w \in Workers,
           \/ Sends(w) \/ SpawnItem(w) \/ ReadXp(w) \/ PickUpItem(w) \/ ListItem(w)
           \/ \E p \in PC : \/ Kill(w, p) \/ Move(w, p) \/ Wound(w, p) \/ Die(w, p)
                            \/ Disconnect(w, p) \/ Login(w, p)
    PROVE  (\A q \in PC : Held(q)' = Held(q)) /\ past' = past /\ used' = used
  <1>0. me \in [PC -> Sheets] /\ row \in [PC -> Sheets]
    BY DEF Typed, Data
  <1>1. CASE Sends(w)
    BY <1>1, SendsStep DEF Held, where
  <1>2. CASE SpawnItem(w) \/ ReadXp(w) \/ PickUpItem(w) \/ ListItem(w)
    BY <1>2 DEF SpawnItem, ReadXp, PickUpItem, ListItem, Held, where
  <1>3. ASSUME NEW p \in PC, Kill(w, p) \/ Wound(w, p) \/ Die(w, p) \/ Move(w, p)
        PROVE  UNCHANGED <<ingame, me, row, past, used>>
    BY <1>3 DEF Kill, Wound, Die, Move, where
  <1>4. ASSUME NEW p \in PC, Disconnect(w, p)
        PROVE  (\A q \in PC : Held(q)' = Held(q)) /\ past' = past /\ used' = used
    <2>1. /\ p \in ingame /\ ingame' = ingame \ {p} /\ row' = [row EXCEPT ![p] = me[p]]
          /\ me' = me /\ past' = past /\ used' = used
      BY <1>4 DEF Disconnect
    <2> QED BY <1>0, <2>1 DEF Held
  <1>5. ASSUME NEW p \in PC, Login(w, p)
        PROVE  (\A q \in PC : Held(q)' = Held(q)) /\ past' = past /\ used' = used
    <2>1. /\ p \notin ingame /\ ingame' = ingame \cup {p} /\ me' = [me EXCEPT ![p] = row[p]]
          /\ row' = row /\ past' = past /\ used' = used
      BY <1>5 DEF Login, Restored
    <2> QED BY <1>0, <2>1 DEF Held
  <1> QED BY <1>1, <1>2, <1>3, <1>4, <1>5 DEF Held

LEMMA HeldOf ==
    ASSUME NEW p \in ingame
    PROVE  Held(p) = me[p]
  BY DEF Held

LEMMA HeldByOthers ==
    ASSUME Typed, NEW p \in ingame, ingame' = ingame, row' = row, NEW q \in PC,
           q # p => me'[q] = me[q]
    PROVE  /\ q # p => Held(q)' = Held(q)
           /\ Held(p)' = me'[p]
  BY DEF Held
-----------------------------------------------------------------------------
(***************************************************************************)
(* Quests, with one worker.                                                *)
(***************************************************************************)
Counted == \A w \in Workers : pool = {w} => Count(todo[w])

LEMMA Pays ==
    ASSUME NEW n \in Nat
    PROVE  Paid(n) \in Nat /\ Paid(n + 1) = Paid(n) + TARGET
  BY Numbers DEF Paid

\* Whoever does not count kills or give rewards leaves the pending ones alone.
LEMMA SameGifts ==
    ASSUME NEW s, NEW ops, NEW r, Turn(s, ops, r), Fits(s, ops),
           s = <<>> \/ s[1][1] \notin {"quest", "gift"}, NEW p
    PROVE  Among(r, <<"gift", p>>) <=> Among(s, <<"gift", p>>)
  <1>1. ~Among(ops, <<"gift", p>>)
    <2>1. \A k \in 1 .. Len(ops) : ops[k][1] # "gift"
      BY DEF Fits, Follows
    <2> QED BY <2>1 DEF Among
  <1>2. ~(s # <<>> /\ s[1] = <<"gift", p>>)
    OBVIOUS
  <1> QED BY <1>1, <1>2, Pending

\* Only the head of a handler may count a kill.
LEMMA NoLaterGift ==
    ASSUME NEW s \in Seq(Ops), Script(s), s # <<>>, s[1][1] \in {"quest", "gift"}, NEW p
    PROVE  ~Later(s, <<"gift", p>>)
  <1>1. Len(s) \in Nat \ {0} /\ 1 \in 1 .. Len(s)
    OBVIOUS
  <1>2. \A j \in 2 .. Len(s) : s[j][1] # "gift"
    BY <1>1 DEF Script, Single, Counting
  <1> QED BY <1>2 DEF Later

LEMMA QuestCounted ==
    ASSUME Typed, NEW w \in Workers, ProcessQuestKill(w), Script(todo[w]),
           Present(todo[w], ingame), Count(todo[w])
    PROVE  Count(todo[w])'
  <1> DEFINE s == todo[w]
             r == todo'[w]
  <1>0. /\ me \in [PC -> Sheets] /\ past \in [PC -> Pasts]
        /\ UNCHANGED <<ingame, row>> /\ Op(w, "quest")
    BY DEF Typed, Data, ProcessQuestKill, where
  <1>1. s \in Seq(Ops) /\ s # <<>> /\ s[1][1] = "quest" /\ Len(s) \in Nat \ {0}
    BY <1>0, NextOp DEF Typed
  <1>2. PICK p \in PC : \E ops \in Seq(Ops) :
            /\ s[1] = <<"quest", p>>
            /\ past' = [past EXCEPT ![p].kills = @ + 1]
            /\ Then(w, ops)
            /\ \/ /\ me[p].kills + 1 < TARGET
                  /\ me' = [me EXCEPT ![p].kills = me[p].kills + 1]
                  /\ ops = <<QuestUpdate(p)>>
               \/ /\ me[p].kills + 1 >= TARGET
                  /\ me' = [me EXCEPT ![p].kills = 0]
                  /\ ops = <<<<"read", p, REWARD_XP>>, <<"gift", p>>, Stat(p), QuestUpdate(p)>>
    BY QuestWay
  <1>3. PICK ops \in Seq(Ops) :
            /\ Then(w, ops)
            /\ \/ /\ me[p].kills + 1 < TARGET
                  /\ me' = [me EXCEPT ![p].kills = me[p].kills + 1]
                  /\ ops = <<QuestUpdate(p)>>
               \/ /\ me[p].kills + 1 >= TARGET
                  /\ me' = [me EXCEPT ![p].kills = 0]
                  /\ ops = <<<<"read", p, REWARD_XP>>, <<"gift", p>>, Stat(p), QuestUpdate(p)>>
    BY <1>2
  <1>4. p \in ingame
    <2>1. s[1][2] = p
      BY <1>2
    <2> QED BY <1>1, <2>1 DEF Present
  <1>5. Turn(s, ops, r)
    BY <1>0, <1>3, ThenTurn DEF Typed
  <1>6. \A q : ~Among(s, <<"gift", q>>) /\ (Among(r, <<"gift", q>>) <=> Among(ops, <<"gift", q>>))
    <2> TAKE q
    <2>1. ~Later(s, <<"gift", q>>)
      BY <1>1, NoLaterGift
    <2>2. s[1] # <<"gift", q>>
      BY <1>1
    <2> HIDE DEF s, r
    <2> QED BY <1>5, <2>1, <2>2, Pending
  <1>7. \A q \in PC : /\ past'[q].rewards = past[q].rewards
                      /\ past'[q].kills = IF q = p THEN past[q].kills + 1 ELSE past[q].kills
                      /\ past[q].rewards \in Nat /\ past[q].kills \in Nat
    BY <1>0, <1>2, SMTT(30) DEF Pasts
  <1>8. \A q \in PC : Held(q) \in Sheets /\ Held(q).kills \in Nat
    BY HeldTyped, SheetParts DEF Typed
  <1>9. ASSUME NEW q \in PC
        PROVE  /\ past[q].kills = Paid(past[q].rewards) + Held(q).kills
               /\ Held(q).kills < TARGET /\ Paid(past[q].rewards) \in Nat
    <2>1. Due(s, q) = 0
      BY <1>6 DEF Due
    <2>2. Paid(past[q].rewards) \in Nat
      BY <1>7, Pays
    <2> HIDE DEF s
    <2>3. past[q].kills = Paid(past[q].rewards) + Held(q).kills + 0 /\ Held(q).kills < TARGET
      BY <2>1 DEF Count, s
    <2> QED BY <1>8, <2>2, <2>3
  <1>10. Held(p) = me[p]
    BY <1>4, HeldOf
  <1>11. \A q \in PC : q # p => me'[q] = me[q]
    BY <1>0, <1>3
  <1>12. Held(p)' = me'[p] /\ \A q \in PC : q # p => Held(q)' = Held(q)
    BY <1>0, <1>4, <1>11, HeldByOthers
  <1>13. CASE /\ me[p].kills + 1 < TARGET
              /\ me' = [me EXCEPT ![p].kills = me[p].kills + 1]
              /\ ops = <<QuestUpdate(p)>>
    <2>1. \A q : Due(r, q) = 0
      <3>1. \A q : ~Among(ops, <<"gift", q>>)
        BY <1>13 DEF Among, QuestUpdate
      <3> QED BY <1>6, <3>1 DEF Due
    <2>2. Held(p)'.kills = Held(p).kills + 1 /\ Held(p)'.kills < TARGET
      BY <1>0, <1>10, <1>12, <1>13 DEF Sheets
    <2>3. ASSUME NEW q \in PC
          PROVE  /\ Held(q)'.kills < TARGET
                 /\ past'[q].kills = Paid(past'[q].rewards) + Held(q)'.kills + 0
      <3>1. CASE q = p
        BY <1>7, <1>8, <1>9, <2>2, <3>1
      <3>2. CASE q # p
        BY <1>7, <1>8, <1>9, <1>12, <3>2
      <3> QED BY <3>1, <3>2
    <2> QED BY <2>1, <2>3 DEF Count
  <1>14. CASE /\ me[p].kills + 1 >= TARGET
              /\ me' = [me EXCEPT ![p].kills = 0]
              /\ ops = <<<<"read", p, REWARD_XP>>, <<"gift", p>>, Stat(p), QuestUpdate(p)>>
    <2>1. \A q : Due(r, q) = IF q = p THEN TARGET ELSE 0
      <3>1. \A q : Among(ops, <<"gift", q>>) <=> q = p
        BY <1>14 DEF Among, QuestUpdate, Stat
      <3> QED BY <1>6, <3>1 DEF Due
    <2>2. Held(p).kills + 1 = TARGET
      BY <1>8, <1>9, <1>10, <1>14, Numbers
    <2>3. Held(p)'.kills = 0
      BY <1>0, <1>12, <1>14 DEF Sheets
    <2>4. ASSUME NEW q \in PC
          PROVE  /\ Held(q)'.kills < TARGET
                 /\ past'[q].kills = Paid(past'[q].rewards) + Held(q)'.kills
                                     + (IF q = p THEN TARGET ELSE 0)
      <3>1. CASE q = p
        BY <1>7, <1>8, <1>9, <2>2, <2>3, <3>1, Numbers
      <3>2. CASE q # p
        BY <1>7, <1>8, <1>9, <1>12, <3>2
      <3> QED BY <3>1, <3>2
    <2> QED BY <2>1, <2>4 DEF Count
  <1> QED BY <1>3, <1>13, <1>14

LEMMA GiftCounted ==
    ASSUME Typed, NEW w \in Workers, Gift(w), Script(todo[w]),
           Present(todo[w], ingame), Count(todo[w])
    PROVE  Count(todo[w])'
  <1> DEFINE s == todo[w]
             r == todo'[w]
  <1>0. /\ me \in [PC -> Sheets] /\ past \in [PC -> Pasts]
        /\ UNCHANGED <<ingame, row>> /\ Op(w, "gift")
    BY DEF Typed, Data, Gift, where
  <1>1. s \in Seq(Ops) /\ s # <<>> /\ s[1][1] = "gift" /\ Len(s) \in Nat \ {0}
    BY <1>0, NextOp DEF Typed
  <1>2. PICK p \in PC : \E ops \in Seq(Ops) :
            /\ s[1] = <<"gift", p>>
            /\ me' = [me EXCEPT ![p].inv["boost"] = @ + 1]
            /\ past' = [past EXCEPT ![p].rewards = @ + 1]
            /\ ops = <<ItemAdd(p, "boost")>> /\ Then(w, ops)
    BY GiftWay
  <1>3. PICK ops \in Seq(Ops) : ops = <<ItemAdd(p, "boost")>> /\ Then(w, ops)
    BY <1>2
  <1>4. p \in ingame
    BY <1>1, <1>2 DEF Present
  <1>5. Turn(s, ops, r)
    BY <1>0, <1>3, ThenTurn DEF Typed
  <1>6. \A q : ~Among(r, <<"gift", q>>) /\ (Among(s, <<"gift", q>>) <=> q = p)
    <2> TAKE q
    <2>1. ~Later(s, <<"gift", q>>)
      BY <1>1, NoLaterGift
    <2>2. s[1] = <<"gift", q>> <=> q = p
      BY <1>2
    <2>3. ~Among(ops, <<"gift", q>>)
      BY <1>3 DEF Among, ItemAdd
    <2> HIDE DEF s, r
    <2> QED BY <1>1, <1>5, <2>1, <2>2, <2>3, Pending
  <1>7. \A q \in PC : /\ past'[q].kills = past[q].kills
                      /\ past'[q].rewards = IF q = p THEN past[q].rewards + 1
                                                     ELSE past[q].rewards
                      /\ past[q].rewards \in Nat /\ past[q].kills \in Nat
    BY <1>0, <1>2 DEF Pasts
  <1>8. \A q \in PC : Held(q) \in Sheets /\ Held(q).kills \in Nat
    BY HeldTyped, SheetParts DEF Typed
  <1>9. Held(p) = me[p]
    BY <1>4, HeldOf
  <1>10. me'[p].kills = me[p].kills /\ \A q \in PC : q # p => me'[q] = me[q]
    BY <1>0, <1>2 DEF Sheets
  <1>11. Held(p)' = me'[p] /\ \A q \in PC : q # p => Held(q)' = Held(q)
    BY <1>0, <1>4, <1>10, HeldByOthers
  <1>12. \A q : Due(r, q) = 0 /\ Due(s, q) = IF q = p THEN TARGET ELSE 0
    BY <1>6 DEF Due
  <1>13. ASSUME NEW q \in PC
         PROVE  /\ Held(q)'.kills < TARGET
                /\ past'[q].kills = Paid(past'[q].rewards) + Held(q)'.kills + 0
    <2>1. /\ past[q].kills = Paid(past[q].rewards) + Held(q).kills + Due(s, q)
          /\ Held(q).kills < TARGET
      BY DEF Count
    <2>2. /\ Paid(past[q].rewards) \in Nat
          /\ Paid(past[q].rewards + 1) = Paid(past[q].rewards) + TARGET
      BY <1>7, Pays
    <2>3. Held(q)'.kills = Held(q).kills
      BY <1>9, <1>10, <1>11
    <2>4. CASE q = p
      BY <1>7, <1>8, <1>12, <2>1, <2>2, <2>3, <2>4, Numbers
    <2>5. CASE q # p
      BY <1>7, <1>8, <1>12, <2>1, <2>2, <2>3, <2>5
    <2> QED BY <2>4, <2>5
  <1> QED BY <1>12, <1>13 DEF Count

\* The steps that are not about quests.
LEMMA OthersCount ==
    ASSUME Typed, NEW w \in Workers,
           Sends(w) \/ Works(w) \/ (\E p \in PC : Starts(w, p)),
           ~ProcessQuestKill(w), ~Gift(w), Present(todo[w], ingame), NEW q \in PC
    PROVE  /\ Held(q)'.kills = Held(q).kills
           /\ past'[q].kills = past[q].kills /\ past'[q].rewards = past[q].rewards
  <1>0. me \in [PC -> Sheets] /\ past \in [PC -> Pasts]
    BY DEF Typed, Data
  <1>1. CASE WriteXp(w)
    <2>1. PICK p \in PC, g \in Nat, l \in Nat \ {0}, y \in Nat :
              /\ me' = [me EXCEPT ![p].level = l, ![p].xp = y]
              /\ past' = [past EXCEPT ![p].earned = @ + g]
      BY <1>1, WriteParts
    <2>2. UNCHANGED <<ingame, row>>
      BY <1>1 DEF WriteXp, where
    <2>3. me'[q].kills = me[q].kills
      BY <1>0, <2>1 DEF Sheets
    <2>4. past'[q].kills = past[q].kills /\ past'[q].rewards = past[q].rewards
      BY <1>0, <2>1 DEF Pasts
    <2> QED BY <2>2, <2>3, <2>4 DEF Held
  <1>2. CASE Halve(w)
    <2>1. UNCHANGED <<ingame, row>>
      BY <1>2 DEF Halve
    <2>2. PICK p \in PC, x \in Nat :
              /\ me' = [me EXCEPT ![p].xp = x \div 2]
              /\ past' = [past EXCEPT ![p].deaths = @ + 1, ![p].lost = @ + x - x \div 2]
      BY <1>2, HalveWay
    <2>3. me'[q].kills = me[q].kills
      BY <1>0, <2>2 DEF Sheets
    <2>4. past'[q].kills = past[q].kills /\ past'[q].rewards = past[q].rewards
      BY <1>0, <2>2 DEF Pasts
    <2> QED BY <2>1, <2>3, <2>4 DEF Held
  <1>3. CASE Got(w)
    <2>1. UNCHANGED <<ingame, row, past>>
      BY <1>3 DEF Got, where
    <2>2. me'[q].kills = me[q].kills
      BY <1>0, <1>3 DEF Got, Sheets
    <2> QED BY <2>1, <2>2 DEF Held
  <1>4. ASSUME NEW p \in PC, NEW t \in Slots, UseItem(w, p, t)
        PROVE  Held(q)'.kills = Held(q).kills /\ past' = past
    <2>1. UNCHANGED <<ingame, row, past>> /\ me' = [me EXCEPT ![p].inv[t] = @ - 1]
      BY <1>4 DEF UseItem, where
    <2>2. me'[q].kills = me[q].kills
      BY <1>0, <2>1 DEF Sheets
    <2> QED BY <2>1, <2>2 DEF Held
  <1>5. CASE \/ Sends(w) \/ SpawnItem(w) \/ ReadXp(w) \/ PickUpItem(w) \/ ListItem(w)
             \/ \E p \in PC : \/ Kill(w, p) \/ Move(w, p) \/ Wound(w, p) \/ Die(w, p)
                              \/ Disconnect(w, p) \/ Login(w, p)
    BY <1>5, HeldUnchanged
  <1> QED BY <1>1, <1>2, <1>3, <1>4, <1>5 DEF Works, Starts

\* The name of the next operation tells what a worker does.
LEMMA ByName ==
    ASSUME Typed, NEW w \in Workers,
           Sends(w) \/ Works(w) \/ (\E p \in PC : Starts(w, p)), todo[w] # <<>>
    PROVE  /\ todo[w][1][1] = "stat" => SendStat(w)
           /\ todo[w][1][1] = "item_add" => SendItemAdd(w)
           /\ todo[w][1][1] = "quest_update" => SendQuestUpdate(w)
           /\ todo[w][1][1] = "appear" => SendItemAppear(w)
           /\ todo[w][1][1] = "vanish" => SendItemRemove(w)
           /\ todo[w][1][1] = "spawn" => SpawnItem(w)
           /\ todo[w][1][1] = "read" => ReadXp(w)
           /\ todo[w][1][1] = "write" => WriteXp(w)
           /\ todo[w][1][1] = "quest" => ProcessQuestKill(w)
           /\ todo[w][1][1] = "gift" => Gift(w)
           /\ todo[w][1][1] = "pick" => PickUpItem(w)
           /\ todo[w][1][1] = "got" => Got(w)
           /\ todo[w][1][1] = "halve" => Halve(w)
           /\ todo[w][1][1] = "list" => ListItem(w)
  <1>1. Sends(w) \/ Works(w)
    BY StartsFit
  <1>2. \A name : Op(w, name) => todo[w][1][1] = name
    BY NextOp DEF Typed
  <1>3. /\ SendStat(w) => Op(w, "stat")
        /\ SendItemAdd(w) => Op(w, "item_add")
        /\ SendQuestUpdate(w) => Op(w, "quest_update")
        /\ SendItemAppear(w) => Op(w, "appear")
        /\ SendItemRemove(w) => Op(w, "vanish")
        /\ SpawnItem(w) => Op(w, "spawn")
        /\ ReadXp(w) => Op(w, "read")
    BY DEF SendStat, SendItemAdd, SendQuestUpdate, SendItemAppear, SendItemRemove, SpawnItem,
           ReadXp
  <1>4. /\ WriteXp(w) => Op(w, "write")
        /\ ProcessQuestKill(w) => Op(w, "quest")
        /\ Gift(w) => Op(w, "gift")
        /\ PickUpItem(w) => Op(w, "pick")
        /\ Got(w) => Op(w, "got")
        /\ Halve(w) => Op(w, "halve")
        /\ ListItem(w) => Op(w, "list")
    BY DEF WriteXp, ProcessQuestKill, Gift, PickUpItem, Got, Halve, ListItem
  <1> QED BY <1>1, <1>2, <1>3, <1>4 DEF Sends, Works

LEMMA NextCounted ==
    ASSUME Typed, Scripted, Counted, Next
    PROVE  Counted'
  <1> SUFFICES ASSUME NEW w \in Workers, pool' = {w}
               PROVE  Count(todo[w])'
    BY DEF Counted
  <1>1. pool = {w} /\ (Sends(w) \/ Works(w) \/ \E p \in PC : Starts(w, p))
    BY AloneBefore
  <1>2. Script(todo[w]) /\ Present(todo[w], ingame) /\ Count(todo[w])
    BY <1>1 DEF Scripted, Counted
  <1>3. CASE ProcessQuestKill(w)
    BY <1>2, <1>3, QuestCounted
  <1>4. CASE Gift(w)
    BY <1>2, <1>4, GiftCounted
  <1>5. CASE ~ProcessQuestKill(w) /\ ~Gift(w)
    <2>1. PICK ops : Turn(todo[w], ops, todo'[w]) /\ Fits(todo[w], ops)
      BY AloneFit
    <2>2. todo[w] = <<>> \/ todo[w][1][1] \notin {"quest", "gift"}
      BY <1>1, <1>5, ByName
    <2>3. \A q : Due(todo'[w], q) = Due(todo[w], q)
      BY <2>1, <2>2, SameGifts DEF Due
    <2>4. \A q \in PC : /\ Held(q)'.kills = Held(q).kills
                        /\ past'[q].kills = past[q].kills /\ past'[q].rewards = past[q].rewards
      BY <1>1, <1>2, <1>5, OthersCount
    <2> QED BY <1>2, <2>3, <2>4 DEF Count
  <1> QED BY <1>3, <1>4, <1>5

LEMMA InitCounted ==
    ASSUME Init
    PROVE  Counted
  <1> SUFFICES ASSUME NEW w \in Workers, NEW p \in PC
               PROVE  /\ Held(p).kills < TARGET
                      /\ past[p].kills = Paid(past[p].rewards) + Held(p).kills + Due(todo[w], p)
    BY DEF Counted, Count
  <1>1. Held(p).kills = 0 /\ past[p].kills = 0 /\ past[p].rewards = 0
    BY DEF Init, Held, Fresh
  <1>2. Due(todo[w], p) = 0
    BY DEF Init, Waiting, Due, Among
  <1>3. Paid(0) = 0
    BY Numbers DEF Paid
  <1> QED BY <1>1, <1>2, <1>3, Numbers

\* The one worker of a settled server has nothing left to do.
LEMMA SettledMeans ==
    ASSUME Typed, Settled
    PROVE  \E w \in Workers : pool = {w} /\ todo[w] = <<>>
  <1>1. pool \in Pools /\ IsFiniteSet(pool) /\ Cardinality(pool) = 1
    BY HandlersAssumption DEF Typed, Shape, Settled
  <1>2. PICK w : pool = {w}
    BY <1>1, FS_CardinalityType, FS_Singleton
  <1>3. w \in Workers
    BY <1>1, <1>2 DEF Workers
  <1>4. todo[w] = <<>>
    BY <1>2, <1>3 DEF Typed, Shape, Settled, Quiet
  <1> QED BY <1>2, <1>3, <1>4

\* With one worker, every TARGET kills that count are rewarded once, for any
\* target, players and items, through logouts and logins: process_quest_kill.
THEOREM QuestsAreExact == Spec => []QuestExact
  <1>1. Init => Typed /\ Scripted /\ Counted
    BY InitTyped, InitScripted, InitCounted
  <1>2. Typed /\ Scripted /\ Counted /\ [Next]_vars => (Typed /\ Scripted /\ Counted)'
    <2>1. Scripted /\ UNCHANGED vars => Scripted'
      BY DEF Scripted, vars, handlers
    <2>2. Counted /\ UNCHANGED vars => Counted'
      BY DEF Counted, Count, Held, vars, handlers
    <2> QED BY <2>1, <2>2, SameTyped, NextTyped, NextScripted, NextCounted
  <1>3. Typed /\ Counted => QuestExact
    <2> SUFFICES ASSUME Typed, Counted, Settled, NEW p \in PC
                 PROVE  past[p].kills = past[p].rewards * TARGET + Held(p).kills
      BY DEF QuestExact
    <2>1. PICK w \in Workers : pool = {w} /\ todo[w] = <<>>
      BY SettledMeans
    <2>2. Due(todo[w], p) = 0
      BY <2>1 DEF Due, Among
    <2>3. past[p].kills = Paid(past[p].rewards) + Held(p).kills + 0
      BY <2>1, <2>2 DEF Counted, Count
    <2>4. Held(p).kills \in Nat /\ past[p].rewards \in Nat
      BY HeldTyped, SheetParts DEF Typed, Data, Pasts
    <2>5. Paid(past[p].rewards) \in Nat
      BY <2>4, Pays
    <2>6. past[p].kills = Paid(past[p].rewards) + Held(p).kills
      BY <2>3, <2>4, <2>5
    <2> QED BY <2>6 DEF Paid
  <1> QED BY <1>1, <1>2, <1>3, PTL DEF Spec
-----------------------------------------------------------------------------
(***************************************************************************)
(* Experience, with one worker.                                            *)
(***************************************************************************)
Accounted == \A w \in Workers : pool = {w} => Account(todo[w])

\* The books of a player are in order.
Balanced(h, b) ==
    /\ h.xp < exp_for_next_level(h.level)
    /\ exp_for_next_level(h.level) + h.xp + b.lost = b.earned + EXP_BASE

\* Only the step after the one that read a value can have it pending.
LEMMA NothingPending ==
    ASSUME NEW s, NEW ops, NEW r, Turn(s, ops, r), Script(s),
           \A k \in 1 .. Len(ops) : ops[k][1] \notin {"write", "halve"}
    PROVE  \A k \in 1 .. Len(r) : r[k][1] \notin {"write", "halve"}
  <1> SUFFICES ASSUME NEW k \in 1 .. Len(r)
               PROVE  r[k][1] \notin {"write", "halve"}
    OBVIOUS
  <1>1. CASE k \in 1 .. Len(ops) /\ r[k] = ops[k]
    BY <1>1
  <1>2. CASE \E j \in 1 .. Len(s) : j > 1 /\ r[k] = s[j]
    <2>1. PICK j \in 1 .. Len(s) : j > 1 /\ r[k] = s[j]
      BY <1>2
    <2>2. s[j][1] \notin Fleeting
      BY <2>1 DEF Script, Soon
    <2> QED BY <2>1, <2>2 DEF Fleeting
  <1> QED BY <1>1, <1>2, Origin

LEMMA WriteAccounted ==
    ASSUME Typed, NEW w \in Workers, WriteXp(w), Script(todo[w]),
           Present(todo[w], ingame), Account(todo[w])
    PROVE  Account(todo[w])'
  <1> DEFINE s == todo[w]
             r == todo'[w]
  <1>0. /\ me \in [PC -> Sheets] /\ past \in [PC -> Pasts]
        /\ UNCHANGED <<ingame, row>> /\ Op(w, "write") /\ Step(w, <<>>)
    BY WriteWay DEF Typed, Data, where
  <1>1. s \in Seq(Ops) /\ s # <<>> /\ s[1][1] = "write" /\ Len(s) \in Nat \ {0}
    BY <1>0, NextOp DEF Typed
  <1>2. PICK p \in PC, g \in Nat, x \in Nat : \E l \in Nat \ {0}, y \in Nat :
            /\ s[1][1] = "write" /\ s[1][2] = p
            /\ s[1][3] = g /\ s[1][4] = x
            /\ y < exp_for_next_level(l)
            /\ exp_for_next_level(l) + y = exp_for_next_level(me[p].level) + x
            /\ me' = [me EXCEPT ![p].level = l, ![p].xp = y]
            /\ hurt' = hurt \ {p}
            /\ past' = [past EXCEPT ![p].earned = @ + g]
    BY WriteWay, Zenon
  <1>3. PICK l \in Nat \ {0}, y \in Nat :
            /\ y < exp_for_next_level(l)
            /\ exp_for_next_level(l) + y = exp_for_next_level(me[p].level) + x
            /\ me' = [me EXCEPT ![p].level = l, ![p].xp = y]
            /\ past' = [past EXCEPT ![p].earned = @ + g]
    BY <1>2, Zenon
  <1>4. s[1][2] = p /\ s[1][3] = g /\ s[1][4] = x
    BY <1>2, Zenon
  <1>5. p \in ingame
    BY <1>1, <1>4 DEF Present
  <1>6. x = me[p].xp + g
    BY <1>1, <1>4 DEF Account
  <1>7. Turn(s, <<>>, r)
    BY <1>0, StepTurn DEF Typed
  <1>8. \A k \in 1 .. Len(r) : r[k][1] \notin {"write", "halve"}
    <2>1. \A k \in 1 .. Len(<<>>) : <<>>[k][1] \notin {"write", "halve"}
      OBVIOUS
    <2> HIDE DEF s, r
    <2> QED BY <1>7, <2>1, NothingPending DEF s
  <1>9. /\ me'[p].level = l /\ me'[p].xp = y /\ past'[p].earned = past[p].earned + g
        /\ past'[p].lost = past[p].lost
        /\ \A q \in PC : q # p => me'[q] = me[q] /\ past'[q] = past[q]
    BY <1>0, <1>3 DEF Sheets, Pasts
  <1>10. Held(p) = me[p] /\ Held(p)' = me'[p] /\ \A q \in PC : q # p => Held(q)' = Held(q)
    BY <1>0, <1>5, <1>9, HeldOf, HeldByOthers
  <1>11. Balanced(me[p], past[p])
    BY <1>10 DEF Account, Balanced
  <1>12. /\ exp_for_next_level(me[p].level) \in Nat /\ exp_for_next_level(l) \in Nat
         /\ me[p].xp \in Nat /\ past[p].lost \in Nat /\ past[p].earned \in Nat
    BY <1>0, Costs DEF Sheets, Pasts
  <1>13. Balanced(me'[p], past'[p])
    BY <1>3, <1>6, <1>9, <1>11, <1>12, Numbers DEF Balanced
  <1>14. ASSUME NEW q \in PC
         PROVE  Balanced(Held(q)', past'[q])
    <2>1. CASE q = p
      BY <1>10, <1>13, <2>1
    <2>2. CASE q # p
      BY <1>9, <1>10, <2>2 DEF Account, Balanced
    <2> QED BY <2>1, <2>2
  <1> QED BY <1>8, <1>14 DEF Account, Balanced

LEMMA HalveAccounted ==
    ASSUME Typed, NEW w \in Workers, Halve(w), Script(todo[w]),
           Present(todo[w], ingame), Account(todo[w])
    PROVE  Account(todo[w])'
  <1> DEFINE s == todo[w]
             r == todo'[w]
  <1>0. /\ me \in [PC -> Sheets] /\ past \in [PC -> Pasts]
        /\ UNCHANGED <<ingame, row>> /\ Op(w, "halve") /\ Step(w, <<>>)
    BY HalveWay DEF Typed, Data
  <1>1. s \in Seq(Ops) /\ s # <<>> /\ s[1][1] = "halve" /\ Len(s) \in Nat \ {0}
    BY <1>0, NextOp DEF Typed
  <1>2. PICK p \in PC, x \in Nat :
            /\ s[1] = <<"halve", p, x>>
            /\ me' = [me EXCEPT ![p].xp = x \div 2]
            /\ past' = [past EXCEPT ![p].deaths = @ + 1, ![p].lost = @ + x - x \div 2]
            /\ hurt' = hurt \ {p}
            /\ place' = [place EXCEPT ![p] = "far"]
            /\ strayed' = strayed \cup {p}
    BY HalveWay, Zenon
  <1>3. s[1][2] = p /\ s[1][3] = x
    BY <1>2
  <1>4. p \in ingame
    BY <1>1, <1>3 DEF Present
  <1>5. x = me[p].xp
    BY <1>1, <1>3 DEF Account
  <1>6. Turn(s, <<>>, r)
    BY <1>0, StepTurn DEF Typed
  <1>7. \A k \in 1 .. Len(r) : r[k][1] \notin {"write", "halve"}
    <2>1. \A k \in 1 .. Len(<<>>) : <<>>[k][1] \notin {"write", "halve"}
      OBVIOUS
    <2> HIDE DEF s, r
    <2> QED BY <1>6, <2>1, NothingPending DEF s
  <1>8. PICK d \in Nat : d = x \div 2 /\ d <= x
    OBVIOUS
  <1>9. /\ me'[p].level = me[p].level /\ me'[p].xp = d /\ past'[p].earned = past[p].earned
        /\ past'[p].lost = past[p].lost + x - d
        /\ \A q \in PC : q # p => me'[q] = me[q] /\ past'[q] = past[q]
    BY <1>0, <1>2, <1>8 DEF Sheets, Pasts
  <1>10. Held(p) = me[p] /\ Held(p)' = me'[p] /\ \A q \in PC : q # p => Held(q)' = Held(q)
    BY <1>0, <1>4, <1>9, HeldOf, HeldByOthers
  <1>11. Balanced(me[p], past[p])
    BY <1>10 DEF Account, Balanced
  <1>12. /\ exp_for_next_level(me[p].level) \in Nat
         /\ me[p].xp \in Nat /\ past[p].lost \in Nat /\ past[p].earned \in Nat
    BY <1>0, Costs DEF Sheets, Pasts
  <1>13. Balanced(me'[p], past'[p])
    BY <1>5, <1>8, <1>9, <1>11, <1>12, Numbers DEF Balanced
  <1>14. ASSUME NEW q \in PC
         PROVE  Balanced(Held(q)', past'[q])
    <2>1. CASE q = p
      BY <1>10, <1>13, <2>1
    <2>2. CASE q # p
      BY <1>9, <1>10, <2>2 DEF Account, Balanced
    <2> QED BY <2>1, <2>2
  <1> QED BY <1>7, <1>14 DEF Account, Balanced

\* The steps that gain or lose no experience.
LEMMA OthersAccount ==
    ASSUME Typed, NEW w \in Workers,
           Sends(w) \/ Works(w) \/ (\E p \in PC : Starts(w, p)),
           ~WriteXp(w), ~Halve(w), NEW q \in PC
    PROVE  /\ Held(q)'.level = Held(q).level /\ Held(q)'.xp = Held(q).xp
           /\ past'[q].earned = past[q].earned /\ past'[q].lost = past[q].lost
  <1>0. me \in [PC -> Sheets] /\ past \in [PC -> Pasts]
    BY DEF Typed, Data
  <1>1. CASE ProcessQuestKill(w)
    <2>1. UNCHANGED <<ingame, row>>
      BY <1>1 DEF ProcessQuestKill, where
    <2>2. PICK p \in PC : \E k : /\ past' = [past EXCEPT ![p].kills = @ + 1]
                                  /\ me' = [me EXCEPT ![p].kills = k]
      BY <1>1, QuestWay
    <2>3. me'[q].level = me[q].level /\ me'[q].xp = me[q].xp
      BY <1>0, <2>2 DEF Sheets
    <2>4. past'[q].earned = past[q].earned /\ past'[q].lost = past[q].lost
      BY <1>0, <2>2 DEF Pasts
    <2> QED BY <2>1, <2>3, <2>4 DEF Held
  <1>2. CASE Gift(w)
    <2>1. UNCHANGED <<ingame, row>>
      BY <1>2 DEF Gift, where
    <2>2. PICK p \in PC : /\ past' = [past EXCEPT ![p].rewards = @ + 1]
                          /\ me' = [me EXCEPT ![p].inv["boost"] = @ + 1]
      BY <1>2, GiftWay
    <2>3. me'[q].level = me[q].level /\ me'[q].xp = me[q].xp
      BY <1>0, <2>2 DEF Sheets
    <2>4. past'[q].earned = past[q].earned /\ past'[q].lost = past[q].lost
      BY <1>0, <2>2 DEF Pasts
    <2> QED BY <2>1, <2>3, <2>4 DEF Held
  <1>3. CASE Got(w)
    <2>1. UNCHANGED <<ingame, row, past>>
      BY <1>3 DEF Got, where
    <2>2. me'[q].level = me[q].level /\ me'[q].xp = me[q].xp
      BY <1>0, <1>3 DEF Got, Sheets
    <2> QED BY <2>1, <2>2 DEF Held
  <1>4. ASSUME NEW p \in PC, NEW t \in Slots, UseItem(w, p, t)
        PROVE  Held(q)'.level = Held(q).level /\ Held(q)'.xp = Held(q).xp /\ past' = past
    <2>1. UNCHANGED <<ingame, row, past>> /\ me' = [me EXCEPT ![p].inv[t] = @ - 1]
      BY <1>4 DEF UseItem, where
    <2>2. me'[q].level = me[q].level /\ me'[q].xp = me[q].xp
      BY <1>0, <2>1 DEF Sheets
    <2> QED BY <2>1, <2>2 DEF Held
  <1>5. CASE \/ Sends(w) \/ SpawnItem(w) \/ ReadXp(w) \/ PickUpItem(w) \/ ListItem(w)
             \/ \E p \in PC : \/ Kill(w, p) \/ Move(w, p) \/ Wound(w, p) \/ Die(w, p)
                              \/ Disconnect(w, p) \/ Login(w, p)
    BY <1>5, HeldUnchanged
  <1> QED BY <1>1, <1>2, <1>3, <1>4, <1>5 DEF Works, Starts

\* The values that are pending after a read or at the start of a death.
LEMMA ReadPends ==
    ASSUME Typed, NEW w \in Workers, ReadXp(w), Script(todo[w]),
           NEW k \in 1 .. Len(todo'[w])
    PROVE  /\ todo'[w][k][1] = "write" =>
                todo'[w][k][4] = me'[todo'[w][k][2]].xp + todo'[w][k][3]
           /\ todo'[w][k][1] # "halve"
  <1> DEFINE s == todo[w]
             r == todo'[w]
  <1>1. me' = me /\ Op(w, "read")
    BY DEF ReadXp
  <1>2. PICK p \in PC, x \in Nat : \E ops \in Seq(Ops) :
            ops = <<<<"write", p, x, me[p].xp + x>>>> /\ Then(w, ops)
    BY ReadWay
  <1>3. PICK ops \in Seq(Ops) : ops = <<<<"write", p, x, me[p].xp + x>>>> /\ Then(w, ops)
    BY <1>2
  <1>4. Turn(s, ops, r)
    BY <1>1, <1>3, ThenTurn DEF Typed
  <1>5. CASE k \in 1 .. Len(ops) /\ r[k] = ops[k]
    <2>1. r[k] = <<"write", p, x, me[p].xp + x>>
      BY <1>3, <1>5
    <2> QED BY <1>1, <2>1
  <1>6. CASE \E j \in 1 .. Len(s) : j > 1 /\ r[k] = s[j]
    <2>1. PICK j \in 1 .. Len(s) : j > 1 /\ r[k] = s[j]
      BY <1>6
    <2>2. s[j][1] \notin Fleeting
      BY <2>1 DEF Script, Soon
    <2> QED BY <2>1, <2>2 DEF Fleeting
  <1>7. \/ k \in 1 .. Len(ops) /\ r[k] = ops[k]
        \/ \E j \in 1 .. Len(s) : j > 1 /\ r[k] = s[j]
    <2> HIDE DEF s, r
    <2> QED BY <1>4, Origin DEF r
  <1> QED BY <1>5, <1>6, <1>7

LEMMA DiePends ==
    ASSUME Typed, NEW w \in Workers, NEW p \in PC, Die(w, p),
           NEW k \in 1 .. Len(todo'[w])
    PROVE  /\ todo'[w][k][1] # "write"
           /\ todo'[w][k][1] = "halve" => todo'[w][k][3] = me'[todo'[w][k][2]].xp
  <1>1. me' = me
    BY DEF Die
  <1>2. PICK ops \in Seq(Ops) :
            ops = <<<<"halve", p, me[p].xp>>, Stat(p)>> /\ Take(w, "tick", p, ops)
    BY ShortWays
  <1>3. todo'[w] = ops
    BY <1>2, TakeTurn DEF Typed, Kinds
  <1>4. ops[k] = <<"halve", p, me[p].xp>> \/ ops[k] = Stat(p)
    BY <1>2, <1>3
  <1> QED BY <1>1, <1>3, <1>4 DEF Stat

LEMMA NextAccounted ==
    ASSUME Typed, Scripted, Accounted, Next
    PROVE  Accounted'
  <1> SUFFICES ASSUME NEW w \in Workers, pool' = {w}
               PROVE  Account(todo[w])'
    BY DEF Accounted
  <1>1. pool = {w} /\ (Sends(w) \/ Works(w) \/ \E p \in PC : Starts(w, p))
    BY AloneBefore
  <1>2. Script(todo[w]) /\ Present(todo[w], ingame) /\ Account(todo[w])
    BY <1>1 DEF Scripted, Accounted
  <1>3. CASE WriteXp(w)
    BY <1>2, <1>3, WriteAccounted
  <1>4. CASE Halve(w)
    BY <1>2, <1>4, HalveAccounted
  <1>5. CASE ~WriteXp(w) /\ ~Halve(w)
    <2>1. \A q \in PC : /\ Held(q)'.level = Held(q).level /\ Held(q)'.xp = Held(q).xp
                        /\ past'[q].earned = past[q].earned /\ past'[q].lost = past[q].lost
      BY <1>1, <1>5, OthersAccount
    <2>2. ASSUME NEW k \in 1 .. Len(todo'[w])
          PROVE  /\ todo'[w][k][1] = "write" =>
                      todo'[w][k][4] = me'[todo'[w][k][2]].xp + todo'[w][k][3]
                 /\ todo'[w][k][1] = "halve" => todo'[w][k][3] = me'[todo'[w][k][2]].xp
      <3>1. CASE ReadXp(w)
        BY <1>2, <3>1, ReadPends
      <3>2. CASE \E p \in PC : Die(w, p)
        BY <3>2, DiePends
      <3>3. CASE ~ReadXp(w) /\ ~\E p \in PC : Die(w, p)
        <4>1. PICK ops : /\ Turn(todo[w], ops, todo'[w]) /\ Fits(todo[w], ops)
                         /\ \/ \E p \in PC : Die(w, p)
                            \/ \A j \in 1 .. Len(ops) : ops[j][1] # "halve"
          BY AloneFit
        <4>2. todo[w] = <<>> \/ todo[w][1][1] # "read"
          BY <1>1, <3>3, ByName
        <4>3. \A j \in 1 .. Len(ops) : ops[j][1] \notin {"write", "halve"}
          BY <3>3, <4>1, <4>2 DEF Fits, Follows
        <4>4. \A j \in 1 .. Len(todo'[w]) : todo'[w][j][1] \notin {"write", "halve"}
          BY <1>2, <4>1, <4>3, NothingPending
        <4> QED BY <4>4
      <3> QED BY <3>1, <3>2, <3>3
    <2> QED BY <1>2, <2>1, <2>2 DEF Account
  <1> QED BY <1>3, <1>4, <1>5

LEMMA InitAccounted ==
    ASSUME Init
    PROVE  Accounted
  <1>1. \A p \in PC : /\ Held(p).level = 1 /\ Held(p).xp = 0
                      /\ past[p].lost = 0 /\ past[p].earned = 0
    BY DEF Init, Held, Fresh
  <1>2. \A w \in Workers : todo[w] = <<>>
    BY DEF Init, Waiting
  <1>3. /\ exp_for_next_level(1) + 0 + 0 = 0 + EXP_BASE
        /\ 0 < exp_for_next_level(1)
    <2>1. exp_for_next_level(1) = EXP_BASE
      BY Costs
    <2> QED BY <2>1, Numbers
  <1> QED BY <1>1, <1>2, <1>3 DEF Accounted, Account

\* With one worker experience goes into levels, at the price that
\* exp_for_next_level says, and half of it into each death, and nowhere else,
\* whatever is gained at once: the loop after every m_xp +=, and the death of a
\* player.
THEOREM ExperienceAddsUp == Spec => []XpAccounts
  <1>1. Init => Typed /\ Scripted /\ Accounted
    BY InitTyped, InitScripted, InitAccounted
  <1>2. Typed /\ Scripted /\ Accounted /\ [Next]_vars => (Typed /\ Scripted /\ Accounted)'
    <2>1. Scripted /\ UNCHANGED vars => Scripted'
      BY DEF Scripted, vars, handlers
    <2>2. Accounted /\ UNCHANGED vars => Accounted'
      BY DEF Accounted, Account, Held, vars, handlers
    <2> QED BY <2>1, <2>2, SameTyped, NextTyped, NextScripted, NextAccounted
  <1>3. Typed /\ Accounted => XpAccounts
    <2> SUFFICES ASSUME Typed, Accounted, Settled, NEW p \in PC
                 PROVE  /\ past[p].earned = EXP_BASE * (2 ^ (Held(p).level - 1) - 1)
                                            + Held(p).xp + past[p].lost
                        /\ Held(p).xp < exp_for_next_level(Held(p).level)
      BY DEF XpAccounts
    <2>1. PICK w \in Workers : pool = {w} /\ todo[w] = <<>>
      BY SettledMeans
    <2>2. Balanced(Held(p), past[p])
      BY <2>1 DEF Accounted, Account, Balanced
    <2>3. /\ Held(p).level \in Nat \ {0} /\ Held(p).xp \in Nat
          /\ past[p].earned \in Nat /\ past[p].lost \in Nat
      BY HeldTyped, SheetParts DEF Typed, Data, Pasts
    <2>4. PICK c : c = EXP_BASE * (2 ^ (Held(p).level - 1) - 1)
      OBVIOUS
    <2>5. /\ c = exp_for_next_level(Held(p).level) - EXP_BASE
          /\ exp_for_next_level(Held(p).level) \in Nat
      BY <2>3, <2>4, Costs
    <2>6. past[p].earned = c + Held(p).xp + past[p].lost
      BY <2>2, <2>3, <2>5, Numbers DEF Balanced
    <2> QED BY <2>2, <2>4, <2>6 DEF Balanced
  <1> QED BY <1>1, <1>2, <1>3, PTL DEF Spec
-----------------------------------------------------------------------------
(***************************************************************************)
(* What the clients show of the sessions, with one worker.                 *)
(***************************************************************************)
Clear == \A w \in Workers : pool = {w} => Informed(todo[w]) /\ Pictured(todo[w])

\* What is pending and not next stays pending.
LEMMA Stays ==
    ASSUME NEW s, NEW ops, NEW r, Turn(s, ops, r), NEW x, s = <<>> \/ s[1] # x, Among(s, x)
    PROVE  Among(r, x)
  BY Pending

LEMMA SeesStays ==
    ASSUME NEW s, NEW ops, NEW r, Turn(s, ops, r), NEW p,
           \/ s = <<>> \/ s[1][2] # p
           \/ s[1][1] \notin {"stat", "item_add", "quest_update"},
           NEW a, NEW b, Sees(a, b, s, p)
    PROVE  Sees(a, b, r, p)
  <1>1. \A t : s = <<>> \/ (s[1] # Stat(p) /\ s[1] # ItemAdd(p, t) /\ s[1] # QuestUpdate(p))
    BY DEF Stat, ItemAdd, QuestUpdate
  <1>2. Among(s, Stat(p)) => Among(r, Stat(p))
    BY <1>1, Stays
  <1>3. \A t : Among(s, ItemAdd(p, t)) => Among(r, ItemAdd(p, t))
    BY <1>1, Stays
  <1>4. Among(s, QuestUpdate(p)) => Among(r, QuestUpdate(p))
    BY <1>1, Stays
  <1> QED BY <1>2, <1>3, <1>4 DEF Sees

\* What the new operations say need not have been pending.
LEMMA SeesMore ==
    ASSUME NEW s, NEW ops, NEW r, Turn(s, ops, r), NEW x, Among(ops, x)
    PROVE  Among(r, x)
  BY Pending

\* Nobody has anything to be told when there is nothing to do.
LEMMA SeesAll ==
    ASSUME NEW a, NEW b, NEW p, Sees(a, b, <<>>, p)
    PROVE  /\ a.level = b.level /\ a.xp = b.xp /\ a.kills = b.kills
           /\ \A t \in Slots : a.inv[t] = b.inv[t]
           /\ \A s : Sees(a, b, s, p)
  BY DEF Sees, Among

\* The packets about p.
LEMMA SendsInformed ==
    ASSUME Typed, NEW w \in Workers, Sends(w), Present(todo[w], ingame), Informed(todo[w])
    PROVE  Informed(todo[w])'
  <1> DEFINE s == todo[w]
             r == todo'[w]
  <1>0. /\ shown \in [PC -> Sheets] /\ me \in [PC -> Sheets] /\ ingame \subseteq PC
        /\ UNCHANGED <<ingame, me>>
    BY SendsStep DEF Typed, Data, where
  <1>1. Turn(s, <<>>, r) /\ s \in Seq(Ops) /\ s # <<>>
    <2>1. Step(w, <<>>) /\ s # <<>>
      BY SendsFit
    <2>2. Turn(s, <<>>, r)
      BY <2>1, StepTurn DEF Typed
    <2>3. s \in Seq(Ops)
      BY <2>2 DEF Turn
    <2> QED BY <2>1, <2>2, <2>3
  <1>2. Len(s) \in Nat \ {0}
    BY <1>1
  <1>3. ASSUME NEW name, name # "spawn", Op(w, name)
        PROVE  s[1][1] = name /\ s[1][2] = Arg(w, 1) /\ s[1][2] \in ingame
    <2>1. s[1][1] = name /\ s[1][2] = Arg(w, 1)
      BY <1>3, NextOp DEF Typed
    <2> QED BY <1>2, <1>3, <2>1 DEF Present
  <1>4. ASSUME NEW p \in ingame, s[1][2] # p \/ s[1][1] \notin {"stat", "item_add", "quest_update"}
        PROVE  Sees(shown[p], me[p], r, p)
    <2>1. Sees(shown[p], me[p], s, p)
      BY DEF Informed
    <2> HIDE DEF s, r
    <2> QED BY <1>1, <1>4, <2>1, SeesStays
  <1>5. CASE SendStat(w)
    <2>1. Op(w, "stat")
      BY <1>5 DEF SendStat
    <2>2. PICK q \in ingame : q = Arg(w, 1) /\ s[1][2] = q /\ s[1][1] = "stat"
      BY <1>3, <2>1
    <2>3. shown' = [shown EXCEPT ![q].level = me[q].level, ![q].xp = me[q].xp]
      BY <1>5, <2>2 DEF SendStat, OnStat
    <2>4. /\ shown'[q].level = me[q].level /\ shown'[q].xp = me[q].xp
          /\ shown'[q].inv = shown[q].inv /\ shown'[q].kills = shown[q].kills
          /\ \A p \in PC : p # q => shown'[p] = shown[p]
      BY <1>0, <2>3 DEF Sheets
    <2>5. \A t : s[1] # ItemAdd(q, t) /\ s[1] # QuestUpdate(q)
      BY <2>2 DEF ItemAdd, QuestUpdate
    <2>6. Sees(shown[q], me[q], s, q)
      BY DEF Informed
    <2>7. Sees(shown'[q], me[q], r, q)
      <3>1. (\A t : Among(s, ItemAdd(q, t)) => Among(r, ItemAdd(q, t)))
            /\ (Among(s, QuestUpdate(q)) => Among(r, QuestUpdate(q)))
        <4> HIDE DEF s, r
        <4> QED BY <1>1, <2>5, Stays
      <3> QED BY <2>4, <2>6, <3>1 DEF Sees
    <2>8. \A p \in ingame : p # q => Sees(shown[p], me[p], r, p)
      BY <1>4, <2>2
    <2> QED BY <1>0, <2>4, <2>7, <2>8 DEF Informed
  <1>6. CASE SendItemAdd(w)
    <2>1. Op(w, "item_add")
      BY <1>6 DEF SendItemAdd
    <2>2. PICK q \in ingame : q = Arg(w, 1) /\ s[1][2] = q /\ s[1][1] = "item_add"
      BY <1>3, <2>1
    <2>3. PICK u \in Slots : u = Arg(w, 2) /\ s[1] = ItemAdd(q, u)
      BY <2>1, <2>2, HeadTypes DEF Typed, ItemAdd
    <2>4. shown' = [shown EXCEPT ![q].inv[u] = me[q].inv[u]]
      BY <1>6, <2>2, <2>3 DEF SendItemAdd, OnItemAdd
    <2>5. /\ shown'[q].inv[u] = me[q].inv[u]
          /\ \A t \in Slots : t # u => shown'[q].inv[t] = shown[q].inv[t]
          /\ shown'[q].level = shown[q].level /\ shown'[q].xp = shown[q].xp
          /\ shown'[q].kills = shown[q].kills
          /\ \A p \in PC : p # q => shown'[p] = shown[p]
      BY <1>0, <2>4 DEF Sheets
    <2>6. /\ s[1] # Stat(q) /\ s[1] # QuestUpdate(q)
          /\ \A t : t # u => s[1] # ItemAdd(q, t)
      BY <2>3 DEF ItemAdd, QuestUpdate, Stat
    <2>7. Sees(shown[q], me[q], s, q)
      BY DEF Informed
    <2>8. Sees(shown'[q], me[q], r, q)
      <3>1. (\A t : t # u /\ Among(s, ItemAdd(q, t)) => Among(r, ItemAdd(q, t)))
            /\ (Among(s, QuestUpdate(q)) => Among(r, QuestUpdate(q)))
            /\ (Among(s, Stat(q)) => Among(r, Stat(q)))
        <4> HIDE DEF s, r
        <4> QED BY <1>1, <2>6, Stays
      <3> QED BY <2>5, <2>7, <3>1 DEF Sees
    <2>9. \A p \in ingame : p # q => Sees(shown[p], me[p], r, p)
      BY <1>4, <2>2
    <2> QED BY <1>0, <2>5, <2>8, <2>9 DEF Informed
  <1>7. CASE SendQuestUpdate(w)
    <2>1. Op(w, "quest_update")
      BY <1>7 DEF SendQuestUpdate
    <2>2. PICK q \in ingame : q = Arg(w, 1) /\ s[1][2] = q /\ s[1][1] = "quest_update"
      BY <1>3, <2>1
    <2>3. shown' = [shown EXCEPT ![q].kills = me[q].kills]
      BY <1>7, <2>2 DEF SendQuestUpdate, OnQuestUpdate
    <2>4. /\ shown'[q].kills = me[q].kills
          /\ shown'[q].inv = shown[q].inv
          /\ shown'[q].level = shown[q].level /\ shown'[q].xp = shown[q].xp
          /\ \A p \in PC : p # q => shown'[p] = shown[p]
      BY <1>0, <2>3 DEF Sheets
    <2>5. \A t : s[1] # ItemAdd(q, t) /\ s[1] # Stat(q)
      BY <2>2 DEF ItemAdd, Stat
    <2>6. Sees(shown[q], me[q], s, q)
      BY DEF Informed
    <2>7. Sees(shown'[q], me[q], r, q)
      <3>1. (\A t : Among(s, ItemAdd(q, t)) => Among(r, ItemAdd(q, t)))
            /\ (Among(s, Stat(q)) => Among(r, Stat(q)))
        <4> HIDE DEF s, r
        <4> QED BY <1>1, <2>5, Stays
      <3> QED BY <2>4, <2>6, <3>1 DEF Sees
    <2>8. \A p \in ingame : p # q => Sees(shown[p], me[p], r, p)
      BY <1>4, <2>2
    <2> QED BY <1>0, <2>4, <2>7, <2>8 DEF Informed
  <1>8. CASE SendItemAppear(w) \/ SendItemRemove(w)
    <2>1. shown' = shown /\ (Op(w, "appear") \/ Op(w, "vanish"))
      BY <1>8 DEF SendItemAppear, SendItemRemove
    <2>2. s[1][1] \in {"appear", "vanish"}
      BY <1>3, <2>1
    <2>3. \A p \in ingame : Sees(shown[p], me[p], r, p)
      BY <1>4, <2>2
    <2> QED BY <1>0, <2>1, <2>3 DEF Informed
  <1> QED BY <1>5, <1>6, <1>7, <1>8 DEF Sends

\* Whoever earns or loses experience is told later.
LEMMA ToldLater ==
    ASSUME NEW s, NEW ops, NEW r, Turn(s, ops, r), Script(s), s # <<>>, s[1][1] \in Earning
    PROVE  Among(r, Stat(s[1][2]))
  <1>1. s \in Seq(Ops) /\ Len(s) \in Nat \ {0} /\ 1 \in 1 .. Len(s)
    BY DEF Turn
  <1>2. PICK j \in 1 .. Len(s) : j > 1 /\ s[j] = Stat(s[1][2])
    BY <1>1 DEF Script, Told
  <1>3. Later(s, Stat(s[1][2]))
    BY <1>1, <1>2 DEF Later
  <1> QED BY <1>3, Pending

LEMMA WorksInformed ==
    ASSUME Typed, NEW w \in Workers, Works(w), Script(todo[w]), Present(todo[w], ingame),
           Informed(todo[w])
    PROVE  Informed(todo[w])'
  <1> DEFINE s == todo[w]
             r == todo'[w]
  <1>0. /\ me \in [PC -> Sheets] /\ ingame \subseteq PC /\ s # <<>>
        /\ UNCHANGED <<ingame, shown>>
    <2>1. UNCHANGED shown
      BY DEF Works, SpawnItem, ReadXp, WriteXp, ProcessQuestKill, Gift, PickUpItem, Got, Halve,
             ListItem, client
    <2> QED BY <2>1, WorksFit DEF Typed, Data
  <1>1. ASSUME NEW name, Op(w, name)
        PROVE  s[1][1] = name
    BY <1>1, NextOp DEF Typed
  <1>2. s[1][1] \notin {"stat", "item_add", "quest_update"}
    <2>1. \/ Op(w, "spawn") \/ Op(w, "read") \/ Op(w, "write") \/ Op(w, "quest") \/ Op(w, "gift")
          \/ Op(w, "pick") \/ Op(w, "got") \/ Op(w, "halve") \/ Op(w, "list")
      BY DEF Works, SpawnItem, ReadXp, WriteXp, ProcessQuestKill, Gift, PickUpItem, Got, Halve,
             ListItem
    <2>2. s[1][1] \in {"spawn", "read", "write", "quest", "gift", "pick", "got", "halve", "list"}
      BY <1>1, <2>1
    <2> QED BY <2>2
  <1>3. ASSUME NEW ops, Turn(s, ops, r), NEW p \in ingame
        PROVE  Sees(shown[p], me[p], r, p)
    <2>1. Sees(shown[p], me[p], s, p)
      BY DEF Informed
    <2> HIDE DEF s, r
    <2> QED BY <1>2, <1>3, <2>1, SeesStays
  <1>4. CASE SpawnItem(w) \/ ReadXp(w) \/ PickUpItem(w) \/ ListItem(w)
    <2>1. me' = me
      BY <1>4 DEF SpawnItem, ReadXp, PickUpItem, ListItem
    <2>2. \E ops : Turn(s, ops, r)
      BY WorksFit, StepTurn DEF Typed
    <2> QED BY <1>0, <1>3, <2>1, <2>2 DEF Informed
  <1>5. CASE WriteXp(w) \/ Halve(w)
    <2>1. s[1][1] \in Earning
      BY <1>1, <1>5 DEF WriteXp, Halve, Earning
    <2>2. PICK q : s[1][2] = q
      OBVIOUS
    <2>3. PICK ops : Turn(s, ops, r)
      BY WorksFit, StepTurn DEF Typed
    <2>4. Among(r, Stat(q))
      <3>1. Script(s)
        OBVIOUS
      <3> HIDE DEF s, r
      <3> QED BY <1>0, <2>1, <2>2, <2>3, <3>1, ToldLater
    <2>5. \A p \in PC : /\ me'[p].inv = me[p].inv /\ me'[p].kills = me[p].kills
                        /\ p # q => me'[p] = me[p]
      <3>1. CASE WriteXp(w)
        <4>1. q = Arg(w, 1) /\ q \in PC
          BY <2>2, <3>1, NextOp, HeadTypes DEF Typed, WriteXp
        <4>2. \E l, x : me' = [me EXCEPT ![q].level = l, ![q].xp = x]
          BY <3>1, <4>1 DEF WriteXp
        <4> QED BY <1>0, <4>1, <4>2 DEF Sheets
      <3>2. CASE Halve(w)
        <4>1. q = Arg(w, 1) /\ q \in PC
          BY <2>2, <3>2, NextOp, HeadTypes DEF Typed, Halve
        <4>2. \E x : me' = [me EXCEPT ![q].xp = x]
          BY <3>2, <4>1 DEF Halve
        <4> QED BY <1>0, <4>1, <4>2 DEF Sheets
      <3> QED BY <1>5, <3>1, <3>2
    <2>6. ASSUME NEW p \in ingame
          PROVE  Sees(shown[p], me'[p], r, p)
      <3>1. Sees(shown[p], me[p], r, p)
        BY <1>3, <2>3
      <3>2. p = q \/ me'[p] = me[p]
        BY <1>0, <2>5
      <3>3. me'[p].inv = me[p].inv /\ me'[p].kills = me[p].kills
        BY <1>0, <2>5
      <3> HIDE DEF r
      <3>4. CASE p = q
        BY <2>4, <3>1, <3>3, <3>4 DEF Sees
      <3> QED BY <3>1, <3>2, <3>4
    <2> QED BY <1>0, <2>6 DEF Informed
  <1>6. CASE ProcessQuestKill(w)
    <2>1. Op(w, "quest")
      BY <1>6 DEF ProcessQuestKill
    <2>2. PICK q \in PC : \E k : \E ops \in Seq(Ops) :
              /\ me' = [me EXCEPT ![q].kills = k] /\ Then(w, ops)
              /\ \/ ops = <<QuestUpdate(q)>>
                 \/ ops = <<<<"read", q, REWARD_XP>>, <<"gift", q>>, Stat(q), QuestUpdate(q)>>
      BY <1>6, QuestWay
    <2>3. PICK ops \in Seq(Ops) :
              /\ Then(w, ops)
              /\ \/ ops = <<QuestUpdate(q)>>
                 \/ ops = <<<<"read", q, REWARD_XP>>, <<"gift", q>>, Stat(q), QuestUpdate(q)>>
      BY <2>2
    <2>4. Turn(s, ops, r)
      BY <2>1, <2>3, ThenTurn DEF Typed
    <2>5. Among(r, QuestUpdate(q))
      <3>1. Among(ops, QuestUpdate(q))
        <4>1. CASE ops = <<QuestUpdate(q)>>
          BY <4>1 DEF Among
        <4>2. CASE ops = <<<<"read", q, REWARD_XP>>, <<"gift", q>>, Stat(q), QuestUpdate(q)>>
          <5>1. Len(ops) = 4 /\ ops[4] = QuestUpdate(q)
            BY <4>2
          <5> QED BY <5>1 DEF Among
        <4> QED BY <2>3, <4>1, <4>2
      <3> HIDE DEF s, r
      <3> QED BY <2>4, <3>1, SeesMore
    <2>6. \A p \in PC : /\ me'[p].inv = me[p].inv /\ me'[p].level = me[p].level
                        /\ me'[p].xp = me[p].xp /\ (p # q => me'[p] = me[p])
      BY <1>0, <2>2 DEF Sheets
    <2>7. ASSUME NEW p \in ingame
          PROVE  Sees(shown[p], me'[p], r, p)
      <3>1. Sees(shown[p], me[p], r, p)
        BY <1>3, <2>4
      <3>2. p = q \/ me'[p] = me[p]
        BY <1>0, <2>6
      <3>3. me'[p].inv = me[p].inv /\ me'[p].level = me[p].level /\ me'[p].xp = me[p].xp
        BY <1>0, <2>6
      <3> HIDE DEF r
      <3>4. CASE p = q
        BY <2>5, <3>1, <3>3, <3>4 DEF Sees
      <3> QED BY <3>1, <3>2, <3>4
    <2> QED BY <1>0, <2>7 DEF Informed
  <1>7. CASE Gift(w) \/ Got(w)
    <2>1. PICK q \in PC, u \in Slots, ops \in Seq(Ops) :
              /\ me' = [me EXCEPT ![q].inv[u] = @ + 1]
              /\ Turn(s, ops, r) /\ Among(ops, ItemAdd(q, u))
      <3>1. "boost" \in Slots /\ "potion" \in Slots
        BY DEF Slots
      <3>2. CASE Gift(w)
        <4>1. PICK q \in PC : \E ops \in Seq(Ops) :
                  /\ me' = [me EXCEPT ![q].inv["boost"] = @ + 1]
                  /\ ops = <<ItemAdd(q, "boost")>> /\ Then(w, ops)
          BY <3>2, GiftWay
        <4>2. PICK ops \in Seq(Ops) : ops = <<ItemAdd(q, "boost")>> /\ Then(w, ops)
          BY <4>1
        <4>3. Turn(s, ops, r)
          BY <3>2, <4>2, ThenTurn, GiftWay DEF Typed
        <4>4. Among(ops, ItemAdd(q, "boost"))
          BY <4>2 DEF Among
        <4> QED BY <3>1, <4>1, <4>3, <4>4
      <3>3. CASE Got(w)
        <4>1. PICK q \in PC, i \in Items : \E ops \in Seq(Ops) :
                 /\ s[1] = <<"got", q, i>>
                 /\ me' = [me EXCEPT ![q].inv["potion"] = @ + 1]
                 /\ Then(w, ops)
                 /\ \A k \in 1 .. Len(ops) : \/ \E p \in Near : ops[k] = <<"vanish", p, i>>
                                             \/ ops[k] = ItemAdd(q, "potion")
                 /\ \A p \in Near : Among(ops, <<"vanish", p, i>>)
                 /\ Among(ops, ItemAdd(q, "potion"))
          BY <3>3, GotWay, Zenon
        <4>2. PICK ops \in Seq(Ops) :
                 /\ me' = [me EXCEPT ![q].inv["potion"] = @ + 1]
                 /\ Then(w, ops)
                 /\ Among(ops, ItemAdd(q, "potion"))
          BY <4>1, Zenon
        <4>3. Turn(s, ops, r)
          BY <3>3, <4>2, ThenTurn, GotWay DEF Typed
        <4> QED BY <3>1, <4>2, <4>3
      <3> QED BY <1>7, <3>2, <3>3
    <2>2. Among(r, ItemAdd(q, u))
      <3> HIDE DEF s, r
      <3> QED BY <2>1, SeesMore
    <2>3. \A p \in PC : /\ me'[p].kills = me[p].kills /\ me'[p].level = me[p].level
                        /\ me'[p].xp = me[p].xp /\ (p # q => me'[p] = me[p])
                        /\ \A t \in Slots : t # u => me'[p].inv[t] = me[p].inv[t]
      BY <1>0, <2>1 DEF Sheets
    <2>4. ASSUME NEW p \in ingame
          PROVE  Sees(shown[p], me'[p], r, p)
      <3>1. Sees(shown[p], me[p], r, p)
        BY <1>3, <2>1
      <3>2. p = q \/ me'[p] = me[p]
        BY <1>0, <2>3
      <3>3. /\ me'[p].kills = me[p].kills /\ me'[p].level = me[p].level /\ me'[p].xp = me[p].xp
            /\ \A t \in Slots : t # u => me'[p].inv[t] = me[p].inv[t]
        BY <1>0, <2>3
      <3> HIDE DEF r
      <3>4. CASE p = q
        BY <2>2, <3>1, <3>3, <3>4 DEF Sees
      <3> QED BY <3>1, <3>2, <3>4
    <2> QED BY <1>0, <2>4 DEF Informed
  <1> QED BY <1>4, <1>5, <1>6, <1>7 DEF Works

LEMMA StartsInformed ==
    ASSUME Typed, NEW w \in Workers, NEW p \in PC, Starts(w, p), Informed(todo[w])
    PROVE  Informed(todo[w])'
  <1> DEFINE r == todo'[w]
  <1>0. /\ me \in [PC -> Sheets] /\ row \in [PC -> Sheets] /\ shown \in [PC -> Sheets]
        /\ ingame \subseteq PC /\ todo[w] = <<>>
    BY StartsFit DEF Typed, Data
  <1>1. ASSUME NEW q \in ingame
        PROVE  /\ shown[q].level = me[q].level /\ shown[q].xp = me[q].xp
               /\ shown[q].kills = me[q].kills
               /\ \A t \in Slots : shown[q].inv[t] = me[q].inv[t]
               /\ Sees(shown[q], me[q], r, q)
    <2>1. Sees(shown[q], me[q], <<>>, q)
      BY <1>0 DEF Informed
    <2> HIDE DEF r
    <2> QED BY <2>1, SeesAll
  <1>2. CASE Kill(w, p) \/ Move(w, p) \/ Wound(w, p) \/ Die(w, p) \/ Disconnect(w, p)
    <2>1. ingame' \subseteq ingame /\ UNCHANGED <<me, shown>>
      BY <1>2 DEF Kill, Move, Wound, Die, Disconnect, where, client
    <2> QED BY <1>1, <2>1 DEF Informed
  <1>3. CASE Login(w, p)
    <2>1. PICK ops \in Seq(Ops) :
              /\ Take(w, "recv", p, ops)
              /\ Among(ops, Stat(p)) /\ Among(ops, QuestUpdate(p))
              /\ \A t \in Slots : row[p].inv[t] > 0 => Among(ops, ItemAdd(p, t))
      BY <1>3, LoginWay
    <2>2. r = ops
      BY <2>1, TakeTurn DEF Typed, Kinds
    <2>3. /\ ingame' = ingame \cup {p} /\ me' = [me EXCEPT ![p] = row[p]]
          /\ shown' = [shown EXCEPT ![p] = Fresh]
      BY <1>3 DEF Login, Restored
    <2>4. Sees(Fresh, row[p], r, p)
      <3>1. \A t \in Slots : Fresh.inv[t] = 0 /\ row[p].inv[t] \in Nat
        BY <1>0, SheetParts DEF Fresh
      <3>2. \A t \in Slots : Fresh.inv[t] = row[p].inv[t] \/ Among(ops, ItemAdd(p, t))
        BY <2>1, <3>1
      <3> QED BY <2>1, <2>2, <3>2 DEF Sees
    <2>5. me'[p] = row[p] /\ shown'[p] = Fresh
      BY <1>0, <2>3
    <2>6. \A q \in ingame' : q # p => q \in ingame /\ me'[q] = me[q] /\ shown'[q] = shown[q]
      BY <1>0, <2>3
    <2>7. \A q \in ingame' : Sees(shown'[q], me'[q], r, q)
      BY <1>1, <2>4, <2>5, <2>6
    <2> QED BY <2>7 DEF Informed
  <1>4. ASSUME NEW u \in Slots, UseItem(w, p, u)
        PROVE  Informed(todo[w])'
    <2>1. PICK ops \in Seq(Ops) : ops = <<Stat(p), ItemAdd(p, u)>> /\ Take(w, "recv", p, ops)
      BY <1>4, ShortWays
    <2>2. r = ops
      BY <2>1, TakeTurn DEF Typed, Kinds
    <2>3. Among(r, ItemAdd(p, u))
      <3>1. Len(ops) = 2 /\ ops[2] = ItemAdd(p, u)
        BY <2>1
      <3> QED BY <2>2, <3>1 DEF Among
    <2>4. /\ p \in ingame /\ ingame' = ingame /\ shown' = shown
          /\ me' = [me EXCEPT ![p].inv[u] = @ - 1]
      BY <1>4 DEF UseItem, where, client
    <2>5. /\ me'[p].kills = me[p].kills /\ me'[p].level = me[p].level /\ me'[p].xp = me[p].xp
          /\ \A t \in Slots : t # u => me'[p].inv[t] = me[p].inv[t]
          /\ \A q \in PC : q # p => me'[q] = me[q]
      BY <1>0, <2>4 DEF Sheets
    <2>6. Sees(shown[p], me'[p], r, p)
      <3>1. /\ shown[p].level = me[p].level /\ shown[p].xp = me[p].xp
            /\ shown[p].kills = me[p].kills
            /\ \A t \in Slots : shown[p].inv[t] = me[p].inv[t]
        BY <1>1, <2>4
      <3> HIDE DEF r
      <3> QED BY <2>3, <2>5, <3>1 DEF Sees
    <2> QED BY <1>0, <1>1, <2>4, <2>5, <2>6 DEF Informed
  <1> QED BY <1>2, <1>3, <1>4 DEF Starts
-----------------------------------------------------------------------------
(***************************************************************************)
(* What the clients show of the world's items, with one worker.            *)
(***************************************************************************)
\* A pending operation that the step does not bring about was pending before.
LEMMA WasPending ==
    ASSUME NEW s, NEW ops, NEW r, Turn(s, ops, r), NEW x, Among(r, x),
           \A k \in 1 .. Len(ops) : ops[k] # x
    PROVE  Among(s, x) /\ Later(s, x)
  <1>1. ~Among(ops, x)
    BY DEF Among
  <1> QED BY <1>1, Pending

\* A step that shows and moves no items.
LEMMA SamePicture ==
    ASSUME NEW w \in Workers, NEW ops, Turn(todo[w], ops, todo'[w]),
           UNCHANGED <<active, shownItems>>,
           \A k \in 1 .. Len(ops) : ops[k][1] \notin {"appear", "vanish", "got"},
           todo[w] = <<>> \/ todo[w][1][1] \notin {"appear", "list", "vanish", "got"},
           \A q \in ingame' \ strayed' : q \in ingame \ strayed /\ place'[q] # "far",
           Pictured(todo[w])
    PROVE  Pictured(todo[w])'
  <1> DEFINE s == todo[w]
             r == todo'[w]
  <1>1. \A name \in {"appear", "list", "vanish", "got"} : \A p, i :
            Among(s, <<name, p, i>>) => Among(r, <<name, p, i>>)
    <2>1. \A name \in {"appear", "list", "vanish", "got"} : \A p, i :
              s = <<>> \/ s[1] # <<name, p, i>>
      OBVIOUS
    <2>2. Turn(s, ops, r)
      OBVIOUS
    <2> HIDE DEF s, r
    <2> QED BY <2>1, <2>2, Stays
  <1>2. \A name \in {"appear", "vanish", "got"} : \A p, i :
            Among(r, <<name, p, i>>) => Among(s, <<name, p, i>>)
    <2>1. \A name \in {"appear", "vanish", "got"} : \A p, i : \A k \in 1 .. Len(ops) :
              ops[k] # <<name, p, i>>
      OBVIOUS
    <2>2. Turn(s, ops, r)
      OBVIOUS
    <2> HIDE DEF s, r
    <2> QED BY <2>1, <2>2, WasPending
  <1>3. Pictured(s) /\ UNCHANGED <<active, shownItems>>
    OBVIOUS
  <1> HIDE DEF s, r
  <1>4. ASSUME NEW q \in ingame' \ strayed'
        PROVE  /\ place'[q] # "far"
               /\ \A i \in active \ shownItems[q] :
                     Among(r, <<"appear", q, i>>) \/ Among(r, <<"list", q, i>>)
               /\ \A i \in shownItems[q] \ active :
                     Among(r, <<"vanish", q, i>>) \/ \E p \in PC : Among(r, <<"got", p, i>>)
    <2>1. /\ \A i \in active \ shownItems[q] :
                Among(s, <<"appear", q, i>>) \/ Among(s, <<"list", q, i>>)
          /\ \A i \in shownItems[q] \ active :
                Among(s, <<"vanish", q, i>>) \/ \E p \in PC : Among(s, <<"got", p, i>>)
      BY <1>3 DEF Pictured
    <2> QED BY <1>1, <2>1
  <1>5. \A p \in PC, i \in Items :
            /\ Among(r, <<"appear", p, i>>) => i \in active
            /\ Among(r, <<"vanish", p, i>>) \/ Among(r, <<"got", p, i>>) => i \notin active
    BY <1>2, <1>3 DEF Pictured
  <1>6. \A q \in ingame' \ strayed' : shownItems'[q] = shownItems[q]
    BY <1>3
  <1> QED BY <1>3, <1>4, <1>5 DEF Pictured, r

\* Packets about items, and nothing else, change the items a client shows.
LEMMA SendsPictured ==
    ASSUME Typed, NEW w \in Workers, Sends(w), Present(todo[w], ingame), Pictured(todo[w])
    PROVE  Pictured(todo[w])'
  <1> DEFINE s == todo[w]
             r == todo'[w]
  <1>0. /\ shownItems \in [PC -> SUBSET Items] /\ ingame \subseteq PC
        /\ UNCHANGED <<active, ingame, strayed, place>>
    BY SendsStep DEF Typed, Data, where, world
  <1>1. Turn(s, <<>>, r) /\ s \in Seq(Ops) /\ s # <<>>
    <2>1. Step(w, <<>>) /\ s # <<>>
      BY SendsFit
    <2>2. Turn(s, <<>>, r)
      BY <2>1, StepTurn DEF Typed
    <2>3. s \in Seq(Ops)
      BY <2>2 DEF Turn
    <2> QED BY <2>1, <2>2, <2>3
  <1>2. Len(s) \in Nat \ {0}
    BY <1>1
  <1>3. ASSUME NEW x, s[1] # x, Among(s, x)
        PROVE  Among(r, x)
    <2> HIDE DEF s, r
    <2> QED BY <1>1, <1>3, Stays
  <1>4. ASSUME NEW x, Among(r, x)
        PROVE  Among(s, x)
    <2>1. \A k \in 1 .. Len(<<>>) : <<>>[k] # x
      OBVIOUS
    <2> HIDE DEF s, r
    <2> QED BY <1>1, <1>4, <2>1, WasPending
  <1>5. /\ \A q \in ingame \ strayed : place[q] # "far"
        /\ \A p \in PC, i \in Items :
              /\ Among(s, <<"appear", p, i>>) => i \in active
              /\ Among(s, <<"vanish", p, i>>) \/ Among(s, <<"got", p, i>>) => i \notin active
    BY DEF Pictured
  <1>6. \A p \in PC, i \in Items :
              /\ Among(r, <<"appear", p, i>>) => i \in active
              /\ Among(r, <<"vanish", p, i>>) \/ Among(r, <<"got", p, i>>) => i \notin active
    BY <1>4, <1>5
  <1>7. CASE SendStat(w) \/ SendItemAdd(w) \/ SendQuestUpdate(w)
    <2>1. shownItems' = shownItems /\ (Op(w, "stat") \/ Op(w, "item_add") \/ Op(w, "quest_update"))
      BY <1>7 DEF SendStat, SendItemAdd, SendQuestUpdate
    <2>2. s[1][1] \in {"stat", "item_add", "quest_update"}
      BY <2>1, NextOp DEF Typed
    <2>3. s[1][1] \notin {"appear", "list", "vanish", "got"}
      BY <2>2
    <2>4. \A k \in 1 .. Len(<<>>) : <<>>[k][1] \notin {"appear", "vanish", "got"}
      OBVIOUS
    <2>5. \A q \in ingame' \ strayed' : q \in ingame \ strayed /\ place'[q] # "far"
      BY <1>0, <1>5
    <2> QED BY <1>0, <1>1, <2>1, <2>3, <2>4, <2>5, SamePicture
  <1>8. CASE SendItemAppear(w)
    <2>1. PICK p \in PC, j \in Items : /\ s[1] = <<"appear", p, j>>
                                       /\ p = Arg(w, 1) /\ j = Arg(w, 2)
      BY <1>8, HeadTypes DEF Typed, SendItemAppear
    <2>2. p \in ingame
      <3>1. s[1][1] # "spawn" /\ s[1][2] = p
        BY <2>1
      <3> QED BY <1>2, <3>1 DEF Present
    <2>3. Among(s, <<"appear", p, j>>)
      BY <1>2, <2>1 DEF Among
    <2>4. j \in active
      BY <1>5, <2>3
    <2>5. shownItems' = [shownItems EXCEPT ![p] = @ \cup {j}]
      BY <1>8, <2>1, <2>2 DEF SendItemAppear, OnItemAppear
    <2>6. /\ shownItems'[p] = shownItems[p] \cup {j}
          /\ \A q \in PC : q # p => shownItems'[q] = shownItems[q]
      BY <1>0, <2>5
    <2>7. \A q, i : /\ s[1] # <<"list", q, i>> /\ s[1] # <<"vanish", q, i>> /\ s[1] # <<"got", q, i>>
                    /\ s[1] = <<"appear", q, i>> => q = p /\ i = j
      BY <2>1
    <2>8. ASSUME NEW q \in ingame \ strayed
          PROVE  /\ \A i \in active \ shownItems'[q] :
                       Among(r, <<"appear", q, i>>) \/ Among(r, <<"list", q, i>>)
                 /\ \A i \in shownItems'[q] \ active :
                       Among(r, <<"vanish", q, i>>) \/ \E a \in PC : Among(r, <<"got", a, i>>)
      <3>1. /\ \A i \in active \ shownItems[q] :
                  Among(s, <<"appear", q, i>>) \/ Among(s, <<"list", q, i>>)
            /\ \A i \in shownItems[q] \ active :
                  Among(s, <<"vanish", q, i>>) \/ \E a \in PC : Among(s, <<"got", a, i>>)
        BY DEF Pictured
      <3>2. ASSUME NEW i \in active \ shownItems'[q]
            PROVE  Among(r, <<"appear", q, i>>) \/ Among(r, <<"list", q, i>>)
        <4>1. i \in active \ shownItems[q] /\ ~(q = p /\ i = j)
          BY <1>0, <2>6
        <4>2. s[1] # <<"appear", q, i>> /\ s[1] # <<"list", q, i>>
          BY <2>7, <4>1
        <4> QED BY <1>3, <3>1, <4>1, <4>2
      <3>3. ASSUME NEW i \in shownItems'[q] \ active
            PROVE  Among(r, <<"vanish", q, i>>) \/ \E a \in PC : Among(r, <<"got", a, i>>)
        <4>1. i \in shownItems[q] \ active
          BY <1>0, <2>4, <2>6
        <4> QED BY <1>3, <2>7, <3>1, <4>1
      <3> QED BY <3>2, <3>3
    <2> QED BY <1>0, <1>5, <1>6, <2>8 DEF Pictured
  <1>9. CASE SendItemRemove(w)
    <2>1. PICK p \in PC, j \in Items : /\ s[1] = <<"vanish", p, j>>
                                       /\ p = Arg(w, 1) /\ j = Arg(w, 2)
      BY <1>9, HeadTypes DEF Typed, SendItemRemove
    <2>2. p \in ingame
      <3>1. s[1][1] # "spawn" /\ s[1][2] = p
        BY <2>1
      <3> QED BY <1>2, <3>1 DEF Present
    <2>3. Among(s, <<"vanish", p, j>>)
      BY <1>2, <2>1 DEF Among
    <2>4. j \notin active
      BY <1>5, <2>3
    <2>5. shownItems' = [shownItems EXCEPT ![p] = @ \ {j}]
      BY <1>9, <2>1, <2>2 DEF SendItemRemove, OnItemRemove
    <2>6. /\ shownItems'[p] = shownItems[p] \ {j}
          /\ \A q \in PC : q # p => shownItems'[q] = shownItems[q]
      BY <1>0, <2>5
    <2>7. \A q, i : /\ s[1] # <<"list", q, i>> /\ s[1] # <<"appear", q, i>> /\ s[1] # <<"got", q, i>>
                    /\ s[1] = <<"vanish", q, i>> => q = p /\ i = j
      BY <2>1
    <2>8. ASSUME NEW q \in ingame \ strayed
          PROVE  /\ \A i \in active \ shownItems'[q] :
                       Among(r, <<"appear", q, i>>) \/ Among(r, <<"list", q, i>>)
                 /\ \A i \in shownItems'[q] \ active :
                       Among(r, <<"vanish", q, i>>) \/ \E a \in PC : Among(r, <<"got", a, i>>)
      <3>1. /\ \A i \in active \ shownItems[q] :
                  Among(s, <<"appear", q, i>>) \/ Among(s, <<"list", q, i>>)
            /\ \A i \in shownItems[q] \ active :
                  Among(s, <<"vanish", q, i>>) \/ \E a \in PC : Among(s, <<"got", a, i>>)
        BY DEF Pictured
      <3>2. ASSUME NEW i \in active \ shownItems'[q]
            PROVE  Among(r, <<"appear", q, i>>) \/ Among(r, <<"list", q, i>>)
        <4>1. i \in active \ shownItems[q]
          BY <1>0, <2>4, <2>6
        <4> QED BY <1>3, <2>7, <3>1, <4>1
      <3>3. ASSUME NEW i \in shownItems'[q] \ active
            PROVE  Among(r, <<"vanish", q, i>>) \/ \E a \in PC : Among(r, <<"got", a, i>>)
        <4>1. i \in shownItems[q] \ active /\ ~(q = p /\ i = j)
          BY <1>0, <2>6
        <4>2. s[1] # <<"vanish", q, i>>
          BY <2>7, <4>1
        <4> QED BY <1>3, <2>7, <3>1, <4>1, <4>2
      <3> QED BY <3>2, <3>3
    <2> QED BY <1>0, <1>5, <1>6, <2>8 DEF Pictured
  <1> QED BY <1>7, <1>8, <1>9 DEF Sends

\* A worker that picks up items shows none, and the other way round.
LEMMA NoneLater ==
    ASSUME NEW s \in Seq(Ops), Script(s), s # <<>>, NEW p, NEW i
    PROVE  /\ s[1][1] \in Showing => ~Later(s, <<"vanish", p, i>>) /\ ~Later(s, <<"got", p, i>>)
           /\ s[1][1] \in Picking => ~Later(s, <<"appear", p, i>>)
           /\ ~Later(s, <<"got", p, i>>)
  <1>1. Len(s) \in Nat \ {0} /\ 1 \in 1 .. Len(s)
    OBVIOUS
  <1>2. s[1][1] \in Showing => \A j \in 2 .. Len(s) : s[j][1] \notin {"vanish", "got"}
    BY <1>1 DEF Script, Apart, Picking
  <1>3. s[1][1] \in Picking => \A j \in 2 .. Len(s) : s[j][1] # "appear"
    BY <1>1 DEF Script, Apart, Showing
  <1>4. \A j \in 2 .. Len(s) : s[j][1] # "got"
    BY <1>1 DEF Script, Soon, Fleeting
  <1> QED BY <1>2, <1>3, <1>4 DEF Later

LEMMA SpawnPictured ==
    ASSUME Typed, NEW w \in Workers, SpawnItem(w), Script(todo[w]), Pictured(todo[w])
    PROVE  Pictured(todo[w])'
  <1> DEFINE s == todo[w]
             r == todo'[w]
  <1>0. /\ UNCHANGED <<shownItems, ingame, strayed, place>> /\ Op(w, "spawn")
        /\ ingame \subseteq PC
    BY SpawnWay DEF Typed, Data, where, client
  <1>1. s \in Seq(Ops) /\ s # <<>> /\ s[1][1] = "spawn"
    BY <1>0, NextOp DEF Typed
  <1>2. CASE Then(w, <<>>) /\ active' = active
    <2>1. <<>> \in Seq(Ops)
      OBVIOUS
    <2>2. Turn(s, <<>>, r)
      BY <1>0, <1>2, <2>1, ThenTurn DEF Typed
    <2>3. s[1][1] \notin {"appear", "list", "vanish", "got"}
      BY <1>1
    <2>4. \A k \in 1 .. Len(<<>>) : <<>>[k][1] \notin {"appear", "vanish", "got"}
      OBVIOUS
    <2>5. \A q \in ingame' \ strayed' : q \in ingame \ strayed /\ place'[q] # "far"
      BY <1>0 DEF Pictured
    <2> QED BY <1>0, <1>2, <2>2, <2>3, <2>4, <2>5, SamePicture
  <1>3. CASE /\ g_next_item_id \in Items /\ active' = active \cup {g_next_item_id}
             /\ \E ops \in Seq(Ops) :
                   /\ Then(w, ops)
                   /\ \A k \in 1 .. Len(ops) :
                         \E p \in Near : ops[k] = <<"appear", p, g_next_item_id>>
                   /\ \A p \in Near : Among(ops, <<"appear", p, g_next_item_id>>)
    <2>1. PICK g \in Items : g = g_next_item_id
      BY <1>3
    <2>2. PICK ops \in Seq(Ops) :
              /\ Then(w, ops)
              /\ \A k \in 1 .. Len(ops) : \E p \in Near : ops[k] = <<"appear", p, g>>
              /\ \A p \in Near : Among(ops, <<"appear", p, g>>)
      BY <1>3, <2>1
    <2>3. active' = active \cup {g}
      BY <1>3, <2>1
    <2>4. Turn(s, ops, r)
      BY <1>0, <2>2, ThenTurn DEF Typed
    <2>5. ASSUME NEW x, s[1] # x, Among(s, x)
          PROVE  Among(r, x)
      <3> HIDE DEF s, r
      <3> QED BY <2>4, <2>5, Stays
    <2>6. \A q, i : /\ s[1] # <<"list", q, i>> /\ s[1] # <<"appear", q, i>>
                    /\ s[1] # <<"got", q, i>> /\ s[1] # <<"vanish", q, i>>
      BY <1>1
    <2>7. ASSUME NEW q \in ingame \ strayed
          PROVE  /\ place[q] # "far"
                 /\ \A i \in active' \ shownItems[q] :
                       Among(r, <<"appear", q, i>>) \/ Among(r, <<"list", q, i>>)
                 /\ \A i \in shownItems[q] \ active' :
                       Among(r, <<"vanish", q, i>>) \/ \E a \in PC : Among(r, <<"got", a, i>>)
      <3>1. /\ place[q] # "far"
            /\ \A i \in active \ shownItems[q] :
                  Among(s, <<"appear", q, i>>) \/ Among(s, <<"list", q, i>>)
            /\ \A i \in shownItems[q] \ active :
                  Among(s, <<"vanish", q, i>>) \/ \E a \in PC : Among(s, <<"got", a, i>>)
        BY DEF Pictured
      <3>2. Among(r, <<"appear", q, g>>)
        <4>1. q \in Near
          BY <3>1 DEF Near
        <4>2. Among(ops, <<"appear", q, g>>)
          BY <2>2, <4>1
        <4> HIDE DEF s, r
        <4> QED BY <2>4, <4>2, SeesMore
      <3>3. ASSUME NEW i \in active' \ shownItems[q]
            PROVE  Among(r, <<"appear", q, i>>) \/ Among(r, <<"list", q, i>>)
        <4>1. CASE i = g
          BY <3>2, <4>1
        <4>2. CASE i # g
          BY <2>3, <2>5, <2>6, <3>1, <4>2
        <4> QED BY <4>1, <4>2
      <3>4. ASSUME NEW i \in shownItems[q] \ active'
            PROVE  Among(r, <<"vanish", q, i>>) \/ \E a \in PC : Among(r, <<"got", a, i>>)
        BY <2>3, <2>5, <2>6, <3>1
      <3> QED BY <3>1, <3>3, <3>4
    <2>8. ASSUME NEW p \in PC, NEW i \in Items, Among(r, <<"appear", p, i>>)
          PROVE  i \in active'
      <3>1. Among(ops, <<"appear", p, i>>) \/ Later(s, <<"appear", p, i>>)
        <4> HIDE DEF s
        <4> QED BY <2>4, <2>8, Pending
      <3>2. CASE Among(ops, <<"appear", p, i>>)
        BY <2>2, <2>3, <3>2 DEF Among
      <3>3. CASE Later(s, <<"appear", p, i>>)
        <4>1. Among(s, <<"appear", p, i>>)
          <5> HIDE DEF s
          <5> QED BY <2>4, <3>3, Pending
        <4> QED BY <2>3, <4>1 DEF Pictured
      <3> QED BY <3>1, <3>2, <3>3
    <2>9. ASSUME NEW p \in PC, NEW i \in Items
          PROVE  ~Among(r, <<"vanish", p, i>>) /\ ~Among(r, <<"got", p, i>>)
      <3>1. s[1][1] \in Showing /\ Script(s)
        BY <1>1 DEF Showing
      <3>2. ~Later(s, <<"vanish", p, i>>) /\ ~Later(s, <<"got", p, i>>)
        <4> HIDE DEF s
        <4> QED BY <1>1, <3>1, NoneLater
      <3>3. ~Among(ops, <<"vanish", p, i>>) /\ ~Among(ops, <<"got", p, i>>)
        BY <2>2 DEF Among
      <3> HIDE DEF s
      <3> QED BY <2>4, <3>2, <3>3, Pending
    <2> QED BY <1>0, <2>7, <2>8, <2>9 DEF Pictured
  <1> QED BY <1>2, <1>3, SpawnWay

LEMMA PickPictured ==
    ASSUME Typed, NEW w \in Workers, PickUpItem(w), Script(todo[w]), Pictured(todo[w])
    PROVE  Pictured(todo[w])'
  <1> DEFINE s == todo[w]
             r == todo'[w]
  <1>0. /\ UNCHANGED <<shownItems, ingame, strayed, place>> /\ Op(w, "pick")
        /\ ingame \subseteq PC
    BY PickWay DEF Typed, Data, where, client
  <1>1. s \in Seq(Ops) /\ s # <<>> /\ s[1][1] = "pick"
    BY <1>0, NextOp DEF Typed
  <1>2. PICK p \in PC, j \in Items : \E ops \in Seq(Ops) :
            /\ Then(w, ops)
            /\ \/ active' = active \ {j} /\ ops = <<<<"got", p, j>>>>
               \/ ops = <<>> /\ active' = active
    BY PickWay
  <1>3. PICK ops \in Seq(Ops) :
            /\ Then(w, ops)
            /\ \/ active' = active \ {j} /\ ops = <<<<"got", p, j>>>>
               \/ ops = <<>> /\ active' = active
    BY <1>2
  <1>4. Turn(s, ops, r)
    BY <1>0, <1>3, ThenTurn DEF Typed
  <1>5. CASE ops = <<>> /\ active' = active
    <2>1. s[1][1] \notin {"appear", "list", "vanish", "got"}
      BY <1>1
    <2>2. \A k \in 1 .. Len(ops) : ops[k][1] \notin {"appear", "vanish", "got"}
      BY <1>5
    <2>3. \A q \in ingame' \ strayed' : q \in ingame \ strayed /\ place'[q] # "far"
      BY <1>0 DEF Pictured
    <2> QED BY <1>0, <1>4, <1>5, <2>1, <2>2, <2>3, SamePicture
  <1>6. CASE active' = active \ {j} /\ ops = <<<<"got", p, j>>>>
    <2>1. ASSUME NEW x, s[1] # x, Among(s, x)
          PROVE  Among(r, x)
      <3> HIDE DEF s, r
      <3> QED BY <1>4, <2>1, Stays
    <2>2. \A q, i : /\ s[1] # <<"list", q, i>> /\ s[1] # <<"appear", q, i>>
                    /\ s[1] # <<"got", q, i>> /\ s[1] # <<"vanish", q, i>>
      BY <1>1
    <2>3. Among(r, <<"got", p, j>>)
      <3>1. Among(ops, <<"got", p, j>>)
        BY <1>6 DEF Among
      <3> HIDE DEF s, r
      <3> QED BY <1>4, <3>1, SeesMore
    <2>4. ASSUME NEW q \in ingame \ strayed
          PROVE  /\ place[q] # "far"
                 /\ \A i \in active' \ shownItems[q] :
                       Among(r, <<"appear", q, i>>) \/ Among(r, <<"list", q, i>>)
                 /\ \A i \in shownItems[q] \ active' :
                       Among(r, <<"vanish", q, i>>) \/ \E a \in PC : Among(r, <<"got", a, i>>)
      <3>1. /\ place[q] # "far"
            /\ \A i \in active \ shownItems[q] :
                  Among(s, <<"appear", q, i>>) \/ Among(s, <<"list", q, i>>)
            /\ \A i \in shownItems[q] \ active :
                  Among(s, <<"vanish", q, i>>) \/ \E a \in PC : Among(s, <<"got", a, i>>)
        BY DEF Pictured
      <3>2. ASSUME NEW i \in active' \ shownItems[q]
            PROVE  Among(r, <<"appear", q, i>>) \/ Among(r, <<"list", q, i>>)
        BY <1>6, <2>1, <2>2, <3>1
      <3>3. ASSUME NEW i \in shownItems[q] \ active'
            PROVE  Among(r, <<"vanish", q, i>>) \/ \E a \in PC : Among(r, <<"got", a, i>>)
        <4>1. CASE i = j
          BY <2>3, <4>1
        <4>2. CASE i # j
          BY <1>6, <2>1, <2>2, <3>1, <4>2
        <4> QED BY <4>1, <4>2
      <3> QED BY <3>1, <3>2, <3>3
    <2>5. ASSUME NEW q \in PC, NEW i \in Items
          PROVE  ~Among(r, <<"appear", q, i>>)
      <3>1. s[1][1] \in Picking /\ Script(s)
        BY <1>1 DEF Picking
      <3>2. ~Later(s, <<"appear", q, i>>)
        <4> HIDE DEF s
        <4> QED BY <1>1, <3>1, NoneLater
      <3>3. ~Among(ops, <<"appear", q, i>>)
        BY <1>6 DEF Among
      <3> HIDE DEF s
      <3> QED BY <1>4, <3>2, <3>3, Pending
    <2>6. ASSUME NEW q \in PC, NEW i \in Items,
                 Among(r, <<"vanish", q, i>>) \/ Among(r, <<"got", q, i>>)
          PROVE  i \notin active'
      <3>1. \A name \in {"vanish", "got"} : Among(ops, <<name, q, i>>) => i = j
        BY <1>6 DEF Among
      <3>2. \A name \in {"vanish", "got"} : Among(r, <<name, q, i>>) /\ i # j =>
                Among(s, <<name, q, i>>)
        <4> HIDE DEF s, r
        <4> QED BY <1>4, <3>1, Pending
      <3>3. CASE i = j
        BY <1>6, <3>3
      <3>4. CASE i # j
        <4>1. Among(s, <<"vanish", q, i>>) \/ Among(s, <<"got", q, i>>)
          BY <2>6, <3>2, <3>4
        <4>2. i \notin active
          BY <4>1 DEF Pictured
        <4> QED BY <1>6, <4>2
      <3> QED BY <3>3, <3>4
    <2> QED BY <1>0, <2>4, <2>5, <2>6 DEF Pictured
  <1> QED BY <1>3, <1>5, <1>6

LEMMA GotPictured ==
    ASSUME Typed, NEW w \in Workers, Got(w), Pictured(todo[w])
    PROVE  Pictured(todo[w])'
  <1> DEFINE s == todo[w]
             r == todo'[w]
  <1>0. /\ UNCHANGED <<active, shownItems, ingame, strayed, place>> /\ Op(w, "got")
        /\ ingame \subseteq PC
    BY GotWay DEF Typed, Data, where, client, world
  <1>1. s \in Seq(Ops) /\ s # <<>> /\ Len(s) \in Nat \ {0}
    BY <1>0, NextOp DEF Typed
  <1>2. PICK p \in PC, j \in Items : \E ops \in Seq(Ops) :
            /\ s[1] = <<"got", p, j>>
            /\ me' = [me EXCEPT ![p].inv["potion"] = @ + 1]
            /\ Then(w, ops)
            /\ \A k \in 1 .. Len(ops) : \/ \E q \in Near : ops[k] = <<"vanish", q, j>>
                                        \/ ops[k] = ItemAdd(p, "potion")
            /\ \A q \in Near : Among(ops, <<"vanish", q, j>>)
            /\ Among(ops, ItemAdd(p, "potion"))
    BY GotWay, Zenon
  <1>3. PICK ops \in Seq(Ops) :
            /\ s[1] = <<"got", p, j>>
            /\ Then(w, ops)
            /\ \A k \in 1 .. Len(ops) : \/ \E q \in Near : ops[k] = <<"vanish", q, j>>
                                        \/ ops[k] = ItemAdd(p, "potion")
            /\ \A q \in Near : Among(ops, <<"vanish", q, j>>)
    BY <1>2, Zenon
  <1>4. Turn(s, ops, r)
    BY <1>0, <1>3, ThenTurn DEF Typed
  <1>5. s[1] = <<"got", p, j>>
    BY <1>3
  <1>6. j \notin active
    <2>1. Among(s, <<"got", p, j>>)
      BY <1>1, <1>5 DEF Among
    <2> QED BY <2>1 DEF Pictured
  <1>7. ASSUME NEW x, s[1] # x, Among(s, x)
        PROVE  Among(r, x)
    <2> HIDE DEF s, r
    <2> QED BY <1>4, <1>7, Stays
  <1>8. \A q, i : /\ s[1] # <<"list", q, i>> /\ s[1] # <<"appear", q, i>>
                  /\ s[1] # <<"vanish", q, i>> /\ (i # j => s[1] # <<"got", q, i>>)
    BY <1>5
  <1>9. ASSUME NEW q \in ingame \ strayed
        PROVE  /\ place[q] # "far"
               /\ \A i \in active \ shownItems[q] :
                     Among(r, <<"appear", q, i>>) \/ Among(r, <<"list", q, i>>)
               /\ \A i \in shownItems[q] \ active :
                     Among(r, <<"vanish", q, i>>) \/ \E a \in PC : Among(r, <<"got", a, i>>)
    <2>1. /\ place[q] # "far"
          /\ \A i \in active \ shownItems[q] :
                Among(s, <<"appear", q, i>>) \/ Among(s, <<"list", q, i>>)
          /\ \A i \in shownItems[q] \ active :
                Among(s, <<"vanish", q, i>>) \/ \E a \in PC : Among(s, <<"got", a, i>>)
      BY DEF Pictured
    <2>2. Among(r, <<"vanish", q, j>>)
      <3>1. q \in Near
        BY <2>1 DEF Near
      <3>2. Among(ops, <<"vanish", q, j>>)
        BY <1>3, <3>1
      <3> HIDE DEF s, r
      <3> QED BY <1>4, <3>2, SeesMore
    <2>3. ASSUME NEW i \in active \ shownItems[q]
          PROVE  Among(r, <<"appear", q, i>>) \/ Among(r, <<"list", q, i>>)
      BY <1>7, <1>8, <2>1
    <2>4. ASSUME NEW i \in shownItems[q] \ active
          PROVE  Among(r, <<"vanish", q, i>>) \/ \E a \in PC : Among(r, <<"got", a, i>>)
      <3>1. CASE i = j
        BY <2>2, <3>1
      <3>2. CASE i # j
        BY <1>7, <1>8, <2>1, <3>2
      <3> QED BY <3>1, <3>2
    <2> QED BY <2>1, <2>3, <2>4
  <1>10. ASSUME NEW q \in PC, NEW i \in Items
         PROVE  /\ Among(r, <<"appear", q, i>>) => i \in active
                /\ Among(r, <<"vanish", q, i>>) \/ Among(r, <<"got", q, i>>) => i \notin active
    <2>1. \A name \in {"appear", "vanish", "got"} :
              Among(ops, <<name, q, i>>) => name = "vanish" /\ i = j
      BY <1>3 DEF Among, ItemAdd
    <2>2. \A name \in {"appear", "vanish", "got"} :
              Among(r, <<name, q, i>>) => Among(s, <<name, q, i>>) \/ (name = "vanish" /\ i = j)
      <3> HIDE DEF s, r
      <3> QED BY <1>4, <2>1, Pending
    <2>3. /\ Among(s, <<"appear", q, i>>) => i \in active
          /\ Among(s, <<"vanish", q, i>>) \/ Among(s, <<"got", q, i>>) => i \notin active
      BY DEF Pictured
    <2> QED BY <1>6, <2>2, <2>3
  <1> QED BY <1>0, <1>9, <1>10 DEF Pictured

LEMMA ListPictured ==
    ASSUME Typed, NEW w \in Workers, ListItem(w), Pictured(todo[w])
    PROVE  Pictured(todo[w])'
  <1> DEFINE s == todo[w]
             r == todo'[w]
  <1>0. /\ UNCHANGED <<active, shownItems, ingame, strayed, place>> /\ Op(w, "list")
        /\ ingame \subseteq PC
    BY DEF Typed, Data, ListItem, where, client, world
  <1>1. PICK p \in PC, j \in Items : \E ops \in Seq(Ops) :
            /\ s[1] = <<"list", p, j>> /\ Then(w, ops)
            /\ \/ j \in active /\ ops = <<<<"appear", p, j>>>>
               \/ j \notin active /\ ops = <<>>
    BY ListWay
  <1>2. PICK ops \in Seq(Ops) :
            /\ s[1] = <<"list", p, j>> /\ Then(w, ops)
            /\ \/ j \in active /\ ops = <<<<"appear", p, j>>>>
               \/ j \notin active /\ ops = <<>>
    BY <1>1
  <1>3. Turn(s, ops, r)
    BY <1>0, <1>2, ThenTurn DEF Typed
  <1>4. ASSUME NEW x, s[1] # x, Among(s, x)
        PROVE  Among(r, x)
    <2> HIDE DEF s, r
    <2> QED BY <1>3, <1>4, Stays
  <1>5. \A q, i : /\ s[1] # <<"got", q, i>> /\ s[1] # <<"appear", q, i>>
                  /\ s[1] # <<"vanish", q, i>>
                  /\ s[1] = <<"list", q, i>> => q = p /\ i = j
    BY <1>2
  <1>6. \A name, q, i : Among(ops, <<name, q, i>>) => name = "appear" /\ i = j /\ j \in active
    BY <1>2 DEF Among
  <1>7. j \in active => Among(r, <<"appear", p, j>>)
    <2>1. j \in active => Among(ops, <<"appear", p, j>>)
      BY <1>2 DEF Among
    <2> HIDE DEF s, r
    <2> QED BY <1>3, <2>1, SeesMore
  <1>8. ASSUME NEW q \in ingame \ strayed
        PROVE  /\ place[q] # "far"
               /\ \A i \in active \ shownItems[q] :
                     Among(r, <<"appear", q, i>>) \/ Among(r, <<"list", q, i>>)
               /\ \A i \in shownItems[q] \ active :
                     Among(r, <<"vanish", q, i>>) \/ \E a \in PC : Among(r, <<"got", a, i>>)
    <2>1. /\ place[q] # "far"
          /\ \A i \in active \ shownItems[q] :
                Among(s, <<"appear", q, i>>) \/ Among(s, <<"list", q, i>>)
          /\ \A i \in shownItems[q] \ active :
                Among(s, <<"vanish", q, i>>) \/ \E a \in PC : Among(s, <<"got", a, i>>)
      BY DEF Pictured
    <2>2. ASSUME NEW i \in active \ shownItems[q]
          PROVE  Among(r, <<"appear", q, i>>) \/ Among(r, <<"list", q, i>>)
      <3>1. CASE q = p /\ i = j
        BY <1>7, <3>1
      <3>2. CASE ~(q = p /\ i = j)
        <4>1. s[1] # <<"list", q, i>> /\ s[1] # <<"appear", q, i>>
          BY <1>5, <3>2
        <4> QED BY <1>4, <2>1, <4>1
      <3> QED BY <3>1, <3>2
    <2>3. ASSUME NEW i \in shownItems[q] \ active
          PROVE  Among(r, <<"vanish", q, i>>) \/ \E a \in PC : Among(r, <<"got", a, i>>)
      BY <1>4, <1>5, <2>1
    <2> QED BY <2>1, <2>2, <2>3
  <1>9. ASSUME NEW q \in PC, NEW i \in Items
        PROVE  /\ Among(r, <<"appear", q, i>>) => i \in active
               /\ Among(r, <<"vanish", q, i>>) \/ Among(r, <<"got", q, i>>) => i \notin active
    <2>1. \A name : Among(r, <<name, q, i>>) =>
              Among(s, <<name, q, i>>) \/ (name = "appear" /\ i = j /\ j \in active)
      <3> HIDE DEF s, r
      <3> QED BY <1>3, <1>6, Pending
    <2>2. /\ Among(s, <<"appear", q, i>>) => i \in active
          /\ Among(s, <<"vanish", q, i>>) \/ Among(s, <<"got", q, i>>) => i \notin active
      BY DEF Pictured
    <2> QED BY <2>1, <2>2
  <1> QED BY <1>0, <1>8, <1>9 DEF Pictured

\* The operations that are not about items of the world.
LEMMA WorksPictured ==
    ASSUME Typed, NEW w \in Workers, Works(w), Script(todo[w]), Present(todo[w], ingame),
           Pictured(todo[w])
    PROVE  Pictured(todo[w])'
  <1>1. CASE SpawnItem(w) \/ PickUpItem(w) \/ Got(w) \/ ListItem(w)
    BY <1>1, SpawnPictured, PickPictured, GotPictured, ListPictured
  <1>2. CASE ReadXp(w) \/ WriteXp(w) \/ ProcessQuestKill(w) \/ Gift(w) \/ Halve(w)
    <2>1. UNCHANGED <<active, shownItems>>
      BY <1>2 DEF ReadXp, WriteXp, ProcessQuestKill, Gift, Halve, world, client
    <2>2. Op(w, "read") \/ Op(w, "write") \/ Op(w, "quest") \/ Op(w, "gift") \/ Op(w, "halve")
      BY <1>2 DEF ReadXp, WriteXp, ProcessQuestKill, Gift, Halve
    <2>3. todo[w][1][1] \in {"read", "write", "quest", "gift", "halve"}
      BY <2>2, NextOp DEF Typed
    <2>4. PICK ops : Turn(todo[w], ops, todo'[w]) /\ Fits(todo[w], ops)
      BY WorksFit, StepTurn DEF Typed
    <2>5. todo[w][1][1] \notin {"appear", "list", "vanish", "got", "spawn", "pick"}
      BY <2>3
    <2>6. \A k \in 1 .. Len(ops) : ops[k][1] \notin {"appear", "vanish", "got"}
      BY <2>4, <2>5 DEF Fits, Follows
    <2>7. \A q \in ingame' \ strayed' : q \in ingame \ strayed /\ place'[q] # "far"
      <3>1. CASE Halve(w)
        <4>1. PICK p \in PC : /\ ingame' = ingame
                              /\ place' = [place EXCEPT ![p] = "far"]
                              /\ strayed' = strayed \cup {p}
          BY <3>1, HalveWay
        <4> QED BY <4>1 DEF Pictured, Typed, Data
      <3>2. CASE ~Halve(w)
        <4>1. UNCHANGED <<ingame, strayed, place>>
          BY <1>2, <3>2 DEF ReadXp, WriteXp, ProcessQuestKill, Gift, where
        <4> QED BY <4>1 DEF Pictured
      <3> QED BY <3>1, <3>2
    <2> QED BY <2>1, <2>4, <2>5, <2>6, <2>7, SamePicture
  <1> QED BY <1>1, <1>2 DEF Works

LEMMA StartsPictured ==
    ASSUME Typed, NEW w \in Workers, NEW p \in PC, Starts(w, p), Pictured(todo[w])
    PROVE  Pictured(todo[w])'
  <1> DEFINE r == todo'[w]
  <1>0. /\ shownItems \in [PC -> SUBSET Items] /\ ingame \subseteq PC /\ todo[w] = <<>>
        /\ place \in [PC -> {"on", "near", "far"}] /\ active \subseteq Items
        /\ UNCHANGED active
    <2>1. UNCHANGED active
      BY DEF Starts, Kill, Move, Wound, Die, Disconnect, Login, UseItem, world
    <2> QED BY <2>1, StartsFit DEF Typed, Data
  <1>1. PICK ops : Turn(todo[w], ops, r) /\ Fits(todo[w], ops)
    BY StartsFit, StepTurn DEF Typed
  <1>2. \A k \in 1 .. Len(ops) : ops[k][1] \notin {"appear", "vanish", "got"}
    BY <1>0, <1>1 DEF Fits, Follows
  <1>3. \A q \in ingame \ strayed : place[q] # "far"
    BY DEF Pictured
  <1>4. CASE ~Login(w, p)
    <2>1. shownItems' = shownItems
      BY <1>4 DEF Starts, Kill, Move, Wound, Die, Disconnect, UseItem, client
    <2>2. \A q \in ingame' \ strayed' : q \in ingame \ strayed /\ place'[q] # "far"
      <3>1. CASE Move(w, p)
        <4>1. PICK t : /\ ingame' = ingame /\ place' = [place EXCEPT ![p] = t]
                       /\ strayed' = IF t = "far" THEN strayed \cup {p} ELSE strayed
          BY <3>1, MoveWay
        <4> QED BY <1>0, <1>3, <4>1
      <3>2. CASE ~Move(w, p)
        <4>1. ingame' \subseteq ingame /\ UNCHANGED <<strayed, place>>
          BY <1>4, <3>2 DEF Starts, Kill, Wound, Die, Disconnect, UseItem, where
        <4> QED BY <1>3, <4>1
      <3> QED BY <3>1, <3>2
    <2> QED BY <1>0, <1>1, <1>2, <2>1, <2>2, SamePicture
  <1>5. CASE Login(w, p)
    <2>1. PICK t : /\ place' = [place EXCEPT ![p] = t]
                   /\ strayed' = IF t = "far" THEN strayed \cup {p} ELSE strayed \ {p}
      BY <1>5 DEF Login
    <2>2. ingame' = ingame \cup {p} /\ shownItems' = [shownItems EXCEPT ![p] = {}]
      BY <1>5 DEF Login
    <2>3. \A i \in active : Among(r, <<"list", p, i>>)
      <3>1. PICK o \in Seq(Ops) : /\ Take(w, "recv", p, o)
                                  /\ \A i \in active : Among(o, <<"list", p, i>>)
        BY <1>5, LoginWay
      <3>2. r = o
        BY <3>1, TakeTurn DEF Typed, Kinds
      <3> QED BY <3>1, <3>2
    <2>4. \A q \in ingame' \ strayed' : place'[q] # "far" /\ (q # p => q \in ingame \ strayed)
      BY <1>0, <1>3, <2>1, <2>2
    <2>5. \A x : ~Among(<<>>, x)
      BY DEF Among
    <2>6. ASSUME NEW q \in ingame \ strayed
          PROVE  shownItems[q] = active
      <3>1. Pictured(<<>>)
        BY <1>0
      <3>2. \A i : i \notin active \ shownItems[q]
        BY <2>5, <3>1 DEF Pictured
      <3>3. \A i : i \notin shownItems[q] \ active
        BY <2>5, <3>1 DEF Pictured
      <3> QED BY <1>0, <3>2, <3>3
    <2>7. \A q \in ingame' \ strayed' :
              shownItems'[q] = IF q = p THEN {} ELSE active
      BY <1>0, <2>2, <2>4, <2>6
    <2>8. \A name \in {"appear", "vanish", "got"} : \A q, i : ~Among(r, <<name, q, i>>)
      <3>1. \A name \in {"appear", "vanish", "got"} : \A q, i : ~Among(ops, <<name, q, i>>)
        BY <1>2 DEF Among
      <3>2. \A x : Among(r, x) <=> Among(ops, x) \/ Later(<<>>, x)
        <4> HIDE DEF r
        <4> QED BY <1>0, <1>1, Pending
      <3>3. \A x : ~Later(<<>>, x)
        BY DEF Later
      <3> QED BY <3>1, <3>2, <3>3
    <2>9. \A q \in ingame' \ strayed' : \A i \in active \ shownItems'[q] : q = p
      BY <2>7
    <2>10. \A q \in ingame' \ strayed' : \A i : i \notin shownItems'[q] \ active
      BY <2>7
    <2> QED BY <1>0, <2>3, <2>4, <2>8, <2>9, <2>10 DEF Pictured
  <1> QED BY <1>4, <1>5

LEMMA NextClear ==
    ASSUME Typed, Scripted, Clear, Next
    PROVE  Clear'
  <1> SUFFICES ASSUME NEW w \in Workers, pool' = {w}
               PROVE  Informed(todo[w])' /\ Pictured(todo[w])'
    BY DEF Clear
  <1>1. pool = {w} /\ (Sends(w) \/ Works(w) \/ \E p \in PC : Starts(w, p))
    BY AloneBefore
  <1>2. Script(todo[w]) /\ Present(todo[w], ingame) /\ Informed(todo[w]) /\ Pictured(todo[w])
    BY <1>1 DEF Scripted, Clear
  <1>3. CASE Sends(w)
    BY <1>2, <1>3, SendsInformed, SendsPictured
  <1>4. CASE Works(w)
    BY <1>2, <1>4, WorksInformed, WorksPictured
  <1>5. ASSUME NEW p \in PC, Starts(w, p)
        PROVE  Informed(todo[w])' /\ Pictured(todo[w])'
    BY <1>2, <1>5, StartsInformed, StartsPictured
  <1> QED BY <1>1, <1>3, <1>4, <1>5

LEMMA InitClear ==
    ASSUME Init
    PROVE  Clear
  <1>1. \A w \in Workers : todo[w] = <<>>
    BY DEF Init, Waiting
  <1>2. \A p \in PC : shown[p] = me[p] /\ shownItems[p] = {} /\ place[p] = "near"
    BY DEF Init
  <1>3. ingame = PC /\ active = {}
    BY DEF Init
  <1>4. \A x : ~Among(<<>>, x)
    BY DEF Among
  <1>5. Informed(<<>>)
    BY <1>2, <1>3 DEF Informed, Sees
  <1>6. Pictured(<<>>)
    BY <1>2, <1>3, <1>4 DEF Pictured
  <1> QED BY <1>1, <1>5, <1>6 DEF Clear

LEMMA SameSheets ==
    ASSUME NEW a \in Sheets, NEW b \in Sheets,
           a.level = b.level, a.xp = b.xp, a.kills = b.kills,
           \A t \in Slots : a.inv[t] = b.inv[t]
    PROVE  a = b
  <1>1. a.inv \in [Slots -> Nat] /\ b.inv \in [Slots -> Nat]
    BY DEF Sheets
  <1>2. a.inv = b.inv
    BY <1>1
  <1> QED BY <1>2 DEF Sheets

\* With one worker, whenever the server has nothing left to do, the client of a
\* player shows the level, experience, inventory and quest of its session and,
\* unless the player has been too far away to be told, exactly the items that
\* lie in the world: the packets each handler sends after it has changed
\* something, and send_all_world_items.
THEOREM ClientsKnow == Spec => []ClientKnows
  <1>1. Init => Typed /\ Scripted /\ Clear
    BY InitTyped, InitScripted, InitClear
  <1>2. Typed /\ Scripted /\ Clear /\ [Next]_vars => (Typed /\ Scripted /\ Clear)'
    <2>1. Scripted /\ UNCHANGED vars => Scripted'
      BY DEF Scripted, vars, handlers
    <2>2. Clear /\ UNCHANGED vars => Clear'
      BY DEF Clear, Informed, Pictured, vars, handlers
    <2> QED BY <2>1, <2>2, SameTyped, NextTyped, NextScripted, NextClear
  <1>3. Typed /\ Clear => ClientKnows
    <2> SUFFICES ASSUME Typed, Clear, Settled, NEW p \in ingame
                 PROVE  shown[p] = me[p] /\ (p \notin strayed => shownItems[p] = active)
      BY DEF ClientKnows
    <2>1. PICK w \in Workers : pool = {w} /\ todo[w] = <<>>
      BY SettledMeans
    <2>2. Informed(<<>>) /\ Pictured(<<>>)
      BY <2>1 DEF Clear
    <2>3. shown[p] \in Sheets /\ me[p] \in Sheets
      BY DEF Typed, Data
    <2>4. Sees(shown[p], me[p], <<>>, p)
      BY <2>2 DEF Informed
    <2>5. shown[p] = me[p]
      BY <2>3, <2>4, SeesAll, SameSheets
    <2>6. ASSUME p \notin strayed
          PROVE  shownItems[p] = active
      <3>1. \A x : ~Among(<<>>, x)
        BY DEF Among
      <3>2. \A i : i \notin active \ shownItems[p]
        BY <2>2, <2>6, <3>1 DEF Pictured
      <3>3. \A i : i \notin shownItems[p] \ active
        BY <2>2, <2>6, <3>1 DEF Pictured
      <3>4. shownItems[p] \subseteq Items /\ active \subseteq Items
        BY DEF Typed, Data
      <3> QED BY <3>2, <3>3, <3>4
    <2> QED BY <2>5, <2>6
  <1> QED BY <1>1, <1>2, <1>3, PTL DEF Spec
-----------------------------------------------------------------------------
(***************************************************************************)
(* Items, with one worker.  Between the compare_exchange that takes an     *)
(* item from the world and the increment of an inventory the item is in    *)
(* neither: the invariant counts the one that is on its way.               *)
(***************************************************************************)
Owing(s) == \E k \in 1 .. Len(s) : s[k][1] = "got"
Owed(s) == IF Owing(s) THEN 1 ELSE 0

Holding(t) == [p \in PC |-> Held(p).inv[t]]
Rewards == [p \in PC |-> past[p].rewards]

Kept(s) ==
    /\ g_next_item_id
         = Cardinality(active) + SumFunction(Holding("potion")) + used["potion"] + Owed(s)
    /\ SumFunction(Rewards) = SumFunction(Holding("boost")) + used["boost"]

Saved == \A w \in Workers : pool = {w} => Kept(todo[w])

\* Only a pick-up leaves an item on its way, until the next step.
LEMMA OwedNext ==
    ASSUME NEW s, NEW ops, NEW r, Turn(s, ops, r), Script(s),
           s = <<>> \/ s[1][1] # "got", \A k \in 1 .. Len(ops) : ops[k][1] # "got"
    PROVE  Owed(s) = 0 /\ Owed(r) = 0
  <1>1. s \in Seq(Ops)
    BY DEF Turn
  <1>2. \A k \in 1 .. Len(s) : s[k][1] # "got"
    BY <1>1 DEF Script, Soon, Fleeting
  <1>3. \A k \in 1 .. Len(r) : r[k][1] # "got"
    BY <1>2, Origin, SMTT(60)
  <1> QED BY <1>2, <1>3 DEF Owed, Owing

LEMMA OwedOnce ==
    ASSUME NEW s, NEW ops, NEW r, Turn(s, ops, r), Script(s), s # <<>>, s[1][1] = "got",
           \A k \in 1 .. Len(ops) : ops[k][1] # "got"
    PROVE  Owed(s) = 1 /\ Owed(r) = 0
  <1>1. s \in Seq(Ops) /\ Len(s) \in Nat \ {0} /\ 1 \in 1 .. Len(s)
    BY DEF Turn
  <1>2. Owing(s)
    BY <1>1 DEF Owing
  <1>3. ASSUME NEW k \in 1 .. Len(r)
        PROVE  r[k][1] # "got"
    <2>1. CASE k \in 1 .. Len(ops) /\ r[k] = ops[k]
      BY <2>1
    <2>2. CASE \E j \in 1 .. Len(s) : j > 1 /\ r[k] = s[j]
      BY <1>1, <2>2 DEF Script, Soon, Fleeting
    <2> QED BY <2>1, <2>2, Origin
  <1> QED BY <1>2, <1>3 DEF Owed, Owing

\* The types of what is added up.
LEMMA Amounts ==
    ASSUME Typed
    PROVE  /\ \A t \in Slots : /\ Holding(t) \in [PC -> Int]
                               /\ SumFunction(Holding(t)) \in Int
           /\ Rewards \in [PC -> Int] /\ SumFunction(Rewards) \in Int
           /\ used \in [Slots -> Nat] /\ used["potion"] \in Nat /\ used["boost"] \in Nat
           /\ IsFiniteSet(active) /\ Cardinality(active) \in Nat /\ g_next_item_id \in Nat
           /\ IsFiniteSet(PC)
  <1>1. \A p \in PC : Held(p) \in Sheets
    BY HeldTyped DEF Typed
  <1>2. \A t \in Slots : Holding(t) \in [PC -> Int]
    BY <1>1, SheetParts DEF Holding
  <1>3. Rewards \in [PC -> Int]
    BY DEF Typed, Data, Rewards, Pasts
  <1>4. IsFiniteSet(PC) /\ IsFiniteSet(active)
    BY Finite DEF Typed, Data
  <1>5. /\ used \in [Slots -> Nat] /\ used["potion"] \in Nat /\ used["boost"] \in Nat
        /\ g_next_item_id \in Nat
    BY DEF Typed, Data, Slots
  <1> QED BY <1>2, <1>3, <1>4, <1>5, SumInt, FS_CardinalityType

\* The steps that leave every inventory and every reward alone.
LEMMA OthersKeep ==
    ASSUME Typed, NEW w \in Workers,
           Sends(w) \/ Works(w) \/ (\E p \in PC : Starts(w, p)),
           ~Got(w), ~Gift(w), \A p \in PC, t \in Slots : ~UseItem(w, p, t)
    PROVE  /\ \A t : Holding(t)' = Holding(t)
           /\ Rewards' = Rewards /\ used' = used
  <1>0. me \in [PC -> Sheets] /\ past \in [PC -> Pasts]
    BY DEF Typed, Data
  <1>1. ASSUME WriteXp(w) \/ Halve(w) \/ ProcessQuestKill(w), NEW q \in PC
        PROVE  /\ Held(q)'.inv = Held(q).inv
               /\ past'[q].rewards = past[q].rewards /\ used' = used
    <2>1. CASE WriteXp(w)
      <3>1. PICK p \in PC, g \in Nat, l \in Nat \ {0}, y \in Nat :
                /\ me' = [me EXCEPT ![p].level = l, ![p].xp = y]
                /\ past' = [past EXCEPT ![p].earned = @ + g]
        BY <2>1, WriteParts
      <3>2. UNCHANGED <<ingame, row, used>>
        BY <2>1 DEF WriteXp, where
      <3>3. me'[q].inv = me[q].inv
        BY <1>0, <3>1 DEF Sheets
      <3>4. past'[q].rewards = past[q].rewards
        BY <1>0, <3>1 DEF Pasts
      <3> QED BY <3>2, <3>3, <3>4 DEF Held
    <2>2. CASE Halve(w)
      <3>1. UNCHANGED <<ingame, row, used>>
        BY <2>2 DEF Halve
      <3>2. PICK p \in PC, x \in Nat :
                /\ me' = [me EXCEPT ![p].xp = x \div 2]
                /\ past' = [past EXCEPT ![p].deaths = @ + 1, ![p].lost = @ + x - x \div 2]
        BY <2>2, HalveWay
      <3>3. me'[q].inv = me[q].inv
        BY <1>0, <3>2 DEF Sheets
      <3>4. past'[q].rewards = past[q].rewards
        BY <1>0, <3>2 DEF Pasts
      <3> QED BY <3>1, <3>3, <3>4 DEF Held
    <2>3. CASE ProcessQuestKill(w)
      <3>1. UNCHANGED <<ingame, row, used>>
        BY <2>3 DEF ProcessQuestKill, where
      <3>2. PICK p \in PC : \E k : /\ past' = [past EXCEPT ![p].kills = @ + 1]
                                    /\ me' = [me EXCEPT ![p].kills = k]
        BY <2>3, QuestWay
      <3>3. me'[q].inv = me[q].inv
        BY <1>0, <3>2 DEF Sheets
      <3>4. past'[q].rewards = past[q].rewards
        BY <1>0, <3>2 DEF Pasts
      <3> QED BY <3>1, <3>3, <3>4 DEF Held
    <2> QED BY <1>1, <2>1, <2>2, <2>3
  <1>2. ASSUME \/ Sends(w) \/ SpawnItem(w) \/ ReadXp(w) \/ PickUpItem(w) \/ ListItem(w)
               \/ \E p \in PC : \/ Kill(w, p) \/ Move(w, p) \/ Wound(w, p) \/ Die(w, p)
                                \/ Disconnect(w, p) \/ Login(w, p)
        PROVE  (\A q \in PC : Held(q)' = Held(q)) /\ past' = past /\ used' = used
    BY <1>2, HeldUnchanged
  <1>3. \/ WriteXp(w) \/ Halve(w) \/ ProcessQuestKill(w)
        \/ Sends(w) \/ SpawnItem(w) \/ ReadXp(w) \/ PickUpItem(w) \/ ListItem(w)
        \/ \E p \in PC : \/ Kill(w, p) \/ Move(w, p) \/ Wound(w, p) \/ Die(w, p)
                         \/ Disconnect(w, p) \/ Login(w, p)
    BY DEF Works, Starts
  <1>4. CASE WriteXp(w) \/ Halve(w) \/ ProcessQuestKill(w)
    <2>1. used' = used
      BY <1>4 DEF WriteXp, Halve, ProcessQuestKill
    <2>2. \A q \in PC : Held(q)'.inv = Held(q).inv /\ past'[q].rewards = past[q].rewards
      BY <1>1, <1>4
    <2> QED BY <2>1, <2>2 DEF Holding, Rewards
  <1>5. CASE ~(WriteXp(w) \/ Halve(w) \/ ProcessQuestKill(w))
    <2>1. (\A q \in PC : Held(q)' = Held(q)) /\ past' = past /\ used' = used
      BY <1>2, <1>3, <1>5
    <2> QED BY <2>1 DEF Holding, Rewards
  <1> QED BY <1>4, <1>5

\* One inventory gains or loses, the others stay as they are.
LEMMA OneChanges ==
    ASSUME Typed, NEW p \in ingame, UNCHANGED <<ingame, row>>, NEW t \in Slots, NEW d \in Int,
           me'[p].inv[t] = me[p].inv[t] + d,
           \A u \in Slots : u # t => me'[p].inv[u] = me[p].inv[u],
           \A q \in PC : q # p => me'[q] = me[q]
    PROVE  /\ SumFunction(Holding(t)') = SumFunction(Holding(t)) + d
           /\ \A u \in Slots : u # t => Holding(u)' = Holding(u)
  <1>1. /\ p \in PC /\ Held(p) = me[p] /\ Held(p)' = me'[p]
        /\ \A q \in PC : q # p => Held(q)' = Held(q)
    BY HeldOf, HeldByOthers DEF Typed, Data
  <1>2. \A u \in Slots : u # t => Holding(u)' = Holding(u)
    BY <1>1 DEF Holding
  <1>3. Holding(t) \in [PC -> Int] /\ IsFiniteSet(PC)
    BY Amounts
  <1>4. PICK f, h : f = Holding(t) /\ h = Holding(t)'
    OBVIOUS
  <1>5. h[p] = f[p] + d /\ \A q \in PC : q # p => h[q] = f[q]
    BY <1>1, <1>4 DEF Holding
  <1>6. h \in [PC -> Int]
    <2>1. h = [q \in PC |-> h[q]]
      BY <1>4 DEF Holding
    <2>2. \A q \in PC : h[q] \in Int
      BY <1>3, <1>4, <1>5
    <2> QED BY <2>1, <2>2
  <1>7. SumFunction(h) = SumFunction(f) + d
    BY <1>1, <1>3, <1>4, <1>5, <1>6, SumAdds
  <1> QED BY <1>2, <1>4, <1>7

LEMMA SpawnSaved ==
    ASSUME Typed, Once, NEW w \in Workers, SpawnItem(w), Script(todo[w]), Kept(todo[w])
    PROVE  Kept(todo[w])'
  <1> DEFINE s == todo[w]
             r == todo'[w]
  <1>0. Op(w, "spawn")
    BY SpawnWay
  <1>1. s \in Seq(Ops) /\ s # <<>> /\ s[1][1] = "spawn"
    BY <1>0, NextOp DEF Typed
  <1>2. \A t : Holding(t)' = Holding(t) /\ Rewards' = Rewards /\ used' = used
    <2>1. ~Got(w) /\ ~Gift(w) /\ \A p \in PC, t \in Slots : ~UseItem(w, p, t)
      <3>0. \A name : Op(w, name) => s[1][1] = name
        BY NextOp DEF Typed
      <3>1. ~Got(w) /\ ~Gift(w)
        BY <1>1, <3>0 DEF Got, Gift
      <3>2. \A p \in PC, t \in Slots : ~UseItem(w, p, t)
        BY <1>1, StartsFit DEF Starts
      <3> QED BY <3>1, <3>2
    <2> QED BY <2>1, OthersKeep DEF Works
  <1>3. PICK ops \in Seq(Ops) :
            /\ Then(w, ops) /\ \A k \in 1 .. Len(ops) : ops[k][1] # "got"
            /\ \/ UNCHANGED <<g_next_item_id, active>>
               \/ /\ g_next_item_id' = g_next_item_id + 1
                  /\ active' = active \cup {g_next_item_id}
    <2>1. CASE Then(w, <<>>) /\ UNCHANGED <<g_next_item_id, active>>
      <3>1. <<>> \in Seq(Ops) /\ \A k \in 1 .. Len(<<>>) : <<>>[k][1] # "got"
        OBVIOUS
      <3> QED BY <2>1, <3>1, Zenon
    <2>2. CASE /\ g_next_item_id' = g_next_item_id + 1
               /\ active' = active \cup {g_next_item_id}
               /\ \E ops \in Seq(Ops) :
                     /\ Then(w, ops)
                     /\ \A k \in 1 .. Len(ops) :
                           \E p \in Near : ops[k] = <<"appear", p, g_next_item_id>>
      <3>1. PICK ops \in Seq(Ops) :
                /\ Then(w, ops)
                /\ \A k \in 1 .. Len(ops) :
                      \E p \in Near : ops[k] = <<"appear", p, g_next_item_id>>
        BY <2>2
      <3>2. \A k \in 1 .. Len(ops) : ops[k][1] # "got"
        BY <3>1
      <3> QED BY <2>2, <3>1, <3>2, Zenon
    <2> QED BY <2>1, <2>2, SpawnWay
  <1>4. Turn(s, ops, r)
    BY <1>0, <1>3, ThenTurn DEF Typed
  <1>5. Owed(s) = 0 /\ Owed(r) = 0
    <2>1. Script(s) /\ s[1][1] # "got"
      BY <1>1
    <2> HIDE DEF s, r
    <2> QED BY <1>3, <1>4, <2>1, OwedNext
  <1>6. \/ g_next_item_id' = g_next_item_id /\ Cardinality(active') = Cardinality(active)
        \/ /\ g_next_item_id' = g_next_item_id + 1
           /\ Cardinality(active') = Cardinality(active) + 1
    <2>1. g_next_item_id \notin active
      BY DEF Typed, Data, Once, Items
    <2>2. IsFiniteSet(active)
      BY Amounts
    <2> QED BY <1>3, <2>1, <2>2, FS_AddElement
  <1>7. /\ SumFunction(Holding("potion")) \in Int /\ used["potion"] \in Nat
        /\ Cardinality(active) \in Nat /\ g_next_item_id \in Nat
    BY Amounts DEF Slots
  <1>8. g_next_item_id
          = Cardinality(active) + SumFunction(Holding("potion")) + used["potion"] + 0
    BY <1>5 DEF Kept
  <1>9. g_next_item_id'
          = Cardinality(active') + SumFunction(Holding("potion")) + used["potion"] + 0
    BY <1>6, <1>7, <1>8
  <1>10. SumFunction(Rewards) = SumFunction(Holding("boost")) + used["boost"]
    BY DEF Kept
  <1> QED BY <1>2, <1>5, <1>9, <1>10 DEF Kept

LEMMA PickSaved ==
    ASSUME Typed, NEW w \in Workers, PickUpItem(w), Script(todo[w]), Kept(todo[w])
    PROVE  Kept(todo[w])'
  <1> DEFINE s == todo[w]
             r == todo'[w]
  <1>0. Op(w, "pick") /\ g_next_item_id' = g_next_item_id
    BY PickWay
  <1>1. s \in Seq(Ops) /\ s # <<>> /\ s[1][1] = "pick"
    BY <1>0, NextOp DEF Typed
  <1>2. \A t : Holding(t)' = Holding(t) /\ Rewards' = Rewards /\ used' = used
    <2>1. ~Got(w) /\ ~Gift(w) /\ \A p \in PC, t \in Slots : ~UseItem(w, p, t)
      <3>0. \A name : Op(w, name) => s[1][1] = name
        BY NextOp DEF Typed
      <3>1. ~Got(w) /\ ~Gift(w)
        BY <1>1, <3>0 DEF Got, Gift
      <3>2. \A p \in PC, t \in Slots : ~UseItem(w, p, t)
        BY <1>1, StartsFit DEF Starts
      <3> QED BY <3>1, <3>2
    <2> QED BY <2>1, OthersKeep DEF Works
  <1>3. PICK p \in PC, i \in Items : \E ops \in Seq(Ops) :
            /\ Then(w, ops)
            /\ \/ i \in active /\ active' = active \ {i} /\ ops = <<<<"got", p, i>>>>
               \/ ops = <<>> /\ active' = active
    BY PickWay
  <1>4. PICK ops \in Seq(Ops) :
            /\ Then(w, ops)
            /\ \/ i \in active /\ active' = active \ {i} /\ ops = <<<<"got", p, i>>>>
               \/ ops = <<>> /\ active' = active
    BY <1>3
  <1>5. Turn(s, ops, r)
    BY <1>0, <1>4, ThenTurn DEF Typed
  <1>6. Owed(s) = 0
    <2>1. \A k \in 1 .. Len(s) : s[k][1] # "got"
      BY <1>1 DEF Script, Soon, Fleeting
    <2> QED BY <2>1 DEF Owed, Owing
  <1>7. Cardinality(active') + Owed(r) = Cardinality(active)
    <2>0. IsFiniteSet(active) /\ Cardinality(active) \in Nat
      BY Amounts
    <2>1. CASE ops = <<>> /\ active' = active
      <3>1. \A k \in 1 .. Len(ops) : ops[k][1] # "got"
        BY <2>1
      <3>2. Script(s) /\ s[1][1] # "got"
        BY <1>1
      <3>3. Owed(r) = 0
        <4> HIDE DEF s, r
        <4> QED BY <1>5, <3>1, <3>2, OwedNext
      <3> QED BY <2>0, <2>1, <3>3
    <2>2. CASE i \in active /\ active' = active \ {i} /\ ops = <<<<"got", p, i>>>>
      <3>1. 1 \in 1 .. Len(ops) /\ ops[1][1] = "got"
        BY <2>2
      <3>2. 1 \in 1 .. Len(r) /\ r[1] = ops[1]
        <4> HIDE DEF s, r
        <4> QED BY <1>5, <3>1 DEF Turn
      <3>3. Owed(r) = 1
        BY <3>1, <3>2 DEF Owed, Owing
      <3>4. Cardinality(active') = Cardinality(active) - 1
        BY <2>0, <2>2, FS_RemoveElement
      <3> QED BY <2>0, <3>3, <3>4
    <2> QED BY <1>4, <2>1, <2>2
  <1>8. /\ SumFunction(Holding("potion")) \in Int /\ used["potion"] \in Nat
        /\ Cardinality(active) \in Nat /\ g_next_item_id \in Nat
    BY Amounts DEF Slots
  <1>9. Owed(r) \in Int /\ Cardinality(active') \in Int
    <2>1. IsFiniteSet(active')
      <3>1. active' \subseteq active /\ IsFiniteSet(active)
        BY <1>4, Amounts
      <3> QED BY <3>1, FS_Subset
    <2> QED BY <2>1, FS_CardinalityType DEF Owed
  <1>10. g_next_item_id
          = Cardinality(active) + SumFunction(Holding("potion")) + used["potion"] + 0
    BY <1>6 DEF Kept
  <1>11. g_next_item_id'
          = Cardinality(active') + SumFunction(Holding("potion")) + used["potion"] + Owed(r)
    <2> HIDE DEF r
    <2> QED BY <1>0, <1>7, <1>8, <1>9, <1>10
  <1>12. SumFunction(Rewards) = SumFunction(Holding("boost")) + used["boost"]
    BY DEF Kept
  <1> QED BY <1>2, <1>11, <1>12 DEF Kept

LEMMA GotSaved ==
    ASSUME Typed, NEW w \in Workers, Got(w), Script(todo[w]), Present(todo[w], ingame),
           Kept(todo[w])
    PROVE  Kept(todo[w])'
  <1> DEFINE s == todo[w]
             r == todo'[w]
  <1>0. /\ me \in [PC -> Sheets] /\ Op(w, "got")
        /\ UNCHANGED <<g_next_item_id, active, ingame, row, used, past>>
    BY GotWay DEF Typed, Data, where, world
  <1>1. s \in Seq(Ops) /\ s # <<>> /\ s[1][1] = "got" /\ Len(s) \in Nat \ {0}
    BY <1>0, NextOp DEF Typed
  <1>2. PICK p \in PC, i \in Items : \E ops \in Seq(Ops) :
            /\ s[1] = <<"got", p, i>>
            /\ me' = [me EXCEPT ![p].inv["potion"] = @ + 1]
            /\ Then(w, ops)
            /\ \A k \in 1 .. Len(ops) : \/ \E q \in Near : ops[k] = <<"vanish", q, i>>
                                        \/ ops[k] = ItemAdd(p, "potion")
            /\ \A q \in Near : Among(ops, <<"vanish", q, i>>)
            /\ Among(ops, ItemAdd(p, "potion"))
    BY GotWay, Zenon
  <1>3. PICK ops \in Seq(Ops) :
            /\ s[1] = <<"got", p, i>>
            /\ me' = [me EXCEPT ![p].inv["potion"] = @ + 1]
            /\ Then(w, ops)
            /\ \A k \in 1 .. Len(ops) : \/ \E q \in Near : ops[k] = <<"vanish", q, i>>
                                        \/ ops[k] = ItemAdd(p, "potion")
    BY <1>2, Zenon
  <1>4. p \in ingame
    <2>1. s[1][2] = p /\ 1 \in 1 .. Len(s)
      BY <1>1, <1>3
    <2> QED BY <1>1, <2>1 DEF Present
  <1>5. Turn(s, ops, r)
    BY <1>0, <1>3, ThenTurn DEF Typed
  <1>6. \A k \in 1 .. Len(ops) : ops[k][1] # "got"
    BY <1>3 DEF ItemAdd
  <1>7. Owed(s) = 1 /\ Owed(r) = 0
    <2>1. Script(s)
      OBVIOUS
    <2> HIDE DEF s, r
    <2> QED BY <1>1, <1>5, <1>6, <2>1, OwedOnce
  <1>8. /\ me'[p].inv["potion"] = me[p].inv["potion"] + 1
        /\ \A u \in Slots : u # "potion" => me'[p].inv[u] = me[p].inv[u]
        /\ \A q \in PC : q # p => me'[q] = me[q]
    BY <1>0, <1>3 DEF Sheets, Slots
  <1>9. /\ SumFunction(Holding("potion")') = SumFunction(Holding("potion")) + 1
        /\ Holding("boost")' = Holding("boost")
    BY <1>0, <1>4, <1>8, OneChanges DEF Slots
  <1>10. Rewards' = Rewards
    BY <1>0 DEF Rewards
  <1>11. /\ SumFunction(Holding("potion")) \in Int /\ used["potion"] \in Nat
         /\ Cardinality(active) \in Nat /\ g_next_item_id \in Nat
    BY Amounts DEF Slots
  <1>12. g_next_item_id
          = Cardinality(active) + SumFunction(Holding("potion")) + used["potion"] + 1
    BY <1>7 DEF Kept
  <1>13. g_next_item_id
          = Cardinality(active) + SumFunction(Holding("potion")') + used["potion"] + 0
    BY <1>9, <1>11, <1>12
  <1>14. SumFunction(Rewards) = SumFunction(Holding("boost")) + used["boost"]
    BY DEF Kept
  <1> QED BY <1>0, <1>7, <1>9, <1>10, <1>13, <1>14 DEF Kept

LEMMA GiftSaved ==
    ASSUME Typed, NEW w \in Workers, Gift(w), Script(todo[w]), Present(todo[w], ingame),
           Kept(todo[w])
    PROVE  Kept(todo[w])'
  <1> DEFINE s == todo[w]
             r == todo'[w]
  <1>0. /\ me \in [PC -> Sheets] /\ past \in [PC -> Pasts] /\ Op(w, "gift")
        /\ UNCHANGED <<g_next_item_id, active, ingame, row, used>>
    BY DEF Typed, Data, Gift, where, world
  <1>1. s \in Seq(Ops) /\ s # <<>> /\ s[1][1] = "gift" /\ Len(s) \in Nat \ {0}
    BY <1>0, NextOp DEF Typed
  <1>2. PICK p \in PC : \E ops \in Seq(Ops) :
            /\ s[1] = <<"gift", p>>
            /\ me' = [me EXCEPT ![p].inv["boost"] = @ + 1]
            /\ past' = [past EXCEPT ![p].rewards = @ + 1]
            /\ ops = <<ItemAdd(p, "boost")>> /\ Then(w, ops)
    BY GiftWay
  <1>3. PICK ops \in Seq(Ops) : ops = <<ItemAdd(p, "boost")>> /\ Then(w, ops)
    BY <1>2
  <1>4. p \in ingame
    BY <1>1, <1>2 DEF Present
  <1>5. Turn(s, ops, r)
    BY <1>0, <1>3, ThenTurn DEF Typed
  <1>6. Owed(s) = 0 /\ Owed(r) = 0
    <2>1. Script(s) /\ s[1][1] # "got"
      BY <1>1
    <2>2. \A k \in 1 .. Len(ops) : ops[k][1] # "got"
      BY <1>3 DEF ItemAdd
    <2> HIDE DEF s, r
    <2> QED BY <1>5, <2>1, <2>2, OwedNext
  <1>7. /\ me'[p].inv["boost"] = me[p].inv["boost"] + 1
        /\ \A u \in Slots : u # "boost" => me'[p].inv[u] = me[p].inv[u]
        /\ \A q \in PC : q # p => me'[q] = me[q]
    BY <1>0, <1>2 DEF Sheets, Slots
  <1>8. /\ SumFunction(Holding("boost")') = SumFunction(Holding("boost")) + 1
        /\ Holding("potion")' = Holding("potion")
    BY <1>0, <1>4, <1>7, OneChanges DEF Slots
  <1>9. SumFunction(Rewards') = SumFunction(Rewards) + 1
    <2>1. Rewards \in [PC -> Int] /\ IsFiniteSet(PC)
      BY Amounts
    <2>2. Rewards' \in [PC -> Int]
      BY <1>0, <1>2 DEF Rewards, Pasts
    <2>3. Rewards'[p] = Rewards[p] + 1 /\ \A q \in PC : q # p => Rewards'[q] = Rewards[q]
      BY <1>0, <1>2 DEF Rewards, Pasts
    <2>4. PICK f, h : f = Rewards /\ h = Rewards'
      OBVIOUS
    <2>5. SumFunction(h) = SumFunction(f) + 1
      BY <2>1, <2>2, <2>3, <2>4, SumAdds
    <2> QED BY <2>4, <2>5
  <1>10. SumFunction(Holding("boost")) \in Int /\ used["boost"] \in Nat
    BY Amounts DEF Slots
  <1>11. SumFunction(Rewards) = SumFunction(Holding("boost")) + used["boost"]
    BY DEF Kept
  <1>12. SumFunction(Rewards') = SumFunction(Holding("boost")') + used["boost"]
    BY <1>8, <1>9, <1>10, <1>11
  <1>13. g_next_item_id
          = Cardinality(active) + SumFunction(Holding("potion")) + used["potion"] + 0
    BY <1>6 DEF Kept
  <1> QED BY <1>0, <1>6, <1>8, <1>12, <1>13 DEF Kept

LEMMA UseSaved ==
    ASSUME Typed, NEW w \in Workers, NEW p \in PC, NEW t \in Slots, UseItem(w, p, t),
           Kept(todo[w])
    PROVE  Kept(todo[w])'
  <1>0. /\ me \in [PC -> Sheets] /\ p \in ingame /\ me' = [me EXCEPT ![p].inv[t] = @ - 1]
        /\ used' = [used EXCEPT ![t] = @ + 1]
        /\ UNCHANGED <<g_next_item_id, active, ingame, row, past>>
    BY DEF Typed, Data, UseItem, where, world
  <1>1. PICK ops \in Seq(Ops) : ops = <<Stat(p), ItemAdd(p, t)>> /\ Take(w, "recv", p, ops)
    BY ShortWays
  <1>2. todo[w] = <<>> /\ todo'[w] = ops
    BY <1>1, TakeTurn DEF Typed, Kinds
  <1>3. Owed(todo[w]) = 0 /\ Owed(todo'[w]) = 0
    <2>1. \A k \in 1 .. Len(ops) : ops[k][1] # "got"
      BY <1>1 DEF Stat, ItemAdd
    <2>2. \A k \in 1 .. Len(<<>>) : <<>>[k][1] # "got"
      OBVIOUS
    <2> QED BY <1>2, <2>1, <2>2, Zenon DEF Owed, Owing
  <1>4. /\ me'[p].inv[t] = me[p].inv[t] + (-1)
        /\ \A u \in Slots : u # t => me'[p].inv[u] = me[p].inv[u]
        /\ \A q \in PC : q # p => me'[q] = me[q]
    BY <1>0 DEF Sheets
  <1>5. /\ SumFunction(Holding(t)') = SumFunction(Holding(t)) + (-1)
        /\ \A u \in Slots : u # t => Holding(u)' = Holding(u)
    BY <1>0, <1>4, OneChanges
  <1>6. used'[t] = used[t] + 1 /\ \A u \in Slots : u # t => used'[u] = used[u]
    BY <1>0, Amounts
  <1>7. /\ \A u \in Slots : SumFunction(Holding(u)) \in Int /\ used[u] \in Nat
        /\ Cardinality(active) \in Nat
    BY Amounts
  <1>8. ASSUME NEW u \in Slots
        PROVE  SumFunction(Holding(u)') + used'[u] = SumFunction(Holding(u)) + used[u]
    <2>1. CASE u = t
      BY <1>5, <1>6, <1>7, <2>1
    <2>2. CASE u # t
      BY <1>5, <1>6, <2>2
    <2> QED BY <2>1, <2>2
  <1>9. ASSUME NEW u \in Slots
        PROVE  SumFunction(Holding(u)') \in Int /\ used'[u] \in Nat
    <2>1. CASE u = t
      BY <1>5, <1>6, <1>7, <2>1
    <2>2. CASE u # t
      BY <1>5, <1>6, <1>7, <2>2
    <2> QED BY <2>1, <2>2
  <1>10. Rewards' = Rewards
    BY <1>0 DEF Rewards
  <1>11. /\ g_next_item_id
              = Cardinality(active) + SumFunction(Holding("potion")) + used["potion"] + 0
         /\ SumFunction(Rewards) = SumFunction(Holding("boost")) + used["boost"]
    BY <1>3 DEF Kept
  <1>12. "potion" \in Slots /\ "boost" \in Slots
    BY DEF Slots
  <1>13. g_next_item_id
           = Cardinality(active) + SumFunction(Holding("potion")') + used'["potion"] + 0
    <2>1. /\ SumFunction(Holding("potion")') + used'["potion"]
               = SumFunction(Holding("potion")) + used["potion"]
          /\ SumFunction(Holding("potion")') \in Int /\ used'["potion"] \in Nat
          /\ SumFunction(Holding("potion")) \in Int /\ used["potion"] \in Nat
      BY <1>7, <1>8, <1>9, <1>12
    <2>2. PICK x, y, u, v : /\ x = SumFunction(Holding("potion")') /\ u = used'["potion"]
                            /\ y = SumFunction(Holding("potion")) /\ v = used["potion"]
      OBVIOUS
    <2>3. x + u = y + v /\ x \in Int /\ y \in Int /\ u \in Nat /\ v \in Nat
      BY <2>1, <2>2, Zenon
    <2>4. g_next_item_id = Cardinality(active) + y + v + 0
      BY <1>11, <2>2, Zenon
    <2>5. g_next_item_id = Cardinality(active) + x + u + 0
      BY <1>7, <2>3, <2>4, SMTT(60)
    <2> QED BY <2>2, <2>5, Zenon
  <1>14. SumFunction(Rewards') = SumFunction(Holding("boost")') + used'["boost"]
    BY <1>8, <1>10, <1>11, <1>12
  <1> QED BY <1>0, <1>3, <1>13, <1>14 DEF Kept

LEMMA NextSaved ==
    ASSUME Typed, Once, Scripted, Saved, Next
    PROVE  Saved'
  <1> SUFFICES ASSUME NEW w \in Workers, pool' = {w}
               PROVE  Kept(todo[w])'
    BY DEF Saved
  <1>1. pool = {w} /\ (Sends(w) \/ Works(w) \/ \E p \in PC : Starts(w, p))
    BY AloneBefore
  <1>2. Script(todo[w]) /\ Present(todo[w], ingame) /\ Kept(todo[w])
    BY <1>1 DEF Scripted, Saved
  <1>3. CASE SpawnItem(w)
    BY <1>2, <1>3, SpawnSaved
  <1>4. CASE PickUpItem(w)
    BY <1>2, <1>4, PickSaved
  <1>5. CASE Got(w)
    BY <1>2, <1>5, GotSaved
  <1>6. CASE Gift(w)
    BY <1>2, <1>6, GiftSaved
  <1>7. CASE \E p \in PC, t \in Slots : UseItem(w, p, t)
    BY <1>2, <1>7, UseSaved
  <1>8. CASE /\ ~SpawnItem(w) /\ ~PickUpItem(w) /\ ~Got(w) /\ ~Gift(w)
             /\ \A p \in PC, t \in Slots : ~UseItem(w, p, t)
    <2>1. (\A t : Holding(t)' = Holding(t)) /\ Rewards' = Rewards /\ used' = used
      BY <1>1, <1>8, OthersKeep
    <2>2. UNCHANGED <<g_next_item_id, active>>
      <3>1. Sends(w) => UNCHANGED world
        BY SendsStep
      <3>2. Works(w) => UNCHANGED world
        BY <1>8 DEF Works, ReadXp, WriteXp, ProcessQuestKill, Halve, ListItem
      <3>3. \A p \in PC : Starts(w, p) => UNCHANGED world
        BY DEF Starts, Kill, Move, Wound, Die, Disconnect, Login, UseItem
      <3> QED BY <1>1, <3>1, <3>2, <3>3 DEF world
    <2>3. PICK ops : Turn(todo[w], ops, todo'[w]) /\ Fits(todo[w], ops)
      BY AloneFit
    <2>4. todo[w] = <<>> \/ todo[w][1][1] \notin {"pick", "got"}
      BY <1>1, <1>8, ByName
    <2>5. \A k \in 1 .. Len(ops) : ops[k][1] # "got"
      BY <2>3, <2>4 DEF Fits, Follows
    <2>6. Owed(todo[w]) = 0 /\ Owed(todo'[w]) = 0
      BY <1>2, <2>3, <2>4, <2>5, OwedNext
    <2> QED BY <1>2, <2>1, <2>2, <2>6 DEF Kept
  <1> QED BY <1>3, <1>4, <1>5, <1>6, <1>7, <1>8

LEMMA InitSaved ==
    ASSUME Init
    PROVE  Saved
  <1>1. g_next_item_id = 0 /\ active = {} /\ used["potion"] = 0 /\ used["boost"] = 0
    BY DEF Init, Slots
  <1>2. /\ Holding("potion") = [p \in PC |-> 0] /\ Holding("boost") = [p \in PC |-> 0]
        /\ Rewards = [p \in PC |-> 0]
    BY DEF Init, Holding, Rewards, Held, Fresh, Slots
  <1>3. SumFunction([p \in PC |-> 0]) = 0
    BY SumZero, Finite
  <1>4. Cardinality(active) = 0
    BY <1>1, FS_EmptySet
  <1>5. \A w \in Workers : Owed(todo[w]) = 0
    BY DEF Init, Waiting, Owed, Owing
  <1>6. /\ g_next_item_id
             = Cardinality(active) + SumFunction(Holding("potion")) + used["potion"] + 0
        /\ SumFunction(Rewards) = SumFunction(Holding("boost")) + used["boost"]
    BY <1>1, <1>2, <1>3, <1>4
  <1> QED BY <1>5, <1>6 DEF Saved, Kept

\* With one worker nothing is lost or made from nothing, for any number of
\* players and items: every item spawn_item dropped lies in the world, is held
\* by a session or a row of the database, or was used, and every reward of
\* process_quest_kill is held or was used.
THEOREM ItemsAreKept == Spec => []Conserved
  <1>1. Init => Typed /\ Once /\ Scripted /\ Saved
    <2>1. Init => Once
      BY DEF Init, Once
    <2> QED BY <2>1, InitTyped, InitScripted, InitSaved
  <1>2. Typed /\ Once /\ Scripted /\ Saved /\ [Next]_vars
          => (Typed /\ Once /\ Scripted /\ Saved)'
    <2>1. Scripted /\ Once /\ UNCHANGED vars => Scripted' /\ Once'
      BY DEF Scripted, Once, vars, handlers
    <2>2. Saved /\ UNCHANGED vars => Saved'
      BY DEF Saved, Kept, Holding, Rewards, Held, vars, handlers
    <2> QED BY <2>1, <2>2, SameTyped, NextTyped, NextOnce, NextScripted, NextSaved
  <1>3. Typed /\ Saved => Conserved
    <2> SUFFICES ASSUME Typed, Saved, Settled
                 PROVE  /\ g_next_item_id = Cardinality(active) + HeldBy("potion") + used["potion"]
                        /\ SumFunction(Rewards) = HeldBy("boost") + used["boost"]
      BY DEF Conserved, Rewards
    <2>1. PICK w \in Workers : pool = {w} /\ todo[w] = <<>>
      BY SettledMeans
    <2>2. Kept(<<>>) /\ Owed(<<>>) = 0
      BY <2>1 DEF Saved, Owed, Owing
    <2>3. /\ SumFunction(Holding("potion")) = HeldBy("potion")
          /\ SumFunction(Holding("boost")) = HeldBy("boost")
      BY DEF Holding, HeldBy
    <2>4. /\ SumFunction(Holding("potion")) \in Int /\ used["potion"] \in Nat
          /\ Cardinality(active) \in Nat
      BY Amounts DEF Slots
    <2> QED BY <2>2, <2>3, <2>4 DEF Kept
  <1> QED BY <1>1, <1>2, <1>3, PTL DEF Spec
=============================================================================
