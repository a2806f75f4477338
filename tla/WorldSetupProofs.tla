-------------------------- MODULE WorldSetupProofs --------------------------
(***************************************************************************)
(* What WorldSetup and Astar promise, for any world, scripts, old files    *)
(* and margin: the map of a client that read the file of the running       *)
(* server is the map of the server, every NPC id is taken and in its       *)
(* sector, and a chase takes a first step of a shortest way.               *)
(***************************************************************************)
EXTENDS WorldSetup, FiniteSetTheorems, FunctionTheorems, WellFoundedInduction, TLAPS

\* Division by a positive number, as the provers need it.
LEMMA DivBounds ==
    ASSUME NEW x \in Nat, NEW S \in Nat \ {0}
    PROVE  /\ x \div S \in Nat
           /\ (x \div S) * S <= x
           /\ x < (x \div S) * S + S
OBVIOUS

LEMMA DivMono ==
    ASSUME NEW x \in Nat, NEW y \in Nat, NEW S \in Nat \ {0}, x <= y
    PROVE  x \div S <= y \div S
OBVIOUS

\* The rounding up of MAX_SECTORS: the last index has a block.
LEMMA DivCeil ==
    ASSUME NEW x \in Nat, NEW w \in Nat \ {0}, NEW S \in Nat \ {0}, x < w
    PROVE  /\ (w + S - 1) \div S \in Nat \ {0}
           /\ x \div S < (w + S - 1) \div S
<1>1. x + S <= w + S - 1  OBVIOUS
<1>2. (x + S) \div S <= (w + S - 1) \div S
  BY <1>1, DivMono
<1>3. (x + S) \div S = x \div S + 1  OBVIOUS
<1>4. x \div S \in Nat  BY DivBounds
<1>5. (w + S - 1) \div S \in Nat  BY DivBounds
<1> QED  BY <1>2, <1>3, <1>4, <1>5

\* A row-major index stays inside the array.
LEMMA IndexBound ==
    ASSUME NEW X \in Nat \ {0}, NEW Y \in Nat \ {0}, NEW sx \in Nat, NEW sy \in Nat,
           sx < X, sy < Y
    PROVE  sy * X + sx \in 0 .. X * Y - 1
<1>1. sy * X <= (Y - 1) * X  OBVIOUS
<1>2. (Y - 1) * X = X * Y - X  OBVIOUS
<1>3. sy * X \in Nat /\ X * Y \in Nat  OBVIOUS
<1> QED  BY <1>1, <1>2, <1>3

\* Row and column of a row-major index.
LEMMA IndexInverse ==
    ASSUME NEW X \in Nat \ {0}, NEW Y \in Nat \ {0}
    PROVE  /\ \A n \in 0 .. X * Y - 1 :
                 /\ n % X \in 0 .. X - 1 /\ n \div X \in 0 .. Y - 1
                 /\ (n \div X) * X + (n % X) = n
           /\ \A i \in 0 .. X - 1, j \in 0 .. Y - 1 :
                 /\ j * X + i \in 0 .. X * Y - 1
                 /\ (j * X + i) % X = i /\ (j * X + i) \div X = j
  <1>1. ASSUME NEW n \in 0 .. X * Y - 1
        PROVE  /\ n % X \in 0 .. X - 1 /\ n \div X \in 0 .. Y - 1
               /\ (n \div X) * X + (n % X) = n
    <2>1. X * Y \in Nat /\ n \in Nat /\ n < X * Y
      OBVIOUS
    <2>2. PICK q \in Nat : q = n \div X /\ q * X <= n
      BY <2>1, DivBounds
    <2>3. n % X \in 0 .. X - 1 /\ n % X = n - (n \div X) * X
      BY <2>1
    <2>4. q < Y
      <3> SUFFICES ASSUME Y <= q PROVE FALSE
        BY <2>2
      <3>1. q - Y \in Nat /\ (q - Y) * X \in Nat /\ (q - Y) * X = q * X - X * Y
        OBVIOUS
      <3> QED BY <2>1, <2>2, <3>1
    <2>5. q * X \in Nat /\ q * X + (n - q * X) = n
      BY <2>1
    <2>6. (n \div X) * X + (n % X) = n
      BY <2>2, <2>3, <2>5, Zenon
    <2>7. n \div X \in 0 .. Y - 1
      BY <2>2, <2>4
    <2> QED BY <2>3, <2>6, <2>7
  <1>2. ASSUME NEW i \in 0 .. X - 1, NEW j \in 0 .. Y - 1
        PROVE  /\ j * X + i \in 0 .. X * Y - 1
               /\ (j * X + i) % X = i /\ (j * X + i) \div X = j
    <2>1. j * X + i \in 0 .. X * Y - 1
      BY IndexBound
    <2>2. j * X \in Nat
      OBVIOUS
    <2>3. (j * X + i) \div X = j
      OBVIOUS
    <2>4. (j * X + i) % X = i
      OBVIOUS
    <2> QED BY <2>1, <2>3, <2>4
  <1> QED BY <1>1, <1>2

\* A set of numbers that has a member has a least one.
LEMMA LeastMember ==
    ASSUME NEW U \in SUBSET Nat, U # {}
    PROVE  \E m \in U : \A k \in U : ~(k < m)
  <1> DEFINE R == OpToRel(<, Nat)
  <1>1. IsWellFoundedOn(R, Nat)
    BY NatLessThanWellFounded
  <1>2. \A x, y \in Nat : <<y, x>> \in R <=> y < x
    BY DEF OpToRel
  <1> HIDE DEF R
  <1>3. \E x \in U : \A y \in U : ~(<<y, x>> \in R)
    BY <1>1, WFMin
  <1> QED BY <1>2, <1>3

\* Induction, for a set of numbers instead of a predicate.
LEMMA Induction ==
    ASSUME NEW T, 0 \in T, \A n \in Nat : n \in T => n + 1 \in T
    PROVE  \A n \in Nat : n \in T
  <1> DEFINE U == Nat \ T
  <1> SUFFICES ASSUME U # {} PROVE FALSE
    OBVIOUS
  <1>1. PICK m \in U : \A k \in U : ~(k < m)
    BY LeastMember
  <1>2. m # 0 /\ m - 1 \in Nat /\ m - 1 < m
    OBVIOUS
  <1>3. m - 1 \in T
    BY <1>1, <1>2
  <1> QED BY <1>2, <1>3
-----------------------------------------------------------------------------
(* A function applied again and again.                                     *)

\* The values s, G[s], G[G[s]] ...
Iterates(D, G, s) ==
    { f \in [Nat -> D] : f[0] = s /\ \A n \in Nat : f[n + 1] = G[f[n]] }

LEMMA IteratesExist ==
    ASSUME NEW D, NEW G \in [D -> D], NEW s \in D
    PROVE  Iterates(D, G, s) # {}
  <1> DEFINE Good(m, f) == /\ f \in [Nat -> D] /\ f[0] = s
                           /\ \A n \in Nat : n < m => f[n + 1] = G[f[n]]
             T == {m \in Nat : \E f : Good(m, f)}
  <1>1. 0 \in T
    <2>1. Good(0, [n \in Nat |-> s])
      OBVIOUS
    <2> QED BY <2>1
  <1>2. ASSUME NEW m \in Nat, m \in T PROVE m + 1 \in T
    <2>1. PICK f : Good(m, f)
      BY <1>2
    <2> DEFINE h == [n \in Nat |-> IF n <= m THEN f[n] ELSE G[f[m]]]
    <2>2. h \in [Nat -> D]
      BY <2>1
    <2>3. h[0] = s
      BY <2>1
    <2>4. ASSUME NEW n \in Nat, n < m + 1 PROVE h[n + 1] = G[h[n]]
      <3>1. CASE n < m
        BY <2>1, <3>1
      <3>2. CASE n = m
        BY <2>1, <3>2
      <3> QED BY <2>4, <3>1, <3>2
    <2>5. Good(m + 1, h)
      <3> HIDE DEF h
      <3> QED BY <2>2, <2>3, <2>4
    <2>6. m + 1 \in Nat
      OBVIOUS
    <2> HIDE DEF Good, h
    <2> QED BY <2>5, <2>6, Zenon
  <1>3. \A m \in Nat : m \in T
    <2> HIDE DEF T
    <2> QED BY <1>1, <1>2, Induction
  <1>4. \A m \in Nat : \E f : Good(m, f)
    BY <1>3
  \* Two of them agree as far as both go.
  <1>5. ASSUME NEW m \in Nat, NEW k \in Nat, m <= k, NEW f, NEW g, Good(m, f), Good(k, g)
        PROVE  \A n \in Nat : n <= m => f[n] = g[n]
    <2> DEFINE U == {n \in Nat : n <= m => f[n] = g[n]}
    <2>1. 0 \in U
      BY <1>5
    <2>2. ASSUME NEW n \in Nat, n \in U PROVE n + 1 \in U
      <3>1. CASE n + 1 <= m
        <4>1. n < m /\ n < k /\ n <= m
          BY <1>5, <3>1
        <4>2. f[n + 1] = G[f[n]] /\ g[n + 1] = G[g[n]] /\ f[n] = g[n]
          BY <1>5, <2>2, <4>1
        <4> QED BY <4>2
      <3>2. CASE ~(n + 1 <= m)
        BY <3>2
      <3> QED BY <3>1, <3>2
    <2>3. \A n \in Nat : n \in U
      <3> HIDE DEF U
      <3> QED BY <2>1, <2>2, Induction
    <2> QED BY <2>3
  <1> HIDE DEF Good
  <1> DEFINE c == [m \in Nat |-> CHOOSE f : Good(m, f)]
             d == [m \in Nat |-> c[m][m]]
  <1>6. \A m \in Nat : Good(m, c[m])
    BY <1>4
  <1> HIDE DEF c
  <1>7. d \in [Nat -> D]
    BY <1>6 DEF Good
  <1>8. d[0] = s
    BY <1>6 DEF Good
  <1>9. ASSUME NEW n \in Nat PROVE d[n + 1] = G[d[n]]
    <2>1. n + 1 \in Nat /\ n <= n + 1 /\ n < n + 1 /\ n <= n
      OBVIOUS
    <2>2. Good(n, c[n]) /\ Good(n + 1, c[n + 1])
      BY <1>6, <2>1
    <2>3. c[n][n] = c[n + 1][n]
      BY <1>5, <2>1, <2>2
    <2>4. c[n + 1][n + 1] = G[c[n + 1][n]]
      BY <2>1, <2>2 DEF Good
    <2> QED BY <2>1, <2>3, <2>4
  <1> HIDE DEF d
  <1> QED BY <1>7, <1>8, <1>9 DEF Iterates

LEMMA IteratesAgree ==
    ASSUME NEW D, NEW G, NEW s, NEW f \in Iterates(D, G, s), NEW g \in Iterates(D, G, s)
    PROVE  f = g
  <1> DEFINE U == {n \in Nat : f[n] = g[n]}
  <1>1. 0 \in U
    BY DEF Iterates
  <1>2. ASSUME NEW n \in Nat, n \in U PROVE n + 1 \in U
    BY <1>2 DEF Iterates
  <1>3. \A n \in Nat : n \in U
    <2> HIDE DEF U
    <2> QED BY <1>1, <1>2, Induction
  <1> QED BY <1>3 DEF Iterates

\* A recursion whose only recursive call is its last one has a solution, even
\* where it does not end.
Solves(f, D, G, A, Stop) == f = [S \in D |-> IF S \in Stop THEN A[S] ELSE f[G[S]]]

LEMMA TailRecursion ==
    ASSUME NEW D, NEW G \in [D -> D], NEW A, NEW Stop
    PROVE  \E f : Solves(f, D, G, A, Stop)
  <1> DEFINE it == [S \in D |-> CHOOSE f : f \in Iterates(D, G, S)]
             First(S) == {n \in Nat : it[S][n] \in Stop /\ \A k \in Nat : k < n => it[S][k] \notin Stop}
             Member(V) == CHOOSE v : v \in V
             f == [S \in D |-> Member({A[it[S][n]] : n \in First(S)})]
  <1>1. \A S \in D : it[S] \in Iterates(D, G, S)
    BY IteratesExist
  <1> HIDE DEF it
  <1>2. \A S \in D : it[S] \in [Nat -> D] /\ it[S][0] = S /\ \A n \in Nat : it[S][n + 1] = G[it[S][n]]
    BY <1>1 DEF Iterates
  <1>3. ASSUME NEW S \in D, S \in Stop PROVE f[S] = A[S]
    <2>1. First(S) = {0}
      <3>1. 0 \in First(S)
        BY <1>2, <1>3
      <3>2. ASSUME NEW n \in First(S) PROVE n = 0
        BY <1>2, <1>3
      <3> QED BY <3>1, <3>2
    <2>2. {A[it[S][n]] : n \in First(S)} = {A[S]}
      <3> HIDE DEF First
      <3> QED BY <1>2, <2>1
    <2>3. f[S] = Member({A[S]})
      <3> HIDE DEF Member, First
      <3> QED BY <2>2
    <2> QED BY <2>3
  <1>4. ASSUME NEW S \in D, S \notin Stop PROVE f[S] = f[G[S]]
    <2>1. G[S] \in D
      OBVIOUS
    <2>2. \A n \in Nat : it[G[S]][n] = it[S][n + 1]
      <3> DEFINE g == [n \in Nat |-> it[S][n + 1]]
      <3>1. g \in [Nat -> D] /\ g[0] = G[S]
        BY <1>2
      <3>2. ASSUME NEW n \in Nat PROVE g[n + 1] = G[g[n]]
        BY <1>2
      <3>3. g \in Iterates(D, G, G[S])
        <4> HIDE DEF g
        <4> QED BY <3>1, <3>2 DEF Iterates
      <3>4. it[G[S]] = g
        <4> HIDE DEF g
        <4> QED BY <1>1, <2>1, <3>3, IteratesAgree
      <3> QED BY <3>4
    <2>3. ASSUME NEW n \in First(G[S]) PROVE n + 1 \in First(S)
      <3>1. n \in Nat /\ n + 1 \in Nat /\ it[S][n + 1] \in Stop
        BY <2>2
      <3>2. ASSUME NEW k \in Nat, k < n + 1 PROVE it[S][k] \notin Stop
        <4>1. CASE k = 0
          BY <1>2, <1>4, <4>1
        <4>2. CASE k # 0
          <5>1. k - 1 \in Nat /\ k - 1 < n /\ (k - 1) + 1 = k
            BY <3>1, <3>2, <4>2
          <5>2. it[G[S]][k - 1] \notin Stop
            BY <5>1
          <5> QED BY <2>2, <5>1, <5>2
        <4> QED BY <4>1, <4>2
      <3> QED BY <3>1, <3>2
    <2>4. ASSUME NEW n \in First(S) PROVE n - 1 \in First(G[S]) /\ (n - 1) + 1 = n
      <3>1. n # 0
        BY <1>2, <1>4
      <3>2. n \in Nat /\ n - 1 \in Nat /\ (n - 1) + 1 = n
        BY <3>1
      <3>3. it[G[S]][n - 1] \in Stop
        BY <2>2, <3>2
      <3>4. ASSUME NEW k \in Nat, k < n - 1 PROVE it[G[S]][k] \notin Stop
        <4>1. k + 1 \in Nat /\ k + 1 < n
          BY <3>2, <3>4
        <4> QED BY <2>2, <4>1
      <3> QED BY <3>2, <3>3, <3>4
    <2>5. {A[it[G[S]][n]] : n \in First(G[S])} = {A[it[S][n]] : n \in First(S)}
      <3>1. \A n \in First(G[S]) : n \in Nat
        OBVIOUS
      <3> HIDE DEF First
      <3>2. ASSUME NEW n \in First(G[S])
            PROVE  A[it[G[S]][n]] \in {A[it[S][m]] : m \in First(S)}
        BY <2>2, <2>3, <3>1
      <3>3. ASSUME NEW n \in First(S)
            PROVE  A[it[S][n]] \in {A[it[G[S]][m]] : m \in First(G[S])}
        <4>1. it[G[S]][n - 1] = it[S][n]
          BY <2>2, <2>4, <3>1
        <4> QED BY <2>4, <4>1
      <3> QED BY <3>2, <3>3
    <2> HIDE DEF Member, First
    <2>6. f[S] = Member({A[it[S][n]] : n \in First(S)})
      OBVIOUS
    <2>7. f[G[S]] = Member({A[it[G[S]][n]] : n \in First(G[S])})
      BY <2>1
    <2> QED BY <2>5, <2>6, <2>7, Zenon
  <1>5. f = [S \in D |-> f[S]]
    OBVIOUS
  <1>6. \A S \in D : f[S] = IF S \in Stop THEN A[S] ELSE f[G[S]]
    BY <1>3, <1>4
  <1> HIDE DEF f
  <1>7. Solves(f, D, G, A, Stop)
    BY <1>5, <1>6 DEF Solves
  <1> QED BY <1>7
-----------------------------------------------------------------------------
(* The search on any graph: N are the nodes, E the pairs <<p, n>> such     *)
(* that a step leads from p to n, h the estimates, s the start and t the   *)
(* target; g, par, C and Q stand for g_cost, parent, closed and pq.        *)

\* An estimate changes by at most one per step.
Graph(N, E, h, s, t) ==
    /\ N \subseteq Nat /\ IsFiniteSet(N) /\ Cardinality(N) < INF
    /\ E \subseteq N \X N
    /\ h \in [N -> Nat] /\ h[t] = 0
    /\ \A p, n \in N : <<p, n>> \in E => h[p] <= h[n] + 1 /\ h[n] <= h[p] + 1
    /\ s \in N /\ t \in N /\ s # t

\* A node that was reached has a way to it, over nodes that are closed; it is
\* no longer than there are closed nodes.
Ways(N, E, s, g, par, C) ==
    /\ g \in [N -> Nat] /\ par \in [N -> N \cup {NONE}] /\ C \subseteq N
    /\ g[s] = 0 /\ par[s] = NONE
    /\ \A n \in N : n # s /\ g[n] # INF =>
          par[n] \in C /\ g[n] = g[par[n]] + 1 /\ <<par[n], n>> \in E
    /\ \A n \in N : g[n] # INF => g[n] <= Cardinality(C)
    /\ \A n \in C : g[n] # INF

\* A node that was reached is closed or in pq with its cost and estimate, and
\* no node that is closed had more than one that is in pq has.
Queued(N, h, g, C, Q) ==
    /\ Q \subseteq Nat \X N
    /\ \A c \in Q : g[c[2]] # INF /\ g[c[2]] + h[c[2]] <= c[1]
    /\ \A n \in N : n \notin C /\ g[n] # INF => <<g[n] + h[n], n>> \in Q
    /\ \A n \in C, c \in Q : g[n] + h[n] <= c[1]

\* A step from a closed node other than the target finds nothing better.
Relaxed(N, E, t, g, C) ==
    \A p, n \in N : p \in C /\ p # t /\ <<p, n>> \in E => g[n] # INF /\ g[n] <= g[p] + 1

Sound(N, E, h, s, t, g, par, C, Q) ==
    Ways(N, E, s, g, par, C) /\ Queued(N, h, g, C, Q) /\ Relaxed(N, E, t, g, C)

LEMMA InfNat == INF \in Nat \ {0}
  BY DEF INF

LEMMA SoundAtFirst ==
    ASSUME NEW N, NEW E, NEW h, NEW s, NEW t, Graph(N, E, h, s, t)
    PROVE  Sound(N, E, h, s, t, [n \in N |-> IF n = s THEN 0 ELSE INF],
                 [n \in N |-> NONE], {}, {<<h[s], s>>})
  <1>1. Cardinality({}) = 0
    BY FS_EmptySet
  <1> DEFINE g == [n \in N |-> IF n = s THEN 0 ELSE INF]
             par == [n \in N |-> NONE]
             Q == {<<h[s], s>>}
  <1>2. s \in N /\ h[s] \in Nat
    BY DEF Graph
  <1>3. /\ g \in [N -> Nat] /\ par \in [N -> N \cup {NONE}] /\ g[s] = 0 /\ par[s] = NONE
        /\ \A n \in N : n # s => g[n] = INF
    BY <1>2, InfNat
  <1>4. /\ Q \subseteq Nat \X N
        /\ \A c \in Q : c = <<h[s], s>> /\ c[1] = h[s] /\ c[2] = s
        /\ <<h[s], s>> \in Q
    BY <1>2
  <1> HIDE DEF g, par, Q
  <1>5. Ways(N, E, s, g, par, {})
    BY <1>1, <1>2, <1>3 DEF Ways
  <1>6. Queued(N, h, g, {}, Q)
    <2>1. \A n \in N : n \notin {} /\ g[n] # INF => <<g[n] + h[n], n>> \in Q
      <3> SUFFICES ASSUME NEW n \in N, g[n] # INF PROVE <<g[n] + h[n], n>> \in Q
        OBVIOUS
      <3>1. n = s /\ g[n] + h[n] = h[s]
        BY <1>2, <1>3
      <3> QED BY <1>4, <3>1
    <2>2. \A c \in Q : g[c[2]] # INF /\ g[c[2]] + h[c[2]] <= c[1]
      BY <1>2, <1>3, <1>4, InfNat
    <2> QED BY <1>4, <2>1, <2>2 DEF Queued
  <1>7. Relaxed(N, E, t, g, {})
    BY DEF Relaxed
  <1>8. Sound(N, E, h, s, t, g, par, {}, Q)
    BY <1>5, <1>6, <1>7 DEF Sound
  <1> QED BY <1>8 DEF g, par, Q

\* The node taken from pq is not worth more than what is left.
LEMMA Cheapest ==
    ASSUME NEW N, NEW E, NEW h, NEW s, NEW t, Graph(N, E, h, s, t),
           NEW g, NEW par, NEW C, NEW Q, Sound(N, E, h, s, t, g, par, C, Q),
           NEW c \in Q, \A d \in Q : c[1] <= d[1]
    PROVE  /\ c[2] \in N /\ c[1] \in Nat /\ g[c[2]] # INF
           /\ c[2] \notin C => c[1] = g[c[2]] + h[c[2]] /\ g[c[2]] < INF - 1
  <1>1. c[2] \in N /\ c[1] \in Nat /\ g[c[2]] # INF /\ g[c[2]] + h[c[2]] <= c[1]
    BY DEF Sound, Queued
  <1>2. g[c[2]] \in Nat /\ h[c[2]] \in Nat
    BY <1>1 DEF Sound, Ways, Graph
  <1>3. ASSUME c[2] \notin C
        PROVE  c[1] = g[c[2]] + h[c[2]] /\ g[c[2]] < INF - 1
    <2>1. PICK d \in Q : d = <<g[c[2]] + h[c[2]], c[2]>>
      BY <1>1, <1>3 DEF Sound, Queued
    <2>2. c[1] <= d[1] /\ d[1] = g[c[2]] + h[c[2]]
      BY <2>1
    <2>3. g[c[2]] <= Cardinality(C) /\ C \subseteq N
      BY <1>1 DEF Sound, Ways
    <2>4. IsFiniteSet(N) /\ Cardinality(N) < INF /\ Cardinality(N) \in Nat
      BY FS_CardinalityType DEF Graph
    <2>5. IsFiniteSet(C) /\ Cardinality(C) \in Nat
      BY <2>3, <2>4, FS_Subset, FS_CardinalityType
    <2>6. /\ IsFiniteSet(C \cup {c[2]}) /\ Cardinality(C \cup {c[2]}) = Cardinality(C) + 1
      BY <1>3, <2>5, FS_AddElement
    <2>7. Cardinality(C \cup {c[2]}) <= Cardinality(N)
      BY <1>1, <2>3, <2>4, FS_Subset
    <2> QED BY <1>1, <1>2, <2>2, <2>3, <2>4, <2>5, <2>6, <2>7, InfNat
  <1> QED BY <1>1, <1>3

\* One more closed node: what depends on how many there are.
LEMMA MoreClosed ==
    ASSUME NEW N, IsFiniteSet(N), NEW C \in SUBSET N, NEW p \in N \ C
    PROVE  Cardinality(C) \in Nat /\ Cardinality(C \cup {p}) = Cardinality(C) + 1
  <1>1. IsFiniteSet(C) /\ Cardinality(C) \in Nat
    BY FS_Subset, FS_CardinalityType
  <1> QED BY <1>1, FS_AddElement

LEMMA SoundAfterSkip ==
    ASSUME NEW N, NEW E, NEW h, NEW s, NEW t, Graph(N, E, h, s, t),
           NEW g, NEW par, NEW C, NEW Q, Sound(N, E, h, s, t, g, par, C, Q),
           NEW c \in Q, c[2] \in C
    PROVE  Sound(N, E, h, s, t, g, par, C, Q \ {c})
  <1>1. Queued(N, h, g, C, Q \ {c})
    <2>1. ASSUME NEW n \in N, n \notin C, g[n] # INF PROVE <<g[n] + h[n], n>> \in Q \ {c}
      <3>1. <<g[n] + h[n], n>> \in Q
        BY <2>1 DEF Sound, Queued
      <3>2. <<g[n] + h[n], n>>[2] = n
        OBVIOUS
      <3> QED BY <2>1, <3>1, <3>2
    <2> QED BY <2>1 DEF Sound, Queued
  <1> QED BY <1>1 DEF Sound

LEMMA SoundAfterFound ==
    ASSUME NEW N, NEW E, NEW h, NEW s, NEW t, Graph(N, E, h, s, t),
           NEW g, NEW par, NEW C, NEW Q, Sound(N, E, h, s, t, g, par, C, Q),
           NEW c \in Q, \A d \in Q : c[1] <= d[1], c[2] \notin C, c[2] = t
    PROVE  Sound(N, E, h, s, t, g, par, C \cup {t}, Q \ {c})
  <1>1. t \in N /\ c[1] \in Nat /\ g[t] # INF /\ c[1] = g[t] + h[t]
    BY Cheapest
  <1>2. Cardinality(C) \in Nat /\ Cardinality(C \cup {t}) = Cardinality(C) + 1
    <2>1. IsFiniteSet(N) /\ C \in SUBSET N /\ t \in N \ C
      BY <1>1 DEF Graph, Sound, Ways
    <2> QED BY <2>1, MoreClosed
  <1>3. Ways(N, E, s, g, par, C \cup {t})
    <2>1. ASSUME NEW n \in N, g[n] # INF PROVE g[n] <= Cardinality(C \cup {t})
      <3>1. g[n] \in Nat /\ g[n] <= Cardinality(C)
        BY <2>1 DEF Sound, Ways
      <3> QED BY <1>2, <3>1
    <2> QED BY <1>1, <2>1 DEF Sound, Ways
  <1>4. Queued(N, h, g, C \cup {t}, Q \ {c})
    <2>1. ASSUME NEW n \in N, n \notin C \cup {t}, g[n] # INF
          PROVE  <<g[n] + h[n], n>> \in Q \ {c}
      <3>1. <<g[n] + h[n], n>> \in Q
        BY <2>1 DEF Sound, Queued
      <3>2. <<g[n] + h[n], n>>[2] = n
        OBVIOUS
      <3> QED BY <2>1, <3>1, <3>2
    <2>2. ASSUME NEW n \in C \cup {t}, NEW d \in Q \ {c} PROVE g[n] + h[n] <= d[1]
      <3>1. CASE n \in C
        BY <3>1 DEF Sound, Queued
      <3>2. CASE n = t
        BY <1>1, <3>2
      <3> QED BY <3>1, <3>2
    <2> QED BY <2>1, <2>2 DEF Sound, Queued
  <1>5. Relaxed(N, E, t, g, C \cup {t})
    BY DEF Sound, Relaxed
  <1> QED BY <1>3, <1>4, <1>5 DEF Sound

\* What closing p makes of g_cost, parent and pq: the nodes of B are reached
\* through p.
Cost(N, B, g, p) == [n \in N |-> IF n \in B THEN g[p] + 1 ELSE g[n]]
Via(N, B, par, p) == [n \in N |-> IF n \in B THEN p ELSE par[n]]
Fresh(B, g, h, p) == {<<g[p] + 1 + h[n], n>> : n \in B}

LEMMA SoundAfterExpand ==
    ASSUME NEW N, NEW E, NEW h, NEW s, NEW t, Graph(N, E, h, s, t),
           NEW g, NEW par, NEW C, NEW Q, Sound(N, E, h, s, t, g, par, C, Q),
           NEW c \in Q, \A d \in Q : c[1] <= d[1],
           NEW p, p = c[2], p \notin C, p # t,
           NEW B \in SUBSET N,
           \A n \in N : n \in B <=> <<p, n>> \in E /\ n \notin C /\ g[p] + 1 < g[n]
    PROVE  Sound(N, E, h, s, t, Cost(N, B, g, p), Via(N, B, par, p), C \cup {p},
                 (Q \ {c}) \cup Fresh(B, g, h, p))
  <1> DEFINE ng == g[p] + 1
             g2 == [n \in N |-> IF n \in B THEN ng ELSE g[n]]
             par2 == [n \in N |-> IF n \in B THEN p ELSE par[n]]
             C2 == C \cup {p}
             New == {<<ng + h[n], n>> : n \in B}
             Q2 == (Q \ {c}) \cup New
  <1>1. p \in N /\ c[1] \in Nat /\ g[p] # INF /\ c[1] = g[p] + h[p] /\ g[p] < INF - 1
    BY Cheapest
  <1>2. /\ g \in [N -> Nat] /\ par \in [N -> N \cup {NONE}] /\ C \subseteq N
        /\ h \in [N -> Nat]
        /\ g[s] = 0 /\ par[s] = NONE /\ s \in N
    BY DEF Graph, Sound, Ways
  <1>3. ng \in Nat /\ ng < INF /\ ng # 0 /\ g[p] \in Nat
    BY <1>1, <1>2, InfNat
  <1>4. Cardinality(C) \in Nat /\ Cardinality(C2) = Cardinality(C) + 1
    <2>1. IsFiniteSet(N) /\ C \in SUBSET N /\ p \in N \ C
      BY <1>1, <1>2 DEF Graph
    <2> QED BY <2>1, MoreClosed
  <1>5. /\ B \subseteq N /\ s \notin B /\ p \notin B
        /\ \A n \in B : <<p, n>> \in E /\ n \notin C /\ ng < g[n]
    <2>1. ~(ng < g[s]) /\ ~(ng < g[p])
      BY <1>2, <1>3
    <2>2. \A n \in B : n \in N /\ <<p, n>> \in E /\ n \notin C /\ ng < g[n]
      OBVIOUS
    <2> QED BY <1>1, <1>2, <2>1, <2>2, Zenon
  <1>6. /\ g2 \in [N -> Nat] /\ par2 \in [N -> N \cup {NONE}] /\ C2 \subseteq N
        /\ g2[s] = 0 /\ par2[s] = NONE
        /\ \A n \in N : /\ n \in B => g2[n] = ng /\ par2[n] = p
                        /\ n \notin B => g2[n] = g[n] /\ par2[n] = par[n]
    BY <1>1, <1>2, <1>3, <1>5
  <1>7. /\ \A n \in B : <<ng + h[n], n>> \in New
        /\ \A d \in New : \E n \in B : d = <<ng + h[n], n>> /\ d[1] = ng + h[n] /\ d[2] = n
    <2> HIDE DEF ng
    <2> QED OBVIOUS
  <1>8. \A n \in C2 : n \notin B /\ g2[n] = g[n] /\ par2[n] = par[n] /\ g[n] # INF
    <2>1. \A n \in C : g[n] # INF
      BY DEF Sound, Ways
    <2> HIDE DEF g2, par2
    <2> QED BY <1>1, <1>5, <1>6, <2>1
  <1> HIDE DEF g2, par2, ng, New
  <1>9. ng = g[p] + 1
    BY DEF ng
  <1>10. \A n \in C : g[n] + h[n] <= c[1]
    BY DEF Sound, Queued
  \* What a closed node costs is never more than what the new node costs.
  <1>11. ASSUME NEW n \in N PROVE g2[n] <= g[n] /\ (g[n] # INF => g2[n] # INF)
    <2>1. g[n] \in Nat
      BY <1>2
    <2>2. CASE n \in B
      <3>1. g2[n] = ng /\ ng < g[n]
        BY <1>5, <1>6, <2>2
      <3> QED BY <1>3, <2>1, <3>1
    <2>3. CASE n \notin B
      <3>1. g2[n] = g[n]
        BY <1>6, <2>3
      <3> QED BY <2>1, <3>1
    <2> QED BY <2>2, <2>3
  <1>12. Ways(N, E, s, g2, par2, C2)
    <2>1. ASSUME NEW n \in N, n # s, g2[n] # INF
          PROVE  par2[n] \in C2 /\ g2[n] = g2[par2[n]] + 1 /\ <<par2[n], n>> \in E
      <3>1. CASE n \in B
        <4>1. par2[n] = p /\ g2[n] = ng /\ g2[p] = g[p] /\ <<p, n>> \in E
          BY <1>1, <1>5, <1>6, <3>1
        <4> QED BY <1>9, <4>1
      <3>2. CASE n \notin B
        <4>1. g2[n] = g[n] /\ par2[n] = par[n]
          BY <1>6, <3>2
        <4>2. par[n] \in C /\ g[n] = g[par[n]] + 1 /\ <<par[n], n>> \in E
          BY <2>1, <4>1 DEF Sound, Ways
        <4>3. g2[par[n]] = g[par[n]]
          BY <1>8, <4>2
        <4> QED BY <4>1, <4>2, <4>3
      <3> QED BY <3>1, <3>2
    <2>2. ASSUME NEW n \in N, g2[n] # INF PROVE g2[n] <= Cardinality(C2)
      <3>1. g[p] <= Cardinality(C)
        BY <1>1 DEF Sound, Ways
      <3>2. CASE n \in B
        BY <1>3, <1>4, <1>6, <1>9, <3>1, <3>2
      <3>3. CASE n \notin B
        <4>1. g2[n] = g[n] /\ g[n] \in Nat /\ g[n] <= Cardinality(C)
          BY <1>2, <1>6, <2>2, <3>3 DEF Sound, Ways
        <4> QED BY <1>4, <4>1
      <3> QED BY <3>2, <3>3
    <2>3. \A n \in C2 : g2[n] # INF
      BY <1>8
    <2> HIDE DEF C2
    <2> QED BY <1>6, <2>1, <2>2, <2>3 DEF Ways
  <1>13. Queued(N, h, g2, C2, Q2)
    <2>1. Q2 \subseteq Nat \X N
      <3>1. New \subseteq Nat \X N
        <4> SUFFICES ASSUME NEW d \in New PROVE d \in Nat \X N
          OBVIOUS
        <4>1. PICK n \in B : d = <<ng + h[n], n>>
          BY <1>7
        <4>2. n \in N /\ ng + h[n] \in Nat
          BY <1>2, <1>3, <1>5
        <4> QED BY <4>1, <4>2
      <3>2. Q \subseteq Nat \X N
        BY DEF Sound, Queued
      <3> QED BY <3>1, <3>2
    <2>2. ASSUME NEW d \in Q2 PROVE g2[d[2]] # INF /\ g2[d[2]] + h[d[2]] <= d[1]
      <3>1. CASE d \in New
        <4>1. PICK n \in B : d[1] = ng + h[n] /\ d[2] = n
          BY <1>7, <3>1
        <4> QED BY <1>2, <1>3, <1>5, <1>6, <4>1
      <3>2. CASE d \in Q
        <4>1. d[2] \in N /\ d[1] \in Nat /\ g[d[2]] # INF /\ g[d[2]] + h[d[2]] <= d[1]
          BY <3>2 DEF Sound, Queued
        <4>2. g2[d[2]] <= g[d[2]] /\ g2[d[2]] # INF /\ g2[d[2]] \in Nat
          BY <1>6, <1>11, <4>1
        <4> QED BY <1>2, <4>1, <4>2
      <3> QED BY <3>1, <3>2
    <2>3. ASSUME NEW n \in N, n \notin C2, g2[n] # INF PROVE <<g2[n] + h[n], n>> \in Q2
      <3>1. CASE n \in B
        BY <1>6, <1>7, <3>1
      <3>2. CASE n \notin B
        <4>1. g2[n] = g[n] /\ g[n] # INF /\ n \notin C /\ n # p
          BY <1>6, <2>3, <3>2
        <4>2. <<g[n] + h[n], n>> \in Q
          BY <4>1 DEF Sound, Queued
        <4>3. <<g[n] + h[n], n>>[2] = n
          OBVIOUS
        <4>4. <<g[n] + h[n], n>> # c
          BY <4>1, <4>3
        <4> QED BY <4>1, <4>2, <4>4
      <3> QED BY <3>1, <3>2
    <2>4. ASSUME NEW n \in C2, NEW d \in Q2 PROVE g2[n] + h[n] <= d[1]
      <3>1. g2[n] = g[n] /\ n \in N /\ g[n] \in Nat /\ h[n] \in Nat
        BY <1>1, <1>2, <1>8
      <3>2. g[n] + h[n] <= c[1]
        BY <1>1, <1>10
      <3>3. d[1] \in Nat /\ c[1] <= d[1]
        <4>1. CASE d \in Q
          BY <2>1, <4>1
        <4>2. CASE d \in New
          <5>1. PICK m \in B : d[1] = ng + h[m]
            BY <1>7, <4>2
          <5>2. h[p] <= h[m] + 1 /\ h[m] \in Nat /\ h[p] \in Nat
            BY <1>1, <1>2, <1>5 DEF Graph
          <5> QED BY <1>1, <1>3, <1>9, <5>1, <5>2
        <4> QED BY <4>1, <4>2
      <3> QED BY <1>1, <3>1, <3>2, <3>3
    <2> HIDE DEF C2, Q2
    <2> QED BY <2>1, <2>2, <2>3, <2>4 DEF Queued
  <1>14. Relaxed(N, E, t, g2, C2)
    <2> SUFFICES ASSUME NEW q \in N, NEW n \in N, q \in C2, q # t, <<q, n>> \in E
                 PROVE  g2[n] # INF /\ g2[n] <= g2[q] + 1
      BY DEF Relaxed
    <2>1. g2[q] = g[q] /\ g[q] \in Nat
      BY <1>2, <1>8
    <2>2. CASE q \in C
      <3>1. g[n] # INF /\ g[n] <= g[q] + 1 /\ g[n] \in Nat
        BY <1>2, <2>2 DEF Sound, Relaxed
      <3>2. g2[n] <= g[n] /\ g2[n] # INF /\ g2[n] \in Nat
        BY <1>6, <1>11, <3>1
      <3> QED BY <2>1, <3>1, <3>2
    <2>3. CASE q = p
      <3>1. CASE n \in B
        BY <1>3, <1>6, <1>9, <2>1, <2>3, <3>1
      <3>2. CASE n \in C
        <4>1. g[n] + h[n] <= c[1] /\ g[n] # INF /\ g2[n] = g[n]
          BY <1>8, <1>10, <3>2
        <4>2. h[p] <= h[n] + 1 /\ h[n] \in Nat /\ h[p] \in Nat /\ g[n] \in Nat
          BY <1>1, <1>2, <2>3 DEF Graph
        <4> QED BY <1>1, <1>3, <2>1, <2>3, <4>1, <4>2
      <3>3. CASE n \notin B /\ n \notin C
        <4>1. ~(g[p] + 1 < g[n])
          BY <2>3, <3>3
        <4> QED BY <1>1, <1>2, <1>3, <1>6, <1>9, <2>1, <2>3, <3>3, <4>1
      <3> QED BY <3>1, <3>2, <3>3
    <2> QED BY <2>2, <2>3
  <1> HIDE DEF C2, Q2
  <1>15. Sound(N, E, h, s, t, g2, par2, C2, Q2)
    BY <1>12, <1>13, <1>14 DEF Sound
  <1> QED BY <1>15, Zenon DEF g2, par2, C2, Q2, ng, New, Cost, Via, Fresh

\* L[k] are the nodes from which the target is reached in at most k steps.
Layers(N, E, t, L) ==
    /\ L \in [Nat -> SUBSET N] /\ L[0] \subseteq {t}
    /\ \A k \in Nat : \A n \in L[k + 1] : n \in L[k] \/ \E u \in L[k] : <<n, u>> \in E

LEMMA EstimateIsLow ==
    ASSUME NEW N, NEW E, NEW h, NEW s, NEW t, Graph(N, E, h, s, t),
           NEW L, Layers(N, E, t, L)
    PROVE  \A k \in Nat : \A n \in L[k] : h[n] <= k
  <1> DEFINE T == {k \in Nat : \A n \in L[k] : h[n] <= k}
  <1>1. 0 \in T
    BY DEF Layers, Graph
  <1>2. ASSUME NEW k \in Nat, k \in T PROVE k + 1 \in T
    <2> SUFFICES ASSUME NEW n \in L[k + 1] PROVE h[n] <= k + 1
      OBVIOUS
    <2>1. k + 1 \in Nat /\ n \in N /\ h[n] \in Nat
      BY DEF Layers, Graph
    <2>2. CASE n \in L[k]
      BY <1>2, <2>1, <2>2
    <2>3. CASE \E u \in L[k] : <<n, u>> \in E
      <3>1. PICK u \in L[k] : <<n, u>> \in E
        BY <2>3
      <3>2. u \in N /\ h[u] \in Nat /\ h[u] <= k
        BY <1>2 DEF Layers, Graph
      <3>3. h[n] <= h[u] + 1
        BY <2>1, <3>1, <3>2 DEF Graph
      <3> QED BY <2>1, <3>2, <3>3
    <2> QED BY <2>2, <2>3 DEF Layers
  <1>3. \A k \in Nat : k \in T
    <2> HIDE DEF T
    <2> QED BY <1>1, <1>2, Induction
  <1> QED BY <1>3

\* When the target is closed, no way through a node that was reached is
\* shorter than the one found.
LEMMA FoundIsShortest ==
    ASSUME NEW N, NEW E, NEW h, NEW s, NEW t, Graph(N, E, h, s, t),
           NEW g, NEW par, NEW C, NEW Q, Sound(N, E, h, s, t, g, par, C, Q),
           NEW L, Layers(N, E, t, L), t \in C
    PROVE  /\ g[t] \in Nat
           /\ \A k \in Nat : \A n \in L[k] : <<s, n>> \in E => g[t] <= k + 1
  <1>1. /\ g \in [N -> Nat] /\ h \in [N -> Nat] /\ C \subseteq N /\ s \in N /\ t \in N /\ s # t
        /\ g[s] = 0 /\ h[t] = 0
    BY DEF Graph, Sound, Ways
  <1>2. \A k \in Nat : \A n \in L[k] : n \in N /\ h[n] <= k
    BY EstimateIsLow DEF Layers
  \* A node that waits costs, with its estimate, no less than the target.
  <1>3. ASSUME NEW n \in N, n \notin C, g[n] # INF PROVE g[t] <= g[n] + h[n]
    <2>1. PICK d \in Q : d = <<g[n] + h[n], n>>
      BY <1>3 DEF Sound, Queued
    <2>2. g[t] + h[t] <= d[1] /\ d[1] = g[n] + h[n]
      BY <2>1 DEF Sound, Queued
    <2> QED BY <1>1, <2>2
  <1> DEFINE T == {k \in Nat : \A n \in L[k] : g[n] # INF => g[t] <= g[n] + k}
  <1>4. 0 \in T
    BY <1>1 DEF Layers
  <1>5. ASSUME NEW k \in Nat, k \in T PROVE k + 1 \in T
    <2> SUFFICES ASSUME NEW n \in L[k + 1], g[n] # INF PROVE g[t] <= g[n] + (k + 1)
      OBVIOUS
    <2>1. n \in N /\ g[n] \in Nat /\ h[n] \in Nat /\ h[n] <= k + 1 /\ g[t] \in Nat
      BY <1>1, <1>2
    <2>2. CASE n \in L[k]
      BY <1>5, <2>1, <2>2
    <2>3. CASE \E u \in L[k] : <<n, u>> \in E
      <3>1. PICK u \in L[k] : <<n, u>> \in E
        BY <2>3
      <3>2. CASE n = t
        BY <2>1, <3>2
      <3>3. CASE n \in C /\ n # t
        <4>1. u \in N /\ g[u] \in Nat
          BY <1>1, <1>2
        <4>2. g[u] # INF /\ g[u] <= g[n] + 1
          BY <2>1, <3>1, <3>3, <4>1 DEF Sound, Relaxed
        <4>3. g[t] <= g[u] + k
          BY <1>5, <4>2
        <4> QED BY <2>1, <4>1, <4>2, <4>3
      <3>4. CASE n \notin C
        <4>1. g[t] <= g[n] + h[n]
          BY <1>3, <2>1, <3>4
        <4> QED BY <2>1, <4>1
      <3> QED BY <3>2, <3>3, <3>4
    <2> QED BY <2>2, <2>3 DEF Layers
  <1>6. \A k \in Nat : k \in T
    <2> HIDE DEF T
    <2> QED BY <1>4, <1>5, Induction
  <1>7. ASSUME NEW k \in Nat, NEW n \in L[k], <<s, n>> \in E PROVE g[t] <= k + 1
    <2>1. n \in N /\ h[n] \in Nat /\ h[n] <= k /\ g[n] \in Nat /\ g[t] \in Nat /\ h[s] \in Nat
      BY <1>1, <1>2
    <2>2. CASE s \in C
      <3>1. g[n] # INF /\ g[n] <= g[s] + 1
        BY <1>1, <1>7, <2>1, <2>2 DEF Sound, Relaxed
      <3>2. g[t] <= g[n] + k
        BY <1>6, <3>1
      <3> QED BY <1>1, <2>1, <3>1, <3>2
    <2>3. CASE s \notin C
      <3>1. g[t] <= g[s] + h[s]
        BY <1>1, <1>3, <2>3, InfNat
      <3>2. h[s] <= h[n] + 1
        BY <1>1, <1>7, <2>1 DEF Graph
      <3> QED BY <1>1, <2>1, <3>1, <3>2
    <2> QED BY <2>2, <2>3
  <1> QED BY <1>1, <1>7

\* When pq is empty and the target was not closed, there is no way to it.
LEMMA NothingLeft ==
    ASSUME NEW N, NEW E, NEW h, NEW s, NEW t, Graph(N, E, h, s, t),
           NEW g, NEW par, NEW C, Sound(N, E, h, s, t, g, par, C, {}),
           NEW L, Layers(N, E, t, L), t \notin C
    PROVE  \A k \in Nat : \A n \in L[k] : <<s, n>> \notin E
  <1>1. s \in N /\ t \in N /\ s # t /\ g[s] = 0
    BY DEF Graph, Sound, Ways
  <1>2. \A n \in N : g[n] # INF => n \in C
    BY DEF Sound, Queued
  <1>3. \A n, u \in N : n \in C /\ <<n, u>> \in E => u \in C
    BY <1>2 DEF Sound, Relaxed
  <1> DEFINE T == {k \in Nat : \A n \in L[k] : n \notin C}
  <1>4. 0 \in T
    BY DEF Layers
  <1>5. ASSUME NEW k \in Nat, k \in T PROVE k + 1 \in T
    <2> SUFFICES ASSUME NEW n \in L[k + 1] PROVE n \notin C
      OBVIOUS
    <2>1. n \in N
      BY DEF Layers
    <2>2. CASE n \in L[k]
      BY <1>5, <2>2
    <2>3. CASE \E u \in L[k] : <<n, u>> \in E
      <3>1. PICK u \in L[k] : <<n, u>> \in E
        BY <2>3
      <3>2. u \in N /\ u \notin C
        BY <1>5 DEF Layers
      <3> QED BY <1>3, <2>1, <3>1, <3>2
    <2> QED BY <2>2, <2>3 DEF Layers
  <1>6. \A k \in Nat : k \in T
    <2> HIDE DEF T
    <2> QED BY <1>4, <1>5, Induction
  <1>7. s \in C
    BY <1>1, <1>2, InfNat
  <1>8. ASSUME NEW k \in Nat, NEW n \in L[k] PROVE <<s, n>> \notin E
    <2>1. n \in N /\ n \notin C
      BY <1>6 DEF Layers
    <2> QED BY <1>1, <1>3, <1>7, <2>1
  <1> QED BY <1>8

\* One step back on the way to a node.
LEMMA OneStepBack ==
    ASSUME NEW N, NEW E, NEW h, NEW s, NEW t, Graph(N, E, h, s, t),
           NEW g, NEW par, NEW C, NEW Q, Sound(N, E, h, s, t, g, par, C, Q),
           NEW n \in N, n # s, g[n] # INF
    PROVE  /\ par[n] \in N /\ par[n] # NONE /\ <<par[n], n>> \in E
           /\ g[par[n]] # INF /\ g[par[n]] \in Nat /\ g[n] = g[par[n]] + 1
  <1>1. par[n] \in C /\ g[n] = g[par[n]] + 1 /\ <<par[n], n>> \in E /\ C \subseteq N
    BY DEF Sound, Ways
  <1>2. g[par[n]] # INF /\ g[par[n]] \in Nat
    BY <1>1 DEF Sound, Ways
  <1>3. par[n] \in Nat
    BY <1>1 DEF Graph
  <1> QED BY <1>1, <1>2, <1>3 DEF NONE
-----------------------------------------------------------------------------
(* The box of a search: its tiles, their nodes, and the steps between them. *)

Beside(t, u) == \E d \in Grid!DIRECTION : Grid!Neighbour(t, d) = u

\* One step changes one coordinate by one.
LEMMA BesideIs ==
    ASSUME NEW t \in Int \X Int, NEW u \in Int \X Int
    PROVE  Beside(t, u) <=> \/ u[1] = t[1] /\ (u[2] = t[2] - 1 \/ u[2] = t[2] + 1)
                            \/ u[2] = t[2] /\ (u[1] = t[1] - 1 \/ u[1] = t[1] + 1)
  <1>1. /\ Grid!Neighbour(t, "UP") = <<t[1], t[2] - 1>>
        /\ Grid!Neighbour(t, "DOWN") = <<t[1], t[2] + 1>>
        /\ Grid!Neighbour(t, "LEFT") = <<t[1] - 1, t[2]>>
        /\ Grid!Neighbour(t, "RIGHT") = <<t[1] + 1, t[2]>>
    BY DEF Grid!Neighbour
  <1>2. Grid!DIRECTION = {"UP", "DOWN", "LEFT", "RIGHT"}
    BY DEF Grid!DIRECTION
  <1>3. Beside(t, u) <=> u \in {<<t[1], t[2] - 1>>, <<t[1], t[2] + 1>>,
                                <<t[1] - 1, t[2]>>, <<t[1] + 1, t[2]>>}
    BY <1>1, <1>2, Zenon DEF Beside
  <1>4. \A a, b \in Int : u = <<a, b>> <=> u[1] = a /\ u[2] = b
    OBVIOUS
  <1>5. t[1] \in Int /\ t[2] \in Int /\ t[1] - 1 \in Int /\ t[1] + 1 \in Int
        /\ t[2] - 1 \in Int /\ t[2] + 1 \in Int
    OBVIOUS
  <1> QED BY <1>3, <1>4, <1>5, SMTT(30)

LEMMA BesideBoth ==
    ASSUME NEW t \in Int \X Int, NEW u \in Int \X Int, Beside(t, u)
    PROVE  Beside(u, t)
  BY BesideIs

LEMMA BoxFacts ==
    ASSUME from \in Grid!Tiles, to \in Grid!Tiles
    PROVE  /\ {x0, y0, x1, y1} \subseteq Nat
           /\ W \in Nat \ {0} /\ H \in Nat \ {0}
           /\ W <= WORLD_WIDTH /\ H <= WORLD_HEIGHT
           /\ x1 = x0 + W - 1 /\ y1 = y0 + H - 1
           /\ from \in Box /\ to \in Box
           /\ Box \subseteq Int \X Int
  <1>1. PICK fx \in 0 .. WORLD_WIDTH - 1, fy \in 0 .. WORLD_HEIGHT - 1 : from = <<fx, fy>>
    BY DEF Grid!Tiles
  <1>2. PICK tx \in 0 .. WORLD_WIDTH - 1, ty \in 0 .. WORLD_HEIGHT - 1 : to = <<tx, ty>>
    BY DEF Grid!Tiles
  <1>3. /\ WORLD_WIDTH \in Nat \ {0} /\ WORLD_HEIGHT \in Nat \ {0} /\ MARGIN \in Nat
    BY WorldAssumption
  <1>4. /\ from[1] = fx /\ from[2] = fy /\ to[1] = tx /\ to[2] = ty
    BY <1>1, <1>2
  <1>5. x0 \in Nat /\ x1 \in Nat /\ x0 <= fx /\ x0 <= tx /\ fx <= x1 /\ tx <= x1 /\ x1 < WORLD_WIDTH
    BY <1>3, <1>4 DEF x0, x1, Least, Most
  <1>6. y0 \in Nat /\ y1 \in Nat /\ y0 <= fy /\ y0 <= ty /\ fy <= y1 /\ ty <= y1 /\ y1 < WORLD_HEIGHT
    BY <1>3, <1>4 DEF y0, y1, Least, Most
  <1>7. from \in Box /\ to \in Box /\ Box \subseteq Int \X Int
    BY <1>1, <1>2, <1>5, <1>6 DEF Box
  <1> QED BY <1>3, <1>5, <1>6, <1>7 DEF W, H

\* The nodes are the tiles of the box.
LEMMA NodesAreTiles ==
    ASSUME from \in Grid!Tiles, to \in Grid!Tiles
    PROVE  /\ \A n \in Nodes : tile(n) \in Box /\ idx(tile(n)) = n
           /\ \A t \in Box : idx(t) \in Nodes /\ tile(idx(t)) = t
  <1>1. PICK a \in Nat, b \in Nat : a = x0 /\ b = y0
    BY BoxFacts
  <1>2. PICK w \in Nat \ {0}, h \in Nat \ {0} : w = W /\ h = H
    BY BoxFacts
  <1>3. Nodes = 0 .. w * h - 1 /\ Box = (a .. a + w - 1) \X (b .. b + h - 1)
    BY <1>1, <1>2, BoxFacts DEF Nodes, Box
  <1>4. \A n : tile(n) = <<(n % w) + a, (n \div w) + b>>
    BY <1>1, <1>2 DEF tile
  <1>5. \A t : idx(t) = (t[2] - b) * w + (t[1] - a)
    BY <1>1, <1>2 DEF idx
  <1>6. ASSUME NEW n \in Nodes PROVE tile(n) \in Box /\ idx(tile(n)) = n
    <2>1. PICK i \in 0 .. w - 1, j \in 0 .. h - 1 : i = n % w /\ j = n \div w /\ j * w + i = n
      BY <1>3, IndexInverse
    <2>2. tile(n) = <<i + a, j + b>>
      BY <1>4, <2>1, Zenon
    <2>3. i + a \in a .. a + w - 1 /\ j + b \in b .. b + h - 1 /\ (i + a) - a = i /\ (j + b) - b = j
      OBVIOUS
    <2>4. tile(n)[1] = i + a /\ tile(n)[2] = j + b
      BY <2>2
    <2>5. idx(tile(n)) = j * w + i
      BY <1>5, <2>3, <2>4, Zenon
    <2>6. tile(n) \in Box
      BY <1>3, <2>2, <2>3
    <2> QED BY <2>1, <2>5, <2>6
  <1>7. ASSUME NEW t \in Box PROVE idx(t) \in Nodes /\ tile(idx(t)) = t
    <2>1. PICK i \in 0 .. w - 1, j \in 0 .. h - 1 : t = <<i + a, j + b>>
      <3>1. /\ t[1] \in a .. a + w - 1 /\ t[2] \in b .. b + h - 1 /\ t = <<t[1], t[2]>>
        BY <1>3
      <3>2. t[1] - a \in 0 .. w - 1 /\ t[2] - b \in 0 .. h - 1
            /\ (t[1] - a) + a = t[1] /\ (t[2] - b) + b = t[2]
        BY <3>1
      <3> QED BY <3>1, <3>2
    <2>2. t[1] - a = i /\ t[2] - b = j
      BY <2>1
    <2>3. idx(t) = j * w + i
      BY <1>5, <2>2, Zenon
    <2>4. PICK n \in 0 .. w * h - 1 : n = j * w + i /\ n % w = i /\ n \div w = j
      BY IndexInverse
    <2>5. tile(n) = <<i + a, j + b>>
      BY <1>4, <2>4, Zenon
    <2> QED BY <1>3, <2>1, <2>3, <2>4, <2>5
  <1> QED BY <1>6, <1>7

\* A step to a free tile of the box, and the estimates.
Edges == { e \in Nodes \X Nodes : /\ Beside(tile(e[1]), tile(e[2]))
                                  /\ ~Grid!is_obstacle(tile(e[2])) }
Estimates == [n \in Nodes |-> Estimate(n)]

LEMMA EdgeIs ==
    ASSUME NEW p \in Nodes, NEW n \in Nodes
    PROVE  <<p, n>> \in Edges <=> Beside(tile(p), tile(n)) /\ ~Grid!is_obstacle(tile(n))
  <1>1. <<p, n>> \in Nodes \X Nodes /\ <<p, n>>[1] = p /\ <<p, n>>[2] = n
    OBVIOUS
  <1> QED BY <1>1, Zenon DEF Edges

LEMMA SearchGraph ==
    ASSUME from \in Grid!Tiles, to \in Grid!Tiles, from # to
    PROVE  Graph(Nodes, Edges, Estimates, idx(from), idx(to))
  <1>1. IsFiniteSet(Nodes) /\ Cardinality(Nodes) < INF /\ Nodes \subseteq Nat
    <2>1. PICK w \in Nat \ {0}, h \in Nat \ {0} :
              w = W /\ h = H /\ w <= WORLD_WIDTH /\ h <= WORLD_HEIGHT
      BY BoxFacts
    <2>2. Nodes = 0 .. w * h - 1 /\ w * h \in Nat
      BY <2>1 DEF Nodes
    <2>3. IsFiniteSet(0 .. w * h - 1) /\ Cardinality(0 .. w * h - 1) = w * h
      <3>1. 0 \in Int /\ w * h - 1 \in Int
        BY <2>2
      <3>2. /\ IsFiniteSet(0 .. w * h - 1)
            /\ Cardinality(0 .. w * h - 1) = IF 0 > w * h - 1 THEN 0 ELSE w * h - 1 - 0 + 1
        BY <3>1, FS_Interval
      <3> QED BY <2>2, <3>2
    <2>4. w * h <= WORLD_WIDTH * WORLD_HEIGHT
      <3>1. WORLD_WIDTH \in Nat /\ WORLD_HEIGHT \in Nat
        BY WorldAssumption
      <3>2. w * h <= WORLD_WIDTH * h
        BY <2>1, <3>1
      <3>3. WORLD_WIDTH * h <= WORLD_WIDTH * WORLD_HEIGHT
        BY <2>1, <3>1
      <3>4. WORLD_WIDTH * WORLD_HEIGHT \in Nat /\ WORLD_WIDTH * h \in Nat
        BY <3>1
      <3> QED BY <2>2, <3>2, <3>3, <3>4
    <2>5. WORLD_WIDTH * WORLD_HEIGHT \in Nat
      BY WorldAssumption
    <2> QED BY <2>2, <2>3, <2>4, <2>5, CostAssumption, InfNat
  <1>2. idx(from) \in Nodes /\ idx(to) \in Nodes /\ idx(from) # idx(to) /\ tile(idx(to)) = to
    BY NodesAreTiles, BoxFacts
  <1>3. \A n \in Nodes : tile(n) \in Int \X Int
    BY NodesAreTiles, BoxFacts
  <1>4. to \in Int \X Int
    BY BoxFacts
  <1>5. \A i \in Int : Grid!Abs(i) \in Nat /\ Grid!Abs(i) = IF i < 0 THEN -i ELSE i
    BY DEF Grid!Abs
  <1>6. \A n \in Nodes : /\ Estimates[n] \in Nat
                         /\ Estimates[n] = Grid!Abs(tile(n)[1] - to[1]) + Grid!Abs(tile(n)[2] - to[2])
    <2> SUFFICES ASSUME NEW n \in Nodes
                 PROVE  /\ Estimates[n] \in Nat
                        /\ Estimates[n] = Grid!Abs(tile(n)[1] - to[1]) + Grid!Abs(tile(n)[2] - to[2])
      OBVIOUS
    <2>1. Estimates[n] = Grid!Abs(tile(n)[1] - to[1]) + Grid!Abs(tile(n)[2] - to[2])
      BY DEF Estimates, Estimate
    <2>2. tile(n)[1] - to[1] \in Int /\ tile(n)[2] - to[2] \in Int
      BY <1>3, <1>4
    <2> QED BY <1>5, <2>1, <2>2
  <1>7. Estimates[idx(to)] = 0
    <2>1. Estimates[idx(to)] = Grid!Abs(to[1] - to[1]) + Grid!Abs(to[2] - to[2])
      BY <1>2, <1>6
    <2>2. to[1] - to[1] = 0 /\ to[2] - to[2] = 0
      BY <1>4
    <2> QED BY <1>5, <2>1, <2>2
  <1>8. ASSUME NEW p \in Nodes, NEW n \in Nodes, <<p, n>> \in Edges
        PROVE  Estimates[p] <= Estimates[n] + 1 /\ Estimates[n] <= Estimates[p] + 1
    <2>1. Beside(tile(p), tile(n))
      BY <1>8, EdgeIs
    <2>2. PICK a \in Int, b \in Int : tile(p) = <<a, b>>
      BY <1>3
    <2>3. PICK c \in Int, d \in Int : tile(n) = <<c, d>>
      BY <1>3
    <2>4. PICK u \in Int, v \in Int : to = <<u, v>>
      BY <1>4
    <2>5. \/ c = a /\ (d = b - 1 \/ d = b + 1)
          \/ d = b /\ (c = a - 1 \/ c = a + 1)
      <3>1. tile(p) \in Int \X Int /\ tile(n) \in Int \X Int
        BY <1>3
      <3>2. tile(p)[1] = a /\ tile(p)[2] = b /\ tile(n)[1] = c /\ tile(n)[2] = d
        BY <2>2, <2>3
      <3> QED BY <2>1, <3>1, <3>2, BesideIs, Zenon
    <2>6. Estimates[p] = Grid!Abs(a - u) + Grid!Abs(b - v)
      BY <1>6, <2>2, <2>4
    <2>7. Estimates[n] = Grid!Abs(c - u) + Grid!Abs(d - v)
      BY <1>6, <2>3, <2>4
    <2> QED BY <1>5, <2>5, <2>6, <2>7
  <1>9. Estimates \in [Nodes -> Nat] /\ Edges \subseteq Nodes \X Nodes
    BY <1>6 DEF Estimates, Edges
  <1> QED BY <1>1, <1>2, <1>7, <1>8, <1>9 DEF Graph
-----------------------------------------------------------------------------
(* The tiles from which the target is reached in 0, 1, 2 ... steps.        *)

Target == { t \in {to} : ~Grid!is_obstacle(t) }
Grown == Iterates(SUBSET Box, [S \in SUBSET Box |-> Grow(S)], Target)

LEMMA GrownIs ==
    ASSUME from \in Grid!Tiles, to \in Grid!Tiles
    PROVE  /\ Grown # {}
           /\ \A L \in Grown :
                 /\ L \in [Nat -> SUBSET Box] /\ L[0] = Target
                 /\ \A k \in Nat : L[k + 1] = Grow(L[k])
                 /\ \A k \in Nat : \A t \in L[k] : ~Grid!is_obstacle(t)
                 /\ \A k \in Nat : L[k] \subseteq L[k + 1]
  <1> DEFINE G == [S \in SUBSET Box |-> Grow(S)]
  <1>1. Target \in SUBSET Box
    BY BoxFacts DEF Target
  <1>2. \A S \in SUBSET Box : Grow(S) \in SUBSET Box
    BY DEF Grow
  <1>3. G \in [SUBSET Box -> SUBSET Box] /\ \A S \in SUBSET Box : G[S] = Grow(S)
    BY <1>2
  <1>4. Grown = Iterates(SUBSET Box, G, Target)
    BY DEF Grown
  <1> HIDE DEF G
  <1>5. Grown # {}
    BY <1>1, <1>3, <1>4, IteratesExist
  <1>6. ASSUME NEW L \in Grown
        PROVE  /\ L \in [Nat -> SUBSET Box] /\ L[0] = Target
               /\ \A k \in Nat : L[k + 1] = Grow(L[k])
               /\ \A k \in Nat : \A t \in L[k] : ~Grid!is_obstacle(t)
               /\ \A k \in Nat : L[k] \subseteq L[k + 1]
    <2>1. /\ L \in [Nat -> SUBSET Box] /\ L[0] = Target
          /\ \A k \in Nat : L[k + 1] = G[L[k]]
      BY <1>4, Zenon DEF Iterates
    <2>2. \A k \in Nat : L[k] \in SUBSET Box /\ L[k + 1] = Grow(L[k])
      BY <1>3, <2>1
    <2>3. ASSUME NEW k \in Nat, NEW t \in L[k] PROVE ~Grid!is_obstacle(t)
      <3>1. CASE k = 0
        BY <2>1, <2>3, <3>1, Zenon DEF Target
      <3>2. CASE k # 0
        <4>1. PICK j \in Nat : j + 1 = k
          <5>1. k - 1 \in Nat /\ (k - 1) + 1 = k
            BY <3>2
          <5> QED BY <5>1
        <4>2. t \in Grow(L[j])
          BY <2>2, <2>3, <4>1
        <4> QED BY <4>2, Zenon DEF Grow
      <3> QED BY <3>1, <3>2
    <2>4. ASSUME NEW k \in Nat PROVE L[k] \subseteq L[k + 1]
      <3> SUFFICES ASSUME NEW t \in L[k] PROVE t \in Grow(L[k])
        BY <2>2
      <3>1. t \in Box /\ ~Grid!is_obstacle(t)
        BY <2>2, <2>3
      <3> QED BY <3>1, Zenon DEF Grow
    <2> QED BY <2>1, <2>2, <2>3, <2>4
  <1> QED BY <1>5, <1>6

\* The same by node.
ByNode(L) == [k \in Nat |-> {n \in Nodes : tile(n) \in L[k]}]

LEMMA GrownLayers ==
    ASSUME from \in Grid!Tiles, to \in Grid!Tiles, NEW L \in Grown
    PROVE  /\ Layers(Nodes, Edges, idx(to), ByNode(L))
           /\ \A k \in Nat : \A t \in L[k] : idx(t) \in ByNode(L)[k] /\ tile(idx(t)) = t
  <1>1. /\ L \in [Nat -> SUBSET Box] /\ L[0] = Target
        /\ \A k \in Nat : L[k + 1] = Grow(L[k])
        /\ \A k \in Nat : \A t \in L[k] : ~Grid!is_obstacle(t)
    BY GrownIs
  <1>2. /\ \A n \in Nodes : tile(n) \in Box /\ idx(tile(n)) = n
        /\ \A t \in Box : idx(t) \in Nodes /\ tile(idx(t)) = t
    BY NodesAreTiles
  <1>3. /\ ByNode(L) \in [Nat -> SUBSET Nodes]
        /\ \A k \in Nat : \A n : n \in ByNode(L)[k] <=> n \in Nodes /\ tile(n) \in L[k]
    BY DEF ByNode
  <1>4. \A k \in Nat : \A t \in L[k] : idx(t) \in ByNode(L)[k] /\ tile(idx(t)) = t
    BY <1>1, <1>2, <1>3
  <1>5. ByNode(L)[0] \subseteq {idx(to)}
    <2> SUFFICES ASSUME NEW n \in ByNode(L)[0] PROVE n = idx(to)
      OBVIOUS
    <2>1. n \in Nodes /\ tile(n) \in Target
      BY <1>1, <1>3
    <2>2. tile(n) = to
      BY <2>1 DEF Target
    <2> QED BY <1>2, <2>1, <2>2
  <1>6. ASSUME NEW k \in Nat, NEW n \in ByNode(L)[k + 1]
        PROVE  n \in ByNode(L)[k] \/ \E u \in ByNode(L)[k] : <<n, u>> \in Edges
    <2>1. n \in Nodes /\ tile(n) \in Grow(L[k])
      BY <1>1, <1>3
    <2>2. CASE tile(n) \in L[k]
      BY <1>3, <2>1, <2>2
    <2>3. CASE tile(n) \notin L[k]
      <3>1. PICK d \in Grid!DIRECTION : Grid!Neighbour(tile(n), d) \in L[k]
        BY <2>1, <2>3, Zenon DEF Grow
      <3>2. PICK t \in L[k] : t = Grid!Neighbour(tile(n), d)
        BY <3>1
      <3>3. Beside(tile(n), t)
        BY <3>2, Zenon DEF Beside
      <3>4. idx(t) \in ByNode(L)[k] /\ tile(idx(t)) = t /\ idx(t) \in Nodes /\ ~Grid!is_obstacle(t)
        BY <1>1, <1>3, <1>4
      <3>5. <<n, idx(t)>> \in Edges
        BY <2>1, <3>3, <3>4, EdgeIs
      <3> QED BY <3>4, <3>5
    <2> QED BY <2>2, <2>3
  <1> QED BY <1>3, <1>4, <1>5, <1>6 DEF Layers

\* The equation of Nearest has a solution.
LEMMA NearestIs ==
    ASSUME NEW S \in SUBSET Box
    PROVE  Nearest[S] = IF Around \cap S # {} \/ Grow(S) = S THEN Around \cap S
                                                             ELSE Nearest[Grow(S)]
  <1> DEFINE G == [R \in SUBSET Box |-> Grow(R)]
             A == [R \in SUBSET Box |-> Around \cap R]
             Stop == {R \in SUBSET Box : Around \cap R # {} \/ Grow(R) = R}
             Body(f) == [R \in SUBSET Box |-> IF Around \cap R # {} \/ Grow(R) = R
                                              THEN Around \cap R ELSE f[Grow(R)]]
  <1>1. \A R \in SUBSET Box : Grow(R) \in SUBSET Box
    BY DEF Grow
  <1>2. PICK f : f = [R \in SUBSET Box |-> IF R \in Stop THEN A[R] ELSE f[G[R]]]
    <2>1. G \in [SUBSET Box -> SUBSET Box]
      BY <1>1
    <2> DEFINE D == SUBSET Box
    <2> HIDE DEF G, A, Stop, D
    <2>2. G \in [D -> D]
      BY <2>1 DEF D
    <2>3. \E f : Solves(f, D, G, A, Stop)
      BY <2>2, TailRecursion
    <2> QED BY <2>3, Zenon DEF D, Solves
  <1>3. f = Body(f)
    <2>1. \A R \in SUBSET Box : (IF R \in Stop THEN A[R] ELSE f[G[R]])
                                = IF Around \cap R # {} \/ Grow(R) = R
                                  THEN Around \cap R ELSE f[Grow(R)]
      OBVIOUS
    <2> HIDE DEF G, A, Stop
    <2> QED BY <1>2, <2>1
  <1>4. Nearest = CHOOSE q : q = Body(q)
    BY DEF Nearest
  <1> HIDE DEF Body
  <1>5. Nearest = Body(Nearest)
    BY <1>3, <1>4
  <1> QED BY <1>5 DEF Body

LEMMA NearestFound ==
    ASSUME from \in Grid!Tiles, to \in Grid!Tiles, NEW L \in Grown, NEW m \in Nat,
           Around \cap L[m] # {}, \A k \in Nat : k < m => Around \cap L[k] = {}
    PROVE  Nearest[Target] = Around \cap L[m]
  <1>1. /\ L[0] = Target
        /\ \A k \in Nat : L[k] \in SUBSET Box /\ L[k + 1] = Grow(L[k])
    BY GrownIs
  <1> DEFINE T == {k \in Nat : k <= m => Nearest[L[k]] = Nearest[Target]}
  <1>2. 0 \in T
    BY <1>1
  <1>3. ASSUME NEW k \in Nat, k \in T PROVE k + 1 \in T
    <2> SUFFICES ASSUME k + 1 <= m PROVE Nearest[L[k + 1]] = Nearest[Target]
      OBVIOUS
    <2>1. k < m /\ Around \cap L[k] = {} /\ Nearest[L[k]] = Nearest[Target]
      BY <1>3
    <2>2. Grow(L[k]) # L[k]
      <3> SUFFICES ASSUME Grow(L[k]) = L[k] PROVE FALSE
        OBVIOUS
      \* Then nothing is added any more, up to m.
      <3> DEFINE U == {j \in Nat : j >= k => L[j] = L[k]}
      <3>1. 0 \in U
        OBVIOUS
      <3>2. ASSUME NEW j \in Nat, j \in U PROVE j + 1 \in U
        <4>1. CASE j >= k
          <5>1. L[j + 1] = Grow(L[j]) /\ L[j] = L[k]
            BY <1>1, <3>2, <4>1
          <5> QED BY <5>1
        <4>2. CASE ~(j >= k)
          <5>1. j + 1 >= k => j + 1 = k
            BY <4>2
          <5> QED BY <5>1
        <4> QED BY <4>1, <4>2
      <3>3. \A j \in Nat : j \in U
        <4> HIDE DEF U
        <4> QED BY <3>1, <3>2, Induction
      <3>4. L[m] = L[k]
        BY <2>1, <3>3
      <3> QED BY <2>1, <3>4
    <2>3. Nearest[L[k]] = Nearest[Grow(L[k])]
      BY <1>1, <2>1, <2>2, NearestIs
    <2> QED BY <1>1, <2>1, <2>3
  <1>4. \A k \in Nat : k \in T
    <2> HIDE DEF T
    <2> QED BY <1>2, <1>3, Induction
  <1>5. Nearest[L[m]] = Nearest[Target]
    BY <1>4
  <1>6. Nearest[L[m]] = Around \cap L[m]
    BY <1>1, NearestIs
  <1> QED BY <1>5, <1>6

\* The box is finite, so the target cannot be reached from more and more tiles.
LEMMA GrownStops ==
    ASSUME from \in Grid!Tiles, to \in Grid!Tiles, NEW L \in Grown
    PROVE  \E m \in Nat : L[m + 1] = L[m]
  <1> SUFFICES ASSUME \A m \in Nat : L[m + 1] # L[m] PROVE FALSE
    OBVIOUS
  <1>1. \A k \in Nat : L[k] \in SUBSET Box /\ L[k] \subseteq L[k + 1]
    BY GrownIs
  <1>2. IsFiniteSet(Box) /\ Cardinality(Box) \in Nat
    <2>1. {x0, x1, y0, y1} \subseteq Int
      BY BoxFacts
    <2>2. IsFiniteSet(x0 .. x1) /\ IsFiniteSet(y0 .. y1)
      BY <2>1, FS_Interval
    <2>3. IsFiniteSet(Box)
      BY <2>2, FS_Product DEF Box
    <2> QED BY <2>3, FS_CardinalityType
  <1>3. \A k \in Nat : /\ IsFiniteSet(L[k]) /\ Cardinality(L[k]) \in Nat
                       /\ Cardinality(L[k]) <= Cardinality(Box)
    BY <1>1, <1>2, FS_Subset, FS_CardinalityType
  <1> DEFINE T == {k \in Nat : k <= Cardinality(L[k])}
  <1>4. 0 \in T
    BY <1>3
  <1>5. ASSUME NEW k \in Nat, k \in T PROVE k + 1 \in T
    <2>1. k + 1 \in Nat /\ L[k] \subseteq L[k + 1] /\ L[k] # L[k + 1]
      BY <1>1
    <2>2. /\ IsFiniteSet(L[k + 1]) /\ Cardinality(L[k]) <= Cardinality(L[k + 1])
          /\ Cardinality(L[k]) = Cardinality(L[k + 1]) => L[k] = L[k + 1]
      BY <1>3, <2>1, FS_Subset
    <2> QED BY <1>3, <1>5, <2>1, <2>2
  <1>6. \A k \in Nat : k \in T
    <2> HIDE DEF T
    <2> QED BY <1>4, <1>5, Induction
  <1>7. Cardinality(Box) + 1 <= Cardinality(L[Cardinality(Box) + 1])
    BY <1>2, <1>6
  <1> QED BY <1>2, <1>3, <1>7

LEMMA NearestNone ==
    ASSUME from \in Grid!Tiles, to \in Grid!Tiles, NEW L \in Grown,
           \A k \in Nat : Around \cap L[k] = {}
    PROVE  Nearest[Target] = {}
  <1>1. /\ L[0] = Target
        /\ \A k \in Nat : L[k] \in SUBSET Box /\ L[k + 1] = Grow(L[k])
    BY GrownIs
  <1>2. PICK m \in Nat : L[m + 1] = L[m]
    BY GrownStops
  <1> DEFINE T == {k \in Nat : Nearest[Target] = Nearest[L[k]] \/ Nearest[Target] = {}}
  <1>3. 0 \in T
    BY <1>1
  <1>4. ASSUME NEW k \in Nat, k \in T PROVE k + 1 \in T
    <2>1. Nearest[L[k]] = Nearest[Grow(L[k])] \/ Nearest[L[k]] = {}
      BY <1>1, NearestIs
    <2> QED BY <1>1, <1>4, <2>1
  <1>5. \A k \in Nat : k \in T
    <2> HIDE DEF T
    <2> QED BY <1>3, <1>4, Induction
  <1>6. Nearest[L[m]] = {}
    <2>1. Grow(L[m]) = L[m] /\ L[m] \in SUBSET Box /\ Around \cap L[m] = {}
      BY <1>1, <1>2
    <2> QED BY <2>1, NearestIs
  <1> QED BY <1>5, <1>6
-----------------------------------------------------------------------------
(* The answer of a search.                                                 *)

\* t is the first tile of a way of m + 1 steps, and no way is shorter; or it
\* is the start and there is no way.
Answers(t) ==
    \E L \in Grown :
       \/ \E m \in Nat : t \in Around \cap L[m] /\ \A k \in Nat : k < m => Around \cap L[k] = {}
       \/ t = from /\ \A k \in Nat : Around \cap L[k] = {}

Answered ==
    phase = "done" => \/ from = to /\ next_step = from
                      \/ from # to /\ Answers(next_step)

LEMMA AnsweredRight ==
    ASSUME from \in Grid!Tiles, to \in Grid!Tiles, Answered
    PROVE  ShortestStep
  <1>1. { t \in {to} : ~Grid!is_obstacle(t) } = Target
    BY DEF Target
  <1> SUFFICES ASSUME phase = "done"
               PROVE  IF from = to \/ Nearest[Target] = {} THEN next_step = from
                                                           ELSE next_step \in Nearest[Target]
    BY <1>1, Zenon DEF ShortestStep
  <1>2. CASE from = to
    BY <1>2 DEF Answered, Answers
  <1>3. CASE from # to
    <2>1. PICK L \in Grown :
             \/ \E m \in Nat : /\ next_step \in Around \cap L[m]
                               /\ \A k \in Nat : k < m => Around \cap L[k] = {}
             \/ next_step = from /\ \A k \in Nat : Around \cap L[k] = {}
      BY <1>3, Zenon DEF Answered, Answers
    <2>2. CASE \E m \in Nat : /\ next_step \in Around \cap L[m]
                              /\ \A k \in Nat : k < m => Around \cap L[k] = {}
      <3>1. PICK m \in Nat : /\ next_step \in Around \cap L[m]
                             /\ \A k \in Nat : k < m => Around \cap L[k] = {}
        BY <2>2
      <3>2. Nearest[Target] = Around \cap L[m]
        BY <3>1, NearestFound
      <3> QED BY <1>3, <3>1, <3>2
    <2>3. CASE next_step = from /\ \A k \in Nat : Around \cap L[k] = {}
      <3>1. Nearest[Target] = {}
        BY <2>3, NearestNone
      <3> QED BY <2>3, <3>1
    <2> QED BY <2>1, <2>2, <2>3
  <1> QED BY <1>2, <1>3
-----------------------------------------------------------------------------
(* The steps of a search.                                                  *)

\* cur is on a shortest way from where it was reached to the target.
OnWay == \A L \in Grown : \E j \in Nat : /\ g_cost[idx(to)] = g_cost[cur] + j
                                         /\ tile(cur) \in L[j]

Searching ==
    phase \in {"search", "trace"} =>
       /\ from # to
       /\ Sound(Nodes, Edges, Estimates, idx(from), idx(to), g_cost, parent, closed, pq)
       /\ phase = "search" => idx(to) \notin closed
       /\ phase = "trace" => /\ idx(to) \in closed
                             /\ cur \in Nodes /\ cur # idx(from) /\ g_cost[cur] # INF
                             /\ OnWay

Chasing ==
    /\ phase \in {"idle", "search", "trace", "done"}
    /\ phase # "idle" => from \in Grid!Tiles /\ to \in Grid!Tiles

SearchInv == Chasing /\ Searching /\ Answered

\* What depends on the call and on the map only.
LEMMA Persists ==
    ASSUME UNCHANGED <<g_obstacle_map, from, to>>
    PROVE  /\ Nodes' = Nodes /\ Edges' = Edges /\ Estimates' = Estimates
           /\ idx(from)' = idx(from) /\ idx(to)' = idx(to)
           /\ \A n : tile(n)' = tile(n)
           /\ Around' = Around /\ Grown' = Grown
  <1>1. from' = from /\ to' = to /\ g_obstacle_map' = g_obstacle_map
    OBVIOUS
  <1>2. x0' = x0 /\ y0' = y0 /\ x1' = x1 /\ y1' = y1
    BY <1>1 DEF x0, y0, x1, y1
  <1>3. W' = W /\ H' = H
    BY <1>2 DEF W, H
  <1>4. Nodes' = Nodes /\ \A n : tile(n)' = tile(n)
    BY <1>2, <1>3 DEF Nodes, tile
  <1>5. idx(from)' = idx(from) /\ idx(to)' = idx(to)
    BY <1>1, <1>2, <1>3 DEF idx
  <1>6. \A t : Grid!is_obstacle(t)' <=> Grid!is_obstacle(t)
    BY <1>1 DEF Grid!is_obstacle
  <1>7. Edges' = Edges
    <2>1. \A n : (tile(n) = tile(n)') /\ (Grid!is_obstacle(tile(n))' <=> Grid!is_obstacle(tile(n)))
      BY <1>1, <1>4 DEF Grid!is_obstacle
    <2>2. \A e : Beside(tile(e[1]), tile(e[2]))' <=> Beside(tile(e[1]), tile(e[2]))
      BY <1>4 DEF Beside
    <2> QED BY <1>4, <2>1, <2>2 DEF Edges
  <1>8. Estimates' = Estimates
    <2>1. \A n : Estimate(n)' = Estimate(n)
      BY <1>1, <1>4 DEF Estimate
    <2> QED BY <1>4, <2>1 DEF Estimates
  <1>9. Around' = Around
    BY <1>1 DEF Around
  <1>10. Grown' = Grown
    <2>1. Box' = Box
      BY <1>2 DEF Box
    <2>2. Target' = Target
      BY <1>1, <1>6 DEF Target
    <2>3. \A S : Grow(S)' = Grow(S)
      BY <1>6, <2>1 DEF Grow
    <2>4. [S \in SUBSET Box |-> Grow(S)]' = [S \in SUBSET Box |-> Grow(S)]
      BY <2>1, <2>3
    <2> QED BY <2>1, <2>2, <2>4 DEF Grown
  <1> QED BY <1>4, <1>5, <1>7, <1>8, <1>9, <1>10

\* The first call of a NPC at s that chases a player at t.
LEMMA SearchGraphNext ==
    from' \in Grid!Tiles /\ to' \in Grid!Tiles /\ from' # to'
        => Graph(Nodes', Edges', Estimates', idx(from)', idx(to)')
  <1>1. from \in Grid!Tiles /\ to \in Grid!Tiles /\ from # to
            => Graph(Nodes, Edges, Estimates, idx(from), idx(to))
    BY SearchGraph
  <1>2. (from \in Grid!Tiles /\ to \in Grid!Tiles /\ from # to
            => Graph(Nodes, Edges, Estimates, idx(from), idx(to)))'
    BY <1>1, PTL
  <1>3. Grid!Tiles' = Grid!Tiles
    BY DEF Grid!Tiles
  <1> QED BY <1>2, <1>3

LEMMA CallKeeps ==
    ASSUME NEW s \in Grid!Tiles, NEW t \in Grid!Tiles, Call(s, t)
    PROVE  SearchInv'
  <1>1. from' = s /\ to' = t /\ next_step' = s
    BY DEF Call
  <1>2. CASE s = t
    <2>1. phase' = "done" /\ from' = to' /\ next_step' = from'
      BY <1>1, <1>2 DEF Call
    <2>2. Chasing'
      BY <1>1, <2>1 DEF Chasing, Grid!Tiles
    <2>3. Searching' /\ Answered'
      BY <2>1 DEF Searching, Answered
    <2> QED BY <2>2, <2>3 DEF SearchInv
  <1>3. CASE s # t
    <2>1. /\ phase' = "search" /\ closed' = {}
          /\ g_cost' = [n \in Nodes' |-> IF n = idx(from)' THEN 0 ELSE INF]
          /\ parent' = [n \in Nodes' |-> NONE]
          /\ pq' = {<<Estimate(idx(from))', idx(from)'>>}
      BY <1>3 DEF Call
    <2>2. Graph(Nodes', Edges', Estimates', idx(from)', idx(to)')
      BY <1>1, <1>3, SearchGraphNext
    <2>3. Estimate(idx(from))' = Estimates'[idx(from)']
      <3>1. idx(from)' \in Nodes'
        BY <2>2 DEF Graph
      <3> QED BY <3>1 DEF Estimates
    <2>4. Sound(Nodes', Edges', Estimates', idx(from)', idx(to)', g_cost', parent', closed', pq')
      BY <2>1, <2>2, <2>3, SoundAtFirst
    <2>5. Chasing'
      BY <1>1, <2>1 DEF Chasing, Grid!Tiles
    <2>6. Searching'
      BY <1>1, <1>3, <2>1, <2>4 DEF Searching
    <2>7. Answered'
      BY <2>1 DEF Answered
    <2> QED BY <2>5, <2>6, <2>7 DEF SearchInv
  <1> QED BY <1>2, <1>3

LEMMA ChasingKept ==
    ASSUME Chasing, UNCHANGED <<from, to>>, phase # "idle",
           phase' \in {"search", "trace", "done"}
    PROVE  Chasing'
  <1>1. Grid!Tiles' = Grid!Tiles
    BY DEF Grid!Tiles
  <1> QED BY <1>1 DEF Chasing

LEMMA SkipKeeps ==
    ASSUME SearchInv, phase = "search", NEW c \in pq, Skip(c)
    PROVE  SearchInv'
  <1>1. /\ UNCHANGED <<g_obstacle_map, from, to, g_cost, parent, closed, cur, phase, next_step>>
        /\ pq' = pq \ {c} /\ c[2] \in closed
    BY DEF Skip
  <1>2. /\ from \in Grid!Tiles /\ to \in Grid!Tiles /\ from # to /\ idx(to) \notin closed
        /\ Sound(Nodes, Edges, Estimates, idx(from), idx(to), g_cost, parent, closed, pq)
    BY DEF SearchInv, Chasing, Searching
  <1>3. Graph(Nodes, Edges, Estimates, idx(from), idx(to))
    BY <1>2, SearchGraph
  <1>4. Sound(Nodes, Edges, Estimates, idx(from), idx(to), g_cost, parent, closed, pq \ {c})
    BY <1>1, <1>2, <1>3, SoundAfterSkip
  <1>5. /\ Nodes' = Nodes /\ Edges' = Edges /\ Estimates' = Estimates
        /\ idx(from)' = idx(from) /\ idx(to)' = idx(to)
    BY <1>1, Persists
  <1>6. Searching'
    BY <1>1, <1>2, <1>4, <1>5 DEF Searching
  <1>7. Chasing'
    BY <1>1, ChasingKept DEF SearchInv
  <1>8. Answered'
    BY <1>1 DEF Answered
  <1> QED BY <1>6, <1>7, <1>8 DEF SearchInv

LEMMA FoundKeeps ==
    ASSUME SearchInv, phase = "search", NEW c \in pq, \A d \in pq : c[1] <= d[1], Found(c)
    PROVE  SearchInv'
  <1>1. /\ UNCHANGED <<g_obstacle_map, from, to, g_cost, parent, next_step>>
        /\ pq' = pq \ {c} /\ closed' = closed \cup {c[2]} /\ cur' = idx(to)
        /\ phase' = "trace" /\ c[2] = idx(to) /\ c[2] \notin closed
    BY DEF Found
  <1>2. /\ from \in Grid!Tiles /\ to \in Grid!Tiles /\ from # to /\ idx(to) \notin closed
        /\ Sound(Nodes, Edges, Estimates, idx(from), idx(to), g_cost, parent, closed, pq)
    BY DEF SearchInv, Chasing, Searching
  <1>3. Graph(Nodes, Edges, Estimates, idx(from), idx(to))
    BY <1>2, SearchGraph
  <1>4. Sound(Nodes, Edges, Estimates, idx(from), idx(to), g_cost, parent, closed', pq')
    BY <1>1, <1>2, <1>3, SoundAfterFound
  <1>5. /\ Nodes' = Nodes /\ Edges' = Edges /\ Estimates' = Estimates
        /\ idx(from)' = idx(from) /\ idx(to)' = idx(to)
        /\ \A n : tile(n)' = tile(n)
        /\ Grown' = Grown
    BY <1>1, Persists
  <1>6. /\ idx(to) \in Nodes /\ idx(to) # idx(from) /\ g_cost[idx(to)] # INF
        /\ g_cost[idx(to)] \in Nat
    <2>1. idx(to) \in Nodes /\ idx(to) # idx(from)
      BY <1>3 DEF Graph
    <2>2. g_cost[idx(to)] # INF /\ g_cost[idx(to)] \in Nat
      BY <1>1, <2>1, <1>4 DEF Sound, Ways
    <2> QED BY <2>1, <2>2
  <1>7. ASSUME NEW L \in Grown
        PROVE  \E j \in Nat : /\ g_cost[idx(to)] = g_cost[idx(to)] + j
                              /\ tile(idx(to)) \in L[j]
    \* It was reached, so it is free.
    <2>1. <<parent[idx(to)], idx(to)>> \in Edges /\ parent[idx(to)] \in Nodes
      BY <1>2, <1>3, <1>6, OneStepBack
    <2>2. ~Grid!is_obstacle(tile(idx(to)))
      BY <1>6, <2>1, EdgeIs
    <2>3. tile(idx(to)) = to
      BY <1>2, NodesAreTiles, BoxFacts
    <2>4. tile(idx(to)) \in Target
      BY <2>2, <2>3, Zenon DEF Target
    <2>5. L[0] = Target
      BY <1>2, GrownIs
    <2> QED BY <1>6, <2>4, <2>5
  <1>8. OnWay'
    <2>1. /\ g_cost' = g_cost /\ cur' = idx(to) /\ tile(cur)' = tile(idx(to))
      BY <1>1, <1>5
    <2> QED BY <1>5, <1>7, <2>1 DEF OnWay
  <1>9. Searching'
    <2>1. /\ cur' \in Nodes' /\ cur' # idx(from)' /\ g_cost'[cur'] # INF /\ idx(to)' \in closed'
      BY <1>1, <1>5, <1>6
    <2> QED BY <1>1, <1>2, <1>4, <1>5, <1>8, <2>1 DEF Searching
  <1>10. Chasing'
    BY <1>1, ChasingKept DEF SearchInv
  <1>11. Answered'
    BY <1>1 DEF Answered
  <1> QED BY <1>9, <1>10, <1>11 DEF SearchInv

\* The neighbours of a node as the search sees them.
LEMMA OpenNeighboursAre ==
    ASSUME from \in Grid!Tiles, to \in Grid!Tiles, NEW p \in Nodes
    PROVE  OpenNeighbours(p) = {n \in Nodes : <<p, n>> \in Edges /\ n \notin closed}
  <1>1. /\ \A n \in Nodes : tile(n) \in Box /\ idx(tile(n)) = n
        /\ \A t \in Box : idx(t) \in Nodes /\ tile(idx(t)) = t
    BY NodesAreTiles
  <1>2. \A t \in Int \X Int : InBox(t) <=> t \in Box
    BY DEF InBox, Box
  <1>3. \A d \in Grid!DIRECTION : Grid!Neighbour(tile(p), d) \in Int \X Int
    <2>1. tile(p) \in Int \X Int
      BY <1>1, BoxFacts
    <2> QED BY <2>1 DEF Grid!Neighbour, Grid!DIRECTION
  <1>4. ASSUME NEW n \in OpenNeighbours(p)
        PROVE  n \in Nodes /\ <<p, n>> \in Edges /\ n \notin closed
    <2>1. PICK d \in Grid!DIRECTION :
             /\ InBox(Grid!Neighbour(tile(p), d)) /\ ~Grid!is_obstacle(Grid!Neighbour(tile(p), d))
             /\ idx(Grid!Neighbour(tile(p), d)) \notin closed
             /\ n = idx(Grid!Neighbour(tile(p), d))
      BY <1>4, Zenon DEF OpenNeighbours
    <2>2. Grid!Neighbour(tile(p), d) \in Box
      BY <1>2, <1>3, <2>1
    <2>3. n \in Nodes /\ tile(n) = Grid!Neighbour(tile(p), d)
      BY <1>1, <2>1, <2>2
    <2>4. Beside(tile(p), tile(n))
      BY <2>3, Zenon DEF Beside
    <2>5. ~Grid!is_obstacle(tile(n))
      BY <2>1, <2>3, Zenon
    <2> QED BY <2>1, <2>3, <2>4, <2>5, EdgeIs
  <1>5. ASSUME NEW n \in Nodes, <<p, n>> \in Edges, n \notin closed
        PROVE  n \in OpenNeighbours(p)
    <2>1. Beside(tile(p), tile(n)) /\ ~Grid!is_obstacle(tile(n))
      BY <1>5, EdgeIs
    <2>2. PICK d \in Grid!DIRECTION : Grid!Neighbour(tile(p), d) = tile(n)
      BY <2>1, Zenon DEF Beside
    <2>3. tile(n) \in Box /\ idx(tile(n)) = n
      BY <1>1
    <2>4. InBox(tile(n))
      BY <1>2, <2>3, BoxFacts
    <2> QED BY <1>5, <2>1, <2>2, <2>3, <2>4, Zenon DEF OpenNeighbours
  <1> QED BY <1>4, <1>5

LEMMA ExpandKeeps ==
    ASSUME SearchInv, phase = "search", NEW c \in pq, \A d \in pq : c[1] <= d[1], Expand(c)
    PROVE  SearchInv'
  <1> DEFINE p == c[2]
             B == {n \in Nodes : <<p, n>> \in Edges /\ n \notin closed /\ g_cost[p] + 1 < g_cost[n]}
  <1>1. /\ from \in Grid!Tiles /\ to \in Grid!Tiles /\ from # to /\ idx(to) \notin closed
        /\ Sound(Nodes, Edges, Estimates, idx(from), idx(to), g_cost, parent, closed, pq)
    BY DEF SearchInv, Chasing, Searching
  <1>2. Graph(Nodes, Edges, Estimates, idx(from), idx(to))
    BY <1>1, SearchGraph
  <1>3. p \in Nodes /\ p # idx(to) /\ p \notin closed
    <2>1. c[2] \in Nodes
      BY <1>1 DEF Sound, Queued
    <2> QED BY <2>1 DEF Expand
  <1>4. { n \in OpenNeighbours(p) : Cheaper(g_cost[p] + 1, n) } = B
    <2>1. OpenNeighbours(p) = {n \in Nodes : <<p, n>> \in Edges /\ n \notin closed}
      BY <1>1, <1>3, OpenNeighboursAre
    <2> QED BY <2>1 DEF Cheaper
  <1>5. /\ closed' = closed \cup {p}
        /\ g_cost' = [n \in Nodes |-> IF n \in B THEN g_cost[p] + 1 ELSE g_cost[n]]
        /\ parent' = [n \in Nodes |-> IF n \in B THEN p ELSE parent[n]]
        /\ pq' = (pq \ {c}) \cup {<<g_cost[p] + 1 + Estimate(n), n>> : n \in B}
        /\ UNCHANGED <<g_obstacle_map, from, to, cur, phase, next_step>>
    <2> DEFINE better == { n \in OpenNeighbours(p) : Cheaper(g_cost[p] + 1, n) }
    <2>1. /\ closed' = closed \cup {p}
          /\ g_cost' = [n \in Nodes |-> IF n \in better THEN g_cost[p] + 1 ELSE g_cost[n]]
          /\ parent' = [n \in Nodes |-> IF n \in better THEN p ELSE parent[n]]
          /\ pq' = (pq \ {c}) \cup {<<g_cost[p] + 1 + Estimate(n), n>> : n \in better}
          /\ UNCHANGED <<g_obstacle_map, from, to, cur, phase, next_step>>
      BY DEF Expand
    <2>2. better = B
      BY <1>4
    <2> HIDE DEF better, B, p
    <2> QED BY <2>1, <2>2
  <1>6. /\ g_cost' = Cost(Nodes, B, g_cost, p)
        /\ parent' = Via(Nodes, B, parent, p)
        /\ pq' = (pq \ {c}) \cup Fresh(B, g_cost, Estimates, p)
    <2>1. \A n \in B : Estimates[n] = Estimate(n)
      BY DEF Estimates
    <2> HIDE DEF B, p
    <2>2. {<<g_cost[p] + 1 + Estimate(n), n>> : n \in B} = Fresh(B, g_cost, Estimates, p)
      BY <2>1 DEF Fresh
    <2> QED BY <1>5, <2>2, Zenon DEF Cost, Via
  <1>7. Sound(Nodes, Edges, Estimates, idx(from), idx(to), g_cost', parent', closed', pq')
    <2>1. /\ B \in SUBSET Nodes /\ p = c[2]
          /\ \A n \in Nodes : n \in B <=> /\ <<p, n>> \in Edges /\ n \notin closed
                                        /\ g_cost[p] + 1 < g_cost[n]
      OBVIOUS
    <2>2. c \in pq /\ \A d \in pq : c[1] <= d[1]
      OBVIOUS
    <2> HIDE DEF B, p
    <2>3. Sound(Nodes, Edges, Estimates, idx(from), idx(to), Cost(Nodes, B, g_cost, p),
                Via(Nodes, B, parent, p), closed \cup {p},
                (pq \ {c}) \cup Fresh(B, g_cost, Estimates, p))
      BY <1>1, <1>2, <1>3, <2>1, <2>2, SoundAfterExpand, Zenon
    <2> QED BY <1>5, <1>6, <2>3, Zenon
  <1>8. /\ Nodes' = Nodes /\ Edges' = Edges /\ Estimates' = Estimates
        /\ idx(from)' = idx(from) /\ idx(to)' = idx(to)
    BY <1>5, Persists
  <1>9. Searching'
    <2>1. idx(to) \notin closed'
      BY <1>1, <1>3, <1>5
    <2>2. phase' = "search" /\ from' = from /\ to' = to
      BY <1>5
    <2> HIDE DEF B, p
    <2> QED BY <1>1, <1>7, <1>8, <2>1, <2>2 DEF Searching
  <1>10. Chasing'
    BY <1>5, ChasingKept DEF SearchInv
  <1>11. Answered'
    BY <1>5 DEF Answered
  <1> QED BY <1>9, <1>10, <1>11 DEF SearchInv

LEMMA NoPathKeeps ==
    ASSUME SearchInv, NoPath
    PROVE  SearchInv'
  <1>1. /\ phase = "search" /\ pq = {} /\ phase' = "done" /\ next_step' = from
        /\ UNCHANGED <<g_obstacle_map, from, to>>
    BY DEF NoPath, Answer
  <1>2. /\ from \in Grid!Tiles /\ to \in Grid!Tiles /\ from # to /\ idx(to) \notin closed
        /\ Sound(Nodes, Edges, Estimates, idx(from), idx(to), g_cost, parent, closed, {})
    BY <1>1 DEF SearchInv, Chasing, Searching
  <1>3. Graph(Nodes, Edges, Estimates, idx(from), idx(to))
    BY <1>2, SearchGraph
  <1>4. PICK L \in Grown : TRUE
    BY <1>2, GrownIs
  <1>5. ASSUME NEW k \in Nat PROVE Around \cap L[k] = {}
    <2> SUFFICES ASSUME NEW t \in L[k], t \in Around PROVE FALSE
      OBVIOUS
    <2>1. /\ Layers(Nodes, Edges, idx(to), ByNode(L))
          /\ idx(t) \in ByNode(L)[k] /\ tile(idx(t)) = t
      BY <1>2, GrownLayers
    <2>2. <<idx(from), idx(t)>> \notin Edges
      BY <1>2, <1>3, <2>1, NothingLeft
    <2>3. t \in Box /\ ~Grid!is_obstacle(t)
      BY <1>2, GrownIs
    <2>4. idx(t) \in Nodes /\ idx(from) \in Nodes /\ tile(idx(from)) = from
      BY <1>2, <2>3, NodesAreTiles, BoxFacts
    <2>5. Beside(from, t)
      BY <2>1, Zenon DEF Around, Beside
    <2> QED BY <2>1, <2>2, <2>3, <2>4, <2>5, EdgeIs
  <1>6. Answers(from)
    BY <1>5 DEF Answers
  <1>7. Around' = Around /\ Grown' = Grown
    BY <1>1, Persists
  <1>8. Answered'
    <2>1. from' # to' /\ next_step' = from' /\ from' = from
      BY <1>1, <1>2
    <2> QED BY <1>5, <1>7, <2>1 DEF Answered, Answers
  <1>9. Chasing'
    BY <1>1, ChasingKept DEF SearchInv
  <1>10. Searching'
    BY <1>1 DEF Searching
  <1> QED BY <1>8, <1>9, <1>10 DEF SearchInv

\* What backtracking reads at cur.
LEMMA TraceFacts ==
    ASSUME SearchInv, phase = "trace"
    PROVE  /\ from \in Grid!Tiles /\ to \in Grid!Tiles /\ from # to
           /\ Graph(Nodes, Edges, Estimates, idx(from), idx(to))
           /\ Sound(Nodes, Edges, Estimates, idx(from), idx(to), g_cost, parent, closed, pq)
           /\ idx(to) \in closed /\ g_cost[idx(to)] \in Nat /\ idx(from) \in Nodes
           /\ g_cost[idx(from)] = 0
           /\ cur \in Nodes /\ cur # idx(from) /\ OnWay
           /\ parent[cur] \in Nodes /\ parent[cur] # NONE /\ <<parent[cur], cur>> \in Edges
           /\ g_cost[parent[cur]] # INF /\ g_cost[parent[cur]] \in Nat
           /\ g_cost[cur] = g_cost[parent[cur]] + 1
           /\ tile(cur) \in Box /\ Beside(tile(parent[cur]), tile(cur))
           /\ ~Grid!is_obstacle(tile(cur))
  <1>1. /\ from \in Grid!Tiles /\ to \in Grid!Tiles /\ from # to
        /\ Sound(Nodes, Edges, Estimates, idx(from), idx(to), g_cost, parent, closed, pq)
        /\ idx(to) \in closed /\ cur \in Nodes /\ cur # idx(from) /\ g_cost[cur] # INF /\ OnWay
    BY DEF SearchInv, Chasing, Searching
  <1>2. Graph(Nodes, Edges, Estimates, idx(from), idx(to))
    BY <1>1, SearchGraph
  <1>3. /\ parent[cur] \in Nodes /\ parent[cur] # NONE /\ <<parent[cur], cur>> \in Edges
        /\ g_cost[parent[cur]] # INF /\ g_cost[parent[cur]] \in Nat
        /\ g_cost[cur] = g_cost[parent[cur]] + 1
    BY <1>1, <1>2, OneStepBack
  <1>4. tile(cur) \in Box
    BY <1>1, NodesAreTiles
  <1>5. Beside(tile(parent[cur]), tile(cur)) /\ ~Grid!is_obstacle(tile(cur))
    BY <1>1, <1>3, EdgeIs
  <1>6. idx(from) \in Nodes /\ g_cost[idx(from)] = 0 /\ g_cost[idx(to)] \in Nat
    BY <1>1, <1>2 DEF Graph, Sound, Ways
  <1> QED BY <1>1, <1>2, <1>3, <1>4, <1>5, <1>6

LEMMA BackKeeps ==
    ASSUME SearchInv, Back
    PROVE  SearchInv'
  <1>1. /\ phase = "trace" /\ parent[cur] # idx(from) /\ cur' = parent[cur]
        /\ UNCHANGED <<g_obstacle_map, from, to, g_cost, parent, closed, pq, phase, next_step>>
    BY DEF Back
  <1> DEFINE p == parent[cur]
  <1>2. /\ from \in Grid!Tiles /\ to \in Grid!Tiles /\ from # to
        /\ Graph(Nodes, Edges, Estimates, idx(from), idx(to))
        /\ Sound(Nodes, Edges, Estimates, idx(from), idx(to), g_cost, parent, closed, pq)
        /\ idx(to) \in closed
        /\ cur \in Nodes /\ OnWay /\ tile(cur) \in Box /\ Beside(tile(p), tile(cur))
        /\ p \in Nodes /\ p # NONE /\ g_cost[p] # INF /\ g_cost[p] \in Nat
        /\ g_cost[cur] = g_cost[p] + 1
    BY <1>1, TraceFacts
  \* The node before was reached from another one, so it is free.
  <1>3. ~Grid!is_obstacle(tile(p)) /\ tile(p) \in Box
    <2>1. parent[p] \in Nodes /\ <<parent[p], p>> \in Edges
      <3>1. p \in Nodes /\ p # idx(from) /\ g_cost[p] # INF
        BY <1>1, <1>2
      <3> HIDE DEF p
      <3> QED BY <1>2, <3>1, OneStepBack
    <2> QED BY <1>2, <2>1, EdgeIs, NodesAreTiles
  <1>4. ASSUME NEW L \in Grown
        PROVE  \E j \in Nat : g_cost[idx(to)] = g_cost[p] + j /\ tile(p) \in L[j]
    <2>1. PICK j \in Nat : g_cost[idx(to)] = g_cost[cur] + j /\ tile(cur) \in L[j]
      BY <1>2 DEF OnWay
    <2>2. L[j + 1] = Grow(L[j])
      BY <1>2, GrownIs
    <2>3. PICK d \in Grid!DIRECTION : Grid!Neighbour(tile(p), d) = tile(cur)
      BY <1>2, Zenon DEF Beside
    <2>4. tile(p) \in Grow(L[j])
      BY <1>3, <2>1, <2>3, Zenon DEF Grow
    <2>5. j + 1 \in Nat /\ g_cost[idx(to)] = g_cost[p] + (j + 1)
      BY <1>2, <2>1
    <2> QED BY <2>2, <2>4, <2>5
  <1>5. /\ Nodes' = Nodes /\ Edges' = Edges /\ Estimates' = Estimates
        /\ idx(from)' = idx(from) /\ idx(to)' = idx(to)
        /\ \A n : tile(n)' = tile(n)
        /\ Grown' = Grown
    BY <1>1, Persists
  <1>6. OnWay'
    <2>1. g_cost' = g_cost /\ cur' = p /\ tile(cur)' = tile(p)
      BY <1>1, <1>5
    <2> HIDE DEF p
    <2> QED BY <1>4, <1>5, <2>1 DEF OnWay
  <1>7. Searching'
    <2>1. /\ cur' \in Nodes' /\ cur' # idx(from)' /\ g_cost'[cur'] # INF /\ idx(to)' \in closed'
          /\ phase' = "trace" /\ from' # to'
      BY <1>1, <1>2, <1>5
    <2>2. Sound(Nodes', Edges', Estimates', idx(from)', idx(to)', g_cost', parent', closed', pq')
      BY <1>1, <1>2, <1>5, Zenon
    <2> QED BY <1>6, <2>1, <2>2 DEF Searching
  <1>8. Chasing'
    BY <1>1, ChasingKept DEF SearchInv
  <1>9. Answered'
    BY <1>1 DEF Answered
  <1> QED BY <1>7, <1>8, <1>9 DEF SearchInv

LEMMA ReturnKeeps ==
    ASSUME SearchInv, Return
    PROVE  SearchInv'
  <1>1. /\ phase = "trace" /\ parent[cur] \in {idx(from), NONE} /\ phase' = "done"
        /\ next_step' = (IF parent[cur] = NONE THEN from ELSE tile(cur))
        /\ UNCHANGED <<g_obstacle_map, from, to>>
    BY DEF Return, Answer
  <1>2. /\ from \in Grid!Tiles /\ to \in Grid!Tiles /\ from # to
        /\ Graph(Nodes, Edges, Estimates, idx(from), idx(to))
        /\ Sound(Nodes, Edges, Estimates, idx(from), idx(to), g_cost, parent, closed, pq)
        /\ idx(to) \in closed /\ OnWay /\ g_cost[idx(from)] = 0
        /\ parent[cur] = idx(from) /\ g_cost[cur] = g_cost[parent[cur]] + 1
        /\ Beside(tile(parent[cur]), tile(cur))
    BY <1>1, TraceFacts
  <1>3. next_step' = tile(cur) /\ g_cost[cur] = 1 /\ Beside(from, tile(cur))
    <2>1. tile(idx(from)) = from
      BY <1>2, NodesAreTiles, BoxFacts
    <2>2. parent[cur] # NONE
      BY <1>1, TraceFacts
    <2> QED BY <1>1, <1>2, <2>1, <2>2
  <1>4. PICK L \in Grown : TRUE
    BY <1>2, GrownIs
  <1>5. PICK m \in Nat : g_cost[idx(to)] = 1 + m /\ tile(cur) \in L[m]
    BY <1>2, <1>3 DEF OnWay
  <1>6. tile(cur) \in Around
    BY <1>3, Zenon DEF Around, Beside
  <1>7. ASSUME NEW k \in Nat, k < m PROVE Around \cap L[k] = {}
    <2> SUFFICES ASSUME NEW t \in L[k], t \in Around PROVE FALSE
      OBVIOUS
    <2>1. /\ Layers(Nodes, Edges, idx(to), ByNode(L))
          /\ idx(t) \in ByNode(L)[k] /\ tile(idx(t)) = t
      BY <1>2, GrownLayers
    <2>2. t \in Box /\ ~Grid!is_obstacle(t)
      BY <1>2, GrownIs
    <2>3. idx(t) \in Nodes /\ idx(from) \in Nodes /\ tile(idx(from)) = from
      BY <1>2, <2>2, NodesAreTiles, BoxFacts
    <2>4. Beside(from, t)
      BY Zenon DEF Around, Beside
    <2>5. <<idx(from), idx(t)>> \in Edges
      BY <2>1, <2>2, <2>3, <2>4, EdgeIs
    <2>6. g_cost[idx(to)] <= k + 1
      BY <1>2, <2>1, <2>5, FoundIsShortest
    <2> QED BY <1>5, <1>7, <2>6
  <1>8. Around' = Around /\ Grown' = Grown
    BY <1>1, Persists
  <1>9. Answered'
    <2>1. from' # to' /\ next_step' \in Around \cap L[m]
      BY <1>1, <1>2, <1>3, <1>5, <1>6
    <2> QED BY <1>7, <1>8, <2>1 DEF Answered, Answers
  <1>10. Chasing'
    BY <1>1, ChasingKept DEF SearchInv
  <1>11. Searching'
    BY <1>1 DEF Searching
  <1> QED BY <1>9, <1>10, <1>11 DEF SearchInv

LEMMA AstarKeeps ==
    ASSUME SearchInv, AstarStep
    PROVE  SearchInv'
  <1>1. CASE Pop
    <2>1. PICK c \in pq : /\ phase = "search" /\ \A d \in pq : c[1] <= d[1]
                          /\ Skip(c) \/ Found(c) \/ Expand(c)
      BY <1>1 DEF Pop
    <2> QED BY <2>1, SkipKeeps, FoundKeeps, ExpandKeeps
  <1>2. CASE NoPath
    BY <1>2, NoPathKeeps
  <1>3. CASE Back
    BY <1>3, BackKeeps
  <1>4. CASE Return
    BY <1>4, ReturnKeeps
  <1> QED BY <1>1, <1>2, <1>3, <1>4 DEF AstarStep

\* A step outside the search; the map may change as long as nothing is sought.
LEMMA OtherKeeps ==
    ASSUME SearchInv, UNCHANGED search, phase = "idle" \/ UNCHANGED g_obstacle_map
    PROVE  SearchInv'
  <1>1. UNCHANGED <<from, to, g_cost, parent, closed, pq, cur, phase, next_step>>
    BY DEF search
  <1>2. Grid!Tiles' = Grid!Tiles
    BY DEF Grid!Tiles
  <1>3. CASE phase = "idle"
    BY <1>1, <1>3 DEF SearchInv, Chasing, Searching, Answered
  <1>4. CASE UNCHANGED g_obstacle_map
    <2>1. /\ Nodes' = Nodes /\ Edges' = Edges /\ Estimates' = Estimates
          /\ idx(from)' = idx(from) /\ idx(to)' = idx(to)
          /\ \A n : tile(n)' = tile(n)
          /\ Around' = Around /\ Grown' = Grown
      BY <1>1, <1>4, Persists
    <2>2. Chasing'
      BY <1>1, <1>2 DEF SearchInv, Chasing
    <2>3. OnWay => OnWay'
      BY <1>1, <2>1 DEF OnWay
    <2>4. Searching'
      <3>1. Sound(Nodes, Edges, Estimates, idx(from), idx(to), g_cost, parent, closed, pq)
            => Sound(Nodes', Edges', Estimates', idx(from)', idx(to)', g_cost', parent', closed', pq')
        BY <1>1, <2>1, Zenon
      <3> QED BY <1>1, <2>1, <2>3, <3>1 DEF SearchInv, Searching
    <2>5. Answered'
      BY <1>1, <2>1 DEF SearchInv, Answered, Answers
    <2> QED BY <2>2, <2>4, <2>5 DEF SearchInv
  <1> QED BY <1>3, <1>4
-----------------------------------------------------------------------------
(* The start of the server.                                                *)

LEMMA SectorOfTile ==
    ASSUME NEW t \in Grid!Tiles
    PROVE  Grid!sector_id(t) \in Grid!Sectors
  <1>1. PICK x \in 0 .. WORLD_WIDTH - 1, y \in 0 .. WORLD_HEIGHT - 1 : t = <<x, y>>
    BY DEF Grid!Tiles
  <1>2. WORLD_WIDTH \in Nat \ {0} /\ WORLD_HEIGHT \in Nat \ {0} /\ VIEW_RANGE \in Nat
    BY WorldAssumption
  <1>3. PICK S \in Nat \ {0} : S = Grid!SECTOR_SIZE
    BY <1>2 DEF Grid!SECTOR_SIZE
  <1>4. PICK X \in Nat \ {0} : X = Grid!MAX_SECTORS_X /\ x \div S < X
    BY <1>1, <1>2, <1>3, DivCeil DEF Grid!MAX_SECTORS_X
  <1>5. PICK Y \in Nat \ {0} : Y = Grid!MAX_SECTORS_Y /\ y \div S < Y
    BY <1>1, <1>2, <1>3, DivCeil DEF Grid!MAX_SECTORS_Y
  <1>6. PICK sx \in Nat, sy \in Nat : sx = x \div S /\ sy = y \div S
    BY <1>3, DivBounds
  <1>7. Grid!sector_id(t) = sy * X + sx
    BY <1>1, <1>3, <1>4, <1>6 DEF Grid!sector_id, Grid!SECTOR_ID, Grid!SECTOR_X, Grid!SECTOR_Y
  <1>8. sy * X + sx \in 0 .. X * Y - 1
    BY <1>4, <1>5, <1>6, IndexBound
  <1> QED BY <1>4, <1>5, <1>7, <1>8 DEF Grid!Sectors

LEMMA SmallRemainder ==
    ASSUME NEW M \in Nat \ {0}, NEW u \in 0 .. M - 1
    PROVE  u % M = u
OBVIOUS

LEMMA WrapSame ==
    ASSUME NEW K \in Nat \ {0}, NEW v \in Int, -K <= v, v <= K - 1
    PROVE  ((v + K) % (K + K)) - K = v
  <1>1. PICK M \in Nat \ {0} : M = K + K
    OBVIOUS
  <1>2. v + K \in 0 .. M - 1
    BY <1>1
  <1>3. (v + K) % M = v + K
    BY <1>2, SmallRemainder
  <1> QED BY <1>1, <1>3

\* A number that fits is written as it is.
LEMMA Int16Same ==
    ASSUME NEW v \in Int16
    PROVE  int16(v) = v
  <1>1. PICK K \in Nat \ {0} : K = HALF
    BY DEF HALF
  <1>2. v \in -K .. K - 1
    BY <1>1 DEF Int16
  <1>3. v \in Int /\ -K <= v /\ v <= K - 1
    BY <1>2
  <1>4. ((v + K) % (K + K)) - K = v
    BY <1>3, WrapSame
  <1>5. int16(v) = ((v + K) % (K + K)) - K
    BY <1>1, Zenon DEF int16
  <1> QED BY <1>4, <1>5

LEMMA RecordSame ==
    ASSUME NEW r \in Rects
    PROVE  [f \in DOMAIN r |-> int16(r[f])] = r
  <1>1. /\ DOMAIN r = {"x", "y", "w", "h", "t"}
        /\ r = [f \in DOMAIN r |-> r[f]]
    BY DEF Rects
  <1>2. \A f \in DOMAIN r : r[f] \in Int16
    BY <1>1 DEF Rects
  <1>3. \A f \in DOMAIN r : int16(r[f]) = r[f]
    BY <1>2, Int16Same
  <1> HIDE DEF Rects
  <1>4. [f \in DOMAIN r |-> int16(r[f])] = [f \in DOMAIN r |-> r[f]]
    BY <1>3
  <1> QED BY <1>1, <1>4
-----------------------------------------------------------------------------
(* The inductive invariant of the start.                                   *)

\* The tiles of the world inside some rectangle.
Covered(rects) == (UNION { Area(rects[i]) : i \in DOMAIN rects }) \cap Grid!Tiles

\* The ids given so far.
Ids == NPC_ID_START .. NPC_ID_START + total - 1

Typed ==
    /\ script \in Scripts
    /\ total \in 0 .. MAX_NPCS
    /\ g_obstacle_rects \in Seq(Rects)
    /\ g_npc_groups \in Seq(Groups)
    /\ phase # "idle" => boot = "accept"

\* The map is what was read of the script.
Mapped == g_obstacle_map = Covered(g_obstacle_rects)

\* The NPCs have the first ids, and are each in their sector.
Populated ==
    /\ DOMAIN clients = Ids
    /\ \A i \in Ids : clients[i].tile \in Grid!Tiles
    /\ DOMAIN sectors = Grid!Sectors
    /\ \A s \in Grid!Sectors : \A i : i \in sectors[s] <=>
          i \in Ids /\ s = Grid!sector_id(clients[i].tile)
    /\ boot = "accept" => total = MAX_NPCS

\* The file holds the rectangles read, as far as it is written; it is written
\* after they are read, and before a client that will rely on it opens it.
Recorded ==
    /\ boot = "write file" => wrote
    /\ wrote =>
          /\ boot \notin {"lua", "rects", "open file"}
          /\ file.magic = "OBS2" /\ file.n = Len(g_obstacle_rects)
          /\ file = [magic |-> file.magic, n |-> file.n, vals |-> file.vals]
          /\ file.vals \in Seq(Rects) /\ Len(file.vals) <= file.n
          /\ \A i \in 1 .. Len(file.vals) : file.vals[i] = g_obstacle_rects[i]
          /\ boot # "write file" => Len(file.vals) = file.n
    /\ current => wrote /\ viewer # "off" /\ boot # "write file"

SetupInv == Typed /\ Mapped /\ Populated /\ Recorded /\ MapAgrees /\ SearchInv

LEMMA GridSame ==
    /\ Grid!Tiles' = Grid!Tiles /\ Grid!Sectors' = Grid!Sectors
    /\ \A t : Grid!sector_id(t)' = Grid!sector_id(t)
    /\ \A rects : Covered(rects)' = Covered(rects)
  <1>1. Grid!Tiles' = Grid!Tiles
    BY DEF Grid!Tiles
  <1>2. Grid!Sectors' = Grid!Sectors
    BY DEF Grid!Sectors, Grid!MAX_SECTORS_X, Grid!MAX_SECTORS_Y, Grid!SECTOR_SIZE
  <1>3. \A t : Grid!sector_id(t)' = Grid!sector_id(t)
    BY DEF Grid!sector_id, Grid!SECTOR_ID, Grid!SECTOR_X, Grid!SECTOR_Y,
           Grid!MAX_SECTORS_X, Grid!SECTOR_SIZE
  <1>4. \A rects : Covered(rects)' = Covered(rects)
    BY <1>1 DEF Covered, Area
  <1> QED BY <1>1, <1>2, <1>3, <1>4

\* A server that has read nothing.
LEMMA EmptySetup ==
    ASSUME g_obstacle_rects = <<>>, g_npc_groups = <<>>, g_obstacle_map = {}, clients = <<>>,
           sectors = [s \in Grid!Sectors |-> {}], total = 0, boot = "lua", script \in Scripts,
           wrote = FALSE, current = FALSE, phase = "idle"
    PROVE  Typed /\ Mapped /\ Populated /\ Recorded /\ MapAgrees
  <1>1. Typed
    BY SetupAssumption DEF Typed
  <1>2. Mapped
    BY DEF Mapped, Covered
  <1>3. Populated
    <2>1. Ids = {}
      BY SetupAssumption DEF Ids
    <2>2. DOMAIN clients = {}
      OBVIOUS
    <2> QED BY <2>1, <2>2 DEF Populated
  <1>4. Recorded
    BY DEF Recorded
  <1>5. MapAgrees
    BY DEF MapAgrees
  <1> QED BY <1>1, <1>2, <1>3, <1>4, <1>5

LEMMA SetupInit ==
    ASSUME Init
    PROVE  SetupInv
  <1>1. Typed /\ Mapped /\ Populated /\ Recorded /\ MapAgrees
    <2>1. /\ g_obstacle_rects = <<>> /\ g_npc_groups = <<>> /\ g_obstacle_map = {}
          /\ clients = <<>> /\ sectors = [s \in Grid!Sectors |-> {}] /\ total = 0
          /\ boot = "lua" /\ script \in Scripts /\ wrote = FALSE /\ current = FALSE
          /\ phase = "idle"
      BY DEF Init, NoSearch
    <2> QED BY <2>1, EmptySetup
  <1>2. SearchInv
    BY DEF Init, NoSearch, SearchInv, Chasing, Searching, Answered
  <1> QED BY <1>1, <1>2 DEF SetupInv

\* What a step that leaves some of the state alone keeps.
LEMMA MappedKept ==
    ASSUME Mapped, UNCHANGED <<g_obstacle_map, g_obstacle_rects>>
    PROVE  Mapped'
BY GridSame DEF Mapped

LEMMA PopulatedKept ==
    ASSUME Populated, UNCHANGED <<clients, sectors, total>>,
           boot' = "accept" => total = MAX_NPCS
    PROVE  Populated'
  <1>1. Ids' = Ids
    BY DEF Ids
  <1> QED BY <1>1, GridSame DEF Populated

LEMMA RecordedKept ==
    ASSUME Recorded, UNCHANGED <<g_obstacle_rects, file, wrote, viewer, current>>,
           boot' # boot => boot # "write file" /\ boot' \notin {"write file", "rects", "lua"},
           boot' = "open file" => boot \in {"lua", "rects", "open file"}
    PROVE  Recorded'
  <1>1. boot' \in {"lua", "rects", "open file"} => boot \in {"lua", "rects", "open file"}
    OBVIOUS
  <1> QED BY <1>1 DEF Recorded

LEMMA MapAgreesKept ==
    ASSUME MapAgrees, UNCHANGED <<g_obstacle_map, viewer, current, g_obstacles>>
    PROVE  MapAgrees'
  <1>1. Covered(g_obstacles)' = Covered(g_obstacles)
    BY DEF Covered, Area, Grid!Tiles
  <1> QED BY <1>1 DEF MapAgrees, Covered
-----------------------------------------------------------------------------
(* The steps of main.                                                      *)

LEMMA RestartKeeps ==
    ASSUME SetupInv, Restart
    PROVE  SetupInv'
  <1>1. SearchInv'
    BY OtherKeeps DEF SetupInv, Restart
  <1>2. /\ g_obstacle_rects' = <<>> /\ g_npc_groups' = <<>> /\ g_obstacle_map' = {}
        /\ clients' = <<>> /\ sectors' = [s \in Grid!Sectors |-> {}] /\ total' = 0
        /\ boot' = "lua" /\ script' \in Scripts /\ wrote' = FALSE /\ current' = FALSE
        /\ phase' = "idle"
    BY DEF Restart, search
  <1>3. Typed'
    BY <1>2, SetupAssumption DEF Typed
  <1>4. Mapped'
    BY <1>2, GridSame DEF Mapped, Covered
  <1>5. Populated'
    <2>1. Ids' = {}
      BY <1>2, SetupAssumption DEF Ids
    <2>2. DOMAIN clients' = {}
      BY <1>2
    <2>3. DOMAIN sectors' = Grid!Sectors' /\ \A s \in Grid!Sectors' : sectors'[s] = {}
      BY <1>2, GridSame
    <2> QED BY <1>2, <2>1, <2>2, <2>3 DEF Populated
  <1>6. Recorded'
    BY <1>2 DEF Recorded
  <1>7. MapAgrees'
    BY <1>2 DEF MapAgrees
  <1> QED BY <1>1, <1>3, <1>4, <1>5, <1>6, <1>7 DEF SetupInv

LEMMA LuaKeeps ==
    ASSUME SetupInv, init_lua
    PROVE  SetupInv'
  <1>1. /\ boot = "lua" /\ boot' \in {"rects", "open file"}
        /\ UNCHANGED <<search, g_obstacle_map, script, g_obstacle_rects, g_npc_groups, clients,
                       sectors, total, viewer, g_obstacles, current, file, wrote, phase>>
    BY DEF init_lua, server, client, search
  <1>2. Typed'
    BY <1>1 DEF SetupInv, Typed
  <1>3. Mapped' /\ Populated' /\ MapAgrees'
    BY <1>1, MappedKept, PopulatedKept, MapAgreesKept DEF SetupInv
  <1>4. Recorded'
    BY <1>1 DEF SetupInv, Recorded
  <1>5. SearchInv'
    BY <1>1, OtherKeeps DEF SetupInv
  <1> QED BY <1>2, <1>3, <1>4, <1>5 DEF SetupInv

\* One rectangle more covers its own tiles more.
LEMMA CoveredMore ==
    ASSUME NEW rects \in Seq(Rects), NEW r \in Rects
    PROVE  Covered(Append(rects, r)) = Covered(rects) \cup (Area(r) \cap Grid!Tiles)
  <1> DEFINE n == Len(rects) + 1
             more == Append(rects, r)
  <1>1. n \in Nat \ {0} /\ DOMAIN rects = 1 .. n - 1 /\ DOMAIN more = 1 .. n
    OBVIOUS
  <1>2. more[n] = r /\ \A i \in 1 .. n - 1 : more[i] = rects[i]
    OBVIOUS
  <1> HIDE DEF n, more
  <1>3. ASSUME NEW t \in Grid!Tiles
        PROVE  t \in Covered(more) <=> t \in Covered(rects) \/ t \in Area(r)
    <2>1. t \in Covered(more) <=> \E i \in 1 .. n : t \in Area(more[i])
      BY <1>1, Zenon DEF Covered
    <2>2. t \in Covered(rects) <=> \E i \in 1 .. n - 1 : t \in Area(rects[i])
      BY <1>1, Zenon DEF Covered
    <2>3. (\E i \in 1 .. n : t \in Area(more[i]))
          <=> t \in Area(r) \/ \E i \in 1 .. n - 1 : t \in Area(rects[i])
      <3>1. 1 .. n = (1 .. n - 1) \cup {n}
        BY <1>1
      <3> QED BY <1>2, <3>1, Zenon
    <2> QED BY <2>1, <2>2, <2>3
  <1>4. Covered(more) \subseteq Grid!Tiles /\ Covered(rects) \subseteq Grid!Tiles
    BY DEF Covered
  <1>5. Covered(more) = Covered(rects) \cup (Area(r) \cap Grid!Tiles)
    BY <1>3, <1>4
  <1> QED BY <1>5 DEF more

LEMMA LoadKeeps ==
    ASSUME SetupInv, LoadRect
    PROVE  SetupInv'
  <1>1. PICK r : /\ r = script.obstacles[Len(g_obstacle_rects) + 1]
                 /\ g_obstacle_rects' = Append(g_obstacle_rects, r)
                 /\ g_obstacle_map' = g_obstacle_map \cup (Area(r) \cap Grid!Tiles)
    BY DEF LoadRect
  <1>2. /\ boot = "rects" /\ Len(g_obstacle_rects) < Len(script.obstacles)
        /\ UNCHANGED <<search, script, g_npc_groups, clients, sectors, total, viewer,
                       g_obstacles, current, boot, file, wrote, phase>>
    BY DEF LoadRect, client, search
  <1>3. g_obstacle_rects \in Seq(Rects) /\ r \in Rects
    <2>1. script.obstacles \in Seq(Rects) /\ g_obstacle_rects \in Seq(Rects)
      BY ScriptAssumption DEF SetupInv, Typed
    <2>2. Len(g_obstacle_rects) + 1 \in 1 .. Len(script.obstacles)
      BY <1>2, <2>1
    <2> QED BY <1>1, <2>1, <2>2
  <1>4. Typed'
    BY <1>1, <1>2, <1>3 DEF SetupInv, Typed
  <1>5. Mapped'
    <2>1. g_obstacle_map' = Covered(g_obstacle_rects')
      BY <1>1, <1>3, CoveredMore, Zenon DEF SetupInv, Mapped
    <2> QED BY <2>1, GridSame DEF Mapped
  <1>6. Populated'
    BY <1>2, PopulatedKept DEF SetupInv
  <1>7. ~wrote /\ ~current
    BY <1>2 DEF SetupInv, Recorded
  <1>8. Recorded'
    BY <1>2, <1>7 DEF Recorded
  <1>9. MapAgrees'
    BY <1>2, <1>7 DEF MapAgrees
  <1>10. SearchInv'
    BY <1>2, OtherKeeps DEF SetupInv, Typed
  <1> QED BY <1>4, <1>5, <1>6, <1>8, <1>9, <1>10 DEF SetupInv

LEMMA GroupsKeep ==
    ASSUME SetupInv, load_npc_groups
    PROVE  SetupInv'
  <1>1. /\ boot = "rects" /\ boot' = "open file" /\ g_npc_groups' = script.groups
        /\ UNCHANGED <<search, g_obstacle_map, script, g_obstacle_rects, clients,
                       sectors, total, viewer, g_obstacles, current, file, wrote, phase>>
    BY DEF load_npc_groups, client, search
  <1>2. Typed'
    BY <1>1, ScriptAssumption DEF SetupInv, Typed
  <1>3. Mapped' /\ Populated' /\ Recorded' /\ MapAgrees'
    BY <1>1, MappedKept, PopulatedKept, RecordedKept, MapAgreesKept DEF SetupInv
  <1>4. SearchInv'
    BY <1>1, OtherKeeps DEF SetupInv
  <1> QED BY <1>2, <1>3, <1>4 DEF SetupInv

LEMMA OpenKeeps ==
    ASSUME SetupInv, OpenFile
    PROVE  SetupInv'
  <1>1. /\ boot = "open file"
        /\ UNCHANGED <<search, g_obstacle_map, script, g_obstacle_rects, g_npc_groups, clients,
                       sectors, total, viewer, g_obstacles, current, phase>>
        /\ \/ /\ boot' = "write file" /\ wrote' = TRUE
              /\ file' = [magic |-> "OBS2", n |-> Len(g_obstacle_rects), vals |-> <<>>]
           \/ boot' = "bosses" /\ UNCHANGED <<file, wrote>>
    BY DEF OpenFile, server, client, search
  <1>2. Typed'
    BY <1>1 DEF SetupInv, Typed
  <1>3. Mapped' /\ Populated' /\ MapAgrees'
    BY <1>1, MappedKept, PopulatedKept, MapAgreesKept DEF SetupInv
  <1>4. Recorded'
    <2>1. ~wrote /\ ~current
      BY <1>1 DEF SetupInv, Recorded
    <2>2. CASE boot' = "bosses" /\ UNCHANGED <<file, wrote>>
      BY <1>1, <2>1, <2>2 DEF Recorded
    <2>3. CASE /\ boot' = "write file" /\ wrote' = TRUE
               /\ file' = [magic |-> "OBS2", n |-> Len(g_obstacle_rects), vals |-> <<>>]
      <3>1. Len(g_obstacle_rects) \in Nat
        BY DEF SetupInv, Typed
      <3>2. /\ file'.magic = "OBS2" /\ file'.n = Len(g_obstacle_rects') /\ file'.vals = <<>>
            /\ file' = [magic |-> file'.magic, n |-> file'.n, vals |-> file'.vals]
        BY <1>1, <2>3
      <3>3. /\ file'.vals \in Seq(Rects) /\ Len(file'.vals) <= file'.n
            /\ \A i \in 1 .. Len(file'.vals) : file'.vals[i] = g_obstacle_rects'[i]
        <4>1. <<>> \in Seq(Rects) /\ Len(<<>>) = 0 /\ 1 .. 0 = {}
          OBVIOUS
        <4>2. Len(g_obstacle_rects) >= 0
          BY <3>1
        <4> QED BY <3>2, <4>1, <4>2
      <3>4. wrote' /\ ~current' /\ boot' = "write file"
        BY <1>1, <2>1, <2>3
      <3> QED BY <3>2, <3>3, <3>4 DEF Recorded
    <2> QED BY <1>1, <2>2, <2>3
  <1>5. SearchInv'
    BY <1>1, OtherKeeps DEF SetupInv
  <1> QED BY <1>2, <1>3, <1>4, <1>5 DEF SetupInv

LEMMA WriteKeeps ==
    ASSUME SetupInv, WriteRecord
    PROVE  SetupInv'
  <1> DEFINE k == Len(file.vals) + 1
             r == [f \in DOMAIN g_obstacle_rects[k] |-> int16(g_obstacle_rects[k][f])]
  <1>1. /\ boot = "write file"
        /\ UNCHANGED <<search, g_obstacle_map, script, g_obstacle_rects, g_npc_groups, clients,
                       sectors, total, viewer, g_obstacles, current, wrote, phase>>
        /\ \/ /\ k <= Len(g_obstacle_rects) /\ boot' = boot
              /\ file' = [file EXCEPT !.vals = Append(@, r)]
           \/ k > Len(g_obstacle_rects) /\ boot' = "bosses" /\ file' = file
    <2>1. boot = "write file"
      BY DEF WriteRecord
    <2>2. Len(file.vals) \in Nat /\ Len(g_obstacle_rects) \in Nat
      <3>1. Recorded /\ g_obstacle_rects \in Seq(Rects)
        BY DEF SetupInv, Typed
      <3>2. file.vals \in Seq(Rects)
        BY <2>1, <3>1 DEF Recorded
      <3> QED BY <3>1, <3>2
    <2>3. UNCHANGED <<search, g_obstacle_map, server, client, wrote>>
      BY DEF WriteRecord
    <2>4. UNCHANGED <<script, g_obstacle_rects, g_npc_groups, clients, sectors, total, viewer,
                      g_obstacles, current, phase>>
      BY <2>3 DEF server, client, search
    <2>5. IF k <= Len(g_obstacle_rects)
          THEN boot' = boot /\ file' = [file EXCEPT !.vals = Append(@, r)]
          ELSE boot' = "bosses" /\ file' = file
      BY Zenon DEF WriteRecord
    <2>6. k \in Nat
      BY <2>2
    <2> HIDE DEF k, r
    <2>7. CASE k <= Len(g_obstacle_rects)
      BY <2>1, <2>3, <2>4, <2>5, <2>7
    <2>8. CASE k > Len(g_obstacle_rects)
      BY <2>1, <2>2, <2>3, <2>4, <2>5, <2>6, <2>8
    <2>9. k <= Len(g_obstacle_rects) \/ k > Len(g_obstacle_rects)
      BY <2>2, <2>6
    <2> QED BY <2>7, <2>8, <2>9, Zenon
  <1>2. /\ wrote /\ ~current /\ file.magic = "OBS2" /\ file.n = Len(g_obstacle_rects)
        /\ file = [magic |-> file.magic, n |-> file.n, vals |-> file.vals]
        /\ file.vals \in Seq(Rects) /\ Len(file.vals) <= file.n
        /\ \A i \in 1 .. Len(file.vals) : file.vals[i] = g_obstacle_rects[i]
        /\ g_obstacle_rects \in Seq(Rects)
    BY <1>1 DEF SetupInv, Typed, Recorded
  <1>3. Typed'
    BY <1>1 DEF SetupInv, Typed
  <1>4. Mapped' /\ Populated' /\ MapAgrees'
    <2>1. boot' # "accept"
      BY <1>1
    <2> QED BY <1>1, <2>1, MappedKept, PopulatedKept, MapAgreesKept DEF SetupInv
  <1>5. Recorded'
    <2>1. CASE /\ k <= Len(g_obstacle_rects) /\ boot' = boot
               /\ file' = [file EXCEPT !.vals = Append(@, r)]
      <3>1. k \in 1 .. Len(g_obstacle_rects) /\ k = Len(file.vals) + 1
        BY <1>2, <2>1
      <3>2. g_obstacle_rects[k] \in Rects
        BY <1>2, <3>1
      <3>3. r = g_obstacle_rects[k]
        BY <3>2, RecordSame
      <3> HIDE DEF k, r
      <3>4. /\ file'.magic = file.magic /\ file'.n = file.n
            /\ file'.vals = Append(file.vals, g_obstacle_rects[k])
            /\ file' = [magic |-> file'.magic, n |-> file'.n, vals |-> file'.vals]
        BY <1>2, <2>1, <3>3
      <3>5. /\ file'.vals \in Seq(Rects) /\ Len(file'.vals) = k
            /\ \A i \in 1 .. k : file'.vals[i] = g_obstacle_rects[i]
        BY <1>2, <3>1, <3>2, <3>4
      <3> QED BY <1>1, <1>2, <2>1, <3>1, <3>4, <3>5 DEF Recorded
    <2>2. CASE k > Len(g_obstacle_rects) /\ boot' = "bosses" /\ file' = file
      <3>1. Len(file.vals) = file.n
        BY <1>2, <2>2
      <3> HIDE DEF k, r
      <3> QED BY <1>1, <1>2, <2>2, <3>1 DEF Recorded
    <2> QED BY <1>1, <2>1, <2>2
  <1>6. SearchInv'
    BY <1>1, OtherKeeps DEF SetupInv
  <1> QED BY <1>3, <1>4, <1>5, <1>6 DEF SetupInv

LEMMA CrashKeeps ==
    ASSUME SetupInv, BootCrash
    PROVE  SetupInv'
  <1>1. /\ boot = "bosses" /\ boot' = "crashed"
        /\ UNCHANGED <<search, g_obstacle_map, script, g_obstacle_rects, g_npc_groups, clients,
                       sectors, total, viewer, g_obstacles, current, file, wrote, phase>>
    BY DEF BootCrash, server, client, search
  <1>2. Typed'
    BY <1>1 DEF SetupInv, Typed
  <1>3. Mapped' /\ Populated' /\ Recorded' /\ MapAgrees'
    BY <1>1, MappedKept, PopulatedKept, RecordedKept, MapAgreesKept DEF SetupInv
  <1>4. SearchInv'
    BY <1>1, OtherKeeps DEF SetupInv
  <1> QED BY <1>2, <1>3, <1>4 DEF SetupInv

\* The NPC with the next id, put on a tile of the world.
LEMMA PlaceKeeps ==
    ASSUME Populated, total \in Nat, total < MAX_NPCS, NEW t \in Grid!Tiles, NEW type,
           Place(t, type), boot' # "accept"
    PROVE  Populated' /\ total' \in 0 .. MAX_NPCS
  <1> DEFINE i == NPC_ID_START + total
             at == Grid!sector_id(t)
  <1>1. /\ clients' = [j \in DOMAIN clients \cup {i} |->
                          IF j = i THEN [tile |-> t, type |-> type] ELSE clients[j]]
        /\ sectors' = [sectors EXCEPT ![at] = @ \cup {i}]
        /\ total' = total + 1
    BY DEF Place
  <1>2. MAX_NPCS \in Nat /\ NPC_ID_START \in Nat
    BY SetupAssumption
  <1>3. total' \in 0 .. MAX_NPCS
    BY <1>1, <1>2
  <1>4. i \notin Ids /\ Ids' = Ids \cup {i}
    BY <1>1, <1>2 DEF Ids
  <1>5. at \in Grid!Sectors
    BY SectorOfTile
  <1>6. /\ DOMAIN clients = Ids /\ DOMAIN sectors = Grid!Sectors
        /\ \A j \in Ids : clients[j].tile \in Grid!Tiles
        /\ \A s \in Grid!Sectors : \A j : j \in sectors[s] <=>
              j \in Ids /\ s = Grid!sector_id(clients[j].tile)
    BY DEF Populated
  <1> HIDE DEF i, at
  <1>7. DOMAIN clients' = Ids'
    BY <1>1, <1>4, <1>6
  <1>8. clients'[i].tile = t /\ \A j \in Ids : clients'[j] = clients[j]
    BY <1>1, <1>4, <1>6
  <1>9. /\ DOMAIN sectors' = Grid!Sectors /\ sectors'[at] = sectors[at] \cup {i}
        /\ \A s \in Grid!Sectors : s # at => sectors'[s] = sectors[s]
    BY <1>1, <1>5, <1>6
  <1>10. \A j \in Ids' : clients'[j].tile \in Grid!Tiles
    BY <1>4, <1>6, <1>8
  <1>11. ASSUME NEW s \in Grid!Sectors, NEW j
         PROVE  j \in sectors'[s] <=> j \in Ids' /\ s = Grid!sector_id(clients'[j].tile)
    <2>1. CASE j = i
      <3>1. j \notin sectors[s] /\ j \in Ids' /\ Grid!sector_id(clients'[j].tile) = at
        BY <1>4, <1>6, <1>8, <2>1 DEF at
      <3> QED BY <1>9, <2>1, <3>1
    <2>2. CASE j # i
      <3>1. j \in sectors'[s] <=> j \in sectors[s]
        BY <1>9, <2>2
      <3>2. j \in Ids' <=> j \in Ids
        BY <1>4, <2>2
      <3>3. j \in Ids => clients'[j] = clients[j]
        BY <1>8
      <3> QED BY <1>6, <3>1, <3>2, <3>3
    <2> QED BY <2>1, <2>2
  <1>12. Populated'
    <2>1. \A s \in Grid!Sectors' : \A j : j \in sectors'[s] <=>
             j \in Ids' /\ s = Grid!sector_id(clients[j].tile)'
      BY <1>11, GridSame
    <2> QED BY <1>7, <1>9, <1>10, <2>1, GridSame DEF Populated
  <1> QED BY <1>3, <1>12

\* What is left to show of a step of InitializeNPC.
LEMMA PlacingKeeps ==
    ASSUME SetupInv, boot \in {"bosses", "groups", "fill"},
           boot' \in {"bosses", "groups", "fill", "accept"},
           UNCHANGED <<search, g_obstacle_map, script, g_obstacle_rects, client, file, wrote>>,
           g_npc_groups' \in Seq(Groups), Populated', total' \in 0 .. MAX_NPCS
    PROVE  SetupInv'
  <1>1. UNCHANGED <<viewer, g_obstacles, current, phase>>
    BY DEF client, search
  <1>2. Typed'
    BY <1>1 DEF SetupInv, Typed
  <1>3. Mapped' /\ MapAgrees'
    BY <1>1, MappedKept, MapAgreesKept DEF SetupInv
  <1>4. Recorded'
    BY <1>1, RecordedKept DEF SetupInv
  <1>5. SearchInv'
    BY <1>1, OtherKeeps DEF SetupInv
  <1> QED BY <1>2, <1>3, <1>4, <1>5 DEF SetupInv

LEMMA BossKeeps ==
    ASSUME SetupInv, PlaceBoss
    PROVE  SetupInv'
  <1>1. /\ boot = "bosses"
        /\ UNCHANGED <<search, g_obstacle_map, script, g_obstacle_rects, g_npc_groups,
                       client, file, wrote>>
    BY DEF PlaceBoss
  <1>2. total \in Nat /\ g_npc_groups \in Seq(Groups) /\ Populated /\ total \in 0 .. MAX_NPCS
    BY DEF SetupInv, Typed
  <1>3. CASE total < Len(BOSS_SPAWN) /\ total < MAX_NPCS
    <2> DEFINE at == BOSS_SPAWN[total + 1]
    <2>1. PICK dx \in -BOSS_SHIFT .. BOSS_SHIFT, dy \in -BOSS_SHIFT .. BOSS_SHIFT :
             Place(<<at[1] + dx, at[2] + dy>>, "BOSS") /\ boot' = boot
      BY <1>3, Zenon DEF PlaceBoss
    <2>2. <<at[1] + dx, at[2] + dy>> \in Grid!Tiles
      <3>1. /\ BOSS_SHIFT \in Nat
            /\ BOSS_SPAWN \in Seq((BOSS_SHIFT .. WORLD_WIDTH - 1 - BOSS_SHIFT)
                                      \X (BOSS_SHIFT .. WORLD_HEIGHT - 1 - BOSS_SHIFT))
        BY SetupAssumption
      <3>2. total + 1 \in 1 .. Len(BOSS_SPAWN)
        BY <1>2, <1>3, <3>1
      <3>3. at \in (BOSS_SHIFT .. WORLD_WIDTH - 1 - BOSS_SHIFT)
                       \X (BOSS_SHIFT .. WORLD_HEIGHT - 1 - BOSS_SHIFT)
        BY <3>1, <3>2
      <3> HIDE DEF at
      <3>4. PICK x \in BOSS_SHIFT .. WORLD_WIDTH - 1 - BOSS_SHIFT,
                 y \in BOSS_SHIFT .. WORLD_HEIGHT - 1 - BOSS_SHIFT : at = <<x, y>>
        BY <3>3
      <3>5. x + dx \in 0 .. WORLD_WIDTH - 1 /\ y + dy \in 0 .. WORLD_HEIGHT - 1
        BY <3>1, <3>4, WorldAssumption, SMTT(30)
      <3> QED BY <3>4, <3>5 DEF Grid!Tiles
    <2> HIDE DEF at
    <2>3. boot' # "accept"
      BY <1>1, <2>1
    <2>4. Populated' /\ total' \in 0 .. MAX_NPCS
      BY <1>2, <1>3, <2>1, <2>2, <2>3, PlaceKeeps
    <2> QED BY <1>1, <1>2, <2>1, <2>4, PlacingKeeps
  <1>4. CASE ~(total < Len(BOSS_SPAWN) /\ total < MAX_NPCS)
    <2>1. boot' = "groups" /\ UNCHANGED <<clients, sectors, total>>
      BY <1>4 DEF PlaceBoss
    <2>2. Populated'
      BY <1>2, <2>1, PopulatedKept
    <2> QED BY <1>1, <1>2, <2>1, <2>2, PlacingKeeps
  <1> QED BY <1>3, <1>4

LEMMA GroupKeeps ==
    ASSUME SetupInv, PlaceOfGroup
    PROVE  SetupInv'
  <1>1. /\ boot = "groups" /\ boot' = boot /\ g_npc_groups # <<>> /\ total < MAX_NPCS
        /\ UNCHANGED <<search, g_obstacle_map, script, g_obstacle_rects, g_npc_groups,
                       client, file, wrote>>
    BY DEF PlaceOfGroup, MoreOfGroup
  <1>2. total \in Nat /\ g_npc_groups \in Seq(Groups) /\ Populated
    BY DEF SetupInv, Typed
  <1> DEFINE g == Head(g_npc_groups)
             x(dx) == Most(0, Least(g.x + dx, WORLD_WIDTH - 1))
             y(dy) == Most(0, Least(g.y + dy, WORLD_HEIGHT - 1))
  <1>3. PICK dx \in -g.range .. g.range, dy \in -g.range .. g.range :
           Place(<<x(dx), y(dy)>>, IF g.npc_type = 2 THEN "AGRO" ELSE "PEACE")
    BY Zenon DEF PlaceOfGroup
  <1>4. <<x(dx), y(dy)>> \in Grid!Tiles
    <2>1. g \in Groups
      BY <1>1, <1>2
    <2>2. g.x + dx \in Int /\ g.y + dy \in Int
      BY <2>1 DEF Groups
    <2> HIDE DEF g
    <2>3. WORLD_WIDTH \in Nat \ {0} /\ WORLD_HEIGHT \in Nat \ {0}
      BY WorldAssumption
    <2>4. x(dx) \in 0 .. WORLD_WIDTH - 1 /\ y(dy) \in 0 .. WORLD_HEIGHT - 1
      BY <2>2, <2>3 DEF Most, Least
    <2> QED BY <2>4 DEF Grid!Tiles
  <1> HIDE DEF g, x, y
  <1>5. Populated' /\ total' \in 0 .. MAX_NPCS
    BY <1>1, <1>2, <1>3, <1>4, PlaceKeeps
  <1> QED BY <1>1, <1>2, <1>5, PlacingKeeps

LEMMA NextGroupKeeps ==
    ASSUME SetupInv, NextGroup
    PROVE  SetupInv'
  <1>1. /\ boot = "groups" /\ boot' \in {"groups", "fill"}
        /\ UNCHANGED <<search, g_obstacle_map, script, g_obstacle_rects, clients, sectors, total,
                       client, file, wrote>>
    BY DEF NextGroup
  <1>2. g_npc_groups \in Seq(Groups) /\ Populated /\ total \in 0 .. MAX_NPCS
    BY DEF SetupInv, Typed
  <1>3. g_npc_groups' \in Seq(Groups)
    BY <1>2 DEF NextGroup
  <1>4. Populated'
    BY <1>1, <1>2, PopulatedKept
  <1> QED BY <1>1, <1>2, <1>3, <1>4, PlacingKeeps

LEMMA FillKeeps ==
    ASSUME SetupInv, Fill
    PROVE  SetupInv'
  <1>1. /\ boot = "fill"
        /\ UNCHANGED <<search, g_obstacle_map, script, g_obstacle_rects, g_npc_groups,
                       client, file, wrote>>
    BY DEF Fill
  <1>2. /\ total \in Nat /\ g_npc_groups \in Seq(Groups) /\ Populated
        /\ total \in 0 .. MAX_NPCS /\ MAX_NPCS \in Nat
    BY SetupAssumption DEF SetupInv, Typed
  <1>3. CASE total < MAX_NPCS
    <2>1. PICK t \in Grid!Tiles : Place(t, IF total % 2 = 0 THEN "PEACE" ELSE "AGRO")
      BY <1>3, Zenon DEF Fill
    <2>2. boot' = boot
      BY <1>3 DEF Fill
    <2>3. Populated' /\ total' \in 0 .. MAX_NPCS
      BY <1>1, <1>2, <1>3, <2>1, <2>2, PlaceKeeps
    <2> QED BY <1>1, <1>2, <2>2, <2>3, PlacingKeeps
  <1>4. CASE ~(total < MAX_NPCS)
    <2>1. boot' = "accept" /\ UNCHANGED <<clients, sectors, total>> /\ total = MAX_NPCS
      BY <1>2, <1>4 DEF Fill
    <2>2. Populated'
      BY <1>2, <2>1, PopulatedKept
    <2> QED BY <1>1, <1>2, <2>1, <2>2, PlacingKeeps
  <1> QED BY <1>3, <1>4
-----------------------------------------------------------------------------
(* The game client, and an NPC that chases a player.                       *)

LEMMA ClientOpenKeeps ==
    ASSUME SetupInv, ClientOpen
    PROVE  SetupInv'
  <1>1. /\ viewer = "off"
        /\ UNCHANGED <<search, g_obstacle_map, script, g_obstacle_rects, g_npc_groups, clients,
                       sectors, total, g_obstacles, boot, file, wrote, phase>>
        /\ \/ viewer' = "reading" /\ current' = wrote /\ boot # "write file"
           \/ viewer' = "playing" /\ current' = current
    BY DEF ClientOpen, Readable, server, search
  <1>2. ~current
    BY <1>1 DEF SetupInv, Recorded
  <1>3. Typed'
    BY <1>1 DEF SetupInv, Typed
  <1>4. Mapped' /\ Populated'
    <2>1. boot' = "accept" => total = MAX_NPCS
      BY <1>1 DEF SetupInv, Populated
    <2> QED BY <1>1, <2>1, MappedKept, PopulatedKept DEF SetupInv
  <1>5. Recorded'
    <2>1. Recorded
      BY DEF SetupInv
    <2>2. current' => wrote /\ viewer' # "off" /\ boot # "write file"
      BY <1>1, <1>2
    <2> QED BY <1>1, <2>1, <2>2 DEF Recorded
  <1>6. MapAgrees'
    <2>1. ~(viewer' = "playing" /\ current')
      BY <1>1, <1>2
    <2> QED BY <2>1 DEF MapAgrees
  <1>7. SearchInv'
    BY <1>1, OtherKeeps DEF SetupInv
  <1> QED BY <1>3, <1>4, <1>5, <1>6, <1>7 DEF SetupInv

LEMMA ClientReadKeeps ==
    ASSUME SetupInv, ClientRead
    PROVE  SetupInv'
  <1>1. /\ viewer = "reading" /\ viewer' = "playing"
        /\ UNCHANGED <<search, g_obstacle_map, script, g_obstacle_rects, g_npc_groups, clients,
                       sectors, total, current, boot, file, wrote, phase>>
    BY DEF ClientRead, server, search
  <1>2. Typed'
    BY <1>1 DEF SetupInv, Typed
  <1>3. Mapped' /\ Populated'
    <2>1. boot' = "accept" => total = MAX_NPCS
      BY <1>1 DEF SetupInv, Populated
    <2> QED BY <1>1, <2>1, MappedKept, PopulatedKept DEF SetupInv
  <1>4. Recorded'
    BY <1>1 DEF SetupInv, Recorded
  \* What the client reads is what the server read.
  <1>5. ASSUME current
        PROVE  Covered(g_obstacles') = g_obstacle_map
    <2>1. /\ file.magic = "OBS2" /\ file.n = Len(g_obstacle_rects) /\ Len(file.vals) = file.n
          /\ \A i \in 1 .. Len(file.vals) : file.vals[i] = g_obstacle_rects[i]
      BY <1>5 DEF SetupInv, Recorded
    <2>2. PICK g \in Garbage :
             g_obstacles' = [i \in 1 .. file.n |->
                 LET v == IF i <= Len(file.vals) THEN file.vals[i] ELSE g
                 IN IF file.magic = "OBS2" THEN v ELSE [v EXCEPT !.t = 0]]
      BY DEF ClientRead
    <2>3. g_obstacle_rects \in Seq(Rects)
      BY DEF SetupInv, Typed
    <2>4. PICK n \in Nat : n = file.n
      BY <2>1, <2>3
    <2>5. \A i \in 1 .. n : g_obstacles'[i] = g_obstacle_rects[i]
      BY <2>1, <2>2, <2>4
    <2>6. DOMAIN g_obstacles' = 1 .. n /\ DOMAIN g_obstacle_rects = 1 .. n
      BY <2>1, <2>2, <2>3, <2>4
    <2>7. Covered(g_obstacles') = Covered(g_obstacle_rects)
      <3>1. {Area(g_obstacles'[i]) : i \in 1 .. n} = {Area(g_obstacle_rects[i]) : i \in 1 .. n}
        BY <2>5
      <3> QED BY <2>6, <3>1 DEF Covered
    <2> QED BY <2>7 DEF SetupInv, Mapped
  <1>6. MapAgrees'
    <2>1. current => Covered(g_obstacles)' = g_obstacle_map'
      <3>1. Covered(g_obstacles)' = Covered(g_obstacles')
        BY DEF Covered, Grid!Tiles, Area
      <3> QED BY <1>1, <1>5, <3>1
    <2> QED BY <1>1, <2>1 DEF MapAgrees, Covered
  <1>7. SearchInv'
    BY <1>1, OtherKeeps DEF SetupInv
  <1> QED BY <1>2, <1>3, <1>4, <1>6, <1>7 DEF SetupInv

\* What is left to show of a step of the running server.
LEMMA RunningKeeps ==
    ASSUME SetupInv, UNCHANGED <<server, client, boot, file, wrote, g_obstacle_map>>,
           boot = "accept", SearchInv'
    PROVE  SetupInv'
  <1>1. UNCHANGED <<script, g_obstacle_rects, g_npc_groups, clients, sectors, total, viewer,
                    g_obstacles, current>>
    BY DEF server, client
  <1>2. Typed'
    BY <1>1 DEF SetupInv, Typed
  <1>3. Mapped' /\ MapAgrees'
    BY <1>1, MappedKept, MapAgreesKept DEF SetupInv
  <1>4. Populated'
    <2>1. total = MAX_NPCS
      BY DEF SetupInv, Populated
    <2> QED BY <1>1, <2>1, PopulatedKept DEF SetupInv
  <1>5. Recorded'
    BY <1>1, RecordedKept DEF SetupInv
  <1> QED BY <1>2, <1>3, <1>4, <1>5 DEF SetupInv

LEMMA ChaseKeeps ==
    ASSUME SetupInv, Chase
    PROVE  SetupInv'
  <1>1. /\ boot = "accept" /\ total > 0
        /\ UNCHANGED <<server, client, boot, file, wrote>>
    BY DEF Chase
  <1>2. PICK t \in Grid!Tiles : Call(clients[NPC_ID_START + total - 1].tile, t)
    BY Zenon DEF Chase
  <1>3. clients[NPC_ID_START + total - 1].tile \in Grid!Tiles
    <2>1. total \in Nat /\ NPC_ID_START \in Nat
      BY SetupAssumption DEF SetupInv, Typed
    <2>2. NPC_ID_START + total - 1 \in Ids
      BY <1>1, <2>1 DEF Ids
    <2> QED BY <2>2 DEF SetupInv, Populated
  <1>4. SearchInv'
    BY <1>2, <1>3, CallKeeps
  <1>5. UNCHANGED g_obstacle_map
    BY <1>2 DEF Call
  <1> QED BY <1>1, <1>4, <1>5, RunningKeeps

LEMMA SearchKeeps ==
    ASSUME SetupInv, Search
    PROVE  SetupInv'
  <1>1. AstarStep /\ UNCHANGED <<server, client, boot, file, wrote>>
    BY DEF Search
  <1>2. phase # "idle" /\ UNCHANGED g_obstacle_map
    BY <1>1 DEF AstarStep, Pop, Skip, Found, Expand, NoPath, Back, Return, Answer
  <1>3. boot = "accept"
    BY <1>2 DEF SetupInv, Typed
  <1>4. SearchInv'
    BY <1>1, AstarKeeps DEF SetupInv
  <1> QED BY <1>1, <1>2, <1>3, <1>4, RunningKeeps
-----------------------------------------------------------------------------
LEMMA SetupStep ==
    ASSUME SetupInv, [Next]_vars
    PROVE  SetupInv'
  <1>1. CASE Restart
    BY <1>1, RestartKeeps
  <1>2. CASE init_lua
    BY <1>2, LuaKeeps
  <1>3. CASE LoadRect
    BY <1>3, LoadKeeps
  <1>4. CASE load_npc_groups
    BY <1>4, GroupsKeep
  <1>5. CASE OpenFile
    BY <1>5, OpenKeeps
  <1>6. CASE WriteRecord
    BY <1>6, WriteKeeps
  <1>7. CASE BootCrash
    BY <1>7, CrashKeeps
  <1>8. CASE PlaceBoss
    BY <1>8, BossKeeps
  <1>9. CASE PlaceOfGroup
    BY <1>9, GroupKeeps
  <1>10. CASE NextGroup
    BY <1>10, NextGroupKeeps
  <1>11. CASE Fill
    BY <1>11, FillKeeps
  <1>12. CASE ClientOpen
    BY <1>12, ClientOpenKeeps
  <1>13. CASE ClientRead
    BY <1>13, ClientReadKeeps
  <1>14. CASE Chase
    BY <1>14, ChaseKeeps
  <1>15. CASE Search
    BY <1>15, SearchKeeps
  <1>16. CASE UNCHANGED vars
    <2>1. /\ UNCHANGED <<search, g_obstacle_map, script, g_obstacle_rects, g_npc_groups, clients,
                         sectors, total, viewer, g_obstacles, current, boot, file, wrote, phase>>
      BY <1>16 DEF vars, server, client, search
    <2>2. Typed'
      BY <2>1 DEF SetupInv, Typed
    <2>3. Mapped' /\ MapAgrees' /\ Recorded'
      BY <2>1, MappedKept, MapAgreesKept, RecordedKept DEF SetupInv
    <2>4. Populated'
      <3>1. boot' = "accept" => total = MAX_NPCS
        BY <2>1 DEF SetupInv, Populated
      <3> QED BY <2>1, <3>1, PopulatedKept DEF SetupInv
    <2>5. SearchInv'
      BY <2>1, OtherKeeps DEF SetupInv
    <2> QED BY <2>2, <2>3, <2>4, <2>5 DEF SetupInv
  <1> QED
    BY <1>1, <1>2, <1>3, <1>4, <1>5, <1>6, <1>7, <1>8, <1>9, <1>10, <1>11, <1>12, <1>13, <1>14,
       <1>15, <1>16, Zenon DEF Next

LEMMA SetupInvariant == Spec => []SetupInv
  <1>1. Init => SetupInv
    BY SetupInit
  <1>2. SetupInv /\ [Next]_vars => SetupInv'
    BY SetupStep
  <1> QED BY <1>1, <1>2, PTL DEF Spec

\* A client that opened the obstacles.bin of the running server draws exactly
\* the obstacles of that server, whatever the script, and whenever either of
\* the two was started or killed (load_obstacles, write_obstacle_bin,
\* load_obstacles_bin).
THEOREM MapsAgree == Spec => []MapAgrees
  <1>1. SetupInv => MapAgrees
    BY DEF SetupInv
  <1> QED BY <1>1, SetupInvariant, PTL

\* A server that accepts players has exactly the NPCs of all its ids, each in
\* the world and in the one sector of its tile (InitializeNPC).
THEOREM PopulationIsExact == Spec => []PopulationExact
  <1>1. SetupInv => PopulationExact
    <2> SUFFICES ASSUME SetupInv, boot = "accept"
                 PROVE  /\ DOMAIN clients = NPC_ID_START .. NPC_ID_START + MAX_NPCS - 1
                        /\ \A i \in DOMAIN clients :
                              /\ clients[i].tile \in Grid!Tiles
                              /\ {s \in DOMAIN sectors : i \in sectors[s]}
                                     = {Grid!sector_id(clients[i].tile)}
      BY DEF PopulationExact
    <2>1. Populated /\ total = MAX_NPCS
      BY DEF SetupInv, Populated
    <2>2. DOMAIN clients = Ids /\ Ids = NPC_ID_START .. NPC_ID_START + MAX_NPCS - 1
      BY <2>1 DEF Populated, Ids
    <2>3. ASSUME NEW i \in DOMAIN clients
          PROVE  /\ clients[i].tile \in Grid!Tiles
                 /\ {s \in DOMAIN sectors : i \in sectors[s]} = {Grid!sector_id(clients[i].tile)}
      <3>1. i \in Ids /\ clients[i].tile \in Grid!Tiles
        BY <2>1, <2>2 DEF Populated
      <3>2. Grid!sector_id(clients[i].tile) \in Grid!Sectors
        BY <3>1, SectorOfTile
      <3>3. \A s \in DOMAIN sectors : i \in sectors[s] <=> s = Grid!sector_id(clients[i].tile)
        BY <2>1, <3>1 DEF Populated
      <3>4. DOMAIN sectors = Grid!Sectors
        BY <2>1 DEF Populated
      <3> QED BY <3>1, <3>2, <3>3, <3>4
    <2> QED BY <2>2, <2>3
  <1> QED BY <1>1, SetupInvariant, PTL

\* Whatever the map, the next tile of an NPC that chases a player is the first
\* tile of a shortest way to the player through the box of the search, and the
\* NPC stays only if there is no way (astar_next_step).
THEOREM StepsAreShortest == Spec => []ShortestStep
  <1>1. SetupInv => ShortestStep
    <2> SUFFICES ASSUME SetupInv PROVE ShortestStep
      OBVIOUS
    <2>1. CASE phase = "done"
      <3>1. from \in Grid!Tiles /\ to \in Grid!Tiles /\ Answered
        BY <2>1 DEF SetupInv, SearchInv, Chasing
      <3> QED BY <3>1, AnsweredRight
    <2>2. CASE phase # "done"
      BY <2>2 DEF ShortestStep
    <2> QED BY <2>1, <2>2
  <1> QED BY <1>1, SetupInvariant, PTL
=============================================================================
