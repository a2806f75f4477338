--------------------------- MODULE ViewRaceProofs ---------------------------
(***************************************************************************)
(* For any number of workers, players and NPCs, and handlers that overlap  *)
(* in any way: a NPC has at most one tick while it lives, unless a hit has *)
(* overwritten its death, and a NPC that was killed comes back.  With one  *)
(* worker, for any number of players and NPCs: what the clients draw is    *)
(* exact between two handlers, and who has left is gone for good.          *)
(***************************************************************************)
EXTENDS ViewRace, FiniteSetTheorems, FunctionTheorems, WellFoundedInduction, TLAPS
(* Numbers divided into blocks; what the operators on sequences return that *)
(* Handlers uses to make and consume the operations of a handler.           *)

\* Division by a positive number, as the provers need it.
LEMMA DivBounds ==
    ASSUME NEW x \in Nat, NEW S \in Nat \ {0}
    PROVE  /\ x \div S \in Nat
           /\ (x \div S) * S <= x
           /\ x < (x \div S) * S + S
OBVIOUS

LEMMA DivMono ==
    ASSUME NEW x \in Nat, NEW y \in Nat, NEW S \in Nat \ {0}, x <= y
    PROVE  x \div S <= y \div S
OBVIOUS

\* Two numbers at most S apart fall into the same or neighbouring blocks.
LEMMA DivGap ==
    ASSUME NEW x \in Nat, NEW y \in Nat, NEW S \in Nat \ {0}, y - x <= S
    PROVE  y \div S <= x \div S + 1
OBVIOUS

\* The rounding up of MAX_SECTORS: the last index has a block.
LEMMA DivCeil ==
    ASSUME NEW x \in Nat, NEW W \in Nat \ {0}, NEW S \in Nat \ {0}, x < W
    PROVE  /\ (W + S - 1) \div S \in Nat \ {0}
           /\ x \div S < (W + S - 1) \div S
<1>1. x + S <= W + S - 1  OBVIOUS
<1>2. (x + S) \div S <= (W + S - 1) \div S
  BY <1>1, DivMono
<1>3. (x + S) \div S = x \div S + 1  OBVIOUS
<1>4. x \div S \in Nat  BY DivBounds
<1>5. (W + S - 1) \div S \in Nat  BY DivBounds
<1> QED  BY <1>2, <1>3, <1>4, <1>5

\* A row-major index stays inside the array.
LEMMA IndexBound ==
    ASSUME NEW X \in Nat \ {0}, NEW Y \in Nat \ {0}, NEW sx \in Nat, NEW sy \in Nat,
           sx < X, sy < Y
    PROVE  sy * X + sx \in 0 .. X * Y - 1
<1>1. sy * X <= (Y - 1) * X  OBVIOUS
<1>2. (Y - 1) * X = X * Y - X  OBVIOUS
<1>3. sy * X \in Nat /\ X * Y \in Nat  OBVIOUS
<1> QED  BY <1>1, <1>2, <1>3

LEMMA BlockDistance ==
    ASSUME NEW x \in Nat, NEW y \in Nat, NEW S \in Nat \ {0},
           x - y <= S, y - x <= S
    PROVE  y \div S \in x \div S - 1 .. x \div S + 1
<1>1. y \div S <= x \div S + 1  BY DivGap
<1>2. x \div S <= y \div S + 1  BY DivGap
<1>3. x \div S \in Nat /\ y \div S \in Nat  BY DivBounds
<1> QED  BY <1>1, <1>2, <1>3
-----------------------------------------------------------------------------

\* A set of numbers that has a member has a least one.
LEMMA Least ==
    ASSUME NEW U \in SUBSET Nat, U # {}
    PROVE  \E m \in U : \A k \in U : ~(k < m)
  <1> DEFINE R == OpToRel(<, Nat)
  <1>1. IsWellFoundedOn(R, Nat)
    BY NatLessThanWellFounded
  <1>2. \A x, y \in Nat : <<y, x>> \in R <=> y < x
    BY DEF OpToRel
  <1> HIDE DEF R
  <1>3. \E x \in U : \A y \in U : ~(<<y, x>> \in R)
    BY <1>1, WFMin
  <1> QED BY <1>2, <1>3

\* Induction, for a set of numbers instead of a predicate.
LEMMA Induction ==
    ASSUME NEW T, 0 \in T, \A n \in Nat : n \in T => n + 1 \in T
    PROVE  \A n \in Nat : n \in T
  <1> DEFINE U == Nat \ T
  <1> SUFFICES ASSUME U # {} PROVE FALSE
    OBVIOUS
  <1>1. PICK m \in U : \A k \in U : ~(k < m)
    BY Least
  <1>2. m # 0 /\ m - 1 \in Nat /\ m - 1 < m
    OBVIOUS
  <1>3. m - 1 \in T
    BY <1>1, <1>2
  <1> QED BY <1>2, <1>3
-----------------------------------------------------------------------------

\* The recursive function inside FlattenSeq exists.
LEMMA FlattenExists ==
    ASSUME NEW g, NEW n \in Nat
    PROVE  \E f : f = [i \in 1 .. n |-> IF i = 1 THEN g[i] ELSE f[i - 1] \o g[i]]
  <1> DEFINE Good(m, f) == f = [i \in 1 .. m |-> IF i = 1 THEN g[i] ELSE f[i - 1] \o g[i]]
             T == {m \in Nat : \E f : Good(m, f)}
  <1>1. 0 \in T
    <2>1. Good(0, [i \in 1 .. 0 |-> g[i]])
      OBVIOUS
    <2> QED BY <2>1
  <1>2. ASSUME NEW m \in Nat, m \in T PROVE m + 1 \in T
    <2>1. PICK f : Good(m, f)
      BY <1>2
    <2> DEFINE h == [i \in 1 .. m + 1 |->
                       IF i \in 1 .. m THEN f[i]
                       ELSE IF i = 1 THEN g[i] ELSE f[i - 1] \o g[i]]
    <2>2. \A i \in 1 .. m + 1 : h[i] = IF i = 1 THEN g[i] ELSE h[i - 1] \o g[i]
      <3> SUFFICES ASSUME NEW i \in 1 .. m + 1
                   PROVE  h[i] = IF i = 1 THEN g[i] ELSE h[i - 1] \o g[i]
        OBVIOUS
      <3>1. i # 1 => i - 1 \in 1 .. m /\ i - 1 \in 1 .. m + 1
        OBVIOUS
      <3>2. i # 1 => h[i - 1] = f[i - 1]
        BY <3>1
      <3>3. i \in 1 .. m => f[i] = IF i = 1 THEN g[i] ELSE f[i - 1] \o g[i]
        BY <2>1
      <3> QED BY <3>2, <3>3
    <2>3. Good(m + 1, h)
      <3> DEFINE e == [i \in 1 .. m + 1 |-> IF i = 1 THEN g[i] ELSE h[i - 1] \o g[i]]
      <3>1. \A i \in 1 .. m + 1 : h[i] = e[i]
        BY <2>2
      <3>2. /\ h = [i \in 1 .. m + 1 |-> h[i]] /\ e = [i \in 1 .. m + 1 |-> e[i]]
        OBVIOUS
      <3>3. h = e
        <4> HIDE DEF h, e
        <4> QED BY <3>1, <3>2
      <3> QED BY <3>3
    <2>4. \E x : Good(m + 1, x)
      <3> HIDE DEF h, Good
      <3> QED BY <2>3
    <2>5. m + 1 \in Nat
      OBVIOUS
    <2> HIDE DEF Good
    <2> QED BY <2>4, <2>5, Zenon
  <1>3. \A m \in Nat : m \in T
    <2> HIDE DEF T
    <2> QED BY <1>1, <1>2, Induction
  <1> QED BY <1>3

\* FlattenSeq of sequences over T is a sequence over T.
LEMMA FlattenTypes ==
    ASSUME NEW T, NEW n \in Nat, NEW g \in [1 .. n -> Seq(T)]
    PROVE  FlattenSeq(g) \in Seq(T)
  <1>1. g \in Seq(Seq(T)) /\ Len(g) = n
    OBVIOUS
  <1>2. CASE n = 0
    <2>1. g = <<>>
      BY <1>1, <1>2
    <2>2. FlattenSeq(g) = g
      BY <1>1, <1>2 DEF FlattenSeq
    <2>3. <<>> \in Seq(T)
      OBVIOUS
    <2> QED BY <2>1, <2>2, <2>3, Zenon
  <1>3. CASE n # 0
    <2> DEFINE f == CHOOSE x : x = [i \in 1 .. n |-> IF i = 1 THEN g[i] ELSE x[i - 1] \o g[i]]
    <2>1. f = [i \in 1 .. n |-> IF i = 1 THEN g[i] ELSE f[i - 1] \o g[i]]
      BY FlattenExists
    <2>2. FlattenSeq(g) = f[n]
      BY <1>1, <1>3 DEF FlattenSeq
    <2> HIDE DEF f
    <2> DEFINE U == {m \in Nat : m \in 1 .. n => f[m] \in Seq(T)}
    <2>3. 0 \in U
      OBVIOUS
    <2>4. ASSUME NEW m \in Nat, m \in U PROVE m + 1 \in U
      <3> SUFFICES ASSUME m + 1 \in 1 .. n PROVE f[m + 1] \in Seq(T)
        OBVIOUS
      <3>1. PICK i \in 1 .. n : i = m + 1
        OBVIOUS
      <3>2. \A j \in 1 .. n : f[j] = IF j = 1 THEN g[j] ELSE f[j - 1] \o g[j]
        BY <2>1, Zenon
      <3>3. f[i] = IF i = 1 THEN g[i] ELSE f[i - 1] \o g[i]
        BY <3>2, Zenon
      <3>4. g[i] \in Seq(T) /\ (i # 1 => i - 1 = m /\ m \in 1 .. n)
        BY <3>1
      <3>5. i # 1 => f[i - 1] \in Seq(T)
        BY <2>4, <3>4
      <3>6. f[i] \in Seq(T)
        BY <3>3, <3>4, <3>5
      <3> QED BY <3>1, <3>6
    <2>5. \A m \in Nat : m \in U
      <3> HIDE DEF U
      <3> QED BY <2>3, <2>4, Induction
    <2> QED BY <1>3, <2>2, <2>5
  <1> QED BY <1>2, <1>3

\* SetToSeq lists members of its set.
LEMMA SetToSeqTypes ==
    ASSUME NEW S, IsFiniteSet(S)
    PROVE  /\ Cardinality(S) \in Nat
           /\ SetToSeq(S) \in [1 .. Cardinality(S) -> S]
  <1>1. Cardinality(S) \in Nat /\ ExistsBijection(1 .. Cardinality(S), S)
    BY FS_CardinalityType
  <1>2. PICK f \in [1 .. Cardinality(S) -> S] : IsInjective(f)
    BY <1>1 DEF ExistsBijection, Bijection, Injection
  <1> QED BY <1>1, <1>2 DEF SetToSeq

LEMMA Concat ==
    ASSUME NEW T, NEW s \in Seq(T), NEW t \in Seq(T), NEW r, r = s \o t
    PROVE  /\ r \in Seq(T) /\ Len(r) = Len(s) + Len(t) /\ Len(s) \in Nat /\ Len(t) \in Nat
           /\ \A k \in 1 .. Len(r) : r[k] = IF k <= Len(s) THEN s[k] ELSE t[k - Len(s)]
  OBVIOUS

\* What is left of a handler after its next operation has put ops in front.
LEMMA Rest ==
    ASSUME NEW T, NEW s \in Seq(T), NEW t \in Seq(T), t # <<>>, NEW r, r = s \o Tail(t)
    PROVE  /\ r \in Seq(T)
           /\ Len(r) = Len(s) + Len(t) - 1
           /\ \A k \in 1 .. Len(r) :
                 \/ k \in 1 .. Len(s) /\ r[k] = s[k]
                 \/ k - Len(s) + 1 \in 2 .. Len(t) /\ r[k] = t[k - Len(s) + 1]
           /\ \A k \in 1 .. Len(s) : k \in 1 .. Len(r) /\ r[k] = s[k]
           /\ \A j \in 2 .. Len(t) : /\ j - 1 + Len(s) \in 1 .. Len(r)
                                     /\ r[j - 1 + Len(s)] = t[j]
  <1> DEFINE u == Tail(t)
  <1>1. /\ u \in Seq(T) /\ Len(t) \in Nat \ {0} /\ Len(u) = Len(t) - 1
        /\ \A k \in 1 .. Len(u) : u[k] = t[k + 1]
    OBVIOUS
  <1> HIDE DEF u
  <1>2. r = s \o u
    BY DEF u
  <1>3. /\ r \in Seq(T) /\ Len(r) = Len(s) + Len(u)
        /\ \A k \in 1 .. Len(r) : r[k] = IF k <= Len(s) THEN s[k] ELSE u[k - Len(s)]
    BY <1>1, <1>2, SMTT(30)
  <1>4. Len(s) \in Nat /\ Len(u) \in Nat
    BY <1>1
  <1>5. ASSUME NEW k \in 1 .. Len(r)
        PROVE  \/ k \in 1 .. Len(s) /\ r[k] = s[k]
               \/ k - Len(s) + 1 \in 2 .. Len(t) /\ r[k] = t[k - Len(s) + 1]
    <2>1. CASE k <= Len(s)
      BY <1>3, <1>4, <2>1
    <2>2. CASE ~(k <= Len(s))
      <3>1. k - Len(s) \in 1 .. Len(u) /\ k - Len(s) + 1 \in 2 .. Len(t)
        BY <1>1, <1>3, <1>4, <2>2
      <3>2. r[k] = u[k - Len(s)]
        BY <1>3, <2>2
      <3> QED BY <1>1, <3>1, <3>2
    <2> QED BY <2>1, <2>2
  <1>6. ASSUME NEW j \in 2 .. Len(t)
        PROVE  j - 1 + Len(s) \in 1 .. Len(r) /\ r[j - 1 + Len(s)] = t[j]
    <2>1. j - 1 + Len(s) \in 1 .. Len(r) /\ ~(j - 1 + Len(s) <= Len(s))
      BY <1>1, <1>3, <1>4
    <2>2. j - 1 \in 1 .. Len(u) /\ j - 1 + Len(s) - Len(s) = j - 1 /\ j - 1 + 1 = j
      BY <1>1, <1>4
    <2>3. PICK q \in 1 .. Len(r) : q = j - 1 + Len(s)
      BY <2>1
    <2>4. r[q] = u[q - Len(s)]
      BY <1>3, <2>1, <2>3
    <2>5. u[j - 1] = t[j]
      BY <1>1, <2>2
    <2> QED BY <2>2, <2>3, <2>4, <2>5
  <1>7. \A k \in 1 .. Len(s) : k \in 1 .. Len(r) /\ r[k] = s[k]
    BY <1>3, <1>4
  <1>8. Len(r) = Len(s) + Len(t) - 1
    BY <1>1, <1>3, <1>4
  <1> QED BY <1>3, <1>5, <1>6, <1>7, <1>8

\* SetToSeq lists every member of its set.
LEMMA SetToSeqAll ==
    ASSUME NEW S, IsFiniteSet(S)
    PROVE  \A x \in S : \E i \in 1 .. Cardinality(S) : SetToSeq(S)[i] = x
  <1> DEFINE n == Cardinality(S)
             f == SetToSeq(S)
  <1>1. n \in Nat /\ ExistsBijection(1 .. n, S)
    BY FS_CardinalityType
  <1>2. \E q \in [1 .. n -> S] : IsInjective(q)
    BY <1>1 DEF ExistsBijection, Bijection, Injection
  <1>3. f \in [1 .. n -> S] /\ IsInjective(f)
    BY <1>2 DEF SetToSeq
  <1>4. f \in Injection(1 .. n, S)
    <2> HIDE DEF f, n
    <2> QED BY <1>3 DEF Injection
  <1>5. IsFiniteSet(1 .. n) /\ Cardinality(1 .. n) = n
    BY <1>1, FS_Interval
  <1>6. f \in Surjection(1 .. n, S)
    <2>1. n = Cardinality(S)
      OBVIOUS
    <2> HIDE DEF f, n
    <2> QED BY <1>4, <1>5, <2>1, FS_Injection
  <1> QED BY <1>6, Zenon DEF Surjection
-----------------------------------------------------------------------------

(***************************************************************************)
(* Sectors.                                                                *)
(***************************************************************************)
LEMMA SizeType == SECTOR_SIZE \in Nat \ {0}
BY GridAssumption DEF SECTOR_SIZE

LEMMA MaxType == MAX_SECTORS_X \in Nat \ {0} /\ MAX_SECTORS_Y \in Nat \ {0}
<1>1. 0 < WORLD_WIDTH /\ 0 < WORLD_HEIGHT  BY GridAssumption
<1> QED  BY <1>1, GridAssumption, SizeType, DivCeil DEF MAX_SECTORS_X, MAX_SECTORS_Y

LEMMA SectorXYType ==
    ASSUME NEW t \in Tiles
    PROVE  /\ t[1] \in Nat /\ t[2] \in Nat
           /\ SECTOR_X(t[1]) \in Nat /\ SECTOR_X(t[1]) < MAX_SECTORS_X
           /\ SECTOR_Y(t[2]) \in Nat /\ SECTOR_Y(t[2]) < MAX_SECTORS_Y
<1>1. t[1] \in Nat /\ t[2] \in Nat /\ t[1] < WORLD_WIDTH /\ t[2] < WORLD_HEIGHT
  BY GridAssumption DEF Tiles
<1>2. SECTOR_X(t[1]) \in Nat /\ SECTOR_Y(t[2]) \in Nat
  BY <1>1, SizeType, DivBounds DEF SECTOR_X, SECTOR_Y
<1>3. SECTOR_X(t[1]) < MAX_SECTORS_X
  BY <1>1, SizeType, DivCeil, GridAssumption DEF SECTOR_X, MAX_SECTORS_X
<1>4. SECTOR_Y(t[2]) < MAX_SECTORS_Y
  BY <1>1, SizeType, DivCeil, GridAssumption DEF SECTOR_Y, MAX_SECTORS_Y
<1> QED  BY <1>1, <1>2, <1>3, <1>4

\* Every tile has a sector: SectorManager never indexes outside its array.
LEMMA SectorIdInRange ==
    ASSUME NEW t \in Tiles
    PROVE  sector_id(t) \in Sectors
BY SectorXYType, MaxType, IndexBound DEF sector_id, SECTOR_ID, Sectors

LEMMA AdjacentType ==
    ASSUME NEW t \in Tiles
    PROVE  AdjacentSectors[t] \subseteq Sectors
<1> SUFFICES ASSUME NEW s \in AdjacentSectors[t] PROVE s \in Sectors
  OBVIOUS
<1>1. PICK sx \in { x \in SECTOR_X(t[1]) - 1 .. SECTOR_X(t[1]) + 1 :
                        x >= 0 /\ x < MAX_SECTORS_X },
           sy \in { y \in SECTOR_Y(t[2]) - 1 .. SECTOR_Y(t[2]) + 1 :
                        y >= 0 /\ y < MAX_SECTORS_Y } : s = SECTOR_ID(sx, sy)
  BY DEF AdjacentSectors
<1>2. sx \in Nat /\ sy \in Nat /\ sx < MAX_SECTORS_X /\ sy < MAX_SECTORS_Y
  BY SectorXYType
<1> QED  BY <1>1, <1>2, MaxType, IndexBound DEF SECTOR_ID, Sectors
-----------------------------------------------------------------------------

\* The operations that decide about the next tick end a handler.
Final == {"stay", "push", "sleep"}

Ops == ({"leave", "enter"} \X Objects \X Sectors)
       \cup ({"add", "put", "rem", "del", "mov"} \X PC \X Objects)
       \cup ({"load", "see"} \X PC \X NPC)
       \cup ((Final \cup {"wake", "check", "bury", "greet"}) \X NPC)
       \cup ({"view", "logout", "hide", "close"} \X PC)
       \cup ({"scan"} \X PC \X SUBSET Objects)
       \cup ({"store"} \X NPC \X Int)
       \cup ({"watch"} \X NPC \X Tiles)
       \cup ({"seen"} \X NPC \X SUBSET PC)

\* Operations that do not end a tick; those that do not bury either.
Plain == {op \in Ops : op[1] \notin Final}
Calm == {op \in Ops : op[1] \notin Final \cup {"bury"}}

Typed ==
    /\ pool \in Pools
    /\ todo \in [Workers -> Seq(Ops)]
    /\ job \in [Workers -> {NONE} \cup Kinds \X Objects]
    /\ pos \in [Objects -> Tiles]
    /\ sectors \in [Sectors -> SUBSET Objects]
    /\ clients \in SUBSET PC
    /\ visible \in [PC -> SUBSET Objects]
    /\ m_hp \in [NPC -> Int]
    /\ m_active_npc \in [NPC -> BOOLEAN]
    /\ moves \in [NPC -> Nat]
    /\ respawns \in [NPC -> Nat]

Among(s, x) == \E k \in 1 .. Len(s) : s[k] = x
Has(w, op) == \E k \in 1 .. Len(todo[w]) : todo[w][k] = op

\* A handler has something to do, a tick ends in what becomes of the next
\* one, and nothing else does.
Shape ==
    /\ \A w \in Workers : w \notin pool \/ job[w] = NONE => todo[w] = <<>>
    /\ \A w \in Workers : \A k \in 1 .. Len(todo[w]) :
          todo[w][k][1] \in Final =>
              k = Len(todo[w]) /\ job[w] = <<"tick", todo[w][k][2]>>
    /\ \A w \in Workers, n \in NPC :
          job[w] = <<"tick", n>> =>
              todo[w] # <<>> /\ todo[w][Len(todo[w])][1] \in Final

Runs(n) == {w \in pool : job[w] = <<"tick", n>>}

\* Of a NPC that no hit has revived: it is dead while it is buried, has one
\* tick at most while it lives, and none while it sleeps.
Paced ==
    \A n \in NPC \ revived :
        /\ \A w \in pool : Has(w, <<"bury", n>>) => ~Alive(n)
        /\ Alive(n) => Ticking(n) <= 1
        /\ Alive(n) /\ ~m_active_npc[n] => Ticking(n) = 0

-----------------------------------------------------------------------------
LEMMA Finite == IsFiniteSet(PC) /\ IsFiniteSet(NPC) /\ IsFiniteSet(Objects)
  BY RaceAssumption, FS_Union DEF Objects

LEMMA FiniteSome ==
    ASSUME NEW S \in SUBSET Objects
    PROVE  IsFiniteSet(S)
  BY Finite, FS_Subset

\* The arguments of an operation.
LEMMA OpTypes ==
    ASSUME NEW op \in Ops
    PROVE  /\ op[1] \in {"leave", "enter"} =>
                op[2] \in Objects /\ op[3] \in Sectors
           /\ op[1] \in {"add", "put", "rem", "del", "mov"} =>
                op[2] \in PC /\ op[3] \in Objects
           /\ op[1] \in {"load", "see"} => op[2] \in PC /\ op[3] \in NPC
           /\ op[1] \in Final \cup {"wake", "check", "bury", "greet"} =>
                op[2] \in NPC /\ op = <<op[1], op[2]>>
           /\ op[1] \in {"view", "logout", "hide", "close"} => op[2] \in PC
           /\ op[1] = "scan" => op[2] \in PC /\ op[3] \in SUBSET Objects
           /\ op[1] = "store" => op[2] \in NPC /\ op[3] \in Int
           /\ op[1] = "watch" => op[2] \in NPC /\ op[3] \in Tiles
           /\ op[1] = "seen" => op[2] \in NPC /\ op[3] \in SUBSET PC
  <1>1. CASE op \in {"leave", "enter"} \X Objects \X Sectors
    BY <1>1 DEF Final
  <1>2. CASE op \in {"add", "put", "rem", "del", "mov"} \X PC \X Objects
    BY <1>2 DEF Final
  <1>3. CASE op \in {"load", "see"} \X PC \X NPC
    BY <1>3 DEF Final
  <1>4. CASE op \in (Final \cup {"wake", "check", "bury", "greet"}) \X NPC
    BY <1>4 DEF Final
  <1>5. CASE op \in {"view", "logout", "hide", "close"} \X PC
    BY <1>5 DEF Final
  <1>6. CASE op \in {"scan"} \X PC \X SUBSET Objects
    BY <1>6 DEF Final
  <1>7. CASE op \in {"store"} \X NPC \X Int
    BY <1>7 DEF Final
  <1>8. CASE op \in {"watch"} \X NPC \X Tiles
    BY <1>8 DEF Final
  <1>9. CASE op \in {"seen"} \X NPC \X SUBSET PC
    BY <1>9 DEF Final
  <1> QED BY <1>1, <1>2, <1>3, <1>4, <1>5, <1>6, <1>7, <1>8, <1>9 DEF Ops

\* The operations that handlers are made of.
LEMMA CalmOps ==
    /\ \A name \in {"leave", "enter"}, o \in Objects, s \in Sectors : <<name, o, s>> \in Calm
    /\ \A name \in {"add", "put", "rem", "del", "mov"}, p \in PC, o \in Objects :
          <<name, p, o>> \in Calm
    /\ \A name \in {"load", "see"}, p \in PC, n \in NPC : <<name, p, n>> \in Calm
    /\ \A name \in {"wake", "check", "greet"}, n \in NPC : <<name, n>> \in Calm
    /\ \A name \in {"view", "logout", "hide", "close"}, p \in PC : <<name, p>> \in Calm
    /\ \A p \in PC, S \in SUBSET Objects : <<"scan", p, S>> \in Calm
    /\ \A n \in NPC, i \in Int : <<"store", n, i>> \in Calm
    /\ \A n \in NPC, t \in Tiles : <<"watch", n, t>> \in Calm
    /\ \A n \in NPC, S \in SUBSET PC : <<"seen", n, S>> \in Calm
    /\ \A name \in Final \cup {"bury"}, n \in NPC : <<name, n>> \in Ops
    /\ \A n \in NPC : <<"bury", n>> \in Plain
    /\ Calm \subseteq Plain /\ Plain \subseteq Ops
  BY DEF Calm, Plain, Ops, Final

LEMMA CalmSeq ==
    /\ \A s \in Seq(Calm) : s \in Seq(Plain)
    /\ \A s \in Seq(Plain) : s \in Seq(Ops)
    /\ \A s \in Seq(Plain) : \A k \in 1 .. Len(s) : s[k][1] \notin Final
    /\ \A s \in Seq(Calm) : \A k \in 1 .. Len(s) : s[k][1] # "bury"
  <1>1. Calm \subseteq Plain /\ Plain \subseteq Ops
    BY CalmOps
  <1>2. (\A op \in Plain : op[1] \notin Final) /\ \A op \in Calm : op[1] # "bury"
    BY DEF Plain, Calm
  <1> HIDE DEF Calm, Plain, Ops
  <1>3. \A s \in Seq(Calm) : s \in Seq(Plain) /\ \A k \in 1 .. Len(s) : s[k] \in Calm
    BY <1>1
  <1>4. \A s \in Seq(Plain) : s \in Seq(Ops) /\ \A k \in 1 .. Len(s) : s[k] \in Plain
    BY <1>1
  <1> QED BY <1>2, <1>3, <1>4

\* Short sequences of operations.
LEMMA Short ==
    ASSUME NEW T
    PROVE  /\ <<>> \in Seq(T)
           /\ \A x \in T : <<x>> \in Seq(T)
           /\ \A x, y \in T : <<x, y>> \in Seq(T)
           /\ \A s, t \in Seq(T) : s \o t \in Seq(T)
           /\ \A s \in Seq(T) : s \o <<>> = s
           /\ \A s \in Seq(T) : Len(s) = 1 => Tail(s) = <<>>
  <1>1. ASSUME NEW s \in Seq(T), Len(s) = 1 PROVE Tail(s) \in Seq(T) /\ Len(Tail(s)) = 0
    <2>1. 1 \in 1 .. Len(s)
      BY <1>1
    <2>2. \A k \in 1 .. Len(<<>>) : FALSE
      OBVIOUS
    <2>3. s # <<>>
      BY <2>1, <2>2, Zenon
    <2> QED BY <1>1, <2>3
  <1>2. \A s \in Seq(T) : Len(s) = 0 => s = <<>>
    OBVIOUS
  <1>3. ASSUME NEW s \in Seq(T) PROVE s \o <<>> = s
    <2> DEFINE r == s \o <<>>
    <2>1. r \in Seq(T) /\ Len(r) = Len(s) /\ \A k \in 1 .. Len(s) : r[k] = s[k]
      OBVIOUS
    <2> HIDE DEF r
    <2>2. r = s
      BY <2>1
    <2> QED BY <2>2 DEF r
  <1>4. /\ <<>> \in Seq(T)
        /\ \A x \in T : <<x>> \in Seq(T)
        /\ \A x, y \in T : <<x, y>> \in Seq(T)
        /\ \A s, t \in Seq(T) : s \o t \in Seq(T)
    OBVIOUS
  <1> QED BY <1>1, <1>2, <1>3, <1>4
-----------------------------------------------------------------------------
(***************************************************************************)
(* What an operation, or a new handler, does to the workers.               *)
(***************************************************************************)
LEMMA NextOp ==
    ASSUME Typed, Shape, NEW w \in Workers, NEW name, Op(w, name)
    PROVE  /\ w \in pool /\ job[w] # NONE
           /\ todo[w] \in Seq(Ops) /\ todo[w] # <<>> /\ Len(todo[w]) \in Nat \ {0}
           /\ Head(todo[w]) = todo[w][1] /\ Head(todo[w]) \in Ops
           /\ Head(todo[w])[1] = name
           /\ Arg(w, 1) = Head(todo[w])[2] /\ Arg(w, 2) = Head(todo[w])[3]
  <1>1. todo[w] \in Seq(Ops) /\ todo[w] # <<>> /\ Head(todo[w])[1] = name
    BY DEF Typed, Op
  <1>2. Len(todo[w]) \in Nat \ {0} /\ Head(todo[w]) = todo[w][1] /\ Head(todo[w]) \in Ops
    <2> HIDE DEF Ops
    <2> QED BY <1>1
  <1>3. w \in pool /\ job[w] # NONE
    BY <1>1 DEF Shape
  <1> QED BY <1>1, <1>2, <1>3 DEF Arg

\* The arguments of the next operation.
LEMMA HeadTypes ==
    ASSUME Typed, Shape, NEW w \in Workers
    PROVE  /\ \A name \in {"leave", "enter"} : Op(w, name) =>
                Arg(w, 1) \in Objects /\ Arg(w, 2) \in Sectors
           /\ \A name \in {"add", "put", "rem", "del", "mov"} : Op(w, name) =>
                Arg(w, 1) \in PC /\ Arg(w, 2) \in Objects
           /\ \A name \in {"load", "see"} : Op(w, name) =>
                Arg(w, 1) \in PC /\ Arg(w, 2) \in NPC
           /\ \A name \in Final \cup {"wake", "check", "bury", "greet"} : Op(w, name) =>
                Arg(w, 1) \in NPC /\ Head(todo[w]) = <<name, Arg(w, 1)>>
           /\ \A name \in {"view", "logout", "hide", "close"} : Op(w, name) =>
                Arg(w, 1) \in PC
           /\ Op(w, "scan") => Arg(w, 1) \in PC /\ Arg(w, 2) \in SUBSET Objects
           /\ Op(w, "store") => Arg(w, 1) \in NPC /\ Arg(w, 2) \in Int
           /\ Op(w, "watch") => Arg(w, 1) \in NPC /\ Arg(w, 2) \in Tiles
           /\ Op(w, "seen") => Arg(w, 1) \in NPC /\ Arg(w, 2) \in SUBSET PC
  <1> DEFINE h == Head(todo[w])
  <1>1. \A name : Op(w, name) => /\ h \in Ops /\ h[1] = name
                                 /\ Arg(w, 1) = h[2] /\ Arg(w, 2) = h[3]
    BY NextOp
  <1> HIDE DEF h, Ops
  <1>2. CASE h \in Ops
    <2>1. /\ h[1] \in {"leave", "enter"} => h[2] \in Objects /\ h[3] \in Sectors
          /\ h[1] \in {"add", "put", "rem", "del", "mov"} => h[2] \in PC /\ h[3] \in Objects
          /\ h[1] \in {"load", "see"} => h[2] \in PC /\ h[3] \in NPC
          /\ h[1] \in Final \cup {"wake", "check", "bury", "greet"} =>
                h[2] \in NPC /\ h = <<h[1], h[2]>>
          /\ h[1] \in {"view", "logout", "hide", "close"} => h[2] \in PC
          /\ h[1] = "scan" => h[2] \in PC /\ h[3] \in SUBSET Objects
          /\ h[1] = "store" => h[2] \in NPC /\ h[3] \in Int
          /\ h[1] = "watch" => h[2] \in NPC /\ h[3] \in Tiles
          /\ h[1] = "seen" => h[2] \in NPC /\ h[3] \in SUBSET PC
      BY <1>2, OpTypes
    <2>2. \A name : Op(w, name) => Head(todo[w]) = h
      BY DEF h
    <2>3. /\ \A name \in {"leave", "enter"} : Op(w, name) =>
                Arg(w, 1) \in Objects /\ Arg(w, 2) \in Sectors
          /\ \A name \in {"add", "put", "rem", "del", "mov"} : Op(w, name) =>
                Arg(w, 1) \in PC /\ Arg(w, 2) \in Objects
          /\ \A name \in {"load", "see"} : Op(w, name) =>
                Arg(w, 1) \in PC /\ Arg(w, 2) \in NPC
      BY <1>1, <2>1
    <2>4. /\ \A name \in Final \cup {"wake", "check", "bury", "greet"} : Op(w, name) =>
                Arg(w, 1) \in NPC /\ Head(todo[w]) = <<name, Arg(w, 1)>>
          /\ \A name \in {"view", "logout", "hide", "close"} : Op(w, name) =>
                Arg(w, 1) \in PC
      BY <1>1, <2>1, <2>2
    <2>5. /\ Op(w, "scan") => Arg(w, 1) \in PC /\ Arg(w, 2) \in SUBSET Objects
          /\ Op(w, "store") => Arg(w, 1) \in NPC /\ Arg(w, 2) \in Int
          /\ Op(w, "watch") => Arg(w, 1) \in NPC /\ Arg(w, 2) \in Tiles
          /\ Op(w, "seen") => Arg(w, 1) \in NPC /\ Arg(w, 2) \in SUBSET PC
      BY <1>1, <2>1
    <2> QED BY <2>3, <2>4, <2>5
  <1>3. CASE h \notin Ops
    BY <1>1, <1>3
  <1> QED BY <1>2, <1>3

\* The rest of a handler: every operation but the first stays, and those that
\* are new come in front.
LEMMA ThenRest ==
    ASSUME Typed, Shape, NEW w \in Workers, NEW name, Op(w, name),
           NEW ops \in Seq(Ops), Then(w, ops)
    PROVE  /\ pool' = pool
           /\ todo' \in [Workers -> Seq(Ops)]
           /\ job' \in [Workers -> {NONE} \cup Kinds \X Objects]
           /\ todo'[w] = ops \o Tail(todo[w])
           /\ \A v \in Workers \ {w} : todo'[v] = todo[v] /\ job'[v] = job[v]
           /\ job'[w] = IF todo'[w] = <<>> THEN NONE ELSE job[w]
           /\ \A v \in pool : \A op : Has(v, op)' =>
                  Has(v, op) \/ Among(ops, op)
           /\ \A v \in pool : \A op : Has(v, op) /\ op # Head(todo[w]) => Has(v, op)'
           /\ \A k \in 1 .. Len(ops) : Has(w, ops[k])'
  <1>1. /\ todo[w] \in Seq(Ops) /\ todo[w] # <<>> /\ Head(todo[w]) = todo[w][1]
        /\ pool \subseteq Workers
    BY NextOp DEF Typed, Workers
  <1> DEFINE r == ops \o Tail(todo[w])
  <1>2. /\ r \in Seq(Ops)
        /\ \A k \in 1 .. Len(r) :
                 \/ k \in 1 .. Len(ops) /\ r[k] = ops[k]
                 \/ k - Len(ops) + 1 \in 2 .. Len(todo[w])
                    /\ r[k] = todo[w][k - Len(ops) + 1]
        /\ \A k \in 1 .. Len(ops) : k \in 1 .. Len(r) /\ r[k] = ops[k]
        /\ \A j \in 2 .. Len(todo[w]) : /\ j - 1 + Len(ops) \in 1 .. Len(r)
                                        /\ r[j - 1 + Len(ops)] = todo[w][j]
    BY <1>1, Rest
  <1>3. /\ todo' = [todo EXCEPT ![w] = r]
        /\ job' = IF r = <<>> THEN [job EXCEPT ![w] = NONE] ELSE job
        /\ UNCHANGED pool
    BY DEF Then
  <1> HIDE DEF r, Ops
  <1>4. todo'[w] = r /\ \A v \in Workers \ {w} : todo'[v] = todo[v] /\ job'[v] = job[v]
    BY <1>3 DEF Typed
  <1>5. todo' \in [Workers -> Seq(Ops)] /\ job' \in [Workers -> {NONE} \cup Kinds \X Objects]
    BY <1>2, <1>3 DEF Typed
  <1>6. job'[w] = IF todo'[w] = <<>> THEN NONE ELSE job[w]
    BY <1>3, <1>4 DEF Typed
  <1>7. ASSUME NEW v \in pool, NEW op, Has(v, op)'
        PROVE  Has(v, op) \/ Among(ops, op)
    <2>1. PICK k \in 1 .. Len(todo'[v]) : todo'[v][k] = op
      BY <1>7 DEF Has
    <2>2. CASE v = w
      <3>1. k \in 1 .. Len(r) /\ r[k] = op
        BY <1>4, <2>1, <2>2
      <3>2. CASE k \in 1 .. Len(ops) /\ r[k] = ops[k]
        BY <3>1, <3>2 DEF Among
      <3>3. CASE k - Len(ops) + 1 \in 2 .. Len(todo[w]) /\ r[k] = todo[w][k - Len(ops) + 1]
        <4>1. PICK j \in 2 .. Len(todo[w]) : j = k - Len(ops) + 1
          BY <3>3
        <4>2. j \in 1 .. Len(todo[v]) /\ todo[v][j] = op
          BY <1>1, <2>2, <3>1, <3>3, <4>1
        <4> QED BY <4>2 DEF Has
      <3> QED BY <1>2, <3>1, <3>2, <3>3
    <2>3. CASE v # w
      BY <1>1, <1>4, <2>1, <2>3 DEF Has
    <2> QED BY <2>2, <2>3
  <1>8. ASSUME NEW v \in pool, NEW op, Has(v, op), op # Head(todo[w])
        PROVE  Has(v, op)'
    <2>1. PICK k \in 1 .. Len(todo[v]) : todo[v][k] = op
      BY <1>8 DEF Has
    <2>2. CASE v = w
      <3>1. k \in 2 .. Len(todo[w])
        BY <1>1, <1>8, <2>1, <2>2
      <3>2. PICK j \in 1 .. Len(r) : j = k - 1 + Len(ops) /\ r[j] = todo[w][k]
        BY <1>2, <3>1
      <3>3. todo'[v][j] = op /\ j \in 1 .. Len(todo'[v])
        BY <1>4, <2>1, <2>2, <3>2
      <3> QED BY <3>3 DEF Has
    <2>3. CASE v # w
      BY <1>1, <1>4, <2>1, <2>3 DEF Has
    <2> QED BY <2>2, <2>3
  <1>9. \A k \in 1 .. Len(ops) : Has(w, ops[k])'
    BY <1>2, <1>4 DEF Has
  <1> QED BY <1>3, <1>4, <1>5, <1>6, <1>7, <1>8, <1>9 DEF r

\* An operation in the middle of a handler leaves the ticks alone.
LEMMA ThenShape ==
    ASSUME Typed, Shape, NEW w \in Workers, NEW name, Op(w, name), name \notin Final,
           NEW ops \in Seq(Plain), Then(w, ops)
    PROVE  Shape' /\ \A n \in NPC : Runs(n)' = Runs(n)
  <1>1. ops \in Seq(Ops) /\ \A k \in 1 .. Len(ops) : ops[k][1] \notin Final
    BY CalmSeq
  <1>2. /\ pool' = pool /\ todo'[w] = ops \o Tail(todo[w])
        /\ todo' \in [Workers -> Seq(Ops)]
        /\ \A v \in Workers \ {w} : todo'[v] = todo[v] /\ job'[v] = job[v]
        /\ job'[w] = IF todo'[w] = <<>> THEN NONE ELSE job[w]
    BY <1>1, ThenRest
  <1>3. /\ w \in pool /\ todo[w] \in Seq(Ops) /\ todo[w] # <<>> /\ Len(todo[w]) \in Nat \ {0}
        /\ todo[w][1][1] = name /\ job[w] # NONE
    BY NextOp
  <1> DEFINE r == todo'[w]
  <1>4. /\ r \in Seq(Ops) /\ Len(r) = Len(ops) + Len(todo[w]) - 1
        /\ \A k \in 1 .. Len(r) :
                 \/ k \in 1 .. Len(ops) /\ r[k] = ops[k]
                 \/ k - Len(ops) + 1 \in 2 .. Len(todo[w])
                    /\ r[k] = todo[w][k - Len(ops) + 1]
        /\ \A j \in 2 .. Len(todo[w]) : /\ j - 1 + Len(ops) \in 1 .. Len(r)
                                        /\ r[j - 1 + Len(ops)] = todo[w][j]
    <2>1. r = ops \o Tail(todo[w])
      BY <1>2
    <2> HIDE DEF r, Ops
    <2> QED BY <1>1, <1>3, <2>1, Rest, SMTT(30)
  <1>5. Len(ops) \in Nat /\ Len(r) \in Nat
    BY <1>1, <1>4
  <1> HIDE DEF Ops, Plain, r
  \* A tick has its last operation still to do.
  <1>6. ASSUME NEW n \in NPC, job[w] = <<"tick", n>>
        PROVE  r # <<>> /\ r[Len(r)][1] \in Final
    <2>1. todo[w][Len(todo[w])][1] \in Final
      BY <1>6 DEF Shape
    <2>2. Len(todo[w]) \in 2 .. Len(todo[w])
      BY <1>3, <2>1
    <2>3. PICK j \in 2 .. Len(todo[w]) : j = Len(todo[w])
      BY <2>2
    <2>4. j - 1 + Len(ops) = Len(r) /\ Len(r) # 0
      BY <1>3, <1>4, <1>5, <2>3
    <2>5. r[Len(r)] = todo[w][j]
      BY <1>4, <2>4
    <2> QED BY <1>4, <2>1, <2>3, <2>4, <2>5
  <1>7. ASSUME NEW k \in 1 .. Len(r), r[k][1] \in Final
        PROVE  k = Len(r) /\ job[w] = <<"tick", r[k][2]>>
    <2>1. PICK j \in 2 .. Len(todo[w]) : j = k - Len(ops) + 1 /\ r[k] = todo[w][j]
      BY <1>1, <1>4, <1>7
    <2>2. j = Len(todo[w]) /\ job[w] = <<"tick", r[k][2]>>
      BY <1>3, <1>7, <2>1 DEF Shape
    <2> QED BY <1>3, <1>4, <1>5, <2>1, <2>2
  <1>8. r # <<>> => job'[w] = job[w]
    BY <1>2 DEF r
  <1>9. \A n \in NPC : job'[w] = <<"tick", n>> <=> job[w] = <<"tick", n>>
    <2>1. \A n \in NPC : NONE # <<"tick", n>>
      BY RaceAssumption DEF Kinds, Objects
    <2>2. r = <<>> => job'[w] = NONE
      BY <1>2 DEF r
    <2> QED BY <1>6, <1>8, <2>1, <2>2
  <1>10. pool \subseteq Workers
    BY DEF Typed, Workers
  <1>11. Shape'
    <2>1. ASSUME NEW v \in Workers, v \notin pool' \/ job'[v] = NONE PROVE todo'[v] = <<>>
      <3>1. CASE v = w
        BY <1>2, <1>3, <2>1, <3>1
      <3>2. CASE v # w
        BY <1>2, <2>1, <3>2 DEF Shape
      <3> QED BY <3>1, <3>2
    <2>2. ASSUME NEW v \in Workers, NEW k \in 1 .. Len(todo'[v]), todo'[v][k][1] \in Final
          PROVE  k = Len(todo'[v]) /\ job'[v] = <<"tick", todo'[v][k][2]>>
      <3>1. CASE v = w
        <4>1. k \in 1 .. Len(r) /\ r[k][1] \in Final
          BY <2>2, <3>1 DEF r
        <4>2. k = Len(r) /\ job[w] = <<"tick", r[k][2]>>
          BY <1>7, <4>1
        <4>3. r # <<>>
          BY <1>5, <4>1
        <4> QED BY <1>8, <3>1, <4>2, <4>3, ZenonT(60) DEF r
      <3>2. CASE v # w
        BY <1>2, <2>2, <3>2, ZenonT(60) DEF Shape
      <3> QED BY <3>1, <3>2
    <2>3. ASSUME NEW v \in Workers, NEW n \in NPC, job'[v] = <<"tick", n>>
          PROVE  todo'[v] # <<>> /\ todo'[v][Len(todo'[v])][1] \in Final
      <3>1. CASE v = w
        BY <1>6, <1>9, <2>3, <3>1 DEF r
      <3>2. CASE v # w
        BY <1>2, <2>3, <3>2 DEF Shape
      <3> QED BY <3>1, <3>2
    <2> QED BY <2>1, <2>2, <2>3 DEF Shape
  <1>12. \A n \in NPC : Runs(n)' = Runs(n)
    BY <1>2, <1>9, <1>10 DEF Runs
  <1> QED BY <1>11, <1>12

\* A waiting worker takes up a handler.
LEMMA TakeRest ==
    ASSUME Typed, Shape, NEW w \in Workers, NEW kind \in Kinds, NEW o \in Objects,
           NEW ops \in Seq(Ops), Take(w, kind, o, ops)
    PROVE  /\ pool' = pool /\ w \in pool
           /\ todo' \in [Workers -> Seq(Ops)]
           /\ job' \in [Workers -> {NONE} \cup Kinds \X Objects]
           /\ todo'[w] = ops /\ todo[w] = <<>> /\ job[w] = NONE
           /\ \A v \in Workers \ {w} : todo'[v] = todo[v] /\ job'[v] = job[v]
           /\ job'[w] = IF ops = <<>> THEN NONE ELSE <<kind, o>>
           /\ \A v \in pool : \A op : Has(v, op)' =>
                  Has(v, op) \/ Among(ops, op)
           /\ \A v \in pool : \A op : Has(v, op) => Has(v, op)'
  <1>1. /\ w \in pool /\ job[w] = NONE /\ todo[w] = <<>> /\ pool \subseteq Workers
        /\ job' = [job EXCEPT ![w] = IF ops = <<>> THEN NONE ELSE <<kind, o>>]
        /\ todo' = [todo EXCEPT ![w] = ops] /\ UNCHANGED pool
    BY DEF Take, Shape, Typed, Workers
  <1> HIDE DEF Ops
  <1>2. todo' \in [Workers -> Seq(Ops)] /\ job' \in [Workers -> {NONE} \cup Kinds \X Objects]
    BY <1>1 DEF Typed
  <1>3. /\ todo'[w] = ops /\ job'[w] = IF ops = <<>> THEN NONE ELSE <<kind, o>>
        /\ \A v \in Workers \ {w} : todo'[v] = todo[v] /\ job'[v] = job[v]
    BY <1>1 DEF Typed
  <1>4. \A op : ~Has(w, op)
    BY <1>1 DEF Has
  <1>5. ASSUME NEW v \in pool, NEW op
        PROVE  /\ Has(v, op)' => Has(v, op) \/ Among(ops, op)
               /\ Has(v, op) => Has(v, op)'
    <2>1. CASE v = w
      BY <1>3, <1>4, <2>1 DEF Has, Among
    <2>2. CASE v # w
      BY <1>1, <1>3, <2>2 DEF Has
    <2> QED BY <2>1, <2>2
  <1> QED BY <1>1, <1>2, <1>3, <1>5

LEMMA TakeShape ==
    ASSUME Typed, Shape, NEW w \in Workers, NEW kind \in Kinds \ {"tick"}, NEW o \in Objects,
           NEW ops \in Seq(Plain), Take(w, kind, o, ops)
    PROVE  Shape' /\ \A n \in NPC : Runs(n)' = Runs(n)
  <1>1. ops \in Seq(Ops) /\ \A k \in 1 .. Len(ops) : ops[k][1] \notin Final
    BY CalmSeq
  <1>2. /\ pool' = pool /\ w \in pool /\ todo'[w] = ops /\ job[w] = NONE
        /\ \A v \in Workers \ {w} : todo'[v] = todo[v] /\ job'[v] = job[v]
        /\ job'[w] = IF ops = <<>> THEN NONE ELSE <<kind, o>>
    BY <1>1, TakeRest
  <1>3. NONE \notin Kinds \X Objects
    BY RaceAssumption DEF Objects
  <1>4. /\ job'[w] = NONE => ops = <<>>
        /\ \A n \in NPC : job'[w] # <<"tick", n>> /\ job[w] # <<"tick", n>>
    BY <1>2, <1>3 DEF Kinds, Objects
  <1> HIDE DEF Ops, Plain
  <1>5. Shape'
    <2>1. \A v \in Workers : v \notin pool' \/ job'[v] = NONE => todo'[v] = <<>>
      BY <1>2, <1>4 DEF Shape
    <2>2. ASSUME NEW v \in Workers, NEW k \in 1 .. Len(todo'[v]), todo'[v][k][1] \in Final
          PROVE  k = Len(todo'[v]) /\ job'[v] = <<"tick", todo'[v][k][2]>>
      <3>1. v # w
        BY <1>1, <1>2, <2>2
      <3> QED BY <1>2, <2>2, <3>1 DEF Shape
    <2>3. \A v \in Workers, n \in NPC : job'[v] = <<"tick", n>> =>
              todo'[v] # <<>> /\ todo'[v][Len(todo'[v])][1] \in Final
      BY <1>2, <1>4 DEF Shape
    <2> QED BY <2>1, <2>2, <2>3 DEF Shape
  <1>6. pool \subseteq Workers
    BY DEF Typed, Workers
  <1>7. \A n \in NPC : Runs(n)' = Runs(n)
    BY <1>2, <1>4, <1>6 DEF Runs
  <1> QED BY <1>5, <1>7
-----------------------------------------------------------------------------
(***************************************************************************)
(* The steps that concern no tick and no burial.                           *)
(***************************************************************************)
Names == {"leave", "enter", "add", "put", "rem", "del", "mov", "load", "see", "wake",
          "greet", "view", "logout", "hide", "close", "scan", "store", "watch", "seen"}

Goes(w) ==
    \E ops \in Seq(Calm) :
        \/ \E name \in Names : Op(w, name) /\ Then(w, ops)
        \/ \E kind \in Kinds \ {"tick"}, o \in Objects : Take(w, kind, o, ops)

LEMMA GoesFrame ==
    ASSUME Typed, Shape, NEW w \in Workers, Goes(w)
    PROVE  /\ pool' = pool
           /\ todo' \in [Workers -> Seq(Ops)]
           /\ job' \in [Workers -> {NONE} \cup Kinds \X Objects]
           /\ Shape' /\ \A n \in NPC : Runs(n)' = Runs(n)
           /\ \A v \in pool, n \in NPC : Has(v, <<"bury", n>>)' => Has(v, <<"bury", n>>)
           /\ \A v \in pool, n \in NPC, name \in {"check", "bury"} :
                 Has(v, <<name, n>>) => Has(v, <<name, n>>)'
  <1>1. PICK ops \in Seq(Calm) :
            \/ \E name \in Names : Op(w, name) /\ Then(w, ops)
            \/ \E kind \in Kinds \ {"tick"}, o \in Objects : Take(w, kind, o, ops)
    BY DEF Goes
  <1>2. /\ ops \in Seq(Plain) /\ ops \in Seq(Ops)
        /\ \A n \in NPC : ~Among(ops, <<"bury", n>>)
    <2>1. ops \in Seq(Plain) /\ ops \in Seq(Ops) /\ \A k \in 1 .. Len(ops) : ops[k][1] # "bury"
      BY CalmSeq
    <2> QED BY <2>1 DEF Among
  <1> HIDE DEF Ops, Plain, Calm
  <1>3. ASSUME NEW name \in Names, Op(w, name), Then(w, ops)
        PROVE  /\ pool' = pool
               /\ todo' \in [Workers -> Seq(Ops)]
               /\ job' \in [Workers -> {NONE} \cup Kinds \X Objects]
               /\ Shape' /\ \A n \in NPC : Runs(n)' = Runs(n)
               /\ \A v \in pool, n \in NPC : Has(v, <<"bury", n>>)' => Has(v, <<"bury", n>>)
               /\ \A v \in pool, n \in NPC, c \in {"check", "bury"} :
                     Has(v, <<c, n>>) => Has(v, <<c, n>>)'
    <2>1. name \notin Final /\ name \notin {"check", "bury"}
      BY DEF Names, Final
    <2>2. \A n \in NPC, c \in {"check", "bury"} : <<c, n>> # Head(todo[w])
      <3>1. Head(todo[w])[1] = name
        BY <1>3, NextOp
      <3> QED BY <2>1, <3>1
    <2>3. Shape' /\ \A n \in NPC : Runs(n)' = Runs(n)
      BY <1>2, <1>3, <2>1, ThenShape
    <2>4. /\ pool' = pool
          /\ todo' \in [Workers -> Seq(Ops)]
          /\ job' \in [Workers -> {NONE} \cup Kinds \X Objects]
          /\ \A v \in pool : \A op : Has(v, op)' =>
                  Has(v, op) \/ Among(ops, op)
          /\ \A v \in pool : \A op : Has(v, op) /\ op # Head(todo[w]) => Has(v, op)'
      BY <1>2, <1>3, ThenRest
    <2> QED BY <1>2, <2>2, <2>3, <2>4
  <1>4. ASSUME NEW kind \in Kinds \ {"tick"}, NEW o \in Objects, Take(w, kind, o, ops)
        PROVE  /\ pool' = pool
               /\ todo' \in [Workers -> Seq(Ops)]
               /\ job' \in [Workers -> {NONE} \cup Kinds \X Objects]
               /\ Shape' /\ \A n \in NPC : Runs(n)' = Runs(n)
               /\ \A v \in pool, n \in NPC : Has(v, <<"bury", n>>)' => Has(v, <<"bury", n>>)
               /\ \A v \in pool, n \in NPC, c \in {"check", "bury"} :
                     Has(v, <<c, n>>) => Has(v, <<c, n>>)'
    <2>1. Shape' /\ \A n \in NPC : Runs(n)' = Runs(n)
      BY <1>2, <1>4, TakeShape
    <2>0. kind \in Kinds
      OBVIOUS
    <2>2. /\ pool' = pool
          /\ todo' \in [Workers -> Seq(Ops)]
          /\ job' \in [Workers -> {NONE} \cup Kinds \X Objects]
      BY <1>2, <1>4, <2>0, TakeRest
    <2>3. \A v \in pool : \A op : Has(v, op)' =>
                  Has(v, op) \/ Among(ops, op)
      BY <1>2, <1>4, <2>0, TakeRest
    <2>4. \A v \in pool : \A op : Has(v, op) => Has(v, op)'
      BY <1>2, <1>4, <2>0, TakeRest
    <2> QED BY <1>2, <2>1, <2>2, <2>3, <2>4
  <1> QED BY <1>1, <1>3, <1>4

LEMMA AroundTypes ==
    ASSUME Typed, NEW t \in Tiles
    PROVE  Around(t) \in SUBSET Objects /\ Viewers(t) \in SUBSET PC
  <1>1. \A s \in AdjacentSectors[t] : sectors[s] \in SUBSET Objects
    BY AdjacentType DEF Typed
  <1> QED BY <1>1 DEF Around, Viewers, Typed

LEMMA CrossingTypes ==
    ASSUME NEW o \in Objects, NEW t \in Tiles, NEW u \in Tiles
    PROVE  Crossing(o, t, u) \in Seq(Calm)
  <1>1. <<"leave", o, sector_id(t)>> \in Calm /\ <<"enter", o, sector_id(u)>> \in Calm
    BY SectorIdInRange, CalmOps
  <1> HIDE DEF Calm
  <1>2. <<<<"leave", o, sector_id(t)>>, <<"enter", o, sector_id(u)>>>> \in Seq(Calm)
    BY <1>1, Short
  <1> QED BY <1>2, Short DEF Crossing

LEMMA Sets == PC \subseteq Objects /\ NPC \subseteq Objects /\ PC \cap NPC = {}
  BY RaceAssumption DEF Objects

\* Steps that end an operation and start no other.
LEMMA EndGoes ==
    ASSUME NEW w \in Workers, NEW name \in Names, Op(w, name), Then(w, <<>>)
    PROVE  Goes(w)
  <1>1. <<>> \in Seq(Calm)
    BY Short
  <1> QED BY <1>1 DEF Goes

\* The views.
LEMMA ViewsGo ==
    ASSUME Typed, Shape, NEW w \in Workers,
           SendAdd(w) \/ SendRemove(w) \/ OldView(w) \/ NewView(w) \/ Greet(w)
              \/ OldViewers(w) \/ NewViewers(w) \/ AlreadyVisible(w)
    PROVE  Goes(w)
  <1> HIDE DEF Ops, Calm
  <1>1. CASE SendAdd(w)
    <2>1. Op(w, "add") /\ Arg(w, 1) \in PC /\ Arg(w, 2) \in Objects
      BY <1>1, HeadTypes DEF SendAdd
    <2>2. <<<<"put", Arg(w, 1), Arg(w, 2)>>>> \in Seq(Calm) /\ <<>> \in Seq(Calm)
      BY <2>1, CalmOps, Short
    <2>3. Then(w, <<<<"put", Arg(w, 1), Arg(w, 2)>>>>) \/ Then(w, <<>>)
      BY <1>1 DEF SendAdd
    <2> QED BY <2>1, <2>2, <2>3 DEF Goes, Names
  <1>2. CASE SendRemove(w)
    <2>1. Op(w, "rem") /\ Arg(w, 1) \in PC /\ Arg(w, 2) \in Objects
      BY <1>2, HeadTypes DEF SendRemove
    <2>2. <<<<"del", Arg(w, 1), Arg(w, 2)>>>> \in Seq(Calm) /\ <<>> \in Seq(Calm)
      BY <2>1, CalmOps, Short
    <2>3. Then(w, <<<<"del", Arg(w, 1), Arg(w, 2)>>>>) \/ Then(w, <<>>)
      BY <1>2 DEF SendRemove
    <2> QED BY <2>1, <2>2, <2>3 DEF Goes, Names
  <1>3. CASE OldView(w)
    <2>1. Op(w, "view") /\ Arg(w, 1) \in PC
      BY <1>3, HeadTypes DEF OldView
    <2>2. visible[Arg(w, 1)] \in SUBSET Objects
      BY <2>1 DEF Typed
    <2>3. <<<<"scan", Arg(w, 1), visible[Arg(w, 1)]>>>> \in Seq(Calm) /\ <<>> \in Seq(Calm)
      BY <2>1, <2>2, CalmOps, Short
    <2>4. Then(w, <<<<"scan", Arg(w, 1), visible[Arg(w, 1)]>>>>) \/ Then(w, <<>>)
      BY <1>3 DEF OldView
    <2> QED BY <2>1, <2>3, <2>4 DEF Goes, Names
  <1>4. CASE NewView(w)
    <2> DEFINE p == Arg(w, 1)
               old == Arg(w, 2)
               new == {o \in Around(pos[p]) : Sees(p, o) /\ Known(o) /\ InGame(o)}
               Told(o) == Tell(p, o, old)
               Untold(o) == Untell(p, o)
               f == [i \in 1 .. Cardinality(new) |-> Told(SetToSeq(new)[i])]
               g == [i \in 1 .. Cardinality(old \ new) |-> Untold(SetToSeq(old \ new)[i])]
    <2>1. Op(w, "scan") /\ p \in PC /\ old \in SUBSET Objects
      BY <1>4, HeadTypes DEF NewView
    <2>2. new \in SUBSET Objects
      <3>1. pos[p] \in Tiles
        BY <2>1, Sets DEF Typed
      <3> QED BY <3>1, AroundTypes
    <2>3. Then(w, <<<<"mov", p, p>>>> \o FlattenSeq(f) \o FlattenSeq(g))
      BY <1>4 DEF NewView, For
    <2>4. \A o \in Objects : Told(o) \in Seq(Calm) /\ Untold(o) \in Seq(Calm)
      <3> SUFFICES ASSUME NEW o \in Objects PROVE Told(o) \in Seq(Calm) /\ Untold(o) \in Seq(Calm)
        OBVIOUS
      <3>1. /\ <<"add", p, o>> \in Calm /\ <<"rem", p, o>> \in Calm
            /\ o \in PC => /\ <<"add", o, p>> \in Calm /\ <<"mov", o, p>> \in Calm
                           /\ <<"rem", o, p>> \in Calm
            /\ o \notin PC => <<"wake", o>> \in Calm
        BY <2>1, Sets, CalmOps DEF Objects
      <3> HIDE DEF p, old
      <3>2. Told(o) \in Seq(Calm)
        BY <3>1, Short DEF Tell
      <3>3. Untold(o) \in Seq(Calm)
        BY <3>1, Short DEF Untell
      <3> QED BY <3>2, <3>3
    <2>5. <<<<"mov", p, p>>>> \in Seq(Calm)
      BY <2>1, Sets, CalmOps, Short
    <2>6. /\ Cardinality(new) \in Nat /\ SetToSeq(new) \in [1 .. Cardinality(new) -> new]
          /\ Cardinality(old \ new) \in Nat
          /\ SetToSeq(old \ new) \in [1 .. Cardinality(old \ new) -> old \ new]
      <3>1. IsFiniteSet(new) /\ IsFiniteSet(old \ new)
        BY <2>1, <2>2, FiniteSome
      <3> HIDE DEF new, old
      <3> QED BY <3>1, SetToSeqTypes
    <2> HIDE DEF p, old, new, Told, Untold
    <2>7. f \in [1 .. Cardinality(new) -> Seq(Calm)]
      BY <2>2, <2>4, <2>6
    <2>8. g \in [1 .. Cardinality(old \ new) -> Seq(Calm)]
      BY <2>1, <2>4, <2>6
    <2> HIDE DEF f, g
    <2>9. FlattenSeq(f) \in Seq(Calm) /\ FlattenSeq(g) \in Seq(Calm)
      BY <2>6, <2>7, <2>8, FlattenTypes
    <2>10. <<<<"mov", p, p>>>> \o FlattenSeq(f) \o FlattenSeq(g) \in Seq(Calm)
      BY <2>5, <2>9, Short
    <2> QED BY <2>1, <2>3, <2>10 DEF Goes, Names
  <1>5. CASE Greet(w)
    <2> DEFINE n == Arg(w, 1)
               S == Viewers(pos[n])
               Show(p) == <<<<"add", p, n>>, <<"wake", n>>>>
               f == [i \in 1 .. Cardinality(S) |-> Show(SetToSeq(S)[i])]
    <2>1. Op(w, "greet") /\ n \in NPC
      BY <1>5, HeadTypes DEF Greet
    <2>2. S \in SUBSET PC
      <3>1. pos[n] \in Tiles
        BY <2>1, Sets DEF Typed
      <3> QED BY <3>1, AroundTypes
    <2>3. Then(w, FlattenSeq(f))
      BY <1>5 DEF Greet, For
    <2>4. \A p \in PC : Show(p) \in Seq(Calm)
      BY <2>1, Sets, CalmOps, Short
    <2>5. Cardinality(S) \in Nat /\ SetToSeq(S) \in [1 .. Cardinality(S) -> S]
      <3>1. IsFiniteSet(S)
        BY <2>2, Sets, FiniteSome
      <3> HIDE DEF S
      <3> QED BY <3>1, SetToSeqTypes
    <2> HIDE DEF n, S, Show
    <2>6. f \in [1 .. Cardinality(S) -> Seq(Calm)]
      BY <2>2, <2>4, <2>5
    <2> HIDE DEF f
    <2>7. FlattenSeq(f) \in Seq(Calm)
      BY <2>5, <2>6, FlattenTypes
    <2> QED BY <2>1, <2>3, <2>7 DEF Goes, Names
  <1>6. CASE OldViewers(w)
    <2> DEFINE n == Arg(w, 1)  t == Arg(w, 2)
    <2>1. Op(w, "watch") /\ n \in NPC /\ t \in Tiles
      BY <1>6, HeadTypes DEF OldViewers
    <2>2. Viewers(t) \in SUBSET PC /\ pos[n] \in Tiles
      BY <2>1, AroundTypes, Sets DEF Typed
    <2>3. Then(w, Crossing(n, t, pos[n]) \o <<<<"seen", n, Viewers(t)>>>>)
      BY <1>6 DEF OldViewers
    <2> HIDE DEF n, t
    <2>4. <<<<"seen", n, Viewers(t)>>>> \in Seq(Calm) /\ Crossing(n, t, pos[n]) \in Seq(Calm)
      BY <2>1, <2>2, Sets, CalmOps, Short, CrossingTypes
    <2>5. Crossing(n, t, pos[n]) \o <<<<"seen", n, Viewers(t)>>>> \in Seq(Calm)
      BY <2>4, Short
    <2> QED BY <2>1, <2>3, <2>5 DEF Goes, Names
  <1>7. CASE NewViewers(w)
    <2> DEFINE n == Arg(w, 1)
               S == Viewers(pos[n])
               U == Arg(w, 2) \ S
               See(p) == <<<<"see", p, n>>>>
               Lose(p) == <<<<"rem", p, n>>>>
               f == [i \in 1 .. Cardinality(S) |-> See(SetToSeq(S)[i])]
               g == [i \in 1 .. Cardinality(U) |-> Lose(SetToSeq(U)[i])]
    <2>1. Op(w, "seen") /\ n \in NPC /\ U \in SUBSET PC
      <3>1. Op(w, "seen") /\ n \in NPC /\ Arg(w, 2) \in SUBSET PC
        BY <1>7, HeadTypes DEF NewViewers
      <3> QED BY <3>1
    <2>2. S \in SUBSET PC
      <3>1. pos[n] \in Tiles
        BY <2>1, Sets DEF Typed
      <3> QED BY <3>1, AroundTypes
    <2>3. Then(w, FlattenSeq(f) \o FlattenSeq(g))
      BY <1>7 DEF NewViewers, For
    <2>4. \A p \in PC : See(p) \in Seq(Calm) /\ Lose(p) \in Seq(Calm)
      BY <2>1, Sets, CalmOps, Short
    <2>5. /\ Cardinality(S) \in Nat /\ SetToSeq(S) \in [1 .. Cardinality(S) -> S]
          /\ Cardinality(U) \in Nat /\ SetToSeq(U) \in [1 .. Cardinality(U) -> U]
      <3>1. IsFiniteSet(S) /\ IsFiniteSet(U)
        BY <2>1, <2>2, Sets, FiniteSome
      <3> HIDE DEF S, U
      <3> QED BY <3>1, SetToSeqTypes
    <2> HIDE DEF n, S, U, See, Lose
    <2>6. f \in [1 .. Cardinality(S) -> Seq(Calm)] /\ g \in [1 .. Cardinality(U) -> Seq(Calm)]
      BY <2>1, <2>2, <2>4, <2>5
    <2> HIDE DEF f, g
    <2>7. FlattenSeq(f) \in Seq(Calm) /\ FlattenSeq(g) \in Seq(Calm)
      BY <2>5, <2>6, FlattenTypes
    <2>8. FlattenSeq(f) \o FlattenSeq(g) \in Seq(Calm)
      BY <2>7, Short
    <2> QED BY <2>1, <2>3, <2>8 DEF Goes, Names
  <1>8. CASE AlreadyVisible(w)
    <2> DEFINE p == Arg(w, 1)  n == Arg(w, 2)
    <2>1. Op(w, "see") /\ p \in PC /\ n \in NPC
      BY <1>8, HeadTypes DEF AlreadyVisible
    <2>2. <<<<"mov", p, n>>>> \in Seq(Calm) /\ <<<<"add", p, n>>>> \in Seq(Calm)
      BY <2>1, Sets, CalmOps, Short
    <2>3. Then(w, <<<<"mov", p, n>>>>) \/ Then(w, <<<<"add", p, n>>>>)
      <3>1. Then(w, <<IF n \in visible[p] THEN <<"mov", p, n>> ELSE <<"add", p, n>>>>)
        BY <1>8 DEF AlreadyVisible
      <3> HIDE DEF p, n
      <3>2. CASE n \in visible[p]
        BY <3>1, <3>2
      <3>3. CASE n \notin visible[p]
        BY <3>1, <3>3
      <3> QED BY <3>2, <3>3
    <2> HIDE DEF p, n
    <2> QED BY <2>1, <2>2, <2>3 DEF Goes, Names
  <1> QED BY <1>1, <1>2, <1>3, <1>4, <1>5, <1>6, <1>7, <1>8

\* Operations without consequences for the rest of the handler, hits and the
\* end of a session.
LEMMA OthersGo ==
    ASSUME Typed, Shape, NEW w \in Workers,
           Leave(w) \/ Enter(w) \/ PutAdd(w) \/ PutRemove(w) \/ SendMove(w) \/ WakeUp(w)
              \/ CloseSession(w) \/ Hit(w) \/ Damage(w) \/ Logout(w) \/ HideFromOthers(w)
    PROVE  Goes(w)
  <1> HIDE DEF Ops, Calm
  <1>1. CASE Leave(w) \/ Enter(w) \/ PutAdd(w) \/ PutRemove(w) \/ SendMove(w) \/ WakeUp(w)
                \/ CloseSession(w)
    <2>1. /\ Then(w, <<>>)
          /\ \/ Op(w, "leave") \/ Op(w, "enter") \/ Op(w, "put") \/ Op(w, "del")
             \/ Op(w, "mov") \/ Op(w, "wake") \/ Op(w, "close")
      BY <1>1 DEF Leave, Enter, PutAdd, PutRemove, SendMove, WakeUp, CloseSession
    <2> QED BY <2>1, EndGoes DEF Names
  <1>2. CASE Hit(w)
    <2> DEFINE n == Arg(w, 2)
    <2>0. Op(w, "load")
      BY <1>2 DEF Hit
    <2>1. n \in NPC
      BY <2>0, HeadTypes
    <2>2. m_hp[n] - 1 \in Int
      BY <2>1 DEF Typed
    <2>3. <<<<"store", n, m_hp[n] - 1>>>> \in Seq(Calm) /\ <<>> \in Seq(Calm)
      BY <2>1, <2>2, CalmOps, Short
    <2>4. Then(w, <<<<"store", n, m_hp[n] - 1>>>>) \/ Then(w, <<>>)
      BY <1>2 DEF Hit
    <2> HIDE DEF n
    <2> QED BY <2>0, <2>3, <2>4 DEF Goes, Names
  <1>3. CASE Damage(w)
    <2> DEFINE n == Arg(w, 1)
    <2>1. Op(w, "store") /\ n \in NPC
      BY <1>3, HeadTypes DEF Damage
    <2>2. Then(w, <<<<"check", n>>>>) /\ <<<<"check", n>>>> \in Seq(Calm)
      BY <1>3, <2>1, CalmOps, Short DEF Damage
    <2> HIDE DEF n
    <2> QED BY <2>1, <2>2 DEF Goes, Names
  <1>4. CASE Logout(w)
    <2> DEFINE p == Arg(w, 1)
    <2>1. Op(w, "logout") /\ p \in PC
      BY <1>4, HeadTypes DEF Logout
    <2>2. pos[p] \in Tiles /\ p \in Objects
      BY <2>1, Sets DEF Typed
    <2>3. <<<<"leave", p, sector_id(pos[p])>>>> \in Seq(Calm)
      <3>1. sector_id(pos[p]) \in Sectors
        BY <2>2, SectorIdInRange
      <3> QED BY <2>2, <3>1, CalmOps, Short
    <2>4. Then(w, <<<<"leave", p, sector_id(pos[p])>>>>)
      BY <1>4 DEF Logout
    <2> HIDE DEF p
    <2> QED BY <2>1, <2>3, <2>4 DEF Goes, Names
  <1>5. CASE HideFromOthers(w)
    <2> DEFINE p == Arg(w, 1)
               S == visible[p] \cap PC
               Lose(q) == <<<<"rem", q, p>>>>
               f == [i \in 1 .. Cardinality(S) |-> Lose(SetToSeq(S)[i])]
    <2>1. Op(w, "hide") /\ p \in PC
      BY <1>5, HeadTypes DEF HideFromOthers
    <2>2. S \in SUBSET PC
      OBVIOUS
    <2>3. Then(w, FlattenSeq(f) \o <<<<"close", p>>>>)
      BY <1>5 DEF HideFromOthers, For
    <2>4. (\A q \in PC : Lose(q) \in Seq(Calm)) /\ <<<<"close", p>>>> \in Seq(Calm)
      BY <2>1, Sets, CalmOps, Short
    <2>5. Cardinality(S) \in Nat /\ SetToSeq(S) \in [1 .. Cardinality(S) -> S]
      <3>1. IsFiniteSet(S)
        BY <2>2, Sets, FiniteSome
      <3> HIDE DEF S
      <3> QED BY <3>1, SetToSeqTypes
    <2> HIDE DEF p, S, Lose
    <2>6. f \in [1 .. Cardinality(S) -> Seq(Calm)]
      BY <2>2, <2>4, <2>5
    <2> HIDE DEF f
    <2>7. FlattenSeq(f) \o <<<<"close", p>>>> \in Seq(Calm)
      BY <2>4, <2>5, <2>6, FlattenTypes, Short
    <2> QED BY <2>1, <2>3, <2>7 DEF Goes, Names
  <1> QED BY <1>1, <1>2, <1>3, <1>4, <1>5

\* Handlers that are no ticks.
LEMMA HandlersGo ==
    ASSUME Typed, Shape, NEW w \in Workers, NEW o \in Objects,
           (o \in PC /\ (Move(w, o) \/ Attack(w, o) \/ Disconnect(w, o)))
              \/ (o \in NPC /\ Respawn(w, o))
    PROVE  Goes(w)
  <1> HIDE DEF Ops, Calm
  <1>0. {"recv", "drop", "respawn"} \subseteq Kinds \ {"tick"} /\ pos[o] \in Tiles
    BY DEF Kinds, Typed
  <1>1. CASE o \in PC /\ Move(w, o)
    <2>1. PICK d \in DIRECTION :
              LET t == Neighbour(pos[o], d)
                  u == IF is_obstacle(t) THEN pos[o] ELSE t
              IN Take(w, "recv", o, Crossing(o, pos[o], u) \o <<<<"view", o>>>>)
      BY <1>1 DEF Move
    <2> DEFINE t == Neighbour(pos[o], d)
               u == IF is_obstacle(t) THEN pos[o] ELSE t
    <2>2. u \in Tiles
      BY <1>0 DEF is_obstacle
    <2>3. Take(w, "recv", o, Crossing(o, pos[o], u) \o <<<<"view", o>>>>)
      BY <2>1
    <2> HIDE DEF u, t
    <2>4. Crossing(o, pos[o], u) \in Seq(Calm) /\ <<<<"view", o>>>> \in Seq(Calm)
      BY <1>0, <1>1, <2>2, CrossingTypes, CalmOps, Short
    <2>5. Crossing(o, pos[o], u) \o <<<<"view", o>>>> \in Seq(Calm)
      BY <2>4, Short
    <2> QED BY <1>0, <2>3, <2>5 DEF Goes
  <1>2. CASE o \in PC /\ Attack(w, o)
    <2> DEFINE S == visible[o] \cap NPC
               Load(n) == <<<<"load", o, n>>>>
               f == [i \in 1 .. Cardinality(S) |-> Load(SetToSeq(S)[i])]
    <2>1. S \in SUBSET NPC
      OBVIOUS
    <2>2. Take(w, "recv", o, FlattenSeq(f))
      BY <1>2 DEF Attack, For
    <2>3. \A n \in NPC : Load(n) \in Seq(Calm)
      BY <1>2, CalmOps, Short
    <2>4. Cardinality(S) \in Nat /\ SetToSeq(S) \in [1 .. Cardinality(S) -> S]
      <3>1. IsFiniteSet(S)
        BY <2>1, Sets, FiniteSome
      <3> HIDE DEF S
      <3> QED BY <3>1, SetToSeqTypes
    <2> HIDE DEF S, Load
    <2>5. f \in [1 .. Cardinality(S) -> Seq(Calm)]
      BY <2>1, <2>3, <2>4
    <2> HIDE DEF f
    <2>6. FlattenSeq(f) \in Seq(Calm)
      BY <2>4, <2>5, FlattenTypes
    <2> QED BY <1>0, <2>2, <2>6 DEF Goes
  <1>3. CASE o \in PC /\ Disconnect(w, o)
    <2>1. Take(w, "drop", o, <<<<"logout", o>>, <<"hide", o>>>>)
      BY <1>3 DEF Disconnect
    <2>2. <<<<"logout", o>>, <<"hide", o>>>> \in Seq(Calm)
      BY <1>3, CalmOps, Short
    <2> QED BY <1>0, <2>1, <2>2 DEF Goes
  <1>4. CASE o \in NPC /\ Respawn(w, o)
    <2> DEFINE s == sector_id(m_origin[o])
    <2>1. Take(w, "respawn", o, <<<<"enter", o, s>>, <<"greet", o>>>>)
      BY <1>4 DEF Respawn
    <2>2. s \in Sectors
      <3>1. m_origin[o] \in Tiles
        BY <1>4, RaceAssumption
      <3> QED BY <3>1, SectorIdInRange
    <2> HIDE DEF s
    <2>3. <<<<"enter", o, s>>, <<"greet", o>>>> \in Seq(Calm)
      BY <1>4, <2>2, CalmOps, Short
    <2> QED BY <1>0, <2>1, <2>3 DEF Goes
  <1> QED BY <1>1, <1>2, <1>3, <1>4
-----------------------------------------------------------------------------
(***************************************************************************)
(* Ticks and burials.                                                      *)
(***************************************************************************)
\* Only the last operation of a tick decides about the next one.
LEMMA TickOps ==
    ASSUME Typed, Shape, NEW w \in Workers, NEW name \in Final, Op(w, name)
    PROVE  /\ w \in pool /\ Arg(w, 1) \in NPC /\ job[w] = <<"tick", Arg(w, 1)>>
           /\ Tail(todo[w]) = <<>> /\ Head(todo[w]) = <<name, Arg(w, 1)>>
  <1>1. /\ w \in pool /\ todo[w] \in Seq(Ops) /\ todo[w] # <<>> /\ Len(todo[w]) \in Nat \ {0}
        /\ Head(todo[w]) = todo[w][1] /\ Head(todo[w]) \in Ops /\ Head(todo[w])[1] = name
        /\ Arg(w, 1) = Head(todo[w])[2]
    BY NextOp
  <1> HIDE DEF Ops
  <1>2. 1 = Len(todo[w]) /\ job[w] = <<"tick", todo[w][1][2]>>
    <2>1. 1 \in 1 .. Len(todo[w]) /\ todo[w][1][1] \in Final
      BY <1>1
    <2> QED BY <2>1 DEF Shape
  <1>3. Tail(todo[w]) = <<>>
    BY <1>1, <1>2, Short
  <1>4. Arg(w, 1) \in NPC /\ Head(todo[w]) = <<name, Arg(w, 1)>>
    BY HeadTypes
  <1> QED BY <1>1, <1>2, <1>3, <1>4

\* What all of these steps say about the workers.
Frame(w) ==
    /\ pool' = pool
    /\ todo' \in [Workers -> Seq(Ops)]
    /\ job' \in [Workers -> {NONE} \cup Kinds \X Objects]
    /\ Shape'
    /\ \A v \in pool, n \in NPC : Has(v, <<"bury", n>>)' => Has(v, <<"bury", n>>)
    /\ \A v \in pool, n \in NPC, name \in {"check", "bury"} :
                 Has(v, <<name, n>>) => Has(v, <<name, n>>)'

\* has_nearby is found out: the tick goes on.
LEMMA StayFrame ==
    ASSUME Typed, Shape, NEW w \in Workers, HasNearby(w)
    PROVE  Frame(w) /\ \A n \in NPC : Runs(n)' = Runs(n)
  <1> DEFINE n == Arg(w, 1)
  <1>0. Op(w, "stay")
    BY DEF HasNearby
  <1>1. /\ w \in pool /\ n \in NPC /\ job[w] = <<"tick", n>>
        /\ Tail(todo[w]) = <<>> /\ Head(todo[w]) = <<"stay", n>>
    BY <1>0, TickOps DEF Final
  <1>2. Then(w, <<IF Viewers(pos[n]) # {} THEN <<"push", n>> ELSE <<"sleep", n>>>>)
    BY DEF HasNearby
  <1> HIDE DEF n
  <1>3. PICK x \in {<<"push", n>>, <<"sleep", n>>} : Then(w, <<x>>)
    BY <1>2
  <1>4. x \in Ops /\ x[1] \in Final /\ x[2] = n /\ x[1] \notin {"check", "bury"}
    BY <1>1, <1>3, CalmOps DEF Final
  <1>5. <<x>> \in Seq(Ops) /\ Len(<<x>>) = 1 /\ <<x>>[1] = x /\ <<x>> # <<>>
    BY <1>4, Short
  <1> HIDE DEF Ops
  <1>6. /\ pool' = pool /\ todo' \in [Workers -> Seq(Ops)]
        /\ job' \in [Workers -> {NONE} \cup Kinds \X Objects]
        /\ todo'[w] = <<x>> \o Tail(todo[w])
        /\ \A v \in Workers \ {w} : todo'[v] = todo[v] /\ job'[v] = job[v]
        /\ job'[w] = IF todo'[w] = <<>> THEN NONE ELSE job[w]
    BY <1>0, <1>3, <1>5, ThenRest
  <1>7. /\ \A v \in pool : \A op : Has(v, op)' => Has(v, op) \/ Among(<<x>>, op)
        /\ \A v \in pool : \A op : Has(v, op) /\ op # Head(todo[w]) => Has(v, op)'
    BY <1>0, <1>3, <1>5, ThenRest
  <1>8. todo'[w] = <<x>> /\ job'[w] = job[w]
    BY <1>1, <1>5, <1>6, Short
  <1>9. Shape'
    <2>1. \A v \in Workers : v \notin pool' \/ job'[v] = NONE => todo'[v] = <<>>
      <3>1. job[w] # NONE
        BY <1>0, NextOp
      <3> QED BY <1>1, <1>6, <1>8, <3>1 DEF Shape
    <2>2. ASSUME NEW v \in Workers, NEW k \in 1 .. Len(todo'[v]), todo'[v][k][1] \in Final
          PROVE  k = Len(todo'[v]) /\ job'[v] = <<"tick", todo'[v][k][2]>>
      <3>1. CASE v = w
        BY <1>1, <1>4, <1>5, <1>8, <2>2, <3>1
      <3>2. CASE v # w
        BY <1>6, <2>2, <3>2 DEF Shape
      <3> QED BY <3>1, <3>2
    <2>3. ASSUME NEW v \in Workers, NEW m \in NPC, job'[v] = <<"tick", m>>
          PROVE  todo'[v] # <<>> /\ todo'[v][Len(todo'[v])][1] \in Final
      <3>1. CASE v = w
        BY <1>4, <1>5, <1>8, <3>1
      <3>2. CASE v # w
        BY <1>6, <2>3, <3>2 DEF Shape
      <3> QED BY <3>1, <3>2
    <2> QED BY <2>1, <2>2, <2>3 DEF Shape
  <1>10. pool \subseteq Workers
    BY DEF Typed, Workers
  <1>11. \A m \in NPC : Runs(m)' = Runs(m)
    BY <1>6, <1>8, <1>10 DEF Runs
  <1>12. \A m \in NPC : ~Among(<<x>>, <<"bury", m>>)
    BY <1>4, <1>5 DEF Among
  <1>13. \A m \in NPC, name \in {"check", "bury"} : <<name, m>> # Head(todo[w])
    BY <1>1
  <1> QED BY <1>6, <1>7, <1>9, <1>11, <1>12, <1>13 DEF Frame

\* The tick ends.
LEMMA EndFrame ==
    ASSUME Typed, Shape, NEW w \in Workers, NEW name \in {"push", "sleep"},
           Op(w, name), Then(w, <<>>)
    PROVE  /\ Frame(w)
           /\ \E n \in NPC : /\ n = Arg(w, 1)
                             /\ w \in Runs(n) /\ Runs(n)' = Runs(n) \ {w}
                             /\ \A m \in NPC \ {n} : Runs(m)' = Runs(m)
  <1>1. PICK n \in NPC : n = Arg(w, 1)
    BY TickOps DEF Final
  <1>2. /\ w \in pool /\ job[w] = <<"tick", n>>
        /\ Tail(todo[w]) = <<>> /\ Head(todo[w]) = <<name, n>>
    BY <1>1, TickOps DEF Final
  <1>3. <<>> \in Seq(Ops) /\ \A op : ~Among(<<>>, op)
    BY Short DEF Among
  <1> HIDE DEF Ops
  <1>4. /\ pool' = pool /\ todo' \in [Workers -> Seq(Ops)]
        /\ job' \in [Workers -> {NONE} \cup Kinds \X Objects]
        /\ todo'[w] = <<>> \o Tail(todo[w])
        /\ \A v \in Workers \ {w} : todo'[v] = todo[v] /\ job'[v] = job[v]
        /\ job'[w] = IF todo'[w] = <<>> THEN NONE ELSE job[w]
    BY <1>3, ThenRest
  <1>5. /\ \A v \in pool : \A op : Has(v, op)' => Has(v, op) \/ Among(<<>>, op)
        /\ \A v \in pool : \A op : Has(v, op) /\ op # Head(todo[w]) => Has(v, op)'
    BY <1>3, ThenRest
  <1>6. todo'[w] = <<>> /\ job'[w] = NONE
    BY <1>2, <1>4
  <1>7. \A m \in NPC : NONE # <<"tick", m>>
    BY RaceAssumption DEF Kinds, Objects
  <1>8. Shape'
    <2>1. \A v \in Workers : v \notin pool' \/ job'[v] = NONE => todo'[v] = <<>>
      BY <1>4, <1>6 DEF Shape
    <2>2. ASSUME NEW v \in Workers, NEW k \in 1 .. Len(todo'[v]), todo'[v][k][1] \in Final
          PROVE  k = Len(todo'[v]) /\ job'[v] = <<"tick", todo'[v][k][2]>>
      <3>1. v # w
        BY <1>6, <2>2
      <3> QED BY <1>4, <2>2, <3>1 DEF Shape
    <2>3. \A v \in Workers, m \in NPC : job'[v] = <<"tick", m>> =>
              todo'[v] # <<>> /\ todo'[v][Len(todo'[v])][1] \in Final
      BY <1>4, <1>6, <1>7 DEF Shape
    <2> QED BY <2>1, <2>2, <2>3 DEF Shape
  <1>9. pool \subseteq Workers
    BY DEF Typed, Workers
  <1>10. w \in Runs(n) /\ Runs(n)' = Runs(n) \ {w}
    <2>1. \A v \in pool : v # w => job'[v] = job[v]
      BY <1>4, <1>9
    <2> QED BY <1>2, <1>4, <1>6, <1>7, <2>1 DEF Runs
  <1>10a. \A m \in NPC \ {n} : Runs(m)' = Runs(m)
    <2>1. \A v \in pool : v # w => job'[v] = job[v]
      BY <1>4, <1>9
    <2>2. \A m \in NPC \ {n} : job[w] # <<"tick", m>> /\ job'[w] # <<"tick", m>>
      BY <1>2, <1>6, <1>7
    <2> QED BY <1>4, <2>1, <2>2 DEF Runs
  <1>11. \A m \in NPC, c \in {"check", "bury"} : <<c, m>> # Head(todo[w])
    BY <1>2
  <1>12. Frame(w)
    BY <1>3, <1>4, <1>5, <1>8, <1>11 DEF Frame
  <1> QED BY <1>1, <1>10, <1>10a, <1>12

\* A tick starts: one that finds the NPC dead is over at once.
LEMMA TickFrame ==
    ASSUME Typed, Shape, NEW w \in Workers, NEW n \in NPC, NpcTick(w, n)
    PROVE  /\ Frame(w)
           /\ w \notin Runs(n)
           /\ Runs(n)' = Runs(n) \/ Runs(n)' = Runs(n) \cup {w}
           /\ \A m \in NPC \ {n} : Runs(m)' = Runs(m)
  <1>0. n \in Objects /\ "tick" \in Kinds /\ pos[n] \in Tiles
    BY DEF Objects, Kinds, Typed
  <1>1. PICK ops \in {<<>>, <<<<"stay", n>>>>, <<<<"watch", n, pos[n]>>, <<"stay", n>>>>} :
            Take(w, "tick", n, ops)
    BY DEF NpcTick
  <1>2. /\ <<"stay", n>> \in Ops /\ <<"watch", n, pos[n]>> \in Ops
    BY <1>0, CalmOps DEF Final
  <1>3. /\ ops \in Seq(Ops)
        /\ ops = <<>> \/ (Len(ops) \in {1, 2} /\ ops[Len(ops)] = <<"stay", n>>)
        /\ \A k \in 1 .. Len(ops) : ops[k][1] \in {"watch", "stay"}
        /\ \A k \in 1 .. Len(ops) : ops[k][1] \in Final => k = Len(ops) /\ ops[k][2] = n
    <2> HIDE DEF Ops
    <2>1. ops \in Seq(Ops)
      <3>1. <<<<"stay", n>>>> \in Seq(Ops) /\ <<>> \in Seq(Ops)
        BY <1>2, Short
      <3>2. <<<<"watch", n, pos[n]>>, <<"stay", n>>>> \in Seq(Ops)
        BY <1>2, Short
      <3> QED BY <1>1, <3>1, <3>2
    <2>2. CASE ops = <<>>
      BY <2>1, <2>2
    <2>3. CASE ops = <<<<"stay", n>>>>
      BY <2>1, <2>3
    <2>4. CASE ops = <<<<"watch", n, pos[n]>>, <<"stay", n>>>>
      BY <2>1, <2>4 DEF Final
    <2> QED BY <1>1, <2>2, <2>3, <2>4
  <1> HIDE DEF Ops
  <1>4. /\ pool' = pool /\ w \in pool
        /\ todo' \in [Workers -> Seq(Ops)]
        /\ job' \in [Workers -> {NONE} \cup Kinds \X Objects]
        /\ todo'[w] = ops /\ todo[w] = <<>> /\ job[w] = NONE
        /\ \A v \in Workers \ {w} : todo'[v] = todo[v] /\ job'[v] = job[v]
        /\ job'[w] = IF ops = <<>> THEN NONE ELSE <<"tick", n>>
    BY <1>0, <1>1, <1>3, TakeRest
  <1>5. /\ \A v \in pool : \A op : Has(v, op)' => Has(v, op) \/ Among(ops, op)
        /\ \A v \in pool : \A op : Has(v, op) => Has(v, op)'
    BY <1>0, <1>1, <1>3, TakeRest
  <1>6. \A m \in NPC : NONE # <<"tick", m>>
    BY RaceAssumption DEF Kinds, Objects
  <1>7. pool \subseteq Workers
    BY DEF Typed, Workers
  <1>8. Shape'
    <2>1. \A v \in Workers : v \notin pool' \/ job'[v] = NONE => todo'[v] = <<>>
      BY <1>4, <1>6 DEF Shape
    <2>2. ASSUME NEW v \in Workers, NEW k \in 1 .. Len(todo'[v]), todo'[v][k][1] \in Final
          PROVE  k = Len(todo'[v]) /\ job'[v] = <<"tick", todo'[v][k][2]>>
      <3>1. CASE v = w
        <4>1. k \in 1 .. Len(ops) /\ ops[k][1] \in Final
          BY <1>4, <2>2, <3>1
        <4>2. k = Len(ops) /\ ops[k][2] = n /\ ops # <<>>
          BY <1>3, <4>1
        <4> QED BY <1>4, <3>1, <4>2
      <3>2. CASE v # w
        BY <1>4, <2>2, <3>2 DEF Shape
      <3> QED BY <3>1, <3>2
    <2>3. ASSUME NEW v \in Workers, NEW m \in NPC, job'[v] = <<"tick", m>>
          PROVE  todo'[v] # <<>> /\ todo'[v][Len(todo'[v])][1] \in Final
      <3>1. CASE v = w
        <4>1. ops # <<>> /\ todo'[v] = ops
          BY <1>4, <1>6, <2>3, <3>1
        <4>2. ops[Len(ops)] = <<"stay", n>>
          BY <1>3, <4>1
        <4>3. ops[Len(ops)][1] = "stay"
          BY <4>2
        <4> QED BY <4>1, <4>3 DEF Final
      <3>2. CASE v # w
        BY <1>4, <2>3, <3>2 DEF Shape
      <3> QED BY <3>1, <3>2
    <2> QED BY <2>1, <2>2, <2>3 DEF Shape
  <1>9. \A m \in NPC : ~Among(ops, <<"bury", m>>)
    BY <1>3 DEF Among
  <1>10. Frame(w)
    BY <1>4, <1>5, <1>8, <1>9 DEF Frame
  <1>11. \A v \in pool : v # w => job'[v] = job[v]
    BY <1>4, <1>7
  <1>12. w \notin Runs(n)
    BY <1>4, <1>6 DEF Runs
  <1>13. Runs(n)' = Runs(n) \/ Runs(n)' = Runs(n) \cup {w}
    BY <1>4, <1>6, <1>11 DEF Runs
  <1>14. \A m \in NPC \ {n} : Runs(m)' = Runs(m)
    <2>1. \A m \in NPC \ {n} : job[w] # <<"tick", m>> /\ job'[w] # <<"tick", m>>
      BY <1>4, <1>6
    <2> QED BY <1>4, <1>11, <2>1 DEF Runs
  <1> QED BY <1>10, <1>12, <1>13, <1>14

\* npc_die is entered for a NPC that is dead, and ends in its burial.
LEMMA JudgeFrame ==
    ASSUME Typed, Shape, NEW w \in Workers, Judge(w)
    PROVE  /\ pool' = pool
           /\ todo' \in [Workers -> Seq(Ops)]
           /\ job' \in [Workers -> {NONE} \cup Kinds \X Objects]
           /\ Shape' /\ \A m \in NPC : Runs(m)' = Runs(m)
           /\ \E n \in NPC :
                /\ ~Alive(n) => Has(w, <<"bury", n>>)' /\ w \in pool
                /\ \A v \in pool, m \in NPC : Has(v, <<"bury", m>>)' =>
                      Has(v, <<"bury", m>>) \/ (m = n /\ ~Alive(n))
                /\ \A v \in pool, m \in NPC, name \in {"check", "bury"} :
                      Has(v, <<name, m>>) => Has(v, <<name, m>>)' \/ m = n
  <1>0. Op(w, "check")
    BY DEF Judge
  <1>1. PICK n \in NPC : n = Arg(w, 1) /\ Head(todo[w]) = <<"check", n>>
    BY <1>0, HeadTypes
  <1>2. w \in pool /\ n \in Objects /\ pos[n] \in Tiles
    BY <1>0, <1>1, NextOp DEF Objects, Typed
  <1> DEFINE S == Around(pos[n]) \cap clients
             Hide(p) == <<<<"rem", p, n>>>>
             f == [i \in 1 .. Cardinality(S) |-> Hide(SetToSeq(S)[i])]
             last == <<<<"leave", n, sector_id(pos[n])>>, <<"bury", n>>>>
             all == IF Alive(n) THEN <<<<"wake", n>>>> ELSE FlattenSeq(f) \o last
  <1>3a. Then(w, all)
    BY <1>1 DEF Judge, For
  <1>3b. PICK ops : ops = all
    OBVIOUS
  <1>3. Then(w, ops)
    BY <1>3a, <1>3b
  <1>4. /\ <<<<"wake", n>>>> \in Seq(Calm)
        /\ last \in Seq(Plain)
        /\ Len(last) = 2 /\ last[2] = <<"bury", n>> /\ last[1][1] = "leave"
        /\ FlattenSeq(f) \in Seq(Calm)
    <2>0. sector_id(pos[n]) \in Sectors
      BY <1>2, SectorIdInRange
    <2>1. <<"leave", n, sector_id(pos[n])>> \in Plain /\ <<"bury", n>> \in Plain
      <3> HIDE DEF Calm, Plain, Ops
      <3> QED BY <1>2, <2>0, CalmOps
    <2>2. S \in SUBSET PC
      BY DEF Typed
    <2>3. (\A p \in PC : Hide(p) \in Seq(Calm)) /\ <<<<"wake", n>>>> \in Seq(Calm)
      <3> HIDE DEF Calm, Plain, Ops
      <3> QED BY <1>2, CalmOps, Short
    <2>4. Cardinality(S) \in Nat /\ SetToSeq(S) \in [1 .. Cardinality(S) -> S]
      <3>1. IsFiniteSet(S)
        BY <2>2, Sets, FiniteSome
      <3> HIDE DEF S
      <3> QED BY <3>1, SetToSeqTypes
    <2> HIDE DEF S, Hide, Calm, Plain, Ops
    <2>5. f \in [1 .. Cardinality(S) -> Seq(Calm)]
      BY <2>2, <2>3, <2>4
    <2>6. FlattenSeq(f) \in Seq(Calm)
      <3> HIDE DEF f
      <3> QED BY <2>4, <2>5, FlattenTypes
    <2>7. last \in Seq(Plain) /\ Len(last) = 2 /\ last[2] = <<"bury", n>> /\ last[1][1] = "leave"
      BY <2>1, Short
    <2> QED BY <2>3, <2>6, <2>7
  <1> DEFINE g == FlattenSeq(f)
  <1> HIDE DEF S, f, last, Calm, Plain, Ops
  <1>5. /\ g \in Seq(Plain) /\ <<<<"wake", n>>>> \in Seq(Plain)
        /\ \A k \in 1 .. Len(g) : g[k][1] # "bury"
    BY <1>4, CalmSeq
  <1> HIDE DEF g
  <1>6. ~Alive(n) => ops = g \o last
    BY <1>3b DEF g
  <1>7. Alive(n) => ops = <<<<"wake", n>>>>
    BY <1>3b
  <1> HIDE DEF all
  <1>8. /\ ops \in Seq(Plain)
        /\ \A k \in 1 .. Len(ops) : ops[k][1] = "bury" => ops[k] = <<"bury", n>> /\ ~Alive(n)
        /\ ~Alive(n) => \E k \in 1 .. Len(ops) : ops[k] = <<"bury", n>>
    <2>1. CASE Alive(n)
      BY <1>5, <1>7, <2>1
    <2>2. CASE ~Alive(n)
      <3>1. ops = g \o last
        BY <1>6, <2>2
      <3>2. /\ ops \in Seq(Plain) /\ Len(ops) = Len(g) + 2 /\ Len(g) \in Nat
            /\ \A k \in 1 .. Len(g) : ops[k] = g[k]
            /\ ops[Len(g) + 1] = last[1] /\ ops[Len(g) + 2] = last[2]
        <4>0. g \in Seq(Plain)
          BY <1>5
        <4>1. last \in Seq(Plain) /\ Len(last) = 2
          BY <1>4
        <4>2. /\ ops \in Seq(Plain) /\ Len(ops) = Len(g) + Len(last) /\ Len(g) \in Nat
              /\ \A k \in 1 .. Len(ops) :
                    ops[k] = IF k <= Len(g) THEN g[k] ELSE last[k - Len(g)]
          <5>1. last \in Seq(Plain)
            BY <4>1
          <5> QED BY <3>1, <4>0, <5>1, Concat
        <4>3. \A k \in 1 .. Len(g) : ops[k] = g[k]
          BY <4>1, <4>2
        <4>4. ops[Len(g) + 1] = last[1]
          BY <4>1, <4>2
        <4>5. ops[Len(g) + 2] = last[2]
          BY <4>1, <4>2
        <4> QED BY <4>1, <4>2, <4>3, <4>4, <4>5
      <3>3. \A k \in 1 .. Len(ops) : k \in 1 .. Len(g) \/ k = Len(g) + 1 \/ k = Len(g) + 2
        BY <3>2
      <3>4. Len(g) + 2 \in 1 .. Len(ops) /\ ops[Len(g) + 2] = <<"bury", n>>
        BY <1>4, <3>2
      <3>5. \A k \in 1 .. Len(ops) : ops[k][1] = "bury" => ops[k] = <<"bury", n>>
        <4>1. ops[Len(g) + 1][1] = "leave"
          BY <1>4, <3>2
        <4> QED BY <1>5, <3>2, <3>3, <3>4, <4>1
      <3> QED BY <2>2, <3>2, <3>4, <3>5
    <2> QED BY <2>1, <2>2
  <1>9. Shape' /\ \A m \in NPC : Runs(m)' = Runs(m)
    <2>1. "check" \notin Final
      BY DEF Final
    <2> QED BY <1>0, <1>3, <1>8, <2>1, ThenShape
  <1>10. ops \in Seq(Ops)
    BY <1>8, CalmSeq
  <1>11. /\ pool' = pool
         /\ todo' \in [Workers -> Seq(Ops)]
         /\ job' \in [Workers -> {NONE} \cup Kinds \X Objects]
         /\ \A v \in pool : \A op : Has(v, op)' => Has(v, op) \/ Among(ops, op)
         /\ \A v \in pool : \A op : Has(v, op) /\ op # Head(todo[w]) => Has(v, op)'
    BY <1>0, <1>3, <1>10, ThenRest
  <1>12. \A k \in 1 .. Len(ops) : Has(w, ops[k])'
    BY <1>0, <1>3, <1>10, ThenRest
  <1>13. ~Alive(n) => Has(w, <<"bury", n>>)'
    BY <1>8, <1>12
  <1>14. \A m \in NPC : Among(ops, <<"bury", m>>) => m = n /\ ~Alive(n)
    BY <1>8 DEF Among
  <1>15. \A m \in NPC \ {n}, name \in {"check", "bury"} : <<name, m>> # Head(todo[w])
    BY <1>1
  <1>16. /\ \A v \in pool, m \in NPC : Has(v, <<"bury", m>>)' =>
                      Has(v, <<"bury", m>>) \/ (m = n /\ ~Alive(n))
         /\ \A v \in pool, m \in NPC, name \in {"check", "bury"} :
                      Has(v, <<name, m>>) => Has(v, <<name, m>>)' \/ m = n
    BY <1>11, <1>14, <1>15
  <1> QED BY <1>2, <1>9, <1>11, <1>13, <1>16

\* The end of npc_die.
LEMMA BuryFrame ==
    ASSUME Typed, Shape, NEW w \in Workers, Bury(w)
    PROVE  /\ pool' = pool
           /\ todo' \in [Workers -> Seq(Ops)]
           /\ job' \in [Workers -> {NONE} \cup Kinds \X Objects]
           /\ Shape' /\ \A m \in NPC : Runs(m)' = Runs(m)
           /\ \A v \in pool, m \in NPC : Has(v, <<"bury", m>>)' => Has(v, <<"bury", m>>)
           /\ \E n \in NPC :
                /\ n = Arg(w, 1) /\ w \in pool /\ Has(w, <<"bury", n>>)
                /\ \A v \in pool, m \in NPC, name \in {"check", "bury"} :
                      Has(v, <<name, m>>) => Has(v, <<name, m>>)' \/ m = n
  <1>0. Op(w, "bury") /\ Then(w, <<>>)
    BY DEF Bury
  <1>1. PICK n \in NPC : n = Arg(w, 1) /\ Head(todo[w]) = <<"bury", n>>
    BY <1>0, HeadTypes
  <1>2. /\ w \in pool /\ todo[w] \in Seq(Ops) /\ Len(todo[w]) \in Nat \ {0}
        /\ Head(todo[w]) = todo[w][1]
    BY <1>0, NextOp
  <1>3. Has(w, <<"bury", n>>)
    <2>1. 1 \in 1 .. Len(todo[w]) /\ todo[w][1] = <<"bury", n>>
      BY <1>1, <1>2
    <2> QED BY <2>1 DEF Has
  <1>4. /\ <<>> \in Seq(Plain) /\ <<>> \in Seq(Ops) /\ "bury" \notin Final
        /\ \A op : ~Among(<<>>, op)
    BY Short DEF Among, Final
  <1> HIDE DEF Ops, Plain
  <1>5. Shape' /\ \A m \in NPC : Runs(m)' = Runs(m)
    BY <1>0, <1>4, ThenShape
  <1>6. /\ pool' = pool
        /\ todo' \in [Workers -> Seq(Ops)]
        /\ job' \in [Workers -> {NONE} \cup Kinds \X Objects]
        /\ \A v \in pool : \A op : Has(v, op)' => Has(v, op) \/ Among(<<>>, op)
        /\ \A v \in pool : \A op : Has(v, op) /\ op # Head(todo[w]) => Has(v, op)'
    BY <1>0, <1>4, ThenRest
  <1>7. \A m \in NPC \ {n}, name \in {"check", "bury"} : <<name, m>> # Head(todo[w])
    BY <1>1
  <1>8. \A v \in pool, m \in NPC, name \in {"check", "bury"} :
            Has(v, <<name, m>>) => Has(v, <<name, m>>)' \/ m = n
    BY <1>6, <1>7
  <1>9. \A v \in pool, m \in NPC : Has(v, <<"bury", m>>)' => Has(v, <<"bury", m>>)
    BY <1>4, <1>6
  <1> QED BY <1>1, <1>2, <1>3, <1>5, <1>6, <1>8, <1>9
-----------------------------------------------------------------------------
(***************************************************************************)
(* Types and shapes hold in every reachable state.                         *)
(***************************************************************************)
\* The world outside of the workers.
World ==
    /\ pos \in [Objects -> Tiles]
    /\ sectors \in [Sectors -> SUBSET Objects]
    /\ clients \in SUBSET PC
    /\ visible \in [PC -> SUBSET Objects]
    /\ m_hp \in [NPC -> Int]
    /\ m_active_npc \in [NPC -> BOOLEAN]
    /\ moves \in [NPC -> Nat]
    /\ respawns \in [NPC -> Nat]

\* Steps that leave the world as it is, but for sectors, views and sessions.
LEMMA ViewsTyped ==
    ASSUME Typed, Shape, NEW w \in Workers,
           \/ Leave(w) \/ Enter(w) \/ SendAdd(w) \/ PutAdd(w) \/ SendRemove(w) \/ PutRemove(w)
           \/ SendMove(w) \/ OldView(w) \/ NewView(w) \/ Hit(w) \/ Judge(w) \/ Greet(w)
           \/ OldViewers(w) \/ NewViewers(w) \/ AlreadyVisible(w) \/ HasNearby(w)
           \/ Logout(w) \/ HideFromOthers(w) \/ CloseSession(w)
           \/ \E p \in PC : Attack(w, p) \/ Disconnect(w, p)
    PROVE  World' /\ UNCHANGED <<m_hp, m_active_npc, moves, respawns, revived>>
  <1> HIDE DEF Ops
  <1>1. CASE Leave(w)
    <2>1. Arg(w, 1) \in Objects /\ Arg(w, 2) \in Sectors
      BY <1>1, HeadTypes DEF Leave
    <2> QED BY <1>1, <2>1 DEF Leave, players, npcs, World, Typed
  <1>2. CASE Enter(w)
    <2>1. Arg(w, 1) \in Objects /\ Arg(w, 2) \in Sectors
      BY <1>2, HeadTypes DEF Enter
    <2> QED BY <1>2, <2>1 DEF Enter, players, npcs, World, Typed
  <1>3. CASE SendAdd(w)
    <2>1. Arg(w, 1) \in PC /\ Arg(w, 2) \in Objects
      BY <1>3, HeadTypes DEF SendAdd
    <2>2. PICK p \in PC, o \in Objects :
              visible' = visible \/ visible' = [visible EXCEPT ![p] = @ \cup {o}]
      BY <1>3, <2>1 DEF SendAdd
    <2>3. visible' \in [PC -> SUBSET Objects]
      <3>1. visible \in [PC -> SUBSET Objects] /\ visible[p] \cup {o} \in SUBSET Objects
        BY DEF Typed
      <3> QED BY <2>2, <3>1
    <2> QED BY <1>3, <2>3 DEF SendAdd, players, npcs, World, Typed
  <1>4. CASE SendRemove(w)
    <2>1. Arg(w, 1) \in PC /\ Arg(w, 2) \in Objects
      BY <1>4, HeadTypes DEF SendRemove
    <2>2. PICK p \in PC, o \in Objects :
              visible' = visible \/ visible' = [visible EXCEPT ![p] = @ \ {o}]
      BY <1>4, <2>1 DEF SendRemove
    <2>3. visible' \in [PC -> SUBSET Objects]
      BY <2>2, ZenonT(60) DEF Typed
    <2> QED BY <1>4, <2>3 DEF SendRemove, players, npcs, World, Typed
  <1>5. CASE HideFromOthers(w)
    <2>1. Arg(w, 1) \in PC
      BY <1>5, HeadTypes DEF HideFromOthers
    <2> QED BY <1>5, <2>1 DEF HideFromOthers, players, npcs, World, Typed
  <1>6. CASE CloseSession(w)
    BY <1>6 DEF CloseSession, npcs, World, Typed
  <1>7. CASE PutAdd(w) \/ PutRemove(w) \/ SendMove(w)
    BY <1>7 DEF PutAdd, PutRemove, SendMove, players, npcs, World, Typed
  <1>8. CASE OldView(w) \/ NewView(w) \/ Hit(w) \/ Judge(w) \/ Greet(w)
    BY <1>8 DEF OldView, NewView, Hit, Judge, Greet, players, npcs, World, Typed
  <1>9. CASE OldViewers(w) \/ NewViewers(w) \/ AlreadyVisible(w) \/ HasNearby(w) \/ Logout(w)
    BY <1>9 DEF OldViewers, NewViewers, AlreadyVisible, HasNearby, Logout, players, npcs,
                World, Typed
  <1>10. CASE \E p \in PC : Attack(w, p) \/ Disconnect(w, p)
    BY <1>10 DEF Attack, Disconnect, players, npcs, World, Typed
  <1> QED BY <1>1, <1>2, <1>3, <1>4, <1>5, <1>6, <1>7, <1>8, <1>9, <1>10

LEMMA MoveTyped ==
    ASSUME Typed, NEW w \in Workers, NEW p \in PC, Move(w, p)
    PROVE  World' /\ UNCHANGED <<m_hp, m_active_npc, moves, respawns, revived>>
  <1>1. p \in Objects /\ pos[p] \in Tiles
    BY DEF Objects, Typed
  <1>2. PICK u \in Tiles : pos' = [pos EXCEPT ![p] = u]
    BY <1>1 DEF Move, is_obstacle
  <1> HIDE DEF Ops
  <1> QED BY <1>1, <1>2 DEF Move, players, npcs, World, Typed

\* Wounds, deaths and respawns.
LEMMA NpcsTyped ==
    ASSUME Typed, Shape, NEW w \in Workers,
           Damage(w) \/ Bury(w) \/ WakeUp(w) \/ PushMove(w) \/ FallAsleep(w)
    PROVE  World'
  <1> HIDE DEF Ops
  <1>1. CASE Damage(w)
    <2>1. Arg(w, 1) \in NPC /\ Arg(w, 2) \in Int
      BY <1>1, HeadTypes DEF Damage
    <2> QED BY <1>1, <2>1 DEF Damage, players, World, Typed
  <1>2. CASE Bury(w)
    <2>1. Arg(w, 1) \in NPC
      BY <1>2, HeadTypes DEF Bury
    <2> QED BY <1>2, <2>1 DEF Bury, players, World, Typed
  <1>3. CASE WakeUp(w)
    <2>1. Arg(w, 1) \in NPC
      BY <1>3, HeadTypes DEF WakeUp
    <2> QED BY <1>3, <2>1 DEF WakeUp, players, World, Typed
  <1>4. CASE PushMove(w)
    <2>1. Arg(w, 1) \in NPC
      BY <1>4, HeadTypes DEF PushMove, Final
    <2> QED BY <1>4, <2>1 DEF PushMove, players, World, Typed
  <1>5. CASE FallAsleep(w)
    <2>1. Arg(w, 1) \in NPC
      BY <1>5, HeadTypes DEF FallAsleep, Final
    <2> QED BY <1>5, <2>1 DEF FallAsleep, players, World, Typed
  <1> QED BY <1>1, <1>2, <1>3, <1>4, <1>5

LEMMA TimersTyped ==
    ASSUME Typed, NEW w \in Workers, NEW n \in NPC, NpcTick(w, n) \/ Respawn(w, n)
    PROVE  World'
  <1> HIDE DEF Ops
  <1>0. n \in Objects /\ pos[n] \in Tiles
    BY DEF Objects, Typed
  <1>1. CASE NpcTick(w, n)
    <2>1. pos' \in [Objects -> Tiles]
      <3>1. pos' = pos \/ \E t \in Tiles : pos' = [pos EXCEPT ![n] = t]
        BY <1>1 DEF NpcTick, is_obstacle
      <3> QED BY <1>0, <3>1 DEF Typed
    <2>2. moves' \in [NPC -> Nat]
      BY <1>1 DEF NpcTick, Typed
    <2> QED BY <1>1, <2>1, <2>2 DEF NpcTick, players, World, Typed
  <1>2. CASE Respawn(w, n)
    <2>1. m_origin[n] \in Tiles /\ MAX_HP \in Int
      BY RaceAssumption
    <2> QED BY <1>0, <1>2, <2>1 DEF Respawn, players, World, Typed
  <1> QED BY <1>1, <1>2

\* Every step, as far as the workers are concerned.
LEMMA StepShape ==
    ASSUME Typed, Shape, NEW w \in Workers, NEW o \in Objects,
           \/ o \in PC /\ (Move(w, o) \/ Attack(w, o) \/ Disconnect(w, o))
           \/ o \in NPC /\ (NpcTick(w, o) \/ Respawn(w, o))
           \/ Leave(w) \/ Enter(w)
           \/ SendAdd(w) \/ PutAdd(w) \/ SendRemove(w) \/ PutRemove(w) \/ SendMove(w)
           \/ WakeUp(w) \/ OldView(w) \/ NewView(w)
           \/ Hit(w) \/ Damage(w) \/ Judge(w) \/ Bury(w) \/ Greet(w)
           \/ OldViewers(w) \/ NewViewers(w) \/ AlreadyVisible(w)
           \/ HasNearby(w) \/ PushMove(w) \/ FallAsleep(w)
           \/ Logout(w) \/ HideFromOthers(w) \/ CloseSession(w)
    PROVE  Typed' /\ Shape'
  <1> HIDE DEF Ops
  <1>1. /\ pool' = pool /\ todo' \in [Workers -> Seq(Ops)]
        /\ job' \in [Workers -> {NONE} \cup Kinds \X Objects] /\ Shape'
    <2>1. CASE Goes(w)
      BY <2>1, GoesFrame
    <2>2. CASE HasNearby(w)
      BY <2>2, StayFrame DEF Frame
    <2>3. CASE PushMove(w)
      <3>1. Op(w, "push") /\ Then(w, <<>>)
        BY <2>3 DEF PushMove
      <3> QED BY <3>1, EndFrame DEF Frame
    <2>4. CASE FallAsleep(w)
      <3>1. Op(w, "sleep") /\ Then(w, <<>>)
        BY <2>4 DEF FallAsleep
      <3> QED BY <3>1, EndFrame DEF Frame
    <2>5. CASE o \in NPC /\ NpcTick(w, o)
      BY <2>5, TickFrame DEF Frame
    <2>6. CASE Judge(w)
      BY <2>6, JudgeFrame
    <2>7. CASE Bury(w)
      BY <2>7, BuryFrame
    <2> QED BY <2>1, <2>2, <2>3, <2>4, <2>5, <2>6, <2>7, ViewsGo, OthersGo, HandlersGo
  <1>2. World'
    BY ViewsTyped, MoveTyped, NpcsTyped, TimersTyped
  <1>3. pool' \in Pools
    BY <1>1 DEF Typed
  <1> QED BY <1>1, <1>2, <1>3 DEF Typed, World

LEMMA InitShape ==
    ASSUME Init
    PROVE  Typed /\ Shape
  <1>1. NONE \notin Kinds \X Objects
    BY RaceAssumption DEF Objects
  <1>2. pool \in Pools /\ todo = [v \in Workers |-> <<>>] /\ job = [v \in Workers |-> NONE]
    BY DEF Init, Waiting
  <1>3. <<>> \in Seq(Ops)
    BY Short
  <1> HIDE DEF Ops
  <1>4. todo \in [Workers -> Seq(Ops)] /\ job \in [Workers -> {NONE} \cup Kinds \X Objects]
    BY <1>2, <1>3
  <1>5. pos \in [Objects -> Tiles]
    BY DEF Init
  <1>6. sectors \in [Sectors -> SUBSET Objects] /\ clients \in SUBSET PC
        /\ visible \in [PC -> SUBSET Objects]
    BY DEF Init
  <1>7. m_hp \in [NPC -> Int]
    BY RaceAssumption DEF Init
  <1>8. m_active_npc \in [NPC -> BOOLEAN] /\ moves \in [NPC -> Nat] /\ respawns \in [NPC -> Nat]
    <2>1. m_active_npc \in [NPC -> BOOLEAN]
      BY DEF Init
    <2>2. moves \in [NPC -> Nat] /\ respawns \in [NPC -> Nat]
      BY DEF Init
    <2> QED BY <2>1, <2>2
  <1>9. Shape
    <2>1. \A w \in Workers : todo[w] = <<>> /\ job[w] = NONE
      BY <1>2
    <2>2. \A w \in Workers, n \in NPC : job[w] # <<"tick", n>>
      <3>1. \A n \in NPC : NONE # <<"tick", n>>
        BY <1>1 DEF Kinds, Objects
      <3> QED BY <2>1, <3>1
    <2>3. \A w \in Workers : \A k \in 1 .. Len(todo[w]) : FALSE
      BY <2>1
    <2> QED BY <2>1, <2>2, <2>3 DEF Shape
  <1> QED BY <1>2, <1>4, <1>5, <1>6, <1>7, <1>8, <1>9 DEF Typed
-----------------------------------------------------------------------------
(***************************************************************************)
(* The pace of the ticks.                                                  *)
(***************************************************************************)
LEMMA RunsFinite ==
    ASSUME Typed, NEW n \in NPC
    PROVE  IsFiniteSet(Runs(n)) /\ Cardinality(Runs(n)) \in Nat
           /\ Ticking(n) = moves[n] + Cardinality(Runs(n)) /\ moves[n] \in Nat
           /\ (Alive(n) <=> m_hp[n] > 0) /\ m_hp[n] \in Int
  <1>1. IsFiniteSet(pool) /\ Runs(n) \subseteq pool
    BY HandlersAssumption DEF Typed, Runs
  <1>2. IsFiniteSet(Runs(n))
    BY <1>1, FS_Subset
  <1>3. n \notin PC
    BY RaceAssumption
  <1> HIDE DEF Ops
  <1> QED BY <1>2, <1>3, FS_CardinalityType DEF Ticking, Runs, Alive, Typed

\* Steps that are none of a NPC's business.
LEMMA PacedKept ==
    ASSUME Typed, Shape, Paced, pool' = pool, NEW n \in NPC \ revived',
           n \notin revived, Runs(n)' = Runs(n),
           m_hp'[n] = m_hp[n], m_active_npc'[n] = m_active_npc[n], moves'[n] = moves[n],
           \A v \in pool : Has(v, <<"bury", n>>)' => Has(v, <<"bury", n>>)
    PROVE  /\ \A w \in pool' : Has(w, <<"bury", n>>)' => ~Alive(n)'
           /\ Alive(n)' => Ticking(n)' <= 1
           /\ Alive(n)' /\ ~m_active_npc'[n] => Ticking(n)' = 0
  <1>1. Alive(n)' <=> Alive(n)
    BY DEF Alive
  <1>2. Ticking(n)' = Ticking(n)
    BY DEF Ticking, Runs
  <1>3. n \in NPC \ revived
    OBVIOUS
  <1> QED BY <1>1, <1>2, <1>3 DEF Paced

LEMMA GoesPaced ==
    ASSUME Typed, Shape, Paced, NEW w \in Workers, Frame(w),
           \A n \in NPC : Runs(n)' = Runs(n),
           UNCHANGED <<m_hp, m_active_npc, moves, revived>>
    PROVE  Paced'
  <1>1. pool' = pool
        /\ \A v \in pool, n \in NPC : Has(v, <<"bury", n>>)' => Has(v, <<"bury", n>>)
    BY DEF Frame
  <1> HIDE DEF Ops
  <1> QED BY <1>1, PacedKept DEF Paced

LEMMA WakePaced ==
    ASSUME Typed, Shape, Paced, NEW w \in Workers, WakeUp(w)
    PROVE  Paced'
  <1>1. Op(w, "wake")
    BY DEF WakeUp
  <1>2. PICK n \in NPC : n = Arg(w, 1)
    BY <1>1, HeadTypes
  <1>3. /\ moves' = [moves EXCEPT ![n] = IF m_active_npc[n] THEN @ ELSE @ + 1]
        /\ m_active_npc' = [m_active_npc EXCEPT ![n] = TRUE]
        /\ UNCHANGED <<m_hp, revived>>
    BY <1>2 DEF WakeUp
  <1>4. /\ pool' = pool /\ \A m \in NPC : Runs(m)' = Runs(m)
        /\ \A v \in pool, m \in NPC : Has(v, <<"bury", m>>)' => Has(v, <<"bury", m>>)
    BY OthersGo, GoesFrame
  <1>5. ASSUME NEW m \in NPC \ revived'
        PROVE  /\ \A v \in pool' : Has(v, <<"bury", m>>)' => ~Alive(m)'
               /\ Alive(m)' => Ticking(m)' <= 1
               /\ Alive(m)' /\ ~m_active_npc'[m] => Ticking(m)' = 0
    <2>0. m \in NPC /\ m \notin revived
      BY <1>3
    <2>1. CASE m # n
      <3>1. m_hp'[m] = m_hp[m] /\ m_active_npc'[m] = m_active_npc[m] /\ moves'[m] = moves[m]
        BY <1>3, <2>0, <2>1 DEF Typed
      <3> QED BY <1>4, <2>0, <3>1, PacedKept
    <2>2. CASE m = n
      <3>1. /\ m_active_npc'[n] /\ (Alive(n)' <=> Alive(n))
            /\ moves'[n] = IF m_active_npc[n] THEN moves[n] ELSE moves[n] + 1
        BY <1>3 DEF Typed, Alive
      <3>2. Ticking(n)' = moves'[n] + Cardinality(Runs(n))
        BY <1>4 DEF Ticking, Runs
      <3>3. /\ \A v \in pool : Has(v, <<"bury", n>>) => ~Alive(n)
            /\ Alive(n) => Ticking(n) <= 1
            /\ Alive(n) /\ ~m_active_npc[n] => Ticking(n) = 0
        BY <2>0, <2>2 DEF Paced
      <3>4. Alive(n) => Ticking(n)' <= 1
        BY <3>1, <3>2, <3>3, RunsFinite
      <3> QED BY <1>4, <2>2, <3>1, <3>3, <3>4
    <2> QED BY <2>1, <2>2
  <1> QED BY <1>5 DEF Paced

\* The tick ends: another one is pushed, or the NPC falls asleep.
LEMMA EndPaced ==
    ASSUME Typed, Shape, Paced, NEW w \in Workers, PushMove(w) \/ FallAsleep(w)
    PROVE  Paced'
  <1>1. PICK name \in {"push", "sleep"} : Op(w, name) /\ Then(w, <<>>)
    BY DEF PushMove, FallAsleep
  <1>2. PICK n \in NPC : /\ n = Arg(w, 1) /\ w \in Runs(n) /\ Runs(n)' = Runs(n) \ {w}
                         /\ \A m \in NPC \ {n} : Runs(m)' = Runs(m)
    BY <1>1, EndFrame
  <1>3. /\ pool' = pool
        /\ \A v \in pool, m \in NPC : Has(v, <<"bury", m>>)' => Has(v, <<"bury", m>>)
    BY <1>1, EndFrame DEF Frame
  <1>4. /\ UNCHANGED <<m_hp, revived>>
        /\ \/ UNCHANGED m_active_npc /\ moves' = [moves EXCEPT ![n] = @ + 1]
           \/ UNCHANGED moves /\ m_active_npc' = [m_active_npc EXCEPT ![n] = FALSE]
    BY <1>2 DEF PushMove, FallAsleep
  <1>5. ASSUME NEW m \in NPC \ revived'
        PROVE  /\ \A v \in pool' : Has(v, <<"bury", m>>)' => ~Alive(m)'
               /\ Alive(m)' => Ticking(m)' <= 1
               /\ Alive(m)' /\ ~m_active_npc'[m] => Ticking(m)' = 0
    <2>0. m \in NPC /\ m \notin revived
      BY <1>4
    <2>1. CASE m # n
      <3>1. m_hp'[m] = m_hp[m] /\ m_active_npc'[m] = m_active_npc[m] /\ moves'[m] = moves[m]
        BY <1>4, <2>0, <2>1 DEF Typed
      <3> QED BY <1>2, <1>3, <2>0, <2>1, <3>1, PacedKept
    <2>2. CASE m = n
      <3>1. Alive(n)' <=> Alive(n)
        BY <1>4 DEF Alive
      <3>2. Ticking(n)' = moves'[n] + Cardinality(Runs(n)')
        BY DEF Ticking, Runs
      <3>3. /\ \A v \in pool : Has(v, <<"bury", n>>) => ~Alive(n)
            /\ Alive(n) => Ticking(n) <= 1
            /\ Alive(n) /\ ~m_active_npc[n] => Ticking(n) = 0
        BY <2>0, <2>2 DEF Paced
      <3>4. Cardinality(Runs(n)') = Cardinality(Runs(n)) - 1
        BY <1>2, RunsFinite, FS_RemoveElement
      <3>5. /\ Cardinality(Runs(n)) \in Nat /\ moves[n] \in Nat
            /\ Ticking(n) = moves[n] + Cardinality(Runs(n))
        BY RunsFinite
      <3>6. Cardinality(Runs(n)) >= 1
        BY <1>2, RunsFinite, FS_EmptySet
      \* A tick that runs keeps the NPC awake.
      <3>7. Alive(n) => Ticking(n) = 1 /\ m_active_npc[n] = TRUE
        <4>1. Alive(n) => Ticking(n) = 1
          BY <3>3, <3>5, <3>6
        <4>2. m_active_npc[n] \in BOOLEAN
          BY DEF Typed
        <4> QED BY <3>3, <4>1, <4>2
      <3>8. \/ m_active_npc'[n] = m_active_npc[n] /\ moves'[n] = moves[n] + 1
            \/ moves'[n] = moves[n]
        BY <1>4 DEF Typed
      <3>9. CASE m_active_npc'[n] = m_active_npc[n] /\ moves'[n] = moves[n] + 1
        BY <1>3, <2>2, <3>1, <3>2, <3>3, <3>4, <3>5, <3>7, <3>9
      <3>10. CASE moves'[n] = moves[n]
        BY <1>3, <2>2, <3>1, <3>2, <3>3, <3>4, <3>5, <3>7, <3>10
      <3> QED BY <3>8, <3>9, <3>10
    <2> QED BY <2>1, <2>2
  <1> QED BY <1>5 DEF Paced

LEMMA TickPaced ==
    ASSUME Typed, Shape, Paced, NEW w \in Workers, NEW n \in NPC, NpcTick(w, n)
    PROVE  Paced'
  <1>1. /\ moves[n] > 0 /\ moves' = [moves EXCEPT ![n] = @ - 1]
        /\ UNCHANGED <<m_hp, m_active_npc, revived>>
    BY DEF NpcTick
  <1>2. /\ w \notin Runs(n)
        /\ Runs(n)' = Runs(n) \/ Runs(n)' = Runs(n) \cup {w}
        /\ \A m \in NPC \ {n} : Runs(m)' = Runs(m)
    BY TickFrame
  <1>3. /\ pool' = pool
        /\ \A v \in pool, m \in NPC : Has(v, <<"bury", m>>)' => Has(v, <<"bury", m>>)
    BY TickFrame DEF Frame
  <1>4. ASSUME NEW m \in NPC \ revived'
        PROVE  /\ \A v \in pool' : Has(v, <<"bury", m>>)' => ~Alive(m)'
               /\ Alive(m)' => Ticking(m)' <= 1
               /\ Alive(m)' /\ ~m_active_npc'[m] => Ticking(m)' = 0
    <2>0. m \in NPC /\ m \notin revived
      BY <1>1
    <2>1. CASE m # n
      <3>1. m_hp'[m] = m_hp[m] /\ m_active_npc'[m] = m_active_npc[m] /\ moves'[m] = moves[m]
        BY <1>1, <2>0, <2>1 DEF Typed
      <3> QED BY <1>2, <1>3, <2>0, <2>1, <3>1, PacedKept
    <2>2. CASE m = n
      <3>1. (Alive(n)' <=> Alive(n)) /\ m_active_npc'[n] = m_active_npc[n]
        BY <1>1 DEF Alive
      <3>2. Ticking(n)' = moves'[n] + Cardinality(Runs(n)') /\ moves'[n] = moves[n] - 1
        BY <1>1 DEF Ticking, Runs, Typed
      <3>3. /\ \A v \in pool : Has(v, <<"bury", n>>) => ~Alive(n)
            /\ Alive(n) => Ticking(n) <= 1
            /\ Alive(n) /\ ~m_active_npc[n] => Ticking(n) = 0
        BY <2>0, <2>2 DEF Paced
      <3>4. /\ Cardinality(Runs(n)) \in Nat /\ moves[n] \in Nat
            /\ Ticking(n) = moves[n] + Cardinality(Runs(n))
        BY RunsFinite
      <3>5. Cardinality(Runs(n)') \in {Cardinality(Runs(n)), Cardinality(Runs(n)) + 1}
        BY <1>2, RunsFinite, FS_AddElement
      <3>6. Ticking(n)' <= Ticking(n)
        BY <3>2, <3>4, <3>5
      <3>7. Ticking(n)' \in Int
        BY <3>2, <3>4, <3>5
      \* A pending tick keeps the NPC awake.
      <3>8. Alive(n) => m_active_npc[n] = TRUE
        <4>1. m_active_npc[n] \in BOOLEAN
          BY DEF Typed
        <4> QED BY <1>1, <3>3, <3>4, <4>1
      <3> QED BY <1>3, <2>2, <3>1, <3>3, <3>4, <3>6, <3>7, <3>8
    <2> QED BY <2>1, <2>2
  <1> QED BY <1>4 DEF Paced

\* npc_die is called for a NPC that was read dead ...
LEMMA JudgePaced ==
    ASSUME Typed, Shape, Paced, NEW w \in Workers, Judge(w)
    PROVE  Paced'
  <1>1. UNCHANGED <<m_hp, m_active_npc, moves, revived>>
    BY DEF Judge, npcs
  <1>2. PICK n \in NPC :
            \A v \in pool, m \in NPC : Has(v, <<"bury", m>>)' =>
                Has(v, <<"bury", m>>) \/ (m = n /\ ~Alive(n))
    BY JudgeFrame
  <1>3. pool' = pool /\ \A m \in NPC : Runs(m)' = Runs(m)
    BY JudgeFrame
  <1>4. ASSUME NEW m \in NPC \ revived'
        PROVE  /\ \A v \in pool' : Has(v, <<"bury", m>>)' => ~Alive(m)'
               /\ Alive(m)' => Ticking(m)' <= 1
               /\ Alive(m)' /\ ~m_active_npc'[m] => Ticking(m)' = 0
    <2>1. m \in NPC \ revived
      BY <1>1
    <2>2. (Alive(m)' <=> Alive(m)) /\ Ticking(m)' = Ticking(m)
      BY <1>1, <1>3 DEF Alive, Ticking, Runs
    <2>3. /\ \A v \in pool : Has(v, <<"bury", m>>) => ~Alive(m)
          /\ Alive(m) => Ticking(m) <= 1
          /\ Alive(m) /\ ~m_active_npc[m] => Ticking(m) = 0
      BY <2>1 DEF Paced
    <2> QED BY <1>1, <1>2, <1>3, <2>1, <2>2, <2>3
  <1> QED BY <1>4 DEF Paced

\* ... and puts it to sleep while it is dead still.
LEMMA BuryPaced ==
    ASSUME Typed, Shape, Paced, NEW w \in Workers, Bury(w)
    PROVE  Paced'
  <1>1. PICK n \in NPC : n = Arg(w, 1) /\ w \in pool /\ Has(w, <<"bury", n>>)
    BY BuryFrame
  <1>2. /\ m_active_npc' = [m_active_npc EXCEPT ![n] = FALSE]
        /\ UNCHANGED <<m_hp, moves, revived>>
    BY <1>1 DEF Bury
  <1>3. /\ pool' = pool /\ \A m \in NPC : Runs(m)' = Runs(m)
        /\ \A v \in pool, m \in NPC : Has(v, <<"bury", m>>)' => Has(v, <<"bury", m>>)
    BY BuryFrame
  <1>4. ASSUME NEW m \in NPC \ revived'
        PROVE  /\ \A v \in pool' : Has(v, <<"bury", m>>)' => ~Alive(m)'
               /\ Alive(m)' => Ticking(m)' <= 1
               /\ Alive(m)' /\ ~m_active_npc'[m] => Ticking(m)' = 0
    <2>0. m \in NPC /\ m \notin revived
      BY <1>2
    <2>1. CASE m # n
      <3>1. m_hp'[m] = m_hp[m] /\ m_active_npc'[m] = m_active_npc[m] /\ moves'[m] = moves[m]
        BY <1>2, <2>0, <2>1 DEF Typed
      <3> QED BY <1>3, <2>0, <3>1, PacedKept
    <2>2. CASE m = n
      <3>1. ~Alive(n)
        BY <1>1, <2>0, <2>2 DEF Paced
      <3>2. ~Alive(n)'
        BY <1>2, <3>1 DEF Alive
      <3> QED BY <2>2, <3>2
    <2> QED BY <2>1, <2>2
  <1> QED BY <1>4 DEF Paced

\* A hit that brings a NPC back is the exception.
LEMMA DamagePaced ==
    ASSUME Typed, Shape, Paced, NEW w \in Workers, Damage(w)
    PROVE  Paced'
  <1>0. Op(w, "store")
    BY DEF Damage
  <1>1. PICK n \in NPC, hp \in Int : n = Arg(w, 1) /\ hp = Arg(w, 2)
    BY <1>0, HeadTypes
  <1>2. /\ m_hp' = [m_hp EXCEPT ![n] = hp]
        /\ revived' = IF ~Alive(n) /\ hp > 0 THEN revived \cup {n} ELSE revived
        /\ UNCHANGED <<m_active_npc, moves>>
    BY <1>1 DEF Damage
  <1>3. /\ pool' = pool /\ \A m \in NPC : Runs(m)' = Runs(m)
        /\ \A v \in pool, m \in NPC : Has(v, <<"bury", m>>)' => Has(v, <<"bury", m>>)
    BY OthersGo, GoesFrame
  <1>4. ASSUME NEW m \in NPC \ revived'
        PROVE  /\ \A v \in pool' : Has(v, <<"bury", m>>)' => ~Alive(m)'
               /\ Alive(m)' => Ticking(m)' <= 1
               /\ Alive(m)' /\ ~m_active_npc'[m] => Ticking(m)' = 0
    <2>0. m \in NPC /\ m \notin revived
      BY <1>2
    <2>1. CASE m # n
      <3>1. m_hp'[m] = m_hp[m] /\ m_active_npc'[m] = m_active_npc[m] /\ moves'[m] = moves[m]
        BY <1>2, <2>0, <2>1 DEF Typed
      <3> QED BY <1>3, <2>0, <3>1, PacedKept
    <2>2. CASE m = n
      <3>1. /\ \A v \in pool : Has(v, <<"bury", n>>) => ~Alive(n)
            /\ Alive(n) => Ticking(n) <= 1
            /\ Alive(n) /\ ~m_active_npc[n] => Ticking(n) = 0
        BY <2>0, <2>2 DEF Paced
      <3>2. Alive(n)' => Alive(n)
        <4>1. n \notin PC /\ m_hp'[n] = hp
          BY <1>2, RaceAssumption DEF Typed
        <4>2. Alive(n)' => hp > 0
          BY <4>1 DEF Alive
        <4>3. n \notin revived'
          BY <2>2
        <4> QED BY <1>2, <4>2, <4>3
      <3>3. Ticking(n)' = Ticking(n)
        BY <1>2, <1>3 DEF Ticking, Runs
      <3> QED BY <1>2, <1>3, <2>2, <3>1, <3>2, <3>3
    <2> QED BY <2>1, <2>2
  <1> QED BY <1>4 DEF Paced

\* A NPC respawns without a tick, or is alive already.
LEMMA RespawnPaced ==
    ASSUME Typed, Shape, Paced, NEW w \in Workers, NEW n \in NPC, Respawn(w, n)
    PROVE  Paced'
  <1>1. /\ m_hp[n] <= 0 =>
              /\ moves[n] = 0
              /\ \A v \in pool : ~\E op \in Range(todo[v]) :
                    op[1] \in {"store", "check", "wake", "bury", "stay", "push", "sleep"}
        /\ m_hp' = [m_hp EXCEPT ![n] = MAX_HP]
        /\ UNCHANGED <<m_active_npc, moves, revived>>
    BY DEF Respawn
  <1>2. Goes(w)
    BY HandlersGo DEF Objects
  <1>3. /\ pool' = pool /\ \A m \in NPC : Runs(m)' = Runs(m)
        /\ \A v \in pool, m \in NPC : Has(v, <<"bury", m>>)' => Has(v, <<"bury", m>>)
    BY <1>2, GoesFrame
  <1>4. pool \subseteq Workers
    BY DEF Typed, Workers
  <1>5. ASSUME NEW v \in pool, NEW k \in 1 .. Len(todo[v])
        PROVE  todo[v][k] \in Range(todo[v])
    <2>1. todo[v] \in Seq(Ops)
      BY <1>4 DEF Typed
    <2>2. k \in DOMAIN todo[v]
      <3> HIDE DEF Ops
      <3> QED BY <2>1
    <2> QED BY <2>2 DEF Range
  <1>6. m_hp[n] <= 0 => Ticking(n) = 0 /\ \A v \in pool : ~Has(v, <<"bury", n>>)
    <2> SUFFICES ASSUME m_hp[n] <= 0
                 PROVE  Ticking(n) = 0 /\ \A v \in pool : ~Has(v, <<"bury", n>>)
      OBVIOUS
    <2>1. \A v \in pool : \A k \in 1 .. Len(todo[v]) :
              todo[v][k][1] \notin Final \cup {"bury"}
      BY <1>1, <1>5 DEF Final
    <2>2. \A v \in pool : ~Has(v, <<"bury", n>>)
      BY <2>1 DEF Has
    <2>3. ASSUME NEW v \in pool PROVE job[v] # <<"tick", n>>
      <3> SUFFICES ASSUME job[v] = <<"tick", n>> PROVE FALSE
        OBVIOUS
      <3>1. v \in Workers /\ todo[v] \in Seq(Ops)
        BY <1>4 DEF Typed
      <3>2. todo[v] # <<>> /\ todo[v][Len(todo[v])][1] \in Final
        BY <3>1 DEF Shape
      <3>3. Len(todo[v]) \in 1 .. Len(todo[v])
        <4> HIDE DEF Ops
        <4> QED BY <3>1, <3>2
      <3> QED BY <2>1, <3>2, <3>3
    <2>4. Runs(n) = {}
      BY <2>3 DEF Runs
    <2>5. Cardinality(Runs(n)) = 0
      BY <2>4, FS_EmptySet
    <2> QED BY <1>1, <2>2, <2>5, RunsFinite
  <1>7. ASSUME NEW m \in NPC \ revived'
        PROVE  /\ \A v \in pool' : Has(v, <<"bury", m>>)' => ~Alive(m)'
               /\ Alive(m)' => Ticking(m)' <= 1
               /\ Alive(m)' /\ ~m_active_npc'[m] => Ticking(m)' = 0
    <2>0. m \in NPC /\ m \notin revived
      BY <1>1
    <2>1. CASE m # n
      <3>1. m_hp'[m] = m_hp[m] /\ m_active_npc'[m] = m_active_npc[m] /\ moves'[m] = moves[m]
        BY <1>1, <2>0, <2>1 DEF Typed
      <3> QED BY <1>3, <2>0, <3>1, PacedKept
    <2>2. CASE m = n
      <3>1. /\ \A v \in pool : Has(v, <<"bury", n>>) => ~Alive(n)
            /\ Alive(n) => Ticking(n) <= 1
            /\ Alive(n) /\ ~m_active_npc[n] => Ticking(n) = 0
        BY <2>0, <2>2 DEF Paced
      <3>2. Ticking(n)' = Ticking(n)
        BY <1>1, <1>3 DEF Ticking, Runs
      <3>3. (Alive(n) <=> m_hp[n] > 0) /\ m_hp[n] \in Int
        BY RunsFinite
      <3>4. CASE m_hp[n] <= 0
        BY <1>1, <1>3, <1>6, <2>2, <3>2, <3>4
      <3>5. CASE m_hp[n] > 0
        BY <1>1, <1>3, <2>2, <3>1, <3>2, <3>3, <3>5
      <3> QED BY <3>3, <3>4, <3>5
    <2> QED BY <2>1, <2>2
  <1> QED BY <1>7 DEF Paced
-----------------------------------------------------------------------------
(***************************************************************************)
(* The dead come back.                                                     *)
(***************************************************************************)
Returns ==
    \A n \in NPC : ~Alive(n) =>
        respawns[n] > 0 \/ \E v \in pool, name \in {"check", "bury"} : Has(v, <<name, n>>)

LEMMA ReturnsKept ==
    ASSUME Returns, pool' = pool, NEW n \in NPC, m_hp'[n] = m_hp[n],
           respawns'[n] = respawns[n],
           \A v \in pool, name \in {"check", "bury"} : Has(v, <<name, n>>) => Has(v, <<name, n>>)'
    PROVE  ~Alive(n)' =>
             respawns'[n] > 0
             \/ \E v \in pool', name \in {"check", "bury"} : Has(v, <<name, n>>)'
  <1>1. Alive(n)' <=> Alive(n)
    BY DEF Alive
  <1> QED BY <1>1 DEF Returns

LEMMA FrameReturns ==
    ASSUME Typed, Returns, NEW w \in Workers, Frame(w), UNCHANGED <<m_hp, respawns>>
    PROVE  Returns'
  <1>1. pool' = pool /\ \A v \in pool, n \in NPC, name \in {"check", "bury"} :
                            Has(v, <<name, n>>) => Has(v, <<name, n>>)'
    BY DEF Frame
  <1> HIDE DEF Ops
  <1>2. ASSUME NEW n \in NPC
        PROVE  ~Alive(n)' =>
                 respawns'[n] > 0
                 \/ \E v \in pool', name \in {"check", "bury"} : Has(v, <<name, n>>)'
    BY <1>1, ReturnsKept
  <1> QED BY <1>2 DEF Returns

\* A hit is followed by a look at what is left.
LEMMA DamageReturns ==
    ASSUME Typed, Shape, Returns, NEW w \in Workers, Damage(w)
    PROVE  Returns'
  <1>0. Op(w, "store")
    BY DEF Damage
  <1>1. PICK n \in NPC : n = Arg(w, 1)
    BY <1>0, HeadTypes
  <1>2. /\ \A m \in NPC \ {n} : m_hp'[m] = m_hp[m]
        /\ UNCHANGED respawns /\ Then(w, <<<<"check", n>>>>)
    BY <1>1 DEF Damage, Typed
  <1>3. /\ pool' = pool
        /\ \A v \in pool, m \in NPC, name \in {"check", "bury"} :
              Has(v, <<name, m>>) => Has(v, <<name, m>>)'
    BY OthersGo, GoesFrame
  <1>4. w \in pool
    BY <1>0, NextOp
  <1>5. Has(w, <<"check", n>>)'
    <2>1. PICK ops : ops = <<<<"check", n>>>>
      OBVIOUS
    <2>2. ops \in Seq(Ops) /\ 1 \in 1 .. Len(ops) /\ ops[1] = <<"check", n>>
      <3>1. <<"check", n>> \in Ops
        <4> HIDE DEF Calm, Plain, Ops
        <4> QED BY CalmOps
      <3> HIDE DEF Ops
      <3> QED BY <2>1, <3>1, Short
    <2> HIDE DEF Ops
    <2>3. \A k \in 1 .. Len(ops) : Has(w, ops[k])'
      BY <1>0, <1>2, <2>1, <2>2, ThenRest
    <2> QED BY <2>2, <2>3
  <1>6. ASSUME NEW m \in NPC
        PROVE  ~Alive(m)' =>
                 respawns'[m] > 0
                 \/ \E v \in pool', name \in {"check", "bury"} : Has(v, <<name, m>>)'
    <2>1. CASE m = n
      BY <1>3, <1>4, <1>5, <2>1
    <2>2. CASE m # n
      BY <1>2, <1>3, <2>2, ReturnsKept
    <2> QED BY <2>1, <2>2
  <1> QED BY <1>6 DEF Returns

LEMMA JudgeReturns ==
    ASSUME Typed, Shape, Returns, NEW w \in Workers, Judge(w)
    PROVE  Returns'
  <1>1. UNCHANGED <<m_hp, respawns>>
    BY DEF Judge, npcs
  <1>2. PICK n \in NPC :
            /\ ~Alive(n) => Has(w, <<"bury", n>>)' /\ w \in pool
            /\ \A v \in pool, m \in NPC, name \in {"check", "bury"} :
                  Has(v, <<name, m>>) => Has(v, <<name, m>>)' \/ m = n
    BY JudgeFrame
  <1>3. pool' = pool
    BY JudgeFrame
  <1>4. ASSUME NEW m \in NPC
        PROVE  ~Alive(m)' =>
                 respawns'[m] > 0
                 \/ \E v \in pool', name \in {"check", "bury"} : Has(v, <<name, m>>)'
    <2>1. CASE m = n
      <3>1. Alive(n)' <=> Alive(n)
        BY <1>1 DEF Alive
      <3> QED BY <1>2, <1>3, <2>1, <3>1
    <2>2. CASE m # n
      BY <1>1, <1>2, <1>3, <2>2, ReturnsKept
    <2> QED BY <2>1, <2>2
  <1> QED BY <1>4 DEF Returns

LEMMA BuryReturns ==
    ASSUME Typed, Shape, Returns, NEW w \in Workers, Bury(w)
    PROVE  Returns'
  <1>1. PICK n \in NPC :
            /\ n = Arg(w, 1)
            /\ \A v \in pool, m \in NPC, name \in {"check", "bury"} :
                  Has(v, <<name, m>>) => Has(v, <<name, m>>)' \/ m = n
    BY BuryFrame
  <1>2. pool' = pool
    BY BuryFrame
  <1>3. UNCHANGED m_hp /\ respawns' = [respawns EXCEPT ![n] = @ + 1]
    BY <1>1 DEF Bury
  <1>4. respawns'[n] > 0 /\ \A m \in NPC \ {n} : respawns'[m] = respawns[m]
    BY <1>3 DEF Typed
  <1>5. ASSUME NEW m \in NPC
        PROVE  ~Alive(m)' =>
                 respawns'[m] > 0
                 \/ \E v \in pool', name \in {"check", "bury"} : Has(v, <<name, m>>)'
    <2>1. CASE m = n
      BY <1>4, <2>1
    <2>2. CASE m # n
      BY <1>1, <1>2, <1>3, <1>4, <2>2, ReturnsKept
    <2> QED BY <2>1, <2>2
  <1> QED BY <1>5 DEF Returns

LEMMA RespawnReturns ==
    ASSUME Typed, Shape, Returns, NEW w \in Workers, NEW n \in NPC, Respawn(w, n)
    PROVE  Returns'
  <1>1. m_hp' = [m_hp EXCEPT ![n] = MAX_HP] /\ respawns' = [respawns EXCEPT ![n] = @ - 1]
    BY DEF Respawn
  <1>2. /\ m_hp'[n] > 0
        /\ \A m \in NPC \ {n} : m_hp'[m] = m_hp[m] /\ respawns'[m] = respawns[m]
    BY <1>1, RaceAssumption DEF Typed
  <1>3. Goes(w)
    BY HandlersGo DEF Objects
  <1>4. /\ pool' = pool
        /\ \A v \in pool, m \in NPC, name \in {"check", "bury"} :
              Has(v, <<name, m>>) => Has(v, <<name, m>>)'
    BY <1>3, GoesFrame
  <1>5. ASSUME NEW m \in NPC
        PROVE  ~Alive(m)' =>
                 respawns'[m] > 0
                 \/ \E v \in pool', name \in {"check", "bury"} : Has(v, <<name, m>>)'
    <2>1. CASE m = n
      BY <1>2, <2>1 DEF Alive
    <2>2. CASE m # n
      BY <1>2, <1>4, <2>2, ReturnsKept
    <2> QED BY <2>1, <2>2
  <1> QED BY <1>5 DEF Returns
-----------------------------------------------------------------------------
IInv == Typed /\ Shape /\ Paced /\ Returns

LEMMA GoesIsFrame ==
    ASSUME Typed, Shape, NEW w \in Workers, Goes(w)
    PROVE  Frame(w) /\ \A n \in NPC : Runs(n)' = Runs(n)
  BY GoesFrame DEF Frame

LEMMA StepPaced ==
    ASSUME IInv, NEW w \in Workers, NEW o \in Objects,
           \/ o \in PC /\ (Move(w, o) \/ Attack(w, o) \/ Disconnect(w, o))
           \/ o \in NPC /\ (NpcTick(w, o) \/ Respawn(w, o))
           \/ Leave(w) \/ Enter(w)
           \/ SendAdd(w) \/ PutAdd(w) \/ SendRemove(w) \/ PutRemove(w) \/ SendMove(w)
           \/ WakeUp(w) \/ OldView(w) \/ NewView(w)
           \/ Hit(w) \/ Damage(w) \/ Judge(w) \/ Bury(w) \/ Greet(w)
           \/ OldViewers(w) \/ NewViewers(w) \/ AlreadyVisible(w)
           \/ HasNearby(w) \/ PushMove(w) \/ FallAsleep(w)
           \/ Logout(w) \/ HideFromOthers(w) \/ CloseSession(w)
    PROVE  Paced' /\ Returns'
  <1>0. Typed /\ Shape /\ Paced /\ Returns
    BY DEF IInv
  <1>1. CASE HasNearby(w)
    <2>1. Frame(w) /\ \A n \in NPC : Runs(n)' = Runs(n)
      BY <1>0, <1>1, StayFrame
    <2>2. UNCHANGED <<m_hp, m_active_npc, moves, respawns, revived>>
      BY <1>0, <1>1, ViewsTyped
    <2> QED BY <1>0, <2>1, <2>2, GoesPaced, FrameReturns
  <1>2. CASE WakeUp(w)
    <2>1. Frame(w)
      BY <1>0, <1>2, OthersGo, GoesIsFrame
    <2>2. UNCHANGED <<m_hp, respawns>>
      BY <1>2 DEF WakeUp
    <2> QED BY <1>0, <1>2, <2>1, <2>2, WakePaced, FrameReturns
  <1>3. CASE PushMove(w) \/ FallAsleep(w)
    <2>1. \E name \in {"push", "sleep"} : Op(w, name) /\ Then(w, <<>>)
      BY <1>3 DEF PushMove, FallAsleep
    <2>2. Frame(w)
      BY <1>0, <2>1, EndFrame
    <2>3. UNCHANGED <<m_hp, respawns>>
      BY <1>3 DEF PushMove, FallAsleep
    <2> QED BY <1>0, <1>3, <2>2, <2>3, EndPaced, FrameReturns
  <1>4. CASE o \in NPC /\ NpcTick(w, o)
    <2>1. Frame(w)
      BY <1>0, <1>4, TickFrame
    <2>2. UNCHANGED <<m_hp, respawns>>
      BY <1>4 DEF NpcTick
    <2> QED BY <1>0, <1>4, <2>1, <2>2, TickPaced, FrameReturns
  <1>5. CASE o \in NPC /\ Respawn(w, o)
    BY <1>0, <1>5, RespawnPaced, RespawnReturns
  <1>6. CASE Damage(w)
    BY <1>0, <1>6, DamagePaced, DamageReturns
  <1>7. CASE Judge(w)
    BY <1>0, <1>7, JudgePaced, JudgeReturns
  <1>8. CASE Bury(w)
    BY <1>0, <1>8, BuryPaced, BuryReturns
  <1>9. CASE \/ o \in PC /\ (Move(w, o) \/ Attack(w, o) \/ Disconnect(w, o))
             \/ Leave(w) \/ Enter(w)
             \/ SendAdd(w) \/ PutAdd(w) \/ SendRemove(w) \/ PutRemove(w) \/ SendMove(w)
             \/ OldView(w) \/ NewView(w) \/ Hit(w) \/ Greet(w)
             \/ OldViewers(w) \/ NewViewers(w) \/ AlreadyVisible(w)
             \/ Logout(w) \/ HideFromOthers(w) \/ CloseSession(w)
    <2>1. Goes(w)
      BY <1>0, <1>9, ViewsGo, OthersGo, HandlersGo
    <2>2. Frame(w) /\ \A n \in NPC : Runs(n)' = Runs(n)
      BY <1>0, <2>1, GoesIsFrame
    <2>3. UNCHANGED <<m_hp, m_active_npc, moves, respawns, revived>>
      BY <1>0, <1>9, ViewsTyped, MoveTyped
    <2> QED BY <1>0, <2>2, <2>3, GoesPaced, FrameReturns
  <1> QED BY <1>1, <1>2, <1>3, <1>4, <1>5, <1>6, <1>7, <1>8, <1>9

LEMMA NextInv ==
    ASSUME IInv, Next
    PROVE  IInv'
  <1>0. Typed /\ Shape
    BY DEF IInv
  <1>1. PICK w \in Workers :
            \/ \E p \in PC : Move(w, p) \/ Attack(w, p) \/ Disconnect(w, p)
            \/ \E n \in NPC : NpcTick(w, n) \/ Respawn(w, n)
            \/ Leave(w) \/ Enter(w)
            \/ SendAdd(w) \/ PutAdd(w) \/ SendRemove(w) \/ PutRemove(w) \/ SendMove(w)
            \/ WakeUp(w) \/ OldView(w) \/ NewView(w)
            \/ Hit(w) \/ Damage(w) \/ Judge(w) \/ Bury(w) \/ Greet(w)
            \/ OldViewers(w) \/ NewViewers(w) \/ AlreadyVisible(w)
            \/ HasNearby(w) \/ PushMove(w) \/ FallAsleep(w)
            \/ Logout(w) \/ HideFromOthers(w) \/ CloseSession(w)
    BY DEF Next
  <1>2. CASE \E p \in PC : Move(w, p) \/ Attack(w, p) \/ Disconnect(w, p)
    <2>1. PICK p \in PC : Move(w, p) \/ Attack(w, p) \/ Disconnect(w, p)
      BY <1>2
    <2>2. p \in Objects
      BY DEF Objects
    <2> QED BY <1>0, <2>1, <2>2, StepShape, StepPaced DEF IInv
  <1>3. CASE \E n \in NPC : NpcTick(w, n) \/ Respawn(w, n)
    <2>1. PICK n \in NPC : NpcTick(w, n) \/ Respawn(w, n)
      BY <1>3
    <2>2. n \in Objects
      BY DEF Objects
    <2> QED BY <1>0, <2>1, <2>2, StepShape, StepPaced DEF IInv
  <1>4. CASE \/ Leave(w) \/ Enter(w)
             \/ SendAdd(w) \/ PutAdd(w) \/ SendRemove(w) \/ PutRemove(w) \/ SendMove(w)
             \/ WakeUp(w) \/ OldView(w) \/ NewView(w)
             \/ Hit(w) \/ Damage(w) \/ Judge(w) \/ Bury(w) \/ Greet(w)
             \/ OldViewers(w) \/ NewViewers(w) \/ AlreadyVisible(w)
             \/ HasNearby(w) \/ PushMove(w) \/ FallAsleep(w)
             \/ Logout(w) \/ HideFromOthers(w) \/ CloseSession(w)
    <2>1. PICK name : Op(w, name)
      BY <1>4 DEF Leave, Enter, SendAdd, PutAdd, SendRemove, PutRemove, SendMove, WakeUp,
                  OldView, NewView, Hit, Damage, Judge, Bury, Greet, OldViewers, NewViewers,
                  AlreadyVisible, HasNearby, PushMove, FallAsleep, Logout, HideFromOthers,
                  CloseSession
    \* Somebody is in the world when there is an operation to do.
    <2>2. PICK o \in Objects : TRUE
      <3>1. job[w] \in Kinds \X Objects
        <4>1. job[w] # NONE
          BY <1>0, <2>1, NextOp
        <4> HIDE DEF Ops
        <4> QED BY <1>0, <4>1 DEF Typed
      <3> QED BY <3>1
    <2> QED BY <1>0, <1>4, StepShape, StepPaced DEF IInv
  <1> QED BY <1>1, <1>2, <1>3, <1>4

LEMMA InitInv ==
    ASSUME Init
    PROVE  IInv
  <1>1. Typed /\ Shape
    BY InitShape
  <1>2. /\ pool \in Pools /\ pool \subseteq Workers
        /\ \A v \in pool : todo[v] = <<>> /\ job[v] = NONE
    BY DEF Init, Waiting, Workers
  <1>3. \A n \in NPC : NONE # <<"tick", n>>
    BY RaceAssumption DEF Kinds, Objects
  <1>4. \A n \in NPC : Alive(n) /\ Ticking(n) = moves[n]
    <2> TAKE n \in NPC
    <2>1. Runs(n) = {}
      BY <1>2, <1>3 DEF Runs
    <2>2. Cardinality(Runs(n)) = 0
      BY <2>1, FS_EmptySet
    <2>3. Alive(n)
      <3>1. m_hp[n] = MAX_HP /\ MAX_HP > 0
        BY RaceAssumption DEF Init
      <3> QED BY <3>1 DEF Alive
    <2> QED BY <1>1, <2>2, <2>3, RunsFinite
  <1>5. \A v \in pool : \A op : ~Has(v, op)
    BY <1>2 DEF Has
  <1>6. Paced
    <2>1. \A n \in NPC : moves[n] = IF m_active_npc[n] THEN 1 ELSE 0
      BY DEF Init
    <2> QED BY <1>4, <1>5, <2>1 DEF Paced
  <1>7. Returns
    BY <1>4 DEF Returns
  <1> QED BY <1>1, <1>6, <1>7 DEF IInv

LEMMA SameInv ==
    ASSUME IInv, UNCHANGED vars
    PROVE  IInv'
  <1>1. /\ UNCHANGED handlers
        /\ UNCHANGED <<pos, sectors, clients, playing, visible, saves, m_hp,
                       m_active_npc, moves, respawns, revived, g_objs>>
    BY DEF vars
  <1>2. Typed'
    <2> HIDE DEF Ops
    <2> QED BY <1>1 DEF IInv, Typed, handlers
  <1>3. Shape'
    BY <1>1 DEF IInv, Shape, handlers
  <1>4. Paced' /\ Returns'
    BY <1>1, ZenonT(60) DEF IInv, Paced, Returns, Has, Alive, Ticking, handlers
  <1> QED BY <1>2, <1>3, <1>4 DEF IInv

LEMMA Invariance == Spec => []IInv
  <1>1. Init => IInv
    BY InitInv
  <1>2. IInv /\ [Next]_vars => IInv'
    BY NextInv, SameInv
  <1> QED BY <1>1, <1>2, PTL DEF Spec

\* However many workers wake up, hit, kill and respawn the NPCs, and however
\* their handlers interleave, a living NPC has one tick at most that is pending
\* or handled (the compare_exchange of wake_up, the push at the end of
\* process_npc_move and the store of npc_die), unless a hit overwrote its death.
THEOREM TicksArePaced == Spec => []OneTick
  <1>1. IInv => OneTick
    BY DEF IInv, Paced, OneTick
  <1> QED BY <1>1, Invariance, PTL

\* A dead NPC has its respawn pending, or a worker that will ask for it in
\* npc_die, whatever hits it at the same time: no NPC is lost.
THEOREM TheDeadReturn == Spec => []DeadReturns
  <1>1. ASSUME IInv PROVE DeadReturns
    <2>1. pool \subseteq Workers
      BY <1>1 DEF IInv, Typed, Workers
    <2>2. ASSUME NEW v \in pool, NEW op, Has(v, op)
          PROVE  op \in Range(todo[v])
      <3>1. todo[v] \in Seq(Ops)
        BY <1>1, <2>1 DEF IInv, Typed
      <3>2. PICK k \in 1 .. Len(todo[v]) : todo[v][k] = op
        BY <2>2 DEF Has
      <3>3. k \in DOMAIN todo[v]
        <4> HIDE DEF Ops
        <4> QED BY <3>1, <3>2
      <3> QED BY <3>2, <3>3 DEF Range
    <2>3. ASSUME NEW n \in NPC, ~Alive(n)
          PROVE  \/ respawns[n] > 0
                 \/ \E w \in pool, op \in {<<"check", n>>, <<"bury", n>>} : op \in Range(todo[w])
      <3>1. CASE respawns[n] > 0
        BY <3>1
      <3>2. CASE \E v \in pool, name \in {"check", "bury"} : Has(v, <<name, n>>)
        BY <2>2, <3>2
      <3> QED BY <1>1, <2>3, <3>1, <3>2 DEF IInv, Returns
    <2> QED BY <2>3 DEF DeadReturns
  <1> QED BY <1>1, Invariance, PTL
-----------------------------------------------------------------------------
(***************************************************************************)
(* One worker.  Its handlers run one after the other, so whatever is not   *)
(* as it should be is put right by an operation that it has still to do.   *)
(***************************************************************************)

\* What a handler has still to do.
Elems(s) == {s[k] : k \in 1 .. Len(s)}
Left(w) == Elems(todo[w])

\* The order of the operations of a handler: sectors first, then what it
\* reads, then what it tells about pairs of objects.
Late == Final \cup {"load"}
Steps == {"leave", "enter"}
Pairs == {"add", "put", "rem", "del", "mov", "see", "wake"}

Follows(a, b) ==
    \/ a \in Steps
    \/ b \in Late
    \/ a \in Pairs /\ b \in Steps \cup Pairs \cup {"bury", "close"}
    \/ a = "logout" /\ b = "hide"

Ranked(s) == \A k, l \in 1 .. Len(s) : k < l => Follows(s[k][1], s[l][1])

\* What the client of p should draw, and does.
Target(p, o) == o = p \/ (Sees(p, o) /\ InGame(o) /\ Alive(o))
Shown(p, o) == g_objs[p][o] # NONE

Fixed(p, o) ==
    /\ o \in visible[p] <=> o # p /\ Target(p, o)
    /\ g_objs[p][o] = IF Target(p, o) THEN pos[o] ELSE NONE

\* What is still to be told about a pair is right, ...
Sound(T, p, o) ==
    /\ <<"add", p, o>> \in T \/ <<"put", p, o>> \in T \/ <<"see", p, o>> \in T =>
          o # p /\ Target(p, o)
    /\ <<"rem", p, o>> \in T \/ <<"del", p, o>> \in T => ~Target(p, o)
    /\ <<"put", p, o>> \in T => o \in visible[p]
    /\ <<"del", p, o>> \in T => o \notin visible[p]

Aim(T) == \A p \in playing, o \in Objects : Sound(T, p, o)

\* ... and a pair that is not drawn as it should be is still to be told, ...
Ask(T, p, o) ==
    \/ <<"add", p, o>> \in T /\ o \notin visible[p]
    \/ <<"put", p, o>> \in T
    \/ <<"rem", p, o>> \in T /\ o \in visible[p]
    \/ <<"del", p, o>> \in T
    \/ <<"mov", p, o>> \in T /\ Target(p, o) /\ Shown(p, o) /\ (o \in visible[p] <=> o # p)
    \/ <<"see", p, o>> \in T /\ (o \in visible[p] <=> Shown(p, o))

\* ... or its view is still to be looked at: after a move of q, ...
Moved(q, p, o) ==
    /\ o = p => o \notin visible[p] /\ Shown(p, o)
    /\ o # p => (o \in visible[p] <=> Shown(p, o))
    /\ o # p /\ p = q /\ Shown(p, o) => g_objs[p][o] = pos[o]
    /\ o # p /\ o = q => (o \in visible[p] <=> p \in visible[o])

\* ... of a NPC, its death, its respawn or the end of a session.
Read(T, p, o) ==
    \/ \E q \in {p, o} \cap PC : /\ <<"view", q>> \in T \/ <<"scan", q, visible[q]>> \in T
                                 /\ Moved(q, p, o)
    \/ \E t \in Tiles : /\ <<"watch", o, t>> \in T
                        /\ o \in visible[p] <=> Shown(p, o)
                        /\ o \in visible[p] <=> can_see(pos[p], t)
    \/ \E S \in SUBSET PC : /\ <<"seen", o, S>> \in T
                            /\ o \in visible[p] <=> Shown(p, o)
                            /\ o \in visible[p] <=> p \in S
    \/ <<"check", o>> \in T /\ ~Alive(o) /\ o \in visible[p] /\ Sees(p, o)
    \/ <<"greet", o>> \in T /\ o \notin visible[p] /\ ~Shown(p, o)
    \/ <<"hide", o>> \in T /\ o \in PC \ playing /\ o \in visible[p] /\ p \in visible[o]

Clear(T) == \A p \in playing, o \in Objects : Fixed(p, o) \/ Ask(T, p, o) \/ Read(T, p, o)

\* Where an object should be listed, and what is still to be done about it.
Home(o, s) == InGame(o) /\ Alive(o) /\ sector_id(pos[o]) = s

Placed(T) ==
    \A o \in Objects, s \in Sectors :
        /\ <<"leave", o, s>> \in T => ~Home(o, s)
        /\ <<"enter", o, s>> \in T => Home(o, s)
        /\ \/ o \in sectors[s] <=> Home(o, s)
           \/ <<"leave", o, s>> \in T \/ <<"enter", o, s>> \in T
           \/ \E t \in Tiles : <<"watch", o, t>> \in T /\ (o \in sectors[s] <=> sector_id(t) = s)
           \/ <<"check", o>> \in T /\ ~Alive(o) /\ (o \in sectors[s] <=> sector_id(pos[o]) = s)

\* Players: who is not playing any more is about to be forgotten, and saved.
Roll(T) ==
    /\ playing \subseteq clients
    /\ \A p \in clients \ playing : <<"hide", p>> \in T \/ <<"close", p>> \in T
    /\ \A p \in PC : <<"close", p>> \in T => p \notin playing
    /\ \A p \in PC : <<"hide", p>> \in T => <<"logout", p>> \in T \/ p \notin playing
    /\ \A p \in PC : <<"logout", p>> \in T => <<"hide", p>> \in T
    /\ \A p \in PC : saves[p] = IF p \in playing /\ <<"logout", p>> \notin T THEN 0 ELSE 1
    /\ \A p \in PC : <<"view", p>> \in T => p \in playing
    /\ \A p \in PC, S \in SUBSET Objects : <<"scan", p, S>> \in T => p \in playing /\ p \notin S

\* NPCs: one respawn for a death, and who is alive.
Dying(T) ==
    \A n \in NPC :
        /\ respawns[n] <= 1
        /\ Alive(n) \/ <<"check", n>> \in T \/ <<"bury", n>> \in T => respawns[n] = 0
        /\ <<"bury", n>> \in T => ~Alive(n)
        /\ \A i \in Int : <<"store", n, i>> \in T => Alive(n)
        /\ <<"greet", n>> \in T => Alive(n)
        /\ \A t \in Tiles : <<"watch", n, t>> \in T => Alive(n)
        /\ \A S \in SUBSET PC : <<"seen", n, S>> \in T => Alive(n)

Drawn ==
    /\ g_objs \in [PC -> [Objects -> Tiles \cup {NONE}]]
    /\ saves \in [PC -> Nat]

One(s, T) == Ranked(s) /\ Aim(T) /\ Clear(T) /\ Placed(T) /\ Roll(T) /\ Dying(T)

Alone ==
    Drawn /\ \A w \in Workers : \A T : pool = {w} /\ T = Left(w) => One(todo[w], T)
-----------------------------------------------------------------------------
(***************************************************************************)
(* Sequences of operations.                                                *)
(***************************************************************************)
LEMMA ElemsShort ==
    /\ Elems(<<>>) = {}
    /\ \A x : Elems(<<x>>) = {x}
    /\ \A x, y : Elems(<<x, y>>) = {x, y}
  <1>1. Elems(<<>>) = {}
    BY DEF Elems
  <1>2. ASSUME NEW x PROVE Elems(<<x>>) = {x}
    BY DEF Elems
  <1>3. ASSUME NEW x, NEW y PROVE Elems(<<x, y>>) = {x, y}
    BY DEF Elems
  <1> QED BY <1>1, <1>2, <1>3

LEMMA ElemsConcat ==
    ASSUME NEW T, NEW s \in Seq(T), NEW t \in Seq(T)
    PROVE  s \o t \in Seq(T) /\ Elems(s \o t) = Elems(s) \cup Elems(t)
  <1>1. PICK r : r = s \o t
    OBVIOUS
  <1>2. /\ r \in Seq(T) /\ Len(r) = Len(s) + Len(t) /\ Len(s) \in Nat /\ Len(t) \in Nat
        /\ \A k \in 1 .. Len(r) : r[k] = IF k <= Len(s) THEN s[k] ELSE t[k - Len(s)]
    BY <1>1, Concat
  <1>3. ASSUME NEW x \in Elems(r) PROVE x \in Elems(s) \cup Elems(t)
    <2>1. PICK k \in 1 .. Len(r) : x = r[k]
      BY DEF Elems
    <2>2. CASE k <= Len(s)
      BY <1>2, <2>1, <2>2, SMTT(60) DEF Elems
    <2>3. CASE ~(k <= Len(s))
      <3>1. k - Len(s) \in 1 .. Len(t) /\ x = t[k - Len(s)]
        BY <1>2, <2>1, <2>3
      <3> QED BY <3>1 DEF Elems
    <2> QED BY <2>2, <2>3
  <1>4. ASSUME NEW x \in Elems(s) PROVE x \in Elems(r)
    <2>1. PICK k \in 1 .. Len(s) : x = s[k]
      BY DEF Elems
    <2>2. k \in 1 .. Len(r) /\ x = r[k]
      BY <1>2, <2>1
    <2> QED BY <2>2 DEF Elems
  <1>5. ASSUME NEW x \in Elems(t) PROVE x \in Elems(r)
    <2>1. PICK k \in 1 .. Len(t) : x = t[k]
      BY DEF Elems
    <2>2. PICK l \in 1 .. Len(r) : l = k + Len(s)
      BY <1>2
    <2>3. ~(l <= Len(s)) /\ l - Len(s) = k
      BY <1>2, <2>2
    <2>4. x = r[l]
      BY <1>2, <2>1, <2>2, <2>3
    <2> QED BY <2>4 DEF Elems
  <1>6. Elems(r) = Elems(s) \cup Elems(t)
    BY <1>3, <1>4, <1>5
  <1> QED BY <1>1, <1>2, <1>6

LEMMA ElemsTail ==
    ASSUME NEW T, NEW s \in Seq(T), s # <<>>
    PROVE  /\ Tail(s) \in Seq(T) /\ Elems(s) = {Head(s)} \cup Elems(Tail(s))
           /\ \A x \in Elems(Tail(s)) : \E k \in 2 .. Len(s) : x = s[k]
  <1>1. /\ Tail(s) \in Seq(T) /\ Len(s) \in Nat \ {0} /\ Len(Tail(s)) = Len(s) - 1
        /\ Head(s) = s[1] /\ \A k \in 1 .. Len(Tail(s)) : Tail(s)[k] = s[k + 1]
    OBVIOUS
  <1>2. PICK u : u = Tail(s)
    OBVIOUS
  <1>3. Len(u) = Len(s) - 1 /\ \A k \in 1 .. Len(u) : u[k] = s[k + 1]
    BY <1>1, <1>2
  <1>4. \A x \in Elems(u) : \E k \in 2 .. Len(s) : x = s[k]
    <2> SUFFICES ASSUME NEW x \in Elems(u) PROVE \E k \in 2 .. Len(s) : x = s[k]
      OBVIOUS
    <2>1. PICK j \in 1 .. Len(u) : x = u[j]
      BY DEF Elems
    <2>2. PICK k \in 2 .. Len(s) : k = j + 1
      BY <1>1, <1>3
    <2> QED BY <1>3, <2>1, <2>2
  <1>5. ASSUME NEW x \in Elems(s) PROVE x = Head(s) \/ x \in Elems(u)
    <2>1. PICK k \in 1 .. Len(s) : x = s[k]
      BY DEF Elems
    <2>2. CASE k = 1
      BY <1>1, <2>1, <2>2
    <2>3. CASE k # 1
      <3>1. PICK j \in 1 .. Len(u) : j = k - 1 /\ j + 1 = k
        BY <1>1, <1>3, <2>3
      <3>2. u[j] = x
        BY <1>3, <2>1, <3>1
      <3> QED BY <3>2 DEF Elems
    <2> QED BY <2>2, <2>3
  <1>6. Head(s) \in Elems(s)
    <2>1. 1 \in 1 .. Len(s)
      BY <1>1
    <2> QED BY <1>1, <2>1 DEF Elems
  <1>7. \A x \in Elems(u) : x \in Elems(s)
    <2>1. 2 .. Len(s) \subseteq 1 .. Len(s)
      BY <1>1
    <2> QED BY <1>4, <2>1 DEF Elems
  <1>8. Elems(s) = {Head(s)} \cup Elems(u)
    BY <1>5, <1>6, <1>7
  <1> QED BY <1>1, <1>2, <1>4, <1>8

\* FlattenSeq has the elements of its sequences.
LEMMA FlattenElems ==
    ASSUME NEW T, NEW n \in Nat, NEW g \in [1 .. n -> Seq(T)]
    PROVE  \A x : x \in Elems(FlattenSeq(g)) <=> \E i \in 1 .. n : x \in Elems(g[i])
  <1>1. g \in Seq(Seq(T)) /\ Len(g) = n
    OBVIOUS
  <1>2. CASE n = 0
    <2>1. FlattenSeq(g) = <<>>
      <3>1. g = <<>>
        BY <1>1, <1>2
      <3>2. FlattenSeq(g) = g
        BY <1>1, <1>2 DEF FlattenSeq
      <3> QED BY <3>1, <3>2, Zenon
    <2>2. Elems(FlattenSeq(g)) = {}
      BY <2>1, ElemsShort
    <2> QED BY <1>2, <2>2
  <1>3. CASE n # 0
    <2> DEFINE f == CHOOSE x : x = [i \in 1 .. n |-> IF i = 1 THEN g[i] ELSE x[i - 1] \o g[i]]
               Sum(m) == UNION {Elems(g[i]) : i \in 1 .. m}
    <2>1. f = [i \in 1 .. n |-> IF i = 1 THEN g[i] ELSE f[i - 1] \o g[i]]
      BY FlattenExists
    <2>2. FlattenSeq(g) = f[n]
      BY <1>1, <1>3, Zenon DEF FlattenSeq
    <2> HIDE DEF f
    <2> DEFINE U == {m \in Nat : m \in 1 .. n => f[m] \in Seq(T) /\ Elems(f[m]) = Sum(m)}
    <2>3. 0 \in U
      OBVIOUS
    <2>4. ASSUME NEW m \in Nat, m \in U PROVE m + 1 \in U
      <3> SUFFICES ASSUME m + 1 \in 1 .. n
                   PROVE  f[m + 1] \in Seq(T) /\ Elems(f[m + 1]) = Sum(m + 1)
        OBVIOUS
      <3>1. PICK i \in 1 .. n : i = m + 1
        OBVIOUS
      <3>2. \A j \in 1 .. n : f[j] = IF j = 1 THEN g[j] ELSE f[j - 1] \o g[j]
        BY <2>1, Zenon
      <3>3. f[i] = IF i = 1 THEN g[i] ELSE f[i - 1] \o g[i]
        BY <3>2, Zenon
      <3>4. g[i] \in Seq(T) /\ (i # 1 => i - 1 = m /\ m \in 1 .. n)
        BY <3>1
      <3>5. Sum(i) = Sum(m) \cup Elems(g[i])
        <4>1. 1 .. i = (1 .. m) \cup {i}
          BY <3>1
        <4> QED BY <4>1
      <3>6. CASE i = 1
        <4>1. Sum(m) = {}
          BY <3>1, <3>6
        <4>2. Elems(g[i]) = Sum(i)
          BY <3>5, <4>1
        <4>3. f[i] = g[i]
          BY <3>3, <3>6
        <4> HIDE DEF Sum
        <4> QED BY <3>1, <3>4, <4>2, <4>3
      <3>7. CASE i # 1
        <4>1. f[m] \in Seq(T) /\ Elems(f[m]) = Sum(m)
          BY <2>4, <3>4, <3>7
        <4>2. f[i] = f[m] \o g[i]
          BY <3>3, <3>4, <3>7
        <4> HIDE DEF Sum
        <4>3. f[m] \o g[i] \in Seq(T) /\ Elems(f[m] \o g[i]) = Elems(f[m]) \cup Elems(g[i])
          BY <3>4, <4>1, ElemsConcat
        <4>4. f[i] \in Seq(T) /\ Elems(f[i]) = Sum(i)
          BY <3>5, <4>1, <4>2, <4>3, Zenon
        <4> QED BY <3>1, <4>4, Zenon
      <3> QED BY <3>6, <3>7
    <2>5. \A m \in Nat : m \in U
      <3> HIDE DEF U
      <3> QED BY <2>3, <2>4, Induction
    <2>6. Elems(f[n]) = Sum(n)
      <3> HIDE DEF Sum
      <3> QED BY <1>3, <2>5
    <2>7. Elems(FlattenSeq(g)) = UNION {Elems(g[i]) : i \in 1 .. n}
      BY <2>2, <2>6, Zenon
    <2> QED BY <2>7
  <1> QED BY <1>2, <1>3

\* What For makes of a set.
Looped(S, F, g) == g = [i \in 1 .. Cardinality(S) |-> F[SetToSeq(S)[i]]]
Gathers(s, S, F) == \A x : x \in Elems(s) <=> \E y \in S : x \in Elems(F[y])

LEMMA Loop ==
    ASSUME NEW T, NEW S, IsFiniteSet(S), NEW F \in [S -> Seq(T)], NEW g, Looped(S, F, g),
           NEW s, s = FlattenSeq(g)
    PROVE  s \in Seq(T) /\ Gathers(s, S, F)
  <1>1. PICK n \in Nat : n = Cardinality(S)
    BY SetToSeqTypes
  <1>2. PICK q \in [1 .. n -> S] : q = SetToSeq(S)
    BY <1>1, SetToSeqTypes
  <1>3. \A x \in S : \E i \in 1 .. n : q[i] = x
    BY <1>1, <1>2, SetToSeqAll
  <1>4. g = [i \in 1 .. n |-> F[q[i]]]
    BY <1>1, <1>2 DEF Looped
  <1>5. g \in [1 .. n -> Seq(T)]
    BY <1>2, <1>4
  <1>6. FlattenSeq(g) \in Seq(T)
    BY <1>5, FlattenTypes
  <1>7. \A x : x \in Elems(FlattenSeq(g)) <=> \E i \in 1 .. n : x \in Elems(g[i])
    BY <1>5, FlattenElems
  <1>8. \A i \in 1 .. n : q[i] \in S /\ g[i] = F[q[i]]
    BY <1>2, <1>4
  <1>9. ASSUME NEW x, NEW i \in 1 .. n, x \in Elems(g[i])
        PROVE  \E y \in S : x \in Elems(F[y])
    BY <1>8, <1>9
  <1>10. ASSUME NEW x, NEW y \in S, x \in Elems(F[y])
         PROVE  \E i \in 1 .. n : x \in Elems(g[i])
    <2>1. PICK i \in 1 .. n : q[i] = y
      BY <1>3
    <2> QED BY <1>8, <1>10, <2>1
  <1> QED BY <1>6, <1>7, <1>9, <1>10 DEF Gathers
-----------------------------------------------------------------------------
\* The order of the operations.
LEMMA RankedMany ==
    ASSUME NEW s \in Seq(Ops), \A x \in Elems(s) : x[1] \in Steps \cup Pairs
    PROVE  Ranked(s)
  <1>1. \A k \in 1 .. Len(s) : s[k][1] \in Steps \cup Pairs
    BY DEF Elems
  <1> QED BY <1>1 DEF Ranked, Follows

LEMMA RankedShort ==
    /\ Ranked(<<>>)
    /\ \A x : Ranked(<<x>>)
    /\ \A x, y : Follows(x[1], y[1]) => Ranked(<<x, y>>)
  <1>1. Ranked(<<>>)
    BY DEF Ranked
  <1>2. ASSUME NEW x PROVE Ranked(<<x>>)
    <2>1. Len(<<x>>) = 1
      OBVIOUS
    <2>2. \A k, l \in 1 .. 1 : ~(k < l)
      OBVIOUS
    <2> QED BY <2>1, <2>2 DEF Ranked
  <1>3. ASSUME NEW x, NEW y, Follows(x[1], y[1]) PROVE Ranked(<<x, y>>)
    <2>1. Len(<<x, y>>) = 2 /\ <<x, y>>[1] = x /\ <<x, y>>[2] = y
      OBVIOUS
    <2>2. \A k, l \in 1 .. 2 : k < l => k = 1 /\ l = 2
      OBVIOUS
    <2> QED BY <1>3, <2>1, <2>2 DEF Ranked
  <1> QED BY <1>1, <1>2, <1>3

LEMMA RankedConcat ==
    ASSUME NEW s \in Seq(Ops), NEW t \in Seq(Ops), Ranked(s), Ranked(t),
           \A x \in Elems(s), y \in Elems(t) : Follows(x[1], y[1])
    PROVE  Ranked(s \o t)
  <1> HIDE DEF Ops
  <1>1. PICK r : r = s \o t
    OBVIOUS
  <1>2. /\ Len(r) = Len(s) + Len(t) /\ Len(s) \in Nat /\ Len(t) \in Nat
        /\ \A k \in 1 .. Len(r) : r[k] = IF k <= Len(s) THEN s[k] ELSE t[k - Len(s)]
    BY <1>1, Concat
  <1>3. ASSUME NEW k \in 1 .. Len(r), NEW l \in 1 .. Len(r), k < l
        PROVE  Follows(r[k][1], r[l][1])
    <2>1. CASE l <= Len(s)
      <3>1. k \in 1 .. Len(s) /\ l \in 1 .. Len(s) /\ r[k] = s[k] /\ r[l] = s[l]
        BY <1>2, <1>3, <2>1
      <3> QED BY <1>3, <3>1 DEF Ranked
    <2>2. CASE k <= Len(s) /\ ~(l <= Len(s))
      <3>1. /\ k \in 1 .. Len(s) /\ r[k] = s[k]
            /\ l - Len(s) \in 1 .. Len(t) /\ r[l] = t[l - Len(s)]
        BY <1>2, <2>2
      <3>2. r[k] \in Elems(s) /\ r[l] \in Elems(t)
        BY <3>1 DEF Elems
      <3> QED BY <3>2
    <2>3. CASE ~(k <= Len(s))
      <3>1. PICK i \in 1 .. Len(t) : i = k - Len(s)
        BY <1>2, <2>3
      <3>2. PICK j \in 1 .. Len(t) : j = l - Len(s)
        BY <1>2, <1>3, <2>3
      <3>3. i < j /\ r[k] = t[i] /\ r[l] = t[j]
        BY <1>2, <1>3, <2>3, <3>1, <3>2
      <3> QED BY <3>3 DEF Ranked
    <2> QED BY <1>2, <1>3, <2>1, <2>2, <2>3
  <1>4. Ranked(r)
    BY <1>3 DEF Ranked
  <1> QED BY <1>1, <1>4

LEMMA RankedTail ==
    ASSUME NEW s \in Seq(Ops), s # <<>>, Ranked(s)
    PROVE  Ranked(Tail(s)) /\ \A x \in Elems(Tail(s)) : Follows(Head(s)[1], x[1])
  <1> HIDE DEF Ops
  <1>1. PICK u : u = Tail(s)
    OBVIOUS
  <1>2. /\ Len(s) \in Nat \ {0} /\ Len(u) = Len(s) - 1 /\ Head(s) = s[1]
        /\ \A k \in 1 .. Len(u) : u[k] = s[k + 1]
    BY <1>1
  <1>3. ASSUME NEW k \in 1 .. Len(u), NEW l \in 1 .. Len(u), k < l
        PROVE  Follows(u[k][1], u[l][1])
    <2>1. PICK i \in 1 .. Len(s) : i = k + 1
      BY <1>2
    <2>2. PICK j \in 1 .. Len(s) : j = l + 1
      BY <1>2
    <2>3. i < j /\ u[k] = s[i] /\ u[l] = s[j]
      BY <1>2, <1>3, <2>1, <2>2
    <2> QED BY <2>3 DEF Ranked
  <1>4. \A x \in Elems(u) : \E k \in 2 .. Len(s) : x = s[k]
    BY <1>1, ElemsTail
  <1>5. ASSUME NEW x \in Elems(u) PROVE Follows(Head(s)[1], x[1])
    <2>1. PICK k \in 2 .. Len(s) : x = s[k]
      BY <1>4
    <2>2. 1 \in 1 .. Len(s) /\ k \in 1 .. Len(s) /\ 1 < k
      BY <1>2
    <2> QED BY <1>2, <2>1, <2>2 DEF Ranked
  <1>6. Ranked(u)
    BY <1>3 DEF Ranked
  <1> QED BY <1>1, <1>5, <1>6

\* New operations that fit in front of the rest of a handler.
Fits(name, ops) ==
    /\ Ranked(ops)
    /\ \A x \in Elems(ops) : \/ x[1] \in Steps
                             \/ name \in Pairs /\ x[1] \in Pairs
                             \/ name \notin Steps \cup Pairs \cup {"logout"}

LEMMA Works ==
    ASSUME Typed, Shape, NEW w \in Workers, Ranked(todo[w]), NEW name, Op(w, name),
           NEW ops \in Seq(Ops), Fits(name, ops), Then(w, ops)
    PROVE  /\ Ranked(todo'[w])
           /\ \E R \in SUBSET Ops :
                 /\ Left(w) = R \cup {Head(todo[w])}
                 /\ Left(w)' = R \cup Elems(ops)
                 /\ \A x \in R : Follows(name, x[1])
  <1> HIDE DEF Ops
  <1>1. /\ todo[w] \in Seq(Ops) /\ todo[w] # <<>> /\ Head(todo[w])[1] = name
    BY NextOp
  <1>2. todo'[w] = ops \o Tail(todo[w])
    BY ThenRest
  <1>3. PICK t : t = Tail(todo[w])
    OBVIOUS
  <1>4. /\ t \in Seq(Ops) /\ Elems(todo[w]) = {Head(todo[w])} \cup Elems(t)
    BY <1>1, <1>3, ElemsTail
  <1>5. Ranked(t) /\ \A x \in Elems(t) : Follows(name, x[1])
    BY <1>1, <1>3, RankedTail
  <1>6. \A x \in Elems(ops), y \in Elems(t) : Follows(x[1], y[1])
    BY <1>5 DEF Fits, Follows, Steps, Pairs
  <1>7. Ranked(ops \o t)
    BY <1>4, <1>5, <1>6, RankedConcat DEF Fits
  <1>8. Elems(ops \o t) = Elems(ops) \cup Elems(t)
    BY <1>4, ElemsConcat
  <1>9. Elems(t) \in SUBSET Ops
    BY <1>4 DEF Elems
  <1>10. Left(w) = Elems(t) \cup {Head(todo[w])}
    BY <1>4 DEF Left
  <1>11. Left(w)' = Elems(t) \cup Elems(ops)
    BY <1>2, <1>3, <1>8 DEF Left
  <1> QED BY <1>2, <1>3, <1>5, <1>7, <1>9, <1>10, <1>11

\* A new handler.
LEMMA Starts ==
    ASSUME Typed, Shape, NEW w \in Workers, NEW kind, NEW o, NEW ops \in Seq(Ops),
           Take(w, kind, o, ops)
    PROVE  Left(w) = {} /\ todo'[w] = ops /\ Left(w)' = Elems(ops) /\ pool' = pool
  <1> HIDE DEF Ops
  <1>1. todo[w] = <<>> /\ todo \in [Workers -> Seq(Ops)]
    BY DEF Take, Shape, Typed
  <1>2. todo'[w] = ops /\ pool' = pool
    BY <1>1 DEF Take
  <1> QED BY <1>1, <1>2, ElemsShort DEF Left

\* The next operation, spelled out.
Three == {"leave", "enter", "add", "put", "rem", "del", "mov", "load", "see",
          "scan", "store", "watch", "seen"}

LEMMA OpIs ==
    ASSUME NEW op \in Ops
    PROVE  /\ op[1] \in Three => op = <<op[1], op[2], op[3]>>
           /\ op[1] \notin Three => op = <<op[1], op[2]>>
  <1>1. CASE op \in {"leave", "enter"} \X Objects \X Sectors
    BY <1>1 DEF Three
  <1>2. CASE op \in {"add", "put", "rem", "del", "mov"} \X PC \X Objects
    BY <1>2 DEF Three
  <1>3. CASE op \in {"load", "see"} \X PC \X NPC
    BY <1>3 DEF Three
  <1>4. CASE op \in (Final \cup {"wake", "check", "bury", "greet"}) \X NPC
    BY <1>4 DEF Three, Final
  <1>5. CASE op \in {"view", "logout", "hide", "close"} \X PC
    BY <1>5 DEF Three
  <1>6. CASE op \in {"scan"} \X PC \X SUBSET Objects
    BY <1>6 DEF Three
  <1>7. CASE op \in {"store"} \X NPC \X Int
    BY <1>7 DEF Three
  <1>8. CASE op \in {"watch"} \X NPC \X Tiles
    BY <1>8 DEF Three
  <1>9. CASE op \in {"seen"} \X NPC \X SUBSET PC
    BY <1>9 DEF Three
  <1> QED BY <1>1, <1>2, <1>3, <1>4, <1>5, <1>6, <1>7, <1>8, <1>9 DEF Ops

LEMMA HeadIs ==
    ASSUME Typed, Shape, NEW w \in Workers, NEW name, Op(w, name)
    PROVE  /\ name \in Three => Head(todo[w]) = <<name, Arg(w, 1), Arg(w, 2)>>
           /\ name \notin Three => Head(todo[w]) = <<name, Arg(w, 1)>>
  <1>1. PICK h \in Ops : /\ h = Head(todo[w]) /\ h[1] = name
                         /\ Arg(w, 1) = h[2] /\ Arg(w, 2) = h[3]
    BY NextOp
  <1> HIDE DEF Ops, Three
  <1>2. /\ h[1] \in Three => h = <<h[1], h[2], h[3]>>
        /\ h[1] \notin Three => h = <<h[1], h[2]>>
    BY OpIs
  <1> QED BY <1>1, <1>2
-----------------------------------------------------------------------------
(***************************************************************************)
(* Who is near: the sectors, where they are up to date.                    *)
(***************************************************************************)
\* The nine sectors get_objects_in_adjacent_sectors reads around t hold the
\* sector of every tile within any range up to SECTOR_SIZE: searching them
\* finds everyone in view (VIEW_RANGE) or in the detection range of an Agro,
\* while no such guarantee exists beyond SECTOR_SIZE.
LEMMA AdjacentCovers ==
    ASSUME NEW t \in Tiles, NEW u \in Tiles, NEW r \in Nat,
           r <= SECTOR_SIZE, Within(t, u, r)
    PROVE  sector_id(u) \in AdjacentSectors[t]
<1>1. /\ t[1] - u[1] <= SECTOR_SIZE /\ u[1] - t[1] <= SECTOR_SIZE
      /\ t[2] - u[2] <= SECTOR_SIZE /\ u[2] - t[2] <= SECTOR_SIZE
  BY SectorXYType, SizeType DEF Within, Abs
<1>2. SECTOR_X(u[1]) \in SECTOR_X(t[1]) - 1 .. SECTOR_X(t[1]) + 1
  BY <1>1, SectorXYType, SizeType, BlockDistance DEF SECTOR_X
<1>3. SECTOR_Y(u[2]) \in SECTOR_Y(t[2]) - 1 .. SECTOR_Y(t[2]) + 1
  BY <1>1, SectorXYType, SizeType, BlockDistance DEF SECTOR_Y
<1>4. /\ SECTOR_X(u[1]) >= 0 /\ SECTOR_X(u[1]) < MAX_SECTORS_X
      /\ SECTOR_Y(u[2]) >= 0 /\ SECTOR_Y(u[2]) < MAX_SECTORS_Y
  BY SectorXYType
<1>5. sector_id(u) = SECTOR_ID(SECTOR_X(u[1]), SECTOR_Y(u[2]))
  BY DEF sector_id
<1> QED  BY <1>2, <1>3, <1>4, <1>5 DEF AdjacentSectors

\* Two tiles that see each other find each other in their sectors.
LEMMA ViewCovered ==
    ASSUME NEW t \in Tiles, NEW u \in Tiles, can_see(t, u)
    PROVE  sector_id(u) \in AdjacentSectors[t] /\ sector_id(t) \in AdjacentSectors[u]
<1>1. VIEW_RANGE \in Nat /\ VIEW_RANGE <= SECTOR_SIZE
  BY GridAssumption DEF SECTOR_SIZE
<1>2. Within(t, u, VIEW_RANGE) /\ Within(u, t, VIEW_RANGE)
  BY SectorXYType DEF can_see, Within, Abs
<1> QED  BY <1>1, <1>2, AdjacentCovers

LEMMA SightIsMutual ==
    ASSUME NEW t \in Tiles, NEW u \in Tiles
    PROVE  can_see(t, u) <=> can_see(u, t)
  BY SectorXYType, GridAssumption DEF can_see, Within, Abs

LEMMA SeesBack ==
    ASSUME Typed, NEW p \in Objects, NEW o \in Objects
    PROVE  Sees(p, o) <=> Sees(o, p)
  <1>1. pos[p] \in Tiles /\ pos[o] \in Tiles
    BY DEF Typed
  <1> QED BY <1>1, SightIsMutual DEF Sees

Exact(o) == \A s \in Sectors : o \in sectors[s] <=> Home(o, s)

LEMMA Nearby ==
    ASSUME Typed, NEW t \in Tiles, NEW o \in Objects, Exact(o)
    PROVE  /\ o \in Around(t) => InGame(o) /\ Alive(o)
           /\ can_see(t, pos[o]) /\ InGame(o) /\ Alive(o) => o \in Around(t)
  <1>1. pos[o] \in Tiles
    BY DEF Typed
  <1>2. ASSUME o \in Around(t) PROVE InGame(o) /\ Alive(o)
    <2>1. PICK s \in AdjacentSectors[t] : o \in sectors[s]
      BY <1>2 DEF Around
    <2>2. s \in Sectors
      BY AdjacentType
    <2> QED BY <2>1, <2>2 DEF Exact, Home
  <1>3. ASSUME can_see(t, pos[o]), InGame(o), Alive(o) PROVE o \in Around(t)
    <2>1. sector_id(pos[o]) \in AdjacentSectors[t]
      BY <1>1, <1>3, ViewCovered
    <2>2. sector_id(pos[o]) \in Sectors
      BY <1>1, SectorIdInRange
    <2>3. o \in sectors[sector_id(pos[o])]
      BY <1>3, <2>2 DEF Exact, Home
    <2> QED BY <2>1, <2>3 DEF Around
  <1> QED BY <1>2, <1>3

\* The players who see a tile.
LEMMA Watchers ==
    ASSUME Typed, NEW t \in Tiles, playing \subseteq clients, \A p \in PC : Exact(p)
    PROVE  \A p : p \in Viewers(t) <=> p \in playing /\ can_see(pos[p], t)
  <1>1. ASSUME NEW p \in PC PROVE p \in Viewers(t) <=> p \in playing /\ can_see(pos[p], t)
    <2>1. p \in Objects /\ pos[p] \in Tiles /\ p \notin NPC
      BY Sets DEF Typed
    <2>2. /\ p \in Around(t) => p \in playing
          /\ can_see(t, pos[p]) /\ p \in playing => p \in Around(t)
      BY <2>1, Nearby DEF InGame, Alive
    <2>3. can_see(t, pos[p]) <=> can_see(pos[p], t)
      BY <2>1, SightIsMutual
    <2> QED BY <2>2, <2>3 DEF Viewers
  <1>2. Viewers(t) \subseteq PC /\ playing \subseteq PC
    BY AroundTypes DEF Typed
  <1> QED BY <1>1, <1>2
-----------------------------------------------------------------------------
(***************************************************************************)
(* What an operation that is about something else leaves alone.            *)
(***************************************************************************)
Tells == Pairs \ {"wake"}
Reads == {"view", "scan", "watch", "seen", "check", "greet", "hide"}

LEMMA ViewFrame ==
    ASSUME NEW T, NEW T2, Aim(T), Clear(T), UNCHANGED <<visible, g_objs, pos, playing, m_hp>>,
           \A x \in T2 : x[1] \in Tells => x \in T,
           \A x \in T : x[1] \in Tells \cup Reads => x \in T2
    PROVE  Aim(T2)' /\ Clear(T2)'
  <1>1. \A p, o : /\ Target(p, o)' <=> Target(p, o)
                  /\ Shown(p, o)' <=> Shown(p, o)
                  /\ Fixed(p, o)' <=> Fixed(p, o)
                  /\ Sees(p, o)' <=> Sees(p, o)
                  /\ Alive(o)' <=> Alive(o)
    BY DEF Target, Shown, Fixed, Sees, InGame, Alive
  <1>2. \A q, p, o : Moved(q, p, o)' <=> Moved(q, p, o)
    BY DEF Moved, Shown
  <1>3. \A p, o : /\ <<"add", p, o>> \in T2 <=> <<"add", p, o>> \in T
                  /\ <<"put", p, o>> \in T2 <=> <<"put", p, o>> \in T
                  /\ <<"rem", p, o>> \in T2 <=> <<"rem", p, o>> \in T
                  /\ <<"del", p, o>> \in T2 <=> <<"del", p, o>> \in T
                  /\ <<"mov", p, o>> \in T2 <=> <<"mov", p, o>> \in T
                  /\ <<"see", p, o>> \in T2 <=> <<"see", p, o>> \in T
    <2>1. {"add", "put", "rem", "del", "mov", "see"} \subseteq Tells
      BY DEF Tells, Pairs
    <2>2. \A x : x[1] \in Tells => (x \in T2 <=> x \in T)
      OBVIOUS
    <2>3. ASSUME NEW name \in {"add", "put", "rem", "del", "mov", "see"}, NEW p, NEW o
          PROVE  <<name, p, o>> \in T2 <=> <<name, p, o>> \in T
      BY <2>1, <2>2
    <2> QED BY <2>3
  <1>4. \A a, b : /\ <<"view", a>> \in T => <<"view", a>> \in T2
                  /\ <<"scan", a, b>> \in T => <<"scan", a, b>> \in T2
                  /\ <<"watch", a, b>> \in T => <<"watch", a, b>> \in T2
                  /\ <<"seen", a, b>> \in T => <<"seen", a, b>> \in T2
                  /\ <<"check", a>> \in T => <<"check", a>> \in T2
                  /\ <<"greet", a>> \in T => <<"greet", a>> \in T2
                  /\ <<"hide", a>> \in T => <<"hide", a>> \in T2
    BY DEF Reads
  <1>5. Aim(T2)'
    BY <1>1, <1>3, ZenonT(60) DEF Aim, Sound
  <1>6. \A p, o : Ask(T, p, o) => Ask(T2, p, o)'
    BY <1>1, <1>3 DEF Ask
  <1>7. ASSUME NEW p, NEW o, Read(T, p, o) PROVE Read(T2, p, o)'
    BY <1>1, <1>2, <1>4, <1>7 DEF Read
  <1>8. Clear(T2)'
    BY <1>1, <1>6, <1>7 DEF Clear
  <1> QED BY <1>5, <1>8

LEMMA PlacedFrame ==
    ASSUME NEW T, NEW T2, Placed(T), UNCHANGED <<sectors, pos, playing, m_hp>>,
           \A x \in T2 : x[1] \in Steps => x \in T,
           \A x \in T : x[1] \in Steps \cup {"watch", "check"} => x \in T2
    PROVE  Placed(T2)'
  <1>1. \A o, s : /\ Home(o, s)' <=> Home(o, s)
                  /\ Alive(o)' <=> Alive(o)
    BY DEF Home, InGame, Alive
  <1>2. \A a, b : /\ <<"leave", a, b>> \in T2 <=> <<"leave", a, b>> \in T
                  /\ <<"enter", a, b>> \in T2 <=> <<"enter", a, b>> \in T
                  /\ <<"watch", a, b>> \in T => <<"watch", a, b>> \in T2
                  /\ <<"check", a>> \in T => <<"check", a>> \in T2
    BY DEF Steps
  <1> QED BY <1>1, <1>2 DEF Placed

LEMMA RollFrame ==
    ASSUME NEW T, NEW T2, Roll(T), UNCHANGED <<clients, playing, saves>>,
           \A x : x[1] \in {"hide", "close", "logout"} => (x \in T <=> x \in T2),
           \A x \in T2 : x[1] \in {"view", "scan"} => x \in T
    PROVE  Roll(T2)'
  <1>1. \A a, b : /\ <<"hide", a>> \in T <=> <<"hide", a>> \in T2
                  /\ <<"close", a>> \in T <=> <<"close", a>> \in T2
                  /\ <<"logout", a>> \in T <=> <<"logout", a>> \in T2
                  /\ <<"view", a>> \in T2 => <<"view", a>> \in T
                  /\ <<"scan", a, b>> \in T2 => <<"scan", a, b>> \in T
    OBVIOUS
  <1> QED BY <1>1 DEF Roll

LEMMA DyingFrame ==
    ASSUME NEW T, NEW T2, Dying(T), UNCHANGED <<respawns, m_hp>>,
           \A x \in T2 : x[1] \in {"check", "bury", "store", "greet", "watch", "seen"} => x \in T
    PROVE  Dying(T2)'
  <1>1. \A a, b : /\ <<"check", a>> \in T2 => <<"check", a>> \in T
                  /\ <<"bury", a>> \in T2 => <<"bury", a>> \in T
                  /\ <<"greet", a>> \in T2 => <<"greet", a>> \in T
                  /\ <<"store", a, b>> \in T2 => <<"store", a, b>> \in T
                  /\ <<"watch", a, b>> \in T2 => <<"watch", a, b>> \in T
                  /\ <<"seen", a, b>> \in T2 => <<"seen", a, b>> \in T
    OBVIOUS
  <1>2. \A n : Alive(n)' <=> Alive(n)
    BY DEF Alive
  <1> QED BY <1>1, <1>2 DEF Dying
-----------------------------------------------------------------------------
(***************************************************************************)
(* Telling a player about an object.                                       *)
(***************************************************************************)
LEMMA NoReads ==
    ASSUME NEW T, \A x \in T : x[1] \notin Reads, NEW p, NEW o
    PROVE  ~Read(T, p, o)
  <1>1. \A a, b : /\ <<"view", a>> \notin T
                  /\ <<"scan", a, b>> \notin T
                  /\ <<"watch", a, b>> \notin T
                  /\ <<"seen", a, b>> \notin T
                  /\ <<"check", a>> \notin T
                  /\ <<"greet", a>> \notin T
                  /\ <<"hide", a>> \notin T
    BY DEF Reads
  <1> QED BY <1>1 DEF Read

\* Only the pair p, o is touched, and no view is still to be looked at.
Concerns(N, p, o) == \A x \in N : \E name : x = <<name, p, o>>
Apart(T, T2, p, o) ==
    /\ \A x \in T : x[1] \notin Reads
    /\ \A q, e : q # p \/ e # o =>
          \A name : <<name, q, e>> \in T2 <=> <<name, q, e>> \in T
Untouched(p, o) ==
    \A q \in PC, e \in Objects : q # p \/ e # o =>
        /\ e \in visible'[q] <=> e \in visible[q]
        /\ g_objs'[q][e] = g_objs[q][e]

LEMMA PairStep ==
    ASSUME NEW T, NEW T2, NEW p \in PC, NEW o \in Objects, Aim(T), Clear(T),
           playing \subseteq PC, Apart(T, T2, p, o), Untouched(p, o),
           UNCHANGED <<pos, playing, m_hp>>,
           p \in playing => Sound(T2, p, o)' /\ (Fixed(p, o)' \/ Ask(T2, p, o)')
    PROVE  Aim(T2)' /\ Clear(T2)'
  <1>1. \A q, e : Target(q, e)' <=> Target(q, e)
    BY DEF Target, Sees, InGame, Alive
  <1>2. ASSUME NEW q \in playing, NEW e \in Objects, q # p \/ e # o
        PROVE  Sound(T2, q, e)' /\ (Fixed(q, e)' \/ Ask(T2, q, e)')
    <2>1. /\ e \in visible'[q] <=> e \in visible[q]
          /\ g_objs'[q][e] = g_objs[q][e]
          /\ Shown(q, e)' <=> Shown(q, e)
      BY <1>2 DEF Shown, Untouched
    <2>2. \A name : <<name, q, e>> \in T2 <=> <<name, q, e>> \in T
      BY <1>2 DEF Apart
    <2>3. /\ <<"add", q, e>> \in T2 <=> <<"add", q, e>> \in T
          /\ <<"put", q, e>> \in T2 <=> <<"put", q, e>> \in T
          /\ <<"rem", q, e>> \in T2 <=> <<"rem", q, e>> \in T
          /\ <<"del", q, e>> \in T2 <=> <<"del", q, e>> \in T
          /\ <<"mov", q, e>> \in T2 <=> <<"mov", q, e>> \in T
          /\ <<"see", q, e>> \in T2 <=> <<"see", q, e>> \in T
      BY <2>2
    <2>4. Sound(T, q, e) /\ (Fixed(q, e) \/ Ask(T, q, e))
      BY NoReads DEF Aim, Clear, Apart
    <2>5. Sound(T2, q, e)'
      BY <1>1, <2>1, <2>3, <2>4 DEF Sound
    <2>6. Fixed(q, e) => Fixed(q, e)'
      BY <1>1, <2>1 DEF Fixed
    <2>7. Ask(T, q, e) => Ask(T2, q, e)'
      BY <1>1, <2>1, <2>3 DEF Ask
    <2> QED BY <2>4, <2>5, <2>6, <2>7
  <1>3. \A q \in playing', e \in Objects : Sound(T2, q, e)' /\ (Fixed(q, e)' \/ Ask(T2, q, e)')
    BY <1>2
  <1> QED BY <1>3 DEF Aim, Clear

LEMMA NoneIsNowhere == NONE \notin Tiles
  BY RaceAssumption

\* What the next operation of a handler about p and o is, and what is left.
Does(T, T2, R, name, p, o, N) ==
    /\ T = R \cup {<<name, p, o>>} /\ T2 = R \cup N
    /\ \A x \in R : Follows(name, x[1])

LEMMA PairLeft ==
    ASSUME NEW T, NEW T2, NEW R, NEW name \in Pairs, NEW p, NEW o, NEW N,
           Does(T, T2, R, name, p, o, N), Concerns(N, p, o)
    PROVE  Apart(T, T2, p, o)
  <1>1. \A x \in R : x[1] \notin Reads
    BY DEF Does, Follows, Steps, Pairs, Late, Final, Reads
  <1>2. <<name, p, o>>[1] \notin Reads
    BY DEF Pairs, Reads
  <1>3. \A x \in T : x[1] \notin Reads
    BY <1>1, <1>2 DEF Does
  <1>4. ASSUME NEW q, NEW e, q # p \/ e # o, NEW other
        PROVE  <<other, q, e>> \in T2 <=> <<other, q, e>> \in T
    BY <1>4 DEF Does, Concerns
  <1> QED BY <1>3, <1>4 DEF Apart

LEMMA SendAddPair ==
    ASSUME Typed, NEW T, NEW T2, NEW R, NEW p \in PC, NEW o \in Objects, NEW N,
           Does(T, T2, R, "add", p, o, N), Aim(T), Clear(T), playing \subseteq clients,
           IF can_send(p) /\ Known(o) /\ InGame(o) /\ o \notin visible[p]
           THEN visible' = [visible EXCEPT ![p] = @ \cup {o}] /\ N = {<<"put", p, o>>}
           ELSE UNCHANGED visible /\ N = {},
           UNCHANGED <<pos, playing, m_hp, g_objs>>
    PROVE  Aim(T2)' /\ Clear(T2)'
  <1>1. "add" \in Pairs
    BY DEF Pairs
  <1>2. Concerns(N, p, o)
    <2>1. \A x \in N : x = <<"put", p, o>>
      OBVIOUS
    <2> QED BY <2>1, Zenon DEF Concerns
  <1>3. Apart(T, T2, p, o)
    BY <1>1, <1>2, PairLeft
  <1>4. Untouched(p, o)
    BY DEF Typed, Untouched
  <1>5. \A q, e : Target(q, e)' <=> Target(q, e)
    BY DEF Target, Sees, InGame, Alive
  <1>6. ASSUME p \in playing PROVE Sound(T2, p, o)' /\ (Fixed(p, o)' \/ Ask(T2, p, o)')
    <2>1. o # p /\ Target(p, o)
      BY <1>6 DEF Aim, Sound, Does
    <2>2. can_send(p) /\ Known(o) /\ InGame(o)
      BY <1>6, <2>1 DEF Target, can_send, Known, InGame
    <2>3. Sound(T, p, o) /\ (Fixed(p, o) \/ Ask(T, p, o))
      BY <1>3, <1>6, NoReads DEF Aim, Clear, Apart
    <2>4. CASE o \notin visible[p]
      <3>1. o \in visible'[p] /\ N = {<<"put", p, o>>}
        BY <2>2, <2>4 DEF Typed
      <3>2. T2 = R \cup {<<"put", p, o>>} /\ R \subseteq T
        BY <3>1 DEF Does
      <3>3. Ask(T2, p, o)'
        BY <3>2 DEF Ask
      <3>4. Sound(T2, p, o)'
        BY <1>5, <2>1, <2>3, <3>1, <3>2 DEF Sound
      <3> QED BY <3>3, <3>4
    <2>5. CASE o \in visible[p]
      <3>1. visible' = visible /\ N = {}
        BY <2>5
      <3>2. T2 = R /\ T = R \cup {<<"add", p, o>>}
        BY <3>1 DEF Does
      <3>3. Sound(T2, p, o)'
        BY <1>5, <2>3, <3>1, <3>2 DEF Sound
      <3>4. Fixed(p, o) => Fixed(p, o)'
        BY <1>5, <3>1 DEF Fixed
      <3>5. Ask(T, p, o) => Ask(T2, p, o)'
        BY <1>5, <2>5, <3>1, <3>2 DEF Ask, Shown
      <3> QED BY <2>3, <3>3, <3>4, <3>5
    <2> QED BY <2>4, <2>5
  <1>7. playing \subseteq PC
    BY DEF Typed
  <1> QED BY <1>3, <1>4, <1>6, <1>7, PairStep

LEMMA PutAddPair ==
    ASSUME Typed, Drawn, NEW T, NEW T2, NEW R, NEW p \in PC, NEW o \in Objects,
           Does(T, T2, R, "put", p, o, {}), Aim(T), Clear(T),
           playing \subseteq PC, Draw(p, o), UNCHANGED <<pos, playing, m_hp, visible>>
    PROVE  Aim(T2)' /\ Clear(T2)'
  <1>1. "put" \in Pairs
    BY DEF Pairs
  <1>2. Concerns({}, p, o)
    BY DEF Concerns
  <1>3. Apart(T, T2, p, o)
    BY <1>1, <1>2, PairLeft
  <1>4. /\ Untouched(p, o)
        /\ g_objs'[p][o] = pos[o]
    BY DEF Drawn, Draw, Untouched
  <1>5. \A q, e : Target(q, e)' <=> Target(q, e)
    BY DEF Target, Sees, InGame, Alive
  <1>6. ASSUME p \in playing PROVE Sound(T2, p, o)' /\ (Fixed(p, o)' \/ Ask(T2, p, o)')
    <2>1. Sound(T, p, o) /\ T = R \cup {<<"put", p, o>>} /\ T2 = R
      BY <1>6 DEF Aim, Does
    <2>2. o # p /\ Target(p, o) /\ o \in visible[p]
      BY <2>1 DEF Sound
    <2>3. Fixed(p, o)'
      BY <1>4, <1>5, <2>2 DEF Fixed
    <2>4. Sound(T2, p, o)'
      BY <1>5, <2>1 DEF Sound
    <2> QED BY <2>3, <2>4
  <1> QED BY <1>3, <1>4, <1>6, PairStep

LEMMA SendRemovePair ==
    ASSUME Typed, NEW T, NEW T2, NEW R, NEW p \in PC, NEW o \in Objects, NEW N,
           Does(T, T2, R, "rem", p, o, N), Aim(T), Clear(T), playing \subseteq clients,
           IF can_send(p) /\ o \in visible[p]
           THEN visible' = [visible EXCEPT ![p] = @ \ {o}] /\ N = {<<"del", p, o>>}
           ELSE UNCHANGED visible /\ N = {},
           UNCHANGED <<pos, playing, m_hp, g_objs>>
    PROVE  Aim(T2)' /\ Clear(T2)'
  <1>1. "rem" \in Pairs
    BY DEF Pairs
  <1>2. Concerns(N, p, o)
    <2>1. \A x \in N : x = <<"del", p, o>>
      OBVIOUS
    <2> QED BY <2>1, Zenon DEF Concerns
  <1>3. Apart(T, T2, p, o)
    BY <1>1, <1>2, PairLeft
  <1>4. Untouched(p, o)
    BY DEF Typed, Untouched
  <1>5. \A q, e : Target(q, e)' <=> Target(q, e)
    BY DEF Target, Sees, InGame, Alive
  <1>6. ASSUME p \in playing PROVE Sound(T2, p, o)' /\ (Fixed(p, o)' \/ Ask(T2, p, o)')
    <2>1. ~Target(p, o)
      BY <1>6 DEF Aim, Sound, Does
    <2>2. can_send(p)
      BY <1>6 DEF can_send
    <2>3. Sound(T, p, o) /\ (Fixed(p, o) \/ Ask(T, p, o))
      BY <1>3, <1>6, NoReads DEF Aim, Clear, Apart
    <2>4. CASE o \in visible[p]
      <3>1. o \notin visible'[p] /\ N = {<<"del", p, o>>}
        BY <2>2, <2>4 DEF Typed
      <3>2. T2 = R \cup {<<"del", p, o>>} /\ R \subseteq T
        BY <3>1 DEF Does
      <3>3. Ask(T2, p, o)'
        BY <3>2 DEF Ask
      <3>4. Sound(T2, p, o)'
        BY <1>5, <2>1, <2>3, <3>1, <3>2 DEF Sound
      <3> QED BY <3>3, <3>4
    <2>5. CASE o \notin visible[p]
      <3>1. visible' = visible /\ N = {}
        BY <2>5
      <3>2. T2 = R /\ T = R \cup {<<"rem", p, o>>}
        BY <3>1 DEF Does
      <3>3. Sound(T2, p, o)'
        BY <1>5, <2>3, <3>1, <3>2 DEF Sound
      <3>4. Fixed(p, o) => Fixed(p, o)'
        BY <1>5, <3>1 DEF Fixed
      <3>5. Ask(T, p, o) => Ask(T2, p, o)'
        BY <1>5, <2>5, <3>1, <3>2 DEF Ask, Shown
      <3> QED BY <2>3, <3>3, <3>4, <3>5
    <2> QED BY <2>4, <2>5
  <1>7. playing \subseteq PC
    BY DEF Typed
  <1> QED BY <1>3, <1>4, <1>6, <1>7, PairStep

LEMMA PutRemovePair ==
    ASSUME Typed, Drawn, NEW T, NEW T2, NEW R, NEW p \in PC, NEW o \in Objects,
           Does(T, T2, R, "del", p, o, {}), Aim(T), Clear(T),
           playing \subseteq PC, Erase(p, o), UNCHANGED <<pos, playing, m_hp, visible>>
    PROVE  Aim(T2)' /\ Clear(T2)'
  <1>1. "del" \in Pairs
    BY DEF Pairs
  <1>2. Concerns({}, p, o)
    BY DEF Concerns
  <1>3. Apart(T, T2, p, o)
    BY <1>1, <1>2, PairLeft
  <1>4. /\ Untouched(p, o)
        /\ g_objs'[p][o] = NONE
    BY DEF Drawn, Erase, Untouched
  <1>5. \A q, e : Target(q, e)' <=> Target(q, e)
    BY DEF Target, Sees, InGame, Alive
  <1>6. ASSUME p \in playing PROVE Sound(T2, p, o)' /\ (Fixed(p, o)' \/ Ask(T2, p, o)')
    <2>1. Sound(T, p, o) /\ T = R \cup {<<"del", p, o>>} /\ T2 = R
      BY <1>6 DEF Aim, Does
    <2>2. ~Target(p, o) /\ o \notin visible[p]
      BY <2>1 DEF Sound
    <2>3. Fixed(p, o)'
      BY <1>4, <1>5, <2>2 DEF Fixed
    <2>4. Sound(T2, p, o)'
      BY <1>5, <2>1 DEF Sound
    <2> QED BY <2>3, <2>4
  <1> QED BY <1>3, <1>4, <1>6, PairStep

LEMMA SendMovePair ==
    ASSUME Typed, Drawn, NEW T, NEW T2, NEW R, NEW p \in PC, NEW o \in Objects,
           Does(T, T2, R, "mov", p, o, {}), Aim(T), Clear(T), playing \subseteq clients,
           IF can_send(p) /\ Known(o) /\ InGame(o) THEN Follow(p, o) ELSE UNCHANGED g_objs,
           UNCHANGED <<pos, playing, m_hp, visible>>
    PROVE  Aim(T2)' /\ Clear(T2)'
  <1>1. "mov" \in Pairs
    BY DEF Pairs
  <1>2. Concerns({}, p, o)
    BY DEF Concerns
  <1>3. Apart(T, T2, p, o)
    BY <1>1, <1>2, PairLeft
  <1>4. /\ Untouched(p, o)
        /\ g_objs'[p][o] \in {g_objs[p][o], pos[o]}
        /\ g_objs'[p][o] = NONE <=> g_objs[p][o] = NONE
        /\ can_send(p) /\ Known(o) /\ InGame(o) /\ g_objs[p][o] # NONE => g_objs'[p][o] = pos[o]
    <2>1. pos[o] # NONE
      BY NoneIsNowhere DEF Typed
    <2>2. CASE g_objs' = g_objs /\ (g_objs[p][o] = NONE \/ ~(can_send(p) /\ Known(o) /\ InGame(o)))
      BY <2>2 DEF Untouched
    <2>3. CASE g_objs' = [g_objs EXCEPT ![p][o] = pos[o]] /\ g_objs[p][o] # NONE
      BY <2>1, <2>3 DEF Drawn, Untouched
    <2> QED BY <2>2, <2>3 DEF Follow
  <1>5. \A q, e : Target(q, e)' <=> Target(q, e)
    BY DEF Target, Sees, InGame, Alive
  <1>6. ASSUME p \in playing PROVE Sound(T2, p, o)' /\ (Fixed(p, o)' \/ Ask(T2, p, o)')
    <2>1. T = R \cup {<<"mov", p, o>>} /\ T2 = R
      BY DEF Does
    <2>2. Sound(T, p, o) /\ (Fixed(p, o) \/ Ask(T, p, o))
      BY <1>3, <1>6, NoReads DEF Aim, Clear, Apart
    <2>3. Target(p, o) => can_send(p) /\ Known(o) /\ InGame(o)
      BY <1>6 DEF Target, can_send, Known, InGame
    <2>4. Shown(p, o)' <=> Shown(p, o)
      BY <1>4 DEF Shown
    <2>5. Sound(T2, p, o)'
      BY <1>5, <2>1, <2>2 DEF Sound
    <2>6. Fixed(p, o) => Fixed(p, o)'
      BY <1>4, <1>5, <2>3 DEF Fixed
    <2>7. Target(p, o) /\ Shown(p, o) /\ (o \in visible[p] <=> o # p) => Fixed(p, o)'
      BY <1>4, <1>5, <2>3 DEF Fixed, Shown
    <2>8. Ask(T, p, o) => Fixed(p, o)' \/ Ask(T2, p, o)'
      BY <1>5, <2>1, <2>4, <2>7 DEF Ask
    <2> QED BY <2>2, <2>5, <2>6, <2>8
  <1>7. playing \subseteq PC
    BY DEF Typed
  <1> QED BY <1>3, <1>4, <1>6, <1>7, PairStep

LEMMA AlreadyVisiblePair ==
    ASSUME Typed, NEW T, NEW T2, NEW R, NEW p \in PC, NEW o \in Objects, NEW N,
           Does(T, T2, R, "see", p, o, N), Aim(T), Clear(T), playing \subseteq PC,
           N = IF o \in visible[p] THEN {<<"mov", p, o>>} ELSE {<<"add", p, o>>},
           UNCHANGED <<pos, playing, m_hp, visible, g_objs>>
    PROVE  Aim(T2)' /\ Clear(T2)'
  <1>1. "see" \in Pairs
    BY DEF Pairs
  <1>2. Concerns(N, p, o)
    <2>1. \A x \in N : x = <<"mov", p, o>> \/ x = <<"add", p, o>>
      OBVIOUS
    <2> QED BY <2>1, Zenon DEF Concerns
  <1>3. Apart(T, T2, p, o)
    BY <1>1, <1>2, PairLeft
  <1>4. \A q, e : Target(q, e)' <=> Target(q, e)
    BY DEF Target, Sees, InGame, Alive
  <1>5. ASSUME p \in playing PROVE Sound(T2, p, o)' /\ (Fixed(p, o)' \/ Ask(T2, p, o)')
    <2>1. T = R \cup {<<"see", p, o>>} /\ T2 = R \cup N
      BY DEF Does
    <2>2. Sound(T, p, o) /\ (Fixed(p, o) \/ Ask(T, p, o))
      BY <1>3, <1>5, NoReads DEF Aim, Clear, Apart
    <2>3. o # p /\ Target(p, o)
      BY <2>1, <2>2 DEF Sound
    <2>4. Fixed(p, o) => Fixed(p, o)'
      BY <1>4 DEF Fixed
    <2>5. Shown(p, o)' <=> Shown(p, o)
      BY DEF Shown
    <2>6. CASE o \in visible[p]
      <3>1. T2 = R \cup {<<"mov", p, o>>}
        BY <2>1, <2>6
      <3>2. Sound(T2, p, o)'
        BY <1>4, <2>1, <2>2, <3>1 DEF Sound
      <3>3. Ask(T, p, o) => Ask(T2, p, o)'
        BY <1>4, <2>1, <2>3, <2>5, <2>6, <3>1 DEF Ask
      <3> QED BY <2>2, <2>4, <3>2, <3>3
    <2>7. CASE o \notin visible[p]
      <3>1. T2 = R \cup {<<"add", p, o>>}
        BY <2>1, <2>7
      <3>2. Sound(T2, p, o)'
        BY <1>4, <2>1, <2>2, <2>3, <3>1 DEF Sound
      <3>3. Ask(T, p, o) => Ask(T2, p, o)'
        BY <1>4, <2>1, <2>3, <2>5, <2>7, <3>1 DEF Ask
      <3> QED BY <2>2, <2>4, <3>2, <3>3
    <2> QED BY <2>6, <2>7
  <1>6. Untouched(p, o)
    BY DEF Untouched
  <1> QED BY <1>3, <1>5, <1>6, PairStep
-----------------------------------------------------------------------------
(***************************************************************************)
(* Sectors.                                                                *)
(***************************************************************************)
LEMMA LeavePlaced ==
    ASSUME Typed, NEW T, NEW T2, NEW R, NEW o \in Objects, NEW s \in Sectors,
           Does(T, T2, R, "leave", o, s, {}), Placed(T),
           sectors' = [sectors EXCEPT ![s] = @ \ {o}], UNCHANGED <<pos, playing, m_hp>>
    PROVE  Placed(T2)'
  <1>1. T = R \cup {<<"leave", o, s>>} /\ T2 = R
    BY DEF Does
  <1>2. \A e, u : (Home(e, u)' <=> Home(e, u)) /\ (Alive(e)' <=> Alive(e))
    BY DEF Home, InGame, Alive
  <1>3. \A e \in Objects, u \in Sectors : e # o \/ u # s => (e \in sectors'[u] <=> e \in sectors[u])
    BY DEF Typed
  <1>4. o \notin sectors'[s]
    BY DEF Typed
  <1>5. ~Home(o, s)
    BY <1>1 DEF Placed
  <1>6. \A a, b : /\ <<"enter", a, b>> \in T2 <=> <<"enter", a, b>> \in T
                  /\ <<"watch", a, b>> \in T2 <=> <<"watch", a, b>> \in T
                  /\ <<"check", a>> \in T2 <=> <<"check", a>> \in T
                  /\ <<"leave", a, b>> \in T2 => <<"leave", a, b>> \in T
                  /\ a # o \/ b # s => (<<"leave", a, b>> \in T2 <=> <<"leave", a, b>> \in T)
    BY <1>1
  <1>7. ASSUME NEW e \in Objects, NEW u \in Sectors
        PROVE  /\ <<"leave", e, u>> \in T2 => ~Home(e, u)'
               /\ <<"enter", e, u>> \in T2 => Home(e, u)'
    BY <1>2, <1>6 DEF Placed
  <1>8. ASSUME NEW e \in Objects, NEW u \in Sectors, e # o \/ u # s
        PROVE  \/ e \in sectors'[u] <=> Home(e, u)'
               \/ <<"leave", e, u>> \in T2 \/ <<"enter", e, u>> \in T2
               \/ \E t \in Tiles : <<"watch", e, t>> \in T2 /\ (e \in sectors'[u] <=> sector_id(t) = u)
               \/ <<"check", e>> \in T2 /\ ~Alive(e)' /\ (e \in sectors'[u] <=> sector_id(pos'[e]) = u)
    <2>1. \/ e \in sectors[u] <=> Home(e, u)
          \/ <<"leave", e, u>> \in T \/ <<"enter", e, u>> \in T
          \/ \E t \in Tiles : <<"watch", e, t>> \in T /\ (e \in sectors[u] <=> sector_id(t) = u)
          \/ <<"check", e>> \in T /\ ~Alive(e) /\ (e \in sectors[u] <=> sector_id(pos[e]) = u)
      BY DEF Placed
    <2>2. e \in sectors'[u] <=> e \in sectors[u]
      BY <1>3, <1>8
    <2> QED BY <1>2, <1>6, <1>8, <2>1, <2>2
  <1>9. o \in sectors'[s] <=> Home(o, s)'
    BY <1>2, <1>4, <1>5
  <1> QED BY <1>7, <1>8, <1>9 DEF Placed

LEMMA EnterPlaced ==
    ASSUME Typed, NEW T, NEW T2, NEW R, NEW o \in Objects, NEW s \in Sectors,
           Does(T, T2, R, "enter", o, s, {}), Placed(T),
           sectors' = [sectors EXCEPT ![s] = @ \cup {o}], UNCHANGED <<pos, playing, m_hp>>
    PROVE  Placed(T2)'
  <1>1. T = R \cup {<<"enter", o, s>>} /\ T2 = R
    BY DEF Does
  <1>2. \A e, u : (Home(e, u)' <=> Home(e, u)) /\ (Alive(e)' <=> Alive(e))
    BY DEF Home, InGame, Alive
  <1>3. \A e \in Objects, u \in Sectors : e # o \/ u # s => (e \in sectors'[u] <=> e \in sectors[u])
    BY DEF Typed
  <1>4. o \in sectors'[s]
    BY DEF Typed
  <1>5. Home(o, s)
    BY <1>1 DEF Placed
  <1>6. \A a, b : /\ <<"leave", a, b>> \in T2 <=> <<"leave", a, b>> \in T
                  /\ <<"watch", a, b>> \in T2 <=> <<"watch", a, b>> \in T
                  /\ <<"check", a>> \in T2 <=> <<"check", a>> \in T
                  /\ <<"enter", a, b>> \in T2 => <<"enter", a, b>> \in T
                  /\ a # o \/ b # s => (<<"enter", a, b>> \in T2 <=> <<"enter", a, b>> \in T)
    BY <1>1
  <1>7. ASSUME NEW e \in Objects, NEW u \in Sectors
        PROVE  /\ <<"leave", e, u>> \in T2 => ~Home(e, u)'
               /\ <<"enter", e, u>> \in T2 => Home(e, u)'
    BY <1>2, <1>6 DEF Placed
  <1>8. ASSUME NEW e \in Objects, NEW u \in Sectors, e # o \/ u # s
        PROVE  \/ e \in sectors'[u] <=> Home(e, u)'
               \/ <<"leave", e, u>> \in T2 \/ <<"enter", e, u>> \in T2
               \/ \E t \in Tiles : <<"watch", e, t>> \in T2 /\ (e \in sectors'[u] <=> sector_id(t) = u)
               \/ <<"check", e>> \in T2 /\ ~Alive(e)' /\ (e \in sectors'[u] <=> sector_id(pos'[e]) = u)
    <2>1. \/ e \in sectors[u] <=> Home(e, u)
          \/ <<"leave", e, u>> \in T \/ <<"enter", e, u>> \in T
          \/ \E t \in Tiles : <<"watch", e, t>> \in T /\ (e \in sectors[u] <=> sector_id(t) = u)
          \/ <<"check", e>> \in T /\ ~Alive(e) /\ (e \in sectors[u] <=> sector_id(pos[e]) = u)
      BY DEF Placed
    <2>2. e \in sectors'[u] <=> e \in sectors[u]
      BY <1>3, <1>8
    <2> QED BY <1>2, <1>6, <1>8, <2>1, <2>2
  <1>9. o \in sectors'[s] <=> Home(o, s)'
    BY <1>2, <1>4, <1>5
  <1> QED BY <1>7, <1>8, <1>9 DEF Placed
-----------------------------------------------------------------------------
(***************************************************************************)
(* Looking at views and sectors: nothing else is left to do but what does  *)
(* not matter to them.                                                     *)
(***************************************************************************)
Besides(T, N) == N \subseteq T /\ \A x \in T : x \in N \/ x[1] \in Late

\* What is left that a reader could find unfinished: only itself.
LEMMA OnlyHead ==
    ASSUME NEW T, NEW h, Besides(T, {h})
    PROVE  \A x : x[1] \notin Late => (x \in T <=> x = h)
  BY DEF Besides

LEMMA NewLeft ==
    ASSUME NEW T, NEW N, Besides(T, N)
    PROVE  \A x : x[1] \notin Late => (x \in T <=> x \in N)
  BY DEF Besides

\* Nothing is left about sectors: they are right.
LEMMA SectorsRight ==
    ASSUME NEW T, NEW h, Besides(T, {h}), Placed(T),
           NEW o \in Objects, h[1] \notin Steps, h[1] \in {"watch", "check"} => h[2] # o
    PROVE  Exact(o)
  <1>1. \A s : <<"leave", o, s>> \notin T /\ <<"enter", o, s>> \notin T
    BY DEF Besides, Late, Final, Steps
  <1>2. \A t : <<"watch", o, t>> \notin T
    BY DEF Besides, Late, Final
  <1>3. <<"check", o>> \notin T
    BY DEF Besides, Late, Final
  <1> QED BY <1>1, <1>2, <1>3 DEF Placed, Exact

LEMMA NoAsk ==
    ASSUME NEW T, NEW h, Besides(T, {h}), h[1] \notin Tells, NEW p, NEW o
    PROVE  ~Ask(T, p, o)
  <1>1. /\ <<"add", p, o>> \notin T /\ <<"put", p, o>> \notin T /\ <<"rem", p, o>> \notin T
        /\ <<"del", p, o>> \notin T /\ <<"mov", p, o>> \notin T /\ <<"see", p, o>> \notin T
    BY DEF Besides, Late, Final, Tells, Pairs
  <1> QED BY <1>1 DEF Ask

\* The views of the operation that reads next.
LEMMA OnlyRead ==
    ASSUME NEW T, NEW h, Besides(T, {h}), h[1] \notin Tells, Clear(T),
           NEW p \in playing, NEW o \in Objects
    PROVE  Fixed(p, o) \/ Read({h}, p, o)
  <1>1. \A a, b : /\ <<"view", a>> \in T => <<"view", a>> \in {h}
                  /\ <<"scan", a, b>> \in T => <<"scan", a, b>> \in {h}
                  /\ <<"watch", a, b>> \in T => <<"watch", a, b>> \in {h}
                  /\ <<"seen", a, b>> \in T => <<"seen", a, b>> \in {h}
                  /\ <<"check", a>> \in T => <<"check", a>> \in {h}
                  /\ <<"greet", a>> \in T => <<"greet", a>> \in {h}
                  /\ <<"hide", a>> \in T => <<"hide", a>> \in {h}
    BY OnlyHead DEF Late, Final
  <1>2. ~Ask(T, p, o)
    BY NoAsk
  <1>3. Read(T, p, o) => Read({h}, p, o)
    BY <1>1 DEF Read
  <1> QED BY <1>2, <1>3 DEF Clear

\* Nothing is told in the rest.
LEMMA NothingTold ==
    ASSUME NEW T, NEW N, Besides(T, N), \A x \in N : x[1] \notin Tells
    PROVE  Aim(T)'
  <1>1. \A p, o : /\ <<"add", p, o>> \notin T /\ <<"put", p, o>> \notin T
                  /\ <<"rem", p, o>> \notin T /\ <<"del", p, o>> \notin T
                  /\ <<"see", p, o>> \notin T
    BY DEF Besides, Late, Final, Tells, Pairs
  <1> QED BY <1>1 DEF Aim, Sound

LEMMA SameViews ==
    ASSUME UNCHANGED <<visible, g_objs, pos, playing, m_hp>>
    PROVE  /\ \A p, o : /\ Target(p, o)' <=> Target(p, o)
                        /\ Shown(p, o)' <=> Shown(p, o)
                        /\ Fixed(p, o)' <=> Fixed(p, o)
                        /\ Sees(p, o)' <=> Sees(p, o)
                        /\ Alive(o)' <=> Alive(o)
           /\ \A q, p, o : Moved(q, p, o)' <=> Moved(q, p, o)
  <1>1. \A p, o : /\ Target(p, o)' <=> Target(p, o)
                  /\ Shown(p, o)' <=> Shown(p, o)
                  /\ Fixed(p, o)' <=> Fixed(p, o)
                  /\ Sees(p, o)' <=> Sees(p, o)
                  /\ Alive(o)' <=> Alive(o)
    BY DEF Target, Shown, Fixed, Sees, InGame, Alive
  <1>2. \A q, p, o : Moved(q, p, o)' <=> Moved(q, p, o)
    BY DEF Moved, Shown
  <1> QED BY <1>1, <1>2

\* update_player_view copies the old view.
LEMMA OldViewPairs ==
    ASSUME Typed, NEW T, NEW T2, NEW q \in PC,
           Besides(T, {<<"view", q>>}), Besides(T2, {<<"scan", q, visible[q]>>}),
           Aim(T), Clear(T), UNCHANGED <<visible, g_objs, pos, playing, m_hp>>
    PROVE  /\ Aim(T2)' /\ Clear(T2)'
           /\ q \in playing => q \notin visible[q]
  <1>1. <<"view", q>>[1] \notin Tells /\ <<"scan", q, visible[q]>>[1] \notin Tells
    BY DEF Tells, Pairs
  <1>2. Aim(T2)'
    <2>1. \A x \in {<<"scan", q, visible[q]>>} : x[1] \notin Tells
      BY <1>1
    <2> QED BY <2>1, NothingTold
  <1>3. ASSUME NEW p \in playing, NEW o \in Objects
        PROVE  Fixed(p, o) \/ (q \in {p, o} /\ Moved(q, p, o))
    <2>1. Fixed(p, o) \/ Read({<<"view", q>>}, p, o)
      BY <1>1, OnlyRead
    <2>2. Read({<<"view", q>>}, p, o) => q \in {p, o} /\ Moved(q, p, o)
      BY DEF Read
    <2> QED BY <2>1, <2>2
  <1>4. <<"scan", q, visible[q]>> \in T2
    BY DEF Besides
  <1>5. ASSUME NEW p \in playing', NEW o \in Objects
        PROVE  Fixed(p, o)' \/ Read(T2, p, o)'
    <2>1. CASE Fixed(p, o)
      BY <2>1, SameViews
    <2>2. CASE q \in {p, o} /\ Moved(q, p, o)
      <3>1. Moved(q, p, o)'
        BY <2>2, SameViews
      <3>2. q \in {p, o} \cap PC /\ <<"scan", q, visible'[q]>> \in T2
        BY <1>4, <2>2
      <3> QED BY <3>1, <3>2 DEF Read
    <2> QED BY <1>3, <2>1, <2>2
  <1>6. Clear(T2)'
    BY <1>5 DEF Clear
  <1>7. q \in playing => q \notin visible[q]
    <2>1. q \in Objects
      BY Sets
    <2> QED BY <1>3, <2>1 DEF Fixed, Moved
  <1> QED BY <1>2, <1>6, <1>7

\* An operation that only reads, and has then something to tell.
LEMMA SameTold ==
    ASSUME NEW T, UNCHANGED <<visible, g_objs, pos, playing, m_hp>>,
           \A p \in playing, o \in Objects : Sound(T, p, o) /\ (Fixed(p, o) \/ Ask(T, p, o))
    PROVE  Aim(T)' /\ Clear(T)'
  <1>1. \A p, o : Sound(T, p, o) => Sound(T, p, o)'
    BY SameViews DEF Sound
  <1>2. \A p, o : Ask(T, p, o) => Ask(T, p, o)'
    BY SameViews DEF Ask
  <1>3. \A p, o : Fixed(p, o) => Fixed(p, o)'
    BY SameViews
  <1> QED BY <1>1, <1>2, <1>3 DEF Aim, Clear

\* update_player_view looks up the new view of q and compares it with the old
\* one, S: what it has to tell then.
NewTold(N, q, S, new) ==
    /\ \A x \in N : x[1] \in {"add", "mov", "rem", "wake"}
    /\ \A a, b : <<"add", a, b>> \in N <=>
          (a = q /\ b \in new \ S) \/ (b = q /\ a \in (new \ S) \cap PC)
    /\ \A a, b : <<"mov", a, b>> \in N <=>
          (a = q /\ b = q) \/ (b = q /\ a \in new \cap S \cap PC)
    /\ \A a, b : <<"rem", a, b>> \in N <=>
          (a = q /\ b \in S \ new) \/ (b = q /\ a \in (S \ new) \cap PC)

LEMMA NewViewPairs ==
    ASSUME Typed, NEW T, NEW T2, NEW q \in PC, NEW S \in SUBSET Objects, NEW N, NEW new,
           Besides(T, {<<"scan", q, S>>}), Besides(T2, N), NewTold(N, q, S, new),
           \A o : o \in new <=> o \in Objects /\ o # q /\ Target(q, o),
           q \in playing, q \notin S, playing \subseteq PC, Clear(T),
           UNCHANGED <<visible, g_objs, pos, playing, m_hp>>
    PROVE  Aim(T2)' /\ Clear(T2)'
  <1>1. \A a, b : /\ <<"add", a, b>> \in T2 <=>
                       (a = q /\ b \in new \ S) \/ (b = q /\ a \in (new \ S) \cap PC)
                  /\ <<"mov", a, b>> \in T2 <=>
                       (a = q /\ b = q) \/ (b = q /\ a \in new \cap S \cap PC)
                  /\ <<"rem", a, b>> \in T2 <=>
                       (a = q /\ b \in S \ new) \/ (b = q /\ a \in (S \ new) \cap PC)
                  /\ <<"put", a, b>> \notin T2 /\ <<"del", a, b>> \notin T2
                  /\ <<"see", a, b>> \notin T2
    <2>1. \A x : x[1] \notin Late => (x \in T2 <=> x \in N)
      BY NewLeft
    <2>2. ASSUME NEW a, NEW b
          PROVE  /\ <<"add", a, b>> \in T2 <=> <<"add", a, b>> \in N
                 /\ <<"mov", a, b>> \in T2 <=> <<"mov", a, b>> \in N
                 /\ <<"rem", a, b>> \in T2 <=> <<"rem", a, b>> \in N
                 /\ <<"put", a, b>> \in T2 <=> <<"put", a, b>> \in N
                 /\ <<"del", a, b>> \in T2 <=> <<"del", a, b>> \in N
                 /\ <<"see", a, b>> \in T2 <=> <<"see", a, b>> \in N
      BY <2>1 DEF Late, Final
    <2>3. \A a, b : <<"put", a, b>> \notin N /\ <<"del", a, b>> \notin N /\ <<"see", a, b>> \notin N
      BY DEF NewTold
    <2>4. ASSUME NEW a, NEW b
          PROVE  /\ <<"add", a, b>> \in N <=>
                      (a = q /\ b \in new \ S) \/ (b = q /\ a \in (new \ S) \cap PC)
                 /\ <<"mov", a, b>> \in N <=>
                      (a = q /\ b = q) \/ (b = q /\ a \in new \cap S \cap PC)
                 /\ <<"rem", a, b>> \in N <=>
                      (a = q /\ b \in S \ new) \/ (b = q /\ a \in (S \ new) \cap PC)
      BY DEF NewTold
    <2>5. ASSUME NEW a, NEW b
          PROVE  /\ <<"add", a, b>> \in T2 <=>
                      (a = q /\ b \in new \ S) \/ (b = q /\ a \in (new \ S) \cap PC)
                 /\ <<"mov", a, b>> \in T2 <=>
                      (a = q /\ b = q) \/ (b = q /\ a \in new \cap S \cap PC)
                 /\ <<"rem", a, b>> \in T2 <=>
                      (a = q /\ b \in S \ new) \/ (b = q /\ a \in (S \ new) \cap PC)
                 /\ <<"put", a, b>> \notin T2 /\ <<"del", a, b>> \notin T2
                 /\ <<"see", a, b>> \notin T2
      BY <2>2, <2>3, <2>4, SMTT(30)
    <2> QED BY <2>5, Zenon
  <1>2. ASSUME NEW p \in playing, p # q
        PROVE  Target(p, q) <=> p \in new
    <2>1. p \in Objects /\ q \in Objects /\ p \notin NPC
      BY <1>2, Sets
    <2>2. Sees(p, q) <=> Sees(q, p)
      BY <2>1, SeesBack
    <2> QED BY <1>2, <2>1, <2>2 DEF Target, InGame, Alive
  <1>3. ASSUME NEW p \in playing, NEW o \in Objects PROVE Sound(T2, p, o)
    <2>1. ASSUME <<"add", p, o>> \in T2 PROVE o # p /\ Target(p, o)
      <3>1. CASE p = q /\ o \in new \ S
        BY <3>1
      <3>2. CASE o = q /\ p \in new \ S
        BY <1>2, <3>2
      <3> QED BY <1>1, <2>1, <3>1, <3>2
    <2>2. ASSUME <<"rem", p, o>> \in T2 PROVE ~Target(p, o)
      <3>1. CASE p = q /\ o \in S \ new
        BY <3>1
      <3>2. CASE o = q /\ p \in S \ new
        BY <1>2, <3>2
      <3> QED BY <1>1, <2>2, <3>1, <3>2
    <2> QED BY <1>1, <2>1, <2>2 DEF Sound
  <1>4. ASSUME NEW p \in playing, NEW o \in Objects
        PROVE  Fixed(p, o) \/ Ask(T2, p, o)
    <2>1. <<"scan", q, S>>[1] \notin Tells
      BY DEF Tells, Pairs
    <2>2. Fixed(p, o) \/ Read({<<"scan", q, S>>}, p, o)
      BY <2>1, OnlyRead
    <2>3. Read({<<"scan", q, S>>}, p, o) =>
              q \in {p, o} /\ Moved(q, p, o) /\ S = visible[q]
      BY DEF Read
    <2>4. ASSUME q \in {p, o}, Moved(q, p, o), S = visible[q]
          PROVE  Fixed(p, o) \/ Ask(T2, p, o)
      <3>1. CASE p = q /\ o = q
        <4>1. <<"mov", p, o>> \in T2 /\ Target(p, o) /\ Shown(p, o) /\ o \notin visible[p]
          BY <1>1, <2>4, <3>1 DEF Target, Moved
        <4> QED BY <3>1, <4>1 DEF Ask
      <3>2. CASE p = q /\ o # q
        <4>1. /\ o \in visible[p] <=> Shown(p, o)
              /\ Shown(p, o) => g_objs[p][o] = pos[o]
              /\ o \in visible[p] <=> o \in S
              /\ Target(p, o) <=> o \in new
          BY <2>4, <3>2 DEF Moved
        <4>2. CASE o \in new <=> o \in S
          BY <3>2, <4>1, <4>2 DEF Fixed, Shown
        <4>3. CASE o \in new \ S
          <5>1. <<"add", p, o>> \in T2
            BY <1>1, <3>2, <4>3
          <5> QED BY <4>1, <4>3, <5>1 DEF Ask
        <4>4. CASE o \in S \ new
          <5>1. <<"rem", p, o>> \in T2
            BY <1>1, <3>2, <4>4
          <5> QED BY <4>1, <4>4, <5>1 DEF Ask
        <4> QED BY <4>2, <4>3, <4>4
      <3>3. CASE p # q /\ o = q
        <4>1. /\ o \in visible[p] <=> Shown(p, o)
              /\ o \in visible[p] <=> p \in S
              /\ Target(p, o) <=> p \in new
          BY <1>2, <1>4, <2>4, <3>3 DEF Moved
        <4>2. CASE p \notin new /\ p \notin S
          BY <3>3, <4>1, <4>2 DEF Fixed, Shown
        <4>3. CASE p \in new /\ p \in S
          <5>1. <<"mov", p, o>> \in T2
            BY <1>1, <1>4, <3>3, <4>3
          <5> QED BY <3>3, <4>1, <4>3, <5>1 DEF Ask
        <4>4. CASE p \in new \ S
          <5>1. <<"add", p, o>> \in T2
            BY <1>1, <1>4, <3>3, <4>4
          <5> QED BY <4>1, <4>4, <5>1 DEF Ask
        <4>5. CASE p \in S \ new
          <5>1. <<"rem", p, o>> \in T2
            BY <1>1, <1>4, <3>3, <4>5
          <5> QED BY <4>1, <4>5, <5>1 DEF Ask
        <4> QED BY <4>2, <4>3, <4>4, <4>5
      <3> QED BY <2>4, <3>1, <3>2, <3>3
    <2> QED BY <2>2, <2>3, <2>4
  <1> QED BY <1>3, <1>4, SameTold
-----------------------------------------------------------------------------
(***************************************************************************)
(* NPCs: who is told about a respawn, a move and a death.                  *)
(***************************************************************************)
\* Nobody is told but the players who see the NPC.
GreetTold(N, n) ==
    /\ \A x \in N : x[1] \in {"add", "wake"}
    /\ \A a, b : <<"add", a, b>> \in N <=>
          b = n /\ a \in playing /\ can_see(pos[a], pos[n])

SeenTold(N, n, S) ==
    /\ \A x \in N : x[1] \in {"see", "rem"}
    /\ \A a, b : <<"see", a, b>> \in N <=>
          b = n /\ a \in playing /\ can_see(pos[a], pos[n])
    /\ \A a, b : <<"rem", a, b>> \in N <=>
          b = n /\ a \in S /\ ~(a \in playing /\ can_see(pos[a], pos[n]))

LEMMA NpcTarget ==
    ASSUME NEW p \in playing, playing \subseteq PC, NEW n \in NPC
    PROVE  /\ n # p
           /\ Target(p, n) <=> can_see(pos[p], pos[n]) /\ Alive(n)
  <1>1. n # p
    BY Sets
  <1> QED BY <1>1 DEF Target, Sees, InGame

LEMMA GreetPairs ==
    ASSUME NEW T, NEW T2, NEW n \in NPC, NEW N,
           Besides(T, {<<"greet", n>>}), Besides(T2, N), GreetTold(N, n),
           Alive(n), playing \subseteq PC, Clear(T),
           UNCHANGED <<visible, g_objs, pos, playing, m_hp>>
    PROVE  Aim(T2)' /\ Clear(T2)'
  <1>1. \A a, b : /\ <<"add", a, b>> \in T2 <=>
                       b = n /\ a \in playing /\ can_see(pos[a], pos[n])
                  /\ <<"put", a, b>> \notin T2 /\ <<"rem", a, b>> \notin T2
                  /\ <<"del", a, b>> \notin T2 /\ <<"see", a, b>> \notin T2
    <2>1. ASSUME NEW a, NEW b
          PROVE  /\ <<"add", a, b>> \in T2 <=> <<"add", a, b>> \in N
                 /\ <<"put", a, b>> \notin T2 /\ <<"rem", a, b>> \notin T2
                 /\ <<"del", a, b>> \notin T2 /\ <<"see", a, b>> \notin T2
      BY DEF Besides, GreetTold, Late, Final
    <2> QED BY <2>1 DEF GreetTold
  <1>2. ASSUME NEW p \in playing, NEW o \in Objects PROVE Sound(T2, p, o)
    BY <1>1, NpcTarget DEF Sound
  <1>3. ASSUME NEW p \in playing, NEW o \in Objects
        PROVE  Fixed(p, o) \/ Ask(T2, p, o)
    <2>1. <<"greet", n>>[1] \notin Tells
      BY DEF Tells, Pairs
    <2>2. Fixed(p, o) \/ Read({<<"greet", n>>}, p, o)
      BY <2>1, OnlyRead
    <2>3. Read({<<"greet", n>>}, p, o) => o = n /\ o \notin visible[p] /\ ~Shown(p, o)
      BY DEF Read
    <2>4. ASSUME o = n, o \notin visible[p], ~Shown(p, o)
          PROVE  Fixed(p, o) \/ Ask(T2, p, o)
      <3>1. CASE Target(p, n)
        <4>1. <<"add", p, o>> \in T2
          BY <1>1, <2>4, <3>1, NpcTarget
        <4> QED BY <2>4, <4>1 DEF Ask
      <3>2. CASE ~Target(p, n)
        BY <2>4, <3>2 DEF Fixed, Shown
      <3> QED BY <3>1, <3>2
    <2> QED BY <2>2, <2>3, <2>4
  <1> QED BY <1>2, <1>3, SameTold

LEMMA NewViewersPairs ==
    ASSUME NEW T, NEW T2, NEW n \in NPC, NEW S, NEW N,
           Besides(T, {<<"seen", n, S>>}), Besides(T2, N), SeenTold(N, n, S),
           Alive(n), playing \subseteq PC, Clear(T),
           UNCHANGED <<visible, g_objs, pos, playing, m_hp>>
    PROVE  Aim(T2)' /\ Clear(T2)'
  <1>1. \A a, b : /\ <<"see", a, b>> \in T2 <=>
                       b = n /\ a \in playing /\ can_see(pos[a], pos[n])
                  /\ <<"rem", a, b>> \in T2 <=>
                       b = n /\ a \in S /\ ~(a \in playing /\ can_see(pos[a], pos[n]))
                  /\ <<"put", a, b>> \notin T2 /\ <<"add", a, b>> \notin T2
                  /\ <<"del", a, b>> \notin T2
    <2>1. ASSUME NEW a, NEW b
          PROVE  /\ <<"see", a, b>> \in T2 <=> <<"see", a, b>> \in N
                 /\ <<"rem", a, b>> \in T2 <=> <<"rem", a, b>> \in N
                 /\ <<"put", a, b>> \notin T2 /\ <<"add", a, b>> \notin T2
                 /\ <<"del", a, b>> \notin T2
      BY DEF Besides, SeenTold, Late, Final
    <2> QED BY <2>1 DEF SeenTold
  <1>2. ASSUME NEW p \in playing, NEW o \in Objects PROVE Sound(T2, p, o)
    BY <1>1, NpcTarget DEF Sound
  <1>3. ASSUME NEW p \in playing, NEW o \in Objects
        PROVE  Fixed(p, o) \/ Ask(T2, p, o)
    <2>1. <<"seen", n, S>>[1] \notin Tells
      BY DEF Tells, Pairs
    <2>2. Fixed(p, o) \/ Read({<<"seen", n, S>>}, p, o)
      BY <2>1, OnlyRead
    <2>3. Read({<<"seen", n, S>>}, p, o) =>
              /\ o = n
              /\ o \in visible[p] <=> Shown(p, o)
              /\ o \in visible[p] <=> p \in S
      BY DEF Read
    <2>4. ASSUME o = n, o \in visible[p] <=> Shown(p, o), o \in visible[p] <=> p \in S
          PROVE  Fixed(p, o) \/ Ask(T2, p, o)
      <3>1. CASE Target(p, n)
        <4>1. <<"see", p, o>> \in T2
          BY <1>1, <2>4, <3>1, NpcTarget
        <4> QED BY <2>4, <4>1 DEF Ask
      <3>2. CASE ~Target(p, n) /\ p \in S
        <4>1. <<"rem", p, o>> \in T2
          BY <1>1, <2>4, <3>2, NpcTarget
        <4> QED BY <2>4, <3>2, <4>1 DEF Ask
      <3>3. CASE ~Target(p, n) /\ p \notin S
        BY <2>4, <3>3 DEF Fixed, Shown
      <3> QED BY <3>1, <3>2, <3>3
    <2> QED BY <2>2, <2>3, <2>4
  <1> QED BY <1>2, <1>3, SameTold

\* update_viewers: who saw the NPC at its old tile.
LEMMA OldViewersPairs ==
    ASSUME NEW T, NEW T2, NEW n \in NPC, NEW t \in Tiles, NEW S \in SUBSET PC, NEW N,
           Besides(T, {<<"watch", n, t>>}), Besides(T2, N), <<"seen", n, S>> \in N,
           \A x \in N : x[1] \notin Tells,
           \A p : p \in S <=> p \in playing /\ can_see(pos[p], t), Clear(T),
           UNCHANGED <<visible, g_objs, pos, playing, m_hp>>
    PROVE  Aim(T2)' /\ Clear(T2)'
  <1>1. Aim(T2)'
    BY NothingTold
  <1>2. ASSUME NEW p \in playing', NEW o \in Objects
        PROVE  Fixed(p, o)' \/ Read(T2, p, o)'
    <2>1. <<"watch", n, t>>[1] \notin Tells
      BY DEF Tells, Pairs
    <2>2. Fixed(p, o) \/ Read({<<"watch", n, t>>}, p, o)
      BY <2>1, OnlyRead
    <2>3. Read({<<"watch", n, t>>}, p, o) =>
              /\ o = n
              /\ o \in visible[p] <=> Shown(p, o)
              /\ o \in visible[p] <=> can_see(pos[p], t)
      BY DEF Read
    <2>4. CASE Fixed(p, o)
      BY <2>4, SameViews
    <2>5. ASSUME o = n, o \in visible[p] <=> Shown(p, o), o \in visible[p] <=> can_see(pos[p], t)
          PROVE  Read(T2, p, o)'
      <3>1. <<"seen", o, S>> \in T2
        BY <2>5 DEF Besides
      <3>2. (o \in visible[p])' <=> Shown(p, o)'
        BY <2>5, SameViews
      <3>3. (o \in visible[p])' <=> p \in S
        BY <2>5
      <3> QED BY <3>1, <3>2, <3>3 DEF Read
    <2> QED BY <2>2, <2>3, <2>4, <2>5
  <1>3. Clear(T2)'
    BY <1>2 DEF Clear
  <1> QED BY <1>1, <1>3

\* Who has crossed a border of sectors leaves one and enters the other.
LEMMA CrossingElems ==
    ASSUME NEW o, NEW t, NEW u
    PROVE  \A x : x \in Elems(Crossing(o, t, u)) <=>
              /\ sector_id(t) # sector_id(u)
              /\ x \in {<<"leave", o, sector_id(t)>>, <<"enter", o, sector_id(u)>>}
  BY ElemsShort DEF Crossing

Crossed(N, o, t, u) ==
    /\ \A e, s : <<"leave", e, s>> \in N <=>
          sector_id(t) # sector_id(u) /\ e = o /\ s = sector_id(t)
    /\ \A e, s : <<"enter", e, s>> \in N <=>
          sector_id(t) # sector_id(u) /\ e = o /\ s = sector_id(u)

LEMMA StepsLeft ==
    ASSUME NEW T, NEW N, Besides(T, N)
    PROVE  \A e, s : /\ <<"leave", e, s>> \in T <=> <<"leave", e, s>> \in N
                     /\ <<"enter", e, s>> \in T <=> <<"enter", e, s>> \in N
                     /\ <<"watch", e, s>> \in T <=> <<"watch", e, s>> \in N
                     /\ <<"check", e>> \in T <=> <<"check", e>> \in N
  BY DEF Besides, Late, Final

\* Where an object is listed when no sector is still to be left or entered.
Listed(T, o, s) ==
    \/ o \in sectors[s] <=> Home(o, s)
    \/ \E t \in Tiles : <<"watch", o, t>> \in T /\ (o \in sectors[s] <=> sector_id(t) = s)
    \/ <<"check", o>> \in T /\ ~Alive(o) /\ (o \in sectors[s] <=> sector_id(pos[o]) = s)

LEMMA AllListed ==
    ASSUME NEW T, NEW h, Besides(T, {h}), h[1] \notin Steps, Placed(T),
           NEW o \in Objects, NEW s \in Sectors
    PROVE  Listed({h}, o, s)
  <1>1. <<"leave", o, s>> \notin T /\ <<"enter", o, s>> \notin T
    BY DEF Besides, Late, Final, Steps
  <1>2. \A t : /\ <<"watch", o, t>> \in T => <<"watch", o, t>> \in {h}
               /\ <<"check", o>> \in T => <<"check", o>> \in {h}
    BY DEF Besides, Late, Final
  <1> QED BY <1>1, <1>2 DEF Placed, Listed

LEMMA OldViewersPlaced ==
    ASSUME NEW T, NEW T2, NEW n \in NPC, NEW t \in Tiles, NEW N,
           Besides(T, {<<"watch", n, t>>}), Besides(T2, N), Crossed(N, n, t, pos[n]),
           Alive(n), Placed(T), UNCHANGED <<sectors, pos, playing, m_hp>>
    PROVE  Placed(T2)'
  <1>1. \A e, s : /\ <<"leave", e, s>> \in T2 <=>
                       sector_id(t) # sector_id(pos[n]) /\ e = n /\ s = sector_id(t)
                  /\ <<"enter", e, s>> \in T2 <=>
                       sector_id(t) # sector_id(pos[n]) /\ e = n /\ s = sector_id(pos[n])
    BY StepsLeft DEF Crossed
  <1>2. \A e, s : Home(e, s)' <=> Home(e, s)
    BY DEF Home, InGame, Alive
  <1>3. \A s : Home(n, s) <=> sector_id(pos[n]) = s
    BY DEF Home, InGame
  <1>4. <<"watch", n, t>>[1] \notin Steps
    BY DEF Steps
  <1>5. ASSUME NEW o \in Objects, NEW s \in Sectors
        PROVE  \/ o \in sectors[s] <=> Home(o, s)
               \/ <<"leave", o, s>> \in T2 \/ <<"enter", o, s>> \in T2
    <2>1. Listed({<<"watch", n, t>>}, o, s)
      BY <1>4, AllListed
    <2>2. \/ o \in sectors[s] <=> Home(o, s)
          \/ o = n /\ (n \in sectors[s] <=> sector_id(t) = s)
      BY <2>1 DEF Listed
    <2> QED BY <1>1, <1>3, <2>2
  <1>6. ASSUME NEW o \in Objects, NEW s \in Sectors
        PROVE  /\ <<"leave", o, s>> \in T2 => ~Home(o, s)'
               /\ <<"enter", o, s>> \in T2 => Home(o, s)'
    BY <1>1, <1>2, <1>3
  <1>7. \A o \in Objects, s \in Sectors :
            \/ o \in sectors'[s] <=> Home(o, s)'
            \/ <<"leave", o, s>> \in T2 \/ <<"enter", o, s>> \in T2
    BY <1>2, <1>5
  <1> QED BY <1>6, <1>7 DEF Placed

\* A hit: when it kills, the death is still to be found out.
LEMMA DamageViews ==
    ASSUME NEW T, NEW T2, NEW n \in NPC, NEW i,
           Besides(T, {<<"store", n, i>>}), Besides(T2, {<<"check", n>>}),
           Clear(T), playing \subseteq PC, Alive(n),
           \A m \in NPC : m # n => m_hp'[m] = m_hp[m],
           UNCHANGED <<visible, g_objs, pos, playing>>
    PROVE  Aim(T2)' /\ Clear(T2)'
  <1>1. Aim(T2)'
    <2>1. \A x \in {<<"check", n>>} : x[1] \notin Tells
      BY DEF Tells, Pairs
    <2> QED BY <2>1, NothingTold
  <1>2. <<"check", n>> \in T2
    BY DEF Besides
  <1>3. ASSUME NEW p \in playing', NEW o \in Objects
        PROVE  Fixed(p, o)' \/ Read(T2, p, o)'
    <2>1. Fixed(p, o)
      <3>1. <<"store", n, i>>[1] \notin Tells
        BY DEF Tells, Pairs
      <3>2. Fixed(p, o) \/ Read({<<"store", n, i>>}, p, o)
        BY <3>1, OnlyRead
      <3>3. ~Read({<<"store", n, i>>}, p, o)
        BY DEF Read
      <3> QED BY <3>2, <3>3
    <2>2. Sees(p, o)' <=> Sees(p, o)
      BY DEF Sees
    <2>4. CASE Target(p, o)' <=> Target(p, o)
      BY <2>1, <2>4 DEF Fixed
    <2>5. CASE o = n /\ Target(p, n) /\ ~Target(p, n)'
      <3>1. Alive(n) /\ ~Alive(n)' /\ n # p /\ Sees(p, n)
        BY <2>2, <2>5 DEF Target, InGame
      <3>2. n \in visible'[p] /\ Sees(p, n)'
        BY <2>1, <2>2, <2>5, <3>1 DEF Fixed
      <3> QED BY <1>2, <2>5, <3>1, <3>2 DEF Read
    <2>6. o = n /\ Target(p, n)' => Target(p, n)
      BY <2>2 DEF Target, InGame
    <2>7. o # n => (Alive(o)' <=> Alive(o))
      BY DEF Alive, Objects
    <2>8. o # n => (Target(p, o)' <=> Target(p, o))
      BY <2>2, <2>7 DEF Target, InGame
    <2> QED BY <2>4, <2>5, <2>6, <2>8
  <1>4. Clear(T2)'
    BY <1>3 DEF Clear
  <1> QED BY <1>1, <1>4

LEMMA DamagePlaced ==
    ASSUME NEW T, NEW T2, NEW n \in NPC, NEW i,
           Besides(T, {<<"store", n, i>>}), Besides(T2, {<<"check", n>>}), Placed(T), Alive(n),
           \A m \in NPC : m # n => m_hp'[m] = m_hp[m], UNCHANGED <<sectors, pos, playing>>
    PROVE  Placed(T2)'
  <1>1. \A o, s : <<"leave", o, s>> \notin T2 /\ <<"enter", o, s>> \notin T2
    BY DEF Besides, Late, Final
  <1>2. <<"check", n>> \in T2
    BY DEF Besides
  <1>3. <<"store", n, i>>[1] \notin Steps
    BY DEF Steps
  <1>4. ASSUME NEW o \in Objects, NEW s \in Sectors
        PROVE  \/ o \in sectors'[s] <=> Home(o, s)'
               \/ <<"check", o>> \in T2 /\ ~Alive(o)' /\ (o \in sectors'[s] <=> sector_id(pos'[o]) = s)
    <2>1. Listed({<<"store", n, i>>}, o, s)
      BY <1>3, AllListed
    <2>2. o \in sectors[s] <=> Home(o, s)
      BY <2>1 DEF Listed
    <2>3. o # n => (Home(o, s)' <=> Home(o, s))
      BY DEF Home, InGame, Alive, Objects
    <2>4. o = n => (Home(o, s) <=> sector_id(pos[o]) = s)
      BY DEF Home, InGame
    <2>5. o = n /\ Alive(o)' => (Home(o, s)' <=> sector_id(pos[o]) = s)
      BY DEF Home, InGame
    <2> QED BY <1>2, <2>2, <2>3, <2>4, <2>5
  <1> QED BY <1>1, <1>4 DEF Placed

LEMMA DamageDying ==
    ASSUME NEW T, NEW T2, NEW n \in NPC, Besides(T2, {<<"check", n>>}), Dying(T), Alive(n),
           \A m \in NPC : m # n => m_hp'[m] = m_hp[m], UNCHANGED respawns
    PROVE  Dying(T2)'
  <1>1. \A m : <<"check", m>> \in T2 => m = n
    BY DEF Besides, Late, Final
  <1>2. \A m, a : /\ <<"bury", m>> \notin T2 /\ <<"store", m, a>> \notin T2
                  /\ <<"greet", m>> \notin T2 /\ <<"watch", m, a>> \notin T2
                  /\ <<"seen", m, a>> \notin T2
    BY DEF Besides, Late, Final
  <1>3. respawns[n] = 0
    BY DEF Dying
  <1>4. \A m \in NPC : m # n => (Alive(m)' <=> Alive(m))
    BY DEF Alive
  <1> QED BY <1>1, <1>2, <1>3, <1>4 DEF Dying

\* A death that is found out: whoever has the NPC in view is told.
Buried(N, n) ==
    /\ \A x \in N : x[1] \in {"rem", "leave", "bury"}
    /\ \A a, b : <<"rem", a, b>> \in N <=> b = n /\ a \in Around(pos[n]) \cap clients
    /\ \A a, b : <<"leave", a, b>> \in N <=> a = n /\ b = sector_id(pos[n])
    /\ \A a : <<"bury", a>> \in N <=> a = n

LEMMA JudgeViews ==
    ASSUME Typed, NEW T, NEW T2, NEW n \in NPC, NEW N,
           Besides(T, {<<"check", n>>}), Besides(T2, N), Buried(N, n), ~Alive(n),
           Clear(T), Placed(T), playing \subseteq clients,
           UNCHANGED <<visible, g_objs, pos, playing, m_hp>>
    PROVE  Aim(T2)' /\ Clear(T2)'
  <1>0. playing \subseteq PC /\ n \in Objects
    BY Sets DEF Typed
  <1>1. \A a, b : /\ <<"rem", a, b>> \in T2 <=> <<"rem", a, b>> \in N
                  /\ <<"put", a, b>> \notin T2 /\ <<"add", a, b>> \notin T2
                  /\ <<"del", a, b>> \notin T2 /\ <<"see", a, b>> \notin T2
    BY DEF Besides, Buried, Late, Final
  <1>2. ASSUME NEW p \in playing, NEW o \in Objects PROVE Sound(T2, p, o)
    <2>1. <<"rem", p, o>> \in T2 => o = n
      <3>1. <<"rem", p, o>> \in T2 => <<"rem", p, o>> \in N
        BY <1>1
      <3>2. <<"rem", p, o>> \in N => o = n
        BY DEF Buried
      <3> QED BY <3>1, <3>2
    <2>2. ~Target(p, n)
      BY <1>0, NpcTarget
    <2> QED BY <1>1, <2>1, <2>2 DEF Sound
  <1>3. ASSUME NEW p \in playing, NEW o \in Objects
        PROVE  Fixed(p, o) \/ Ask(T2, p, o)
    <2>1. <<"check", n>>[1] \notin Tells /\ <<"check", n>>[1] \notin Steps
      BY DEF Tells, Pairs, Steps
    <2>2. Fixed(p, o) \/ Read({<<"check", n>>}, p, o)
      BY <2>1, OnlyRead
    <2>3. Read({<<"check", n>>}, p, o) => o = n /\ o \in visible[p] /\ Sees(p, o)
      BY DEF Read
    <2>4. ASSUME o = n, o \in visible[p], Sees(p, o)
          PROVE  Ask(T2, p, o)
      <3>1. p \in PC /\ p \in Objects /\ p # n /\ p \in clients
        BY <1>0, <1>3, Sets
      <3>2. Exact(p)
        BY <2>1, <3>1, SectorsRight
      <3>3. pos[p] \in Tiles /\ pos[n] \in Tiles
        BY <1>0, <3>1 DEF Typed
      <3>4. can_see(pos[n], pos[p])
        BY <2>4, <3>3, SightIsMutual DEF Sees
      <3>5. InGame(p) /\ Alive(p)
        BY <1>3, <3>1 DEF InGame, Alive
      <3>6. p \in Around(pos[n])
        BY <3>1, <3>2, <3>3, <3>4, <3>5, Nearby
      <3>7. <<"rem", p, o>> \in T2
        BY <1>1, <2>4, <3>1, <3>6 DEF Buried
      <3> QED BY <2>4, <3>7 DEF Ask
    <2> QED BY <2>2, <2>3, <2>4
  <1> QED BY <1>2, <1>3, SameTold

LEMMA JudgePlaced ==
    ASSUME NEW T, NEW T2, NEW n \in NPC, NEW N,
           Besides(T, {<<"check", n>>}), Besides(T2, N), Buried(N, n), ~Alive(n),
           Placed(T), UNCHANGED <<sectors, pos, playing, m_hp>>
    PROVE  Placed(T2)'
  <1>1. \A a, b : /\ <<"leave", a, b>> \in T2 <=> a = n /\ b = sector_id(pos[n])
                  /\ <<"enter", a, b>> \notin T2
    <2>1. \A a, b : /\ <<"leave", a, b>> \in T2 <=> <<"leave", a, b>> \in N
                    /\ <<"enter", a, b>> \notin T2
      BY DEF Besides, Buried, Late, Final
    <2> QED BY <2>1 DEF Buried
  <1>2. \A e, s : Home(e, s)' <=> Home(e, s)
    BY DEF Home, InGame, Alive
  <1>3. \A s : ~Home(n, s)
    BY DEF Home
  <1>4. <<"check", n>>[1] \notin Steps
    BY DEF Steps
  <1>5. ASSUME NEW o \in Objects, NEW s \in Sectors
        PROVE  (o \in sectors'[s] <=> Home(o, s)') \/ <<"leave", o, s>> \in T2
    <2>1. Listed({<<"check", n>>}, o, s)
      BY <1>4, AllListed
    <2>2. \/ o \in sectors[s] <=> Home(o, s)
          \/ o = n /\ (n \in sectors[s] <=> sector_id(pos[n]) = s)
      BY <2>1 DEF Listed
    <2> QED BY <1>1, <1>2, <1>3, <2>2
  <1>6. ASSUME NEW o \in Objects, NEW s \in Sectors, <<"leave", o, s>> \in T2
        PROVE  ~Home(o, s)'
    <2>1. o = n
      BY <1>1, <1>6
    <2> QED BY <1>2, <1>3, <2>1
  <1> QED BY <1>1, <1>5, <1>6 DEF Placed

LEMMA JudgeDying ==
    ASSUME NEW T, NEW T2, NEW n \in NPC, NEW N,
           Besides(T, {<<"check", n>>}), Besides(T2, N), Buried(N, n), ~Alive(n),
           Dying(T), UNCHANGED <<respawns, m_hp>>
    PROVE  Dying(T2)'
  <1>1. \A m, a : /\ <<"bury", m>> \in T2 <=> <<"bury", m>> \in N
                  /\ <<"check", m>> \notin T2 /\ <<"store", m, a>> \notin T2
                  /\ <<"greet", m>> \notin T2 /\ <<"watch", m, a>> \notin T2
                  /\ <<"seen", m, a>> \notin T2
    BY DEF Besides, Buried, Late, Final
  <1>2. \A m : <<"bury", m>> \in T2 <=> m = n
    BY <1>1 DEF Buried
  <1>3. <<"check", n>> \in T
    BY DEF Besides
  <1>4. respawns[n] = 0
    BY <1>3 DEF Dying
  <1>5. \A m : Alive(m)' <=> Alive(m)
    BY DEF Alive
  <1>6. ASSUME NEW m \in NPC
        PROVE  /\ respawns'[m] <= 1
               /\ Alive(m)' \/ <<"bury", m>> \in T2 => respawns'[m] = 0
               /\ <<"bury", m>> \in T2 => ~Alive(m)'
    BY <1>2, <1>4, <1>5 DEF Dying
  <1> QED BY <1>1, <1>6 DEF Dying

\* A hit that has not killed.
LEMMA JudgeAlive ==
    ASSUME NEW T, NEW T2, NEW n \in NPC,
           Besides(T, {<<"check", n>>}), Besides(T2, {<<"wake", n>>}), Alive(n),
           Clear(T), Placed(T), Dying(T),
           UNCHANGED <<visible, g_objs, pos, playing, m_hp, sectors, respawns>>
    PROVE  Aim(T2)' /\ Clear(T2)' /\ Placed(T2)' /\ Dying(T2)'
  <1>1. Aim(T2)'
    <2>1. \A x \in {<<"wake", n>>} : x[1] \notin Tells
      BY DEF Tells
    <2> QED BY <2>1, NothingTold
  <1>2. <<"check", n>>[1] \notin Tells /\ <<"check", n>>[1] \notin Steps
    BY DEF Tells, Pairs, Steps
  <1>3. ASSUME NEW p \in playing', NEW o \in Objects PROVE Fixed(p, o)'
    <2>1. Fixed(p, o) \/ Read({<<"check", n>>}, p, o)
      BY <1>2, OnlyRead
    <2>2. ~Read({<<"check", n>>}, p, o)
      BY DEF Read
    <2> QED BY <2>1, <2>2, SameViews
  <1>4. Clear(T2)'
    BY <1>3 DEF Clear
  <1>5. ASSUME NEW o \in Objects, NEW s \in Sectors PROVE o \in sectors'[s] <=> Home(o, s)'
    <2>1. Listed({<<"check", n>>}, o, s)
      BY <1>2, AllListed
    <2>2. o \in sectors[s] <=> Home(o, s)
      BY <2>1 DEF Listed
    <2> QED BY <2>2 DEF Home, InGame, Alive
  <1>6. \A e, s : <<"leave", e, s>> \notin T2 /\ <<"enter", e, s>> \notin T2
    BY DEF Besides, Late, Final
  <1>7. Placed(T2)'
    BY <1>5, <1>6 DEF Placed
  <1>8. Dying(T2)'
    <2>1. \A x \in T2 : x[1] \notin {"check", "bury", "store", "greet", "watch", "seen"}
      BY DEF Besides, Late, Final
    <2> QED BY <2>1, DyingFrame
  <1> QED BY <1>1, <1>4, <1>7, <1>8

\* The end of npc_die.
LEMMA BuryDying ==
    ASSUME Typed, NEW T, NEW T2, NEW n \in NPC,
           Besides(T, {<<"bury", n>>}), Besides(T2, {}), Dying(T),
           respawns' = [respawns EXCEPT ![n] = @ + 1], UNCHANGED m_hp
    PROVE  Dying(T2)'
  <1>1. \A m, a : /\ <<"bury", m>> \notin T2 /\ <<"check", m>> \notin T2
                  /\ <<"store", m, a>> \notin T2 /\ <<"greet", m>> \notin T2
                  /\ <<"watch", m, a>> \notin T2 /\ <<"seen", m, a>> \notin T2
    BY DEF Besides, Late, Final
  <1>2. <<"bury", n>> \in T
    BY DEF Besides
  <1>3. respawns[n] = 0 /\ ~Alive(n)
    BY <1>2 DEF Dying
  <1>4. respawns'[n] = 1 /\ \A m \in NPC : m # n => respawns'[m] = respawns[m]
    BY <1>3 DEF Typed
  <1>5. \A m : Alive(m)' <=> Alive(m)
    BY DEF Alive
  <1>6. ASSUME NEW m \in NPC
        PROVE  respawns'[m] <= 1 /\ (Alive(m)' => respawns'[m] = 0)
    <2>1. CASE m = n
      BY <1>3, <1>4, <1>5, <2>1
    <2>2. CASE m # n
      BY <1>4, <1>5, <2>2 DEF Dying
    <2> QED BY <2>1, <2>2
  <1> QED BY <1>1, <1>6 DEF Dying
-----------------------------------------------------------------------------
(***************************************************************************)
(* The end of a session.                                                   *)
(***************************************************************************)
\* The rest of the handler that ends the session of p.
Ending(T, T2, R, p, N) ==
    /\ T = R \cup {<<"logout", p>>} /\ T2 = R \cup N
    /\ \A x \in R : x[1] \in Late \cup {"hide"}

\* p is not playing any more: who has it in view is in its view.
LEMMA LogoutViews ==
    ASSUME Typed, NEW T, NEW T2, NEW R, NEW p \in PC, NEW N,
           Ending(T, T2, R, p, N), \A x \in N : x[1] = "leave",
           Clear(T), Roll(T), playing' = playing \ {p}, UNCHANGED <<visible, g_objs, pos, m_hp>>
    PROVE  Aim(T2)' /\ Clear(T2)'
  <1>0. playing \subseteq PC /\ PC \subseteq Objects
    BY Sets DEF Typed, Roll
  <1>1. \A a, b : /\ <<"add", a, b>> \notin T2 /\ <<"put", a, b>> \notin T2
                  /\ <<"rem", a, b>> \notin T2 /\ <<"del", a, b>> \notin T2
                  /\ <<"see", a, b>> \notin T2
    BY DEF Ending, Late, Final
  <1>2. Aim(T2)'
    BY <1>1 DEF Aim, Sound
  <1>3. \A a, b : /\ <<"add", a, b>> \notin T /\ <<"put", a, b>> \notin T
                  /\ <<"rem", a, b>> \notin T /\ <<"del", a, b>> \notin T
                  /\ <<"see", a, b>> \notin T /\ <<"mov", a, b>> \notin T
    BY DEF Ending, Late, Final
  <1>4. \A a, b : /\ <<"view", a>> \notin T /\ <<"scan", a, b>> \notin T
                  /\ <<"watch", a, b>> \notin T /\ <<"seen", a, b>> \notin T
                  /\ <<"check", a>> \notin T /\ <<"greet", a>> \notin T
    BY DEF Ending, Late, Final
  <1>5. \A a : <<"hide", a>> \in T => <<"hide", a>> \in T2
    BY DEF Ending
  <1>6. <<"hide", p>> \in T2
    <2>1. <<"logout", p>> \in T
      BY DEF Ending
    <2> QED BY <1>5, <2>1 DEF Roll
  <1>7. ASSUME NEW q \in playing, NEW o \in Objects
        PROVE  \/ Fixed(q, o)
               \/ <<"hide", o>> \in T /\ o \in PC \ playing /\ o \in visible[q] /\ q \in visible[o]
    BY <1>3, <1>4 DEF Clear, Ask, Read
  <1>8. ASSUME NEW q \in playing', NEW o \in Objects
        PROVE  Fixed(q, o)' \/ Read(T2, q, o)'
    <2>1. /\ q \in playing /\ q # p /\ q \in PC /\ q \in Objects /\ p \in Objects
          /\ q \notin NPC /\ p \notin NPC
      BY <1>0, <1>8, Sets
    <2>2. CASE Fixed(q, o) /\ o # p
      <3>1. Target(q, o)' <=> Target(q, o)
        BY <2>2 DEF Target, Sees, InGame, Alive
      <3> QED BY <2>2, <3>1 DEF Fixed
    <2>3. CASE ~Fixed(q, o)
      <3>1. <<"hide", o>> \in T2 /\ o \in PC \ playing' /\ o \in visible'[q] /\ q \in visible'[o]
        BY <1>5, <1>7, <2>1, <2>3
      <3> QED BY <3>1 DEF Read
    <2>4. CASE Fixed(q, o) /\ o = p /\ ~Target(q, p)
      <3>1. ~Target(q, p)'
        BY <2>1, <2>4 DEF Target, Sees, InGame, Alive
      <3> QED BY <2>4, <3>1 DEF Fixed
    <2>5. CASE Fixed(q, o) /\ o = p /\ Target(q, p)
      <3>1. p \in visible[q] /\ Sees(q, p) /\ p \in playing
        BY <2>1, <2>5 DEF Fixed, Target, InGame
      <3>2. Sees(p, q)
        BY <2>1, <3>1, SeesBack
      <3>3. Target(p, q) /\ q # p
        BY <2>1, <3>2 DEF Target, InGame, Alive
      <3>4. Fixed(p, q)
        BY <1>7, <2>1, <3>1
      <3>5. q \in visible[p]
        BY <3>3, <3>4 DEF Fixed
      <3>6. <<"hide", o>> \in T2 /\ o \in PC \ playing' /\ o \in visible'[q] /\ q \in visible'[o]
        BY <1>6, <2>5, <3>1, <3>5
      <3> QED BY <3>6 DEF Read
    <2> QED BY <2>2, <2>3, <2>4, <2>5
  <1>9. Clear(T2)'
    BY <1>8 DEF Clear
  <1> QED BY <1>2, <1>9

LEMMA LogoutPlaced ==
    ASSUME Typed, NEW T, NEW T2, NEW R, NEW p \in PC,
           Ending(T, T2, R, p, {<<"leave", p, sector_id(pos[p])>>}), Placed(T),
           playing' = playing \ {p}, UNCHANGED <<sectors, pos, m_hp>>
    PROVE  Placed(T2)'
  <1>1. \A a, b : /\ <<"leave", a, b>> \notin T /\ <<"enter", a, b>> \notin T
                  /\ <<"watch", a, b>> \notin T /\ <<"check", a>> \notin T
    BY DEF Ending, Late, Final
  <1>2. \A a, b : /\ <<"enter", a, b>> \notin T2
                  /\ <<"leave", a, b>> \in T2 => a = p /\ b = sector_id(pos[p])
    BY DEF Ending, Late, Final
  <1>3. <<"leave", p, sector_id(pos[p])>> \in T2
    BY DEF Ending
  <1>4. \A s : ~Home(p, s)'
    BY Sets DEF Home, InGame
  <1>5. ASSUME NEW o \in Objects, NEW s \in Sectors
        PROVE  (o \in sectors'[s] <=> Home(o, s)') \/ <<"leave", o, s>> \in T2
    <2>1. o \in sectors[s] <=> Home(o, s)
      BY <1>1 DEF Placed
    <2>2. o # p => (Home(o, s)' <=> Home(o, s))
      BY DEF Home, InGame, Alive
    <2>3. s # sector_id(pos[p]) => ~Home(p, s)
      BY DEF Home
    <2> QED BY <1>3, <1>4, <2>1, <2>2, <2>3
  <1>6. ASSUME NEW o \in Objects, NEW s \in Sectors, <<"leave", o, s>> \in T2
        PROVE  ~Home(o, s)'
    <2>1. o = p
      BY <1>2, <1>6
    <2> QED BY <1>4, <2>1
  <1> QED BY <1>2, <1>5, <1>6 DEF Placed

LEMMA LogoutRoll ==
    ASSUME NEW T, NEW T2, NEW R, NEW p \in PC, NEW N,
           Ending(T, T2, R, p, N), \A x \in N : x[1] = "leave", Roll(T),
           playing' = playing \ {p}, UNCHANGED <<clients, saves>>
    PROVE  Roll(T2)'
  <1>1. \A a, b : /\ <<"close", a>> \notin T2 /\ <<"close", a>> \notin T
                  /\ <<"logout", a>> \notin T2
                  /\ <<"logout", a>> \in T => a = p
                  /\ <<"view", a>> \notin T2 /\ <<"scan", a, b>> \notin T2
                  /\ <<"hide", a>> \in T2 <=> <<"hide", a>> \in T
    BY DEF Ending, Late, Final
  <1>2. <<"logout", p>> \in T
    BY DEF Ending
  <1>3. \A q \in clients \ playing' : <<"hide", q>> \in T2
    BY <1>1, <1>2 DEF Roll
  <1>4. \A q \in PC : <<"hide", q>> \in T2 => q \notin playing'
    BY <1>1 DEF Roll
  <1>5. ASSUME NEW q \in PC PROVE saves'[q] = IF q \in playing' THEN 0 ELSE 1
    <2>1. saves[q] = IF q \in playing /\ <<"logout", q>> \notin T THEN 0 ELSE 1
      BY DEF Roll
    <2>2. CASE q = p
      BY <1>2, <2>1, <2>2
    <2>3. CASE q # p
      BY <1>1, <2>1, <2>3
    <2> QED BY <2>2, <2>3
  <1>6. playing' \subseteq clients'
    BY DEF Roll
  <1> QED BY <1>1, <1>3, <1>4, <1>5, <1>6 DEF Roll

\* p is hidden from the players in its view.
Hidden(N, p) ==
    /\ \A x \in N : x[1] \in {"rem", "close"}
    /\ \A a, b : <<"rem", a, b>> \in N <=> b = p /\ a \in visible[p] \cap PC
    /\ \A a : <<"close", a>> \in N <=> a = p

LEMMA HidePairs ==
    ASSUME Typed, NEW T, NEW T2, NEW p \in PC, NEW N,
           Besides(T, {<<"hide", p>>}), Besides(T2, N), Hidden(N, p), Clear(T), Roll(T),
           visible' = [visible EXCEPT ![p] = {}], UNCHANGED <<g_objs, pos, playing, m_hp>>
    PROVE  Aim(T2)' /\ Clear(T2)'
  <1>0. playing \subseteq PC /\ PC \subseteq Objects
    BY Sets DEF Typed, Roll
  <1>1. p \notin playing
    <2>1. <<"hide", p>> \in T /\ <<"logout", p>> \notin T
      BY DEF Besides, Late, Final
    <2> QED BY <2>1 DEF Roll
  <1>2. \A a, b : /\ <<"rem", a, b>> \in T2 <=> <<"rem", a, b>> \in N
                  /\ <<"put", a, b>> \notin T2 /\ <<"add", a, b>> \notin T2
                  /\ <<"del", a, b>> \notin T2 /\ <<"see", a, b>> \notin T2
    BY DEF Besides, Hidden, Late, Final
  <1>3. \A q \in playing : visible'[q] = visible[q]
    BY <1>0, <1>1 DEF Typed
  <1>4. \A q, o : Target(q, o)' <=> Target(q, o)
    BY DEF Target, Sees, InGame, Alive
  <1>5. ASSUME NEW q \in playing', NEW o \in Objects PROVE Sound(T2, q, o)'
    <2>1. ASSUME <<"rem", q, o>> \in T2 PROVE ~Target(q, o)'
      <3>1. <<"rem", q, o>> \in N
        BY <1>2, <2>1
      <3>2. o = p
        BY <3>1 DEF Hidden
      <3>3. ~Target(q, p)
        BY <1>1, <1>5, Sets DEF Target, InGame
      <3> QED BY <1>4, <3>2, <3>3
    <2> QED BY <1>2, <2>1 DEF Sound
  <1>6. ASSUME NEW q \in playing', NEW o \in Objects
        PROVE  Fixed(q, o)' \/ Ask(T2, q, o)'
    <2>1. <<"hide", p>>[1] \notin Tells
      BY DEF Tells, Pairs
    <2>2. Fixed(q, o) \/ Read({<<"hide", p>>}, q, o)
      BY <2>1, OnlyRead
    <2>3. Read({<<"hide", p>>}, q, o) => o = p /\ o \in visible[q] /\ q \in visible[o]
      BY DEF Read
    <2>4. Fixed(q, o) => Fixed(q, o)'
      BY <1>3, <1>4 DEF Fixed
    <2>5. ASSUME o = p, o \in visible[q], q \in visible[o]
          PROVE  Ask(T2, q, o)'
      <3>1. <<"rem", q, o>> \in N
        BY <1>0, <1>6, <2>5 DEF Hidden
      <3>2. <<"rem", q, o>> \in T2
        BY <1>2, <3>1
      <3>3. o \in visible'[q]
        BY <1>3, <2>5
      <3> QED BY <3>2, <3>3 DEF Ask
    <2> QED BY <2>2, <2>3, <2>4, <2>5
  <1> QED BY <1>5, <1>6 DEF Aim, Clear

LEMMA HideRoll ==
    ASSUME NEW T, NEW T2, NEW p \in PC, NEW N,
           Besides(T, {<<"hide", p>>}), Besides(T2, N), Hidden(N, p), Roll(T),
           UNCHANGED <<clients, playing, saves>>
    PROVE  Roll(T2)'
  <1>1. \A a, b : /\ <<"close", a>> \in T2 <=> <<"close", a>> \in N
                  /\ <<"logout", a>> \notin T2 /\ <<"hide", a>> \notin T2
                  /\ <<"view", a>> \notin T2 /\ <<"scan", a, b>> \notin T2
    BY DEF Besides, Hidden, Late, Final
  <1>2. \A a : <<"close", a>> \in T2 <=> a = p
    BY <1>1 DEF Hidden
  <1>3. \A a : /\ <<"logout", a>> \notin T /\ <<"close", a>> \notin T
               /\ <<"hide", a>> \in T <=> a = p
    BY DEF Besides, Late, Final
  <1>4. p \notin playing
    BY <1>3 DEF Roll
  <1> QED BY <1>1, <1>2, <1>3, <1>4 DEF Roll

LEMMA CloseRoll ==
    ASSUME NEW T, NEW T2, NEW p \in PC,
           Besides(T, {<<"close", p>>}), Besides(T2, {}), Roll(T),
           clients' = clients \ {p}, UNCHANGED <<playing, saves>>
    PROVE  Roll(T2)'
  <1>1. \A a, b : /\ <<"close", a>> \notin T2
                  /\ <<"logout", a>> \notin T2 /\ <<"hide", a>> \notin T2
                  /\ <<"view", a>> \notin T2 /\ <<"scan", a, b>> \notin T2
    BY DEF Besides, Late, Final
  <1>2. \A a : /\ <<"logout", a>> \notin T /\ <<"hide", a>> \notin T
               /\ <<"close", a>> \in T <=> a = p
    BY DEF Besides, Late, Final
  <1>3. p \notin playing
    BY <1>2 DEF Roll
  <1>4. playing' \subseteq clients'
    BY <1>3 DEF Roll
  <1>5. \A q \in clients' : q \in playing'
    BY <1>2 DEF Roll
  <1>6. \A q \in PC : saves'[q] = IF q \in playing' THEN 0 ELSE 1
    BY <1>2 DEF Roll
  <1> QED BY <1>1, <1>4, <1>5, <1>6 DEF Roll
-----------------------------------------------------------------------------
(***************************************************************************)
(* New handlers: the worker has nothing left to do, so everything is as it *)
(* should be.                                                              *)
(***************************************************************************)
LEMMA Settled ==
    ASSUME Clear({}), Placed({}), Roll({})
    PROVE  /\ \A p \in playing, o \in Objects : Fixed(p, o)
           /\ \A o \in Objects : Exact(o)
           /\ clients = playing
           /\ \A p \in PC : saves[p] = IF p \in playing THEN 0 ELSE 1
  <1>1. \A p, o : ~Ask({}, p, o) /\ ~Read({}, p, o)
    BY DEF Ask, Read
  <1>2. \A p \in playing, o \in Objects : Fixed(p, o)
    BY <1>1 DEF Clear
  <1>3. \A o \in Objects : Exact(o)
    BY DEF Placed, Exact
  <1>4. clients = playing
    BY DEF Roll
  <1>5. \A p \in PC : saves[p] = IF p \in playing THEN 0 ELSE 1
    BY DEF Roll
  <1> QED BY <1>2, <1>3, <1>4, <1>5

\* do_move has written the position.
LEMMA MoveViews ==
    ASSUME Typed, NEW T2, NEW q \in playing, NEW u \in Tiles, playing \subseteq PC,
           \A p \in playing, o \in Objects : Fixed(p, o),
           \A x \in T2 : x[1] \notin Tells, <<"view", q>> \in T2,
           pos' = [pos EXCEPT ![q] = u], UNCHANGED <<visible, g_objs, playing, m_hp>>
    PROVE  Aim(T2)' /\ Clear(T2)'
  <1>1. Aim(T2)'
    <2>1. Besides(T2, T2)
      BY DEF Besides
    <2> QED BY <2>1, NothingTold
  <1>2. ASSUME NEW p \in playing', NEW o \in Objects
        PROVE  Fixed(p, o)' \/ Read(T2, p, o)'
    <2>1. /\ Fixed(p, o) /\ p \in PC /\ q \in PC /\ p \in Objects /\ q \in Objects
          /\ p \notin NPC /\ q \notin NPC /\ pos[o] \in Tiles /\ pos[o] # NONE
      BY <1>2, Sets, NoneIsNowhere DEF Typed
    <2>2. CASE p # q /\ o # q
      <3>1. pos'[p] = pos[p] /\ pos'[o] = pos[o]
        BY <2>1, <2>2 DEF Typed
      <3>2. Target(p, o)' <=> Target(p, o)
        BY <3>1 DEF Target, Sees, InGame, Alive
      <3> QED BY <2>1, <3>1, <3>2 DEF Fixed
    <2>3. /\ o \in visible'[p] <=> o # p /\ Target(p, o)
          /\ g_objs'[p][o] = IF Target(p, o) THEN pos[o] ELSE NONE
          /\ Shown(p, o)' <=> Target(p, o)
      BY <2>1 DEF Fixed, Shown
    <2>4. CASE o = p /\ p = q
      <3>1. Target(p, o)
        BY <2>4 DEF Target
      <3>2. Moved(q, p, o)'
        BY <2>3, <2>4, <3>1 DEF Moved
      <3> QED BY <2>1, <2>4, <3>2 DEF Read
    <2>5. CASE o # p /\ p = q
      <3>1. pos'[o] = pos[o]
        BY <2>1, <2>5 DEF Typed
      <3>2. Moved(q, p, o)'
        BY <2>3, <2>5, <3>1 DEF Moved
      <3> QED BY <2>1, <2>5, <3>2 DEF Read
    <2>6. CASE o # p /\ o = q
      <3>1. Target(p, q) <=> Target(q, p)
        <4>1. Sees(p, q) <=> Sees(q, p)
          BY <2>1, SeesBack
        <4> QED BY <1>2, <2>1, <2>6, <4>1 DEF Target, InGame, Alive
      <3>2. p \in visible'[q] <=> Target(q, p)
        BY <2>1, <2>6 DEF Fixed
      <3>3. Moved(q, p, o)'
        BY <2>3, <2>6, <3>1, <3>2 DEF Moved
      <3> QED BY <2>1, <2>6, <3>3 DEF Read
    <2> QED BY <2>2, <2>4, <2>5, <2>6
  <1>3. Clear(T2)'
    BY <1>2 DEF Clear
  <1> QED BY <1>1, <1>3

LEMMA MovePlaced ==
    ASSUME Typed, NEW T2, NEW q \in playing, NEW u \in Tiles, playing \subseteq PC,
           \A o \in Objects : Exact(o), Crossed(T2, q, pos[q], u),
           pos' = [pos EXCEPT ![q] = u], UNCHANGED <<sectors, playing, m_hp>>
    PROVE  Placed(T2)'
  <1>1. q \in PC /\ q \in Objects /\ pos'[q] = u /\ \A o \in Objects : o # q => pos'[o] = pos[o]
    BY Sets DEF Typed
  <1>2. \A s : /\ Home(q, s) <=> sector_id(pos[q]) = s
               /\ Home(q, s)' <=> sector_id(u) = s
    BY <1>1 DEF Home, InGame, Alive
  <1>3. \A o \in Objects, s \in Sectors : o # q => (Home(o, s)' <=> Home(o, s))
    BY <1>1 DEF Home, InGame, Alive
  <1>4. \A e, s : /\ <<"leave", e, s>> \in T2 <=>
                       sector_id(pos[q]) # sector_id(u) /\ e = q /\ s = sector_id(pos[q])
                  /\ <<"enter", e, s>> \in T2 <=>
                       sector_id(pos[q]) # sector_id(u) /\ e = q /\ s = sector_id(u)
    BY DEF Crossed
  <1>5. ASSUME NEW o \in Objects, NEW s \in Sectors
        PROVE  /\ <<"leave", o, s>> \in T2 => ~Home(o, s)'
               /\ <<"enter", o, s>> \in T2 => Home(o, s)'
               /\ \/ o \in sectors'[s] <=> Home(o, s)'
                  \/ <<"leave", o, s>> \in T2 \/ <<"enter", o, s>> \in T2
    <2>1. o \in sectors[s] <=> Home(o, s)
      BY DEF Exact
    <2>2. CASE o = q
      BY <1>2, <1>4, <2>1, <2>2
    <2>3. CASE o # q
      BY <1>3, <1>4, <2>1, <2>3
    <2> QED BY <2>2, <2>3
  <1> QED BY <1>5 DEF Placed

\* process_npc_move has moved a NPC.
LEMMA TickViews ==
    ASSUME Typed, NEW T2, NEW n \in NPC, Alive(n), NEW t, t = pos[n], playing \subseteq PC,
           \A p \in playing, o \in Objects : Fixed(p, o),
           \A x \in T2 : x[1] \notin Tells, <<"watch", n, t>> \in T2,
           \A o \in Objects : o # n => pos'[o] = pos[o],
           UNCHANGED <<visible, g_objs, playing, m_hp>>
    PROVE  Aim(T2)' /\ Clear(T2)'
  <1>1. Aim(T2)'
    <2>1. Besides(T2, T2)
      BY DEF Besides
    <2> QED BY <2>1, NothingTold
  <1>2. ASSUME NEW p \in playing', NEW o \in Objects
        PROVE  Fixed(p, o)' \/ Read(T2, p, o)'
    <2>1. /\ Fixed(p, o) /\ p \in PC /\ p \in Objects /\ p # n /\ pos'[p] = pos[p]
          /\ pos[o] \in Tiles /\ pos[o] # NONE
      BY <1>2, Sets, NoneIsNowhere DEF Typed
    <2>2. CASE o # n
      <3>1. pos'[o] = pos[o]
        BY <2>2
      <3>2. Target(p, o)' <=> Target(p, o)
        BY <2>1, <3>1 DEF Target, Sees, InGame, Alive
      <3> QED BY <2>1, <3>1, <3>2 DEF Fixed
    <2>3. CASE o = n
      <3>1. Target(p, o) <=> can_see(pos'[p], t)
        BY <1>2, <2>1, <2>3, NpcTarget
      <3>2. /\ o \in visible'[p] <=> Target(p, o)
            /\ Shown(p, o)' <=> Target(p, o)
        BY <2>1, <2>3 DEF Fixed, Shown
      <3>3. t \in Tiles /\ <<"watch", o, t>> \in T2
        BY <2>1, <2>3
      <3> QED BY <3>1, <3>2, <3>3 DEF Read
    <2> QED BY <2>2, <2>3
  <1>3. Clear(T2)'
    BY <1>2 DEF Clear
  <1> QED BY <1>1, <1>3

LEMMA TickPlaced ==
    ASSUME Typed, NEW T2, NEW n \in NPC, Alive(n), NEW t, t = pos[n],
           \A o \in Objects : Exact(o),
           \A x \in T2 : x[1] \notin Steps, <<"watch", n, t>> \in T2,
           \A o \in Objects : o # n => pos'[o] = pos[o], UNCHANGED <<sectors, playing, m_hp>>
    PROVE  Placed(T2)'
  <1>1. \A e, s : <<"leave", e, s>> \notin T2 /\ <<"enter", e, s>> \notin T2
    BY DEF Steps
  <1>2. \A s : Home(n, s) <=> sector_id(t) = s
    BY DEF Home, InGame
  <1>3. \A o \in Objects, s \in Sectors : o # n => (Home(o, s)' <=> Home(o, s))
    BY DEF Home, InGame, Alive
  <1>4. t \in Tiles
    BY Sets DEF Typed
  <1>5. ASSUME NEW o \in Objects, NEW s \in Sectors
        PROVE  \/ o \in sectors'[s] <=> Home(o, s)'
               \/ \E a \in Tiles : <<"watch", o, a>> \in T2 /\ (o \in sectors'[s] <=> sector_id(a) = s)
    <2>1. o \in sectors[s] <=> Home(o, s)
      BY DEF Exact
    <2>2. CASE o = n
      BY <1>2, <1>4, <2>1, <2>2
    <2>3. CASE o # n
      BY <1>3, <2>1, <2>3
    <2> QED BY <2>2, <2>3
  <1> QED BY <1>1, <1>5 DEF Placed

LEMMA TickDying ==
    ASSUME NEW T2, NEW n \in NPC, Alive(n), Dying({}), NEW t,
           T2 = {<<"watch", n, t>>, <<"stay", n>>}, UNCHANGED <<respawns, m_hp>>
    PROVE  Dying(T2)'
  <1>1. \A m, a : /\ <<"bury", m>> \notin T2 /\ <<"check", m>> \notin T2
                  /\ <<"store", m, a>> \notin T2 /\ <<"greet", m>> \notin T2
                  /\ <<"seen", m, a>> \notin T2
                  /\ <<"watch", m, a>> \in T2 => m = n
    OBVIOUS
  <1>2. \A m : Alive(m)' <=> Alive(m)
    BY DEF Alive
  <1> QED BY <1>1, <1>2 DEF Dying

\* process_npc_respawn has brought a NPC back.
LEMMA RespawnDead ==
    ASSUME Typed, NEW n \in NPC, Dying({}), respawns[n] > 0
    PROVE  ~Alive(n) /\ respawns[n] = 1
  BY DEF Dying, Typed

LEMMA RespawnViews ==
    ASSUME Typed, NEW T2, NEW n \in NPC, ~Alive(n), playing \subseteq PC,
           \A p \in playing, o \in Objects : Fixed(p, o),
           \A x \in T2 : x[1] \notin Tells, <<"greet", n>> \in T2,
           \A o \in Objects : o # n => pos'[o] = pos[o],
           \A m \in NPC : m # n => m_hp'[m] = m_hp[m],
           UNCHANGED <<visible, g_objs, playing>>
    PROVE  Aim(T2)' /\ Clear(T2)'
  <1>1. Aim(T2)'
    <2>1. Besides(T2, T2)
      BY DEF Besides
    <2> QED BY <2>1, NothingTold
  <1>2. ASSUME NEW p \in playing', NEW o \in Objects
        PROVE  Fixed(p, o)' \/ Read(T2, p, o)'
    <2>1. Fixed(p, o) /\ p \in PC /\ p \in Objects /\ p # n /\ pos'[p] = pos[p]
      BY <1>2, Sets
    <2>2. CASE o # n
      <3>1. pos'[o] = pos[o] /\ (Alive(o)' <=> Alive(o))
        BY <2>2 DEF Alive, Objects
      <3>2. Target(p, o)' <=> Target(p, o)
        BY <2>1, <3>1 DEF Target, Sees, InGame
      <3> QED BY <2>1, <3>1, <3>2 DEF Fixed
    <2>3. CASE o = n
      <3>1. ~Target(p, n)
        BY <1>2, NpcTarget
      <3>2. o \notin visible'[p] /\ ~Shown(p, o)'
        BY <2>1, <2>3, <3>1 DEF Fixed, Shown
      <3> QED BY <2>3, <3>2 DEF Read
    <2> QED BY <2>2, <2>3
  <1>3. Clear(T2)'
    BY <1>2 DEF Clear
  <1> QED BY <1>1, <1>3

LEMMA RespawnPlaced ==
    ASSUME NEW T2, NEW n \in NPC, ~Alive(n), Alive(n)', NEW u, u = sector_id(pos'[n]),
           \A o \in Objects : Exact(o), T2 = {<<"enter", n, u>>, <<"greet", n>>},
           \A o \in Objects : o # n => pos'[o] = pos[o],
           \A m \in NPC : m # n => m_hp'[m] = m_hp[m], UNCHANGED <<sectors, playing>>
    PROVE  Placed(T2)'
  <1>1. \A e, s : /\ <<"leave", e, s>> \notin T2
                  /\ <<"enter", e, s>> \in T2 <=> e = n /\ s = u
    OBVIOUS
  <1>2. \A s : ~Home(n, s) /\ (Home(n, s)' <=> s = u)
    BY DEF Home, InGame
  <1>3. \A o \in Objects, s \in Sectors : o # n => (Home(o, s)' <=> Home(o, s))
    BY DEF Home, InGame, Alive, Objects
  <1>4. ASSUME NEW o \in Objects, NEW s \in Sectors
        PROVE  /\ <<"enter", o, s>> \in T2 => Home(o, s)'
               /\ (o \in sectors'[s] <=> Home(o, s)') \/ <<"enter", o, s>> \in T2
    <2>1. o \in sectors[s] <=> Home(o, s)
      BY DEF Exact
    <2>2. CASE o = n
      BY <1>1, <1>2, <2>1, <2>2
    <2>3. CASE o # n
      BY <1>1, <1>3, <2>1, <2>3
    <2> QED BY <2>2, <2>3
  <1> QED BY <1>1, <1>4 DEF Placed

LEMMA RespawnDying ==
    ASSUME Typed, NEW T2, NEW n \in NPC, Dying({}), respawns[n] = 1, NEW u, Alive(n)',
           T2 = {<<"enter", n, u>>, <<"greet", n>>}, respawns' = [respawns EXCEPT ![n] = @ - 1],
           \A m \in NPC : m # n => m_hp'[m] = m_hp[m]
    PROVE  Dying(T2)'
  <1>1. \A m, a : /\ <<"bury", m>> \notin T2 /\ <<"check", m>> \notin T2
                  /\ <<"store", m, a>> \notin T2 /\ <<"watch", m, a>> \notin T2
                  /\ <<"seen", m, a>> \notin T2
                  /\ <<"greet", m>> \in T2 => m = n
    OBVIOUS
  <1>2. respawns'[n] = 0 /\ \A m \in NPC : m # n => respawns'[m] = respawns[m]
    BY DEF Typed
  <1>3. ASSUME NEW m \in NPC
        PROVE  respawns'[m] <= 1 /\ (Alive(m)' => respawns'[m] = 0)
    <2>1. CASE m = n
      BY <1>2, <2>1
    <2>2. CASE m # n
      BY <1>2, <2>2 DEF Dying, Alive
    <2> QED BY <2>1, <2>2
  <1> QED BY <1>1, <1>3 DEF Dying
-----------------------------------------------------------------------------
(***************************************************************************)
(* One step of the only worker.                                            *)
(***************************************************************************)
Kept(w) == \E T2 : T2 = Left(w)' /\ One(todo[w], T2)'

LEMMA KeptBy ==
    ASSUME NEW w, NEW T2, T2 = Left(w)', Ranked(todo'[w]), Aim(T2)', Clear(T2)',
           Placed(T2)', Roll(T2)', Dying(T2)'
    PROVE  Kept(w)
  BY DEF Kept, One

\* What is left, with the operation h done and N in its place.
Turns(T, T2, R, name, h, N) ==
    /\ T = R \cup {h} /\ T2 = R \cup N /\ h[1] = name
    /\ \A x \in R : Follows(name, x[1])

LEMMA Turn ==
    ASSUME Typed, Shape, NEW w \in Workers, NEW T, T = Left(w), One(todo[w], T),
           NEW name, Op(w, name), NEW ops \in Seq(Ops), Fits(name, ops), Then(w, ops),
           NEW h, h = Head(todo[w])
    PROVE  \E T2, R : /\ Turns(T, T2, R, name, h, Elems(ops))
                      /\ T2 = Left(w)' /\ Ranked(todo'[w])
  <1> HIDE DEF Ops
  <1>1. Ranked(todo[w])
    BY DEF One
  <1>2. /\ Ranked(todo'[w])
        /\ \E R \in SUBSET Ops : /\ Left(w) = R \cup {Head(todo[w])}
                                 /\ Left(w)' = R \cup Elems(ops)
                                 /\ \A x \in R : Follows(name, x[1])
    BY <1>1, Works
  <1>3. h[1] = name
    BY NextOp
  <1>4. PICK R : /\ Left(w) = R \cup {h}
                 /\ Left(w)' = R \cup Elems(ops)
                 /\ \A x \in R : Follows(name, x[1])
    BY <1>2
  <1>5. PICK T2 : T2 = Left(w)'
    OBVIOUS
  <1>6. Turns(T, T2, R, name, h, Elems(ops))
    BY <1>3, <1>4, <1>5 DEF Turns
  <1> QED BY <1>2, <1>5, <1>6

LEMMA ReadTurn ==
    ASSUME NEW T, NEW T2, NEW R, NEW name, NEW h, NEW N, Turns(T, T2, R, name, h, N),
           name \notin Steps \cup Pairs \cup {"logout"}
    PROVE  Besides(T, {h}) /\ Besides(T2, N)
  BY DEF Turns, Follows, Besides

LEMMA ViewTurn ==
    ASSUME NEW T, NEW T2, NEW R, NEW name, NEW h, NEW N, Turns(T, T2, R, name, h, N),
           name \notin Tells \cup Reads, \A x \in N : x[1] \notin Tells,
           Aim(T), Clear(T), UNCHANGED <<visible, g_objs, pos, playing, m_hp>>
    PROVE  Aim(T2)' /\ Clear(T2)'
  <1>1. \A x \in T2 : x[1] \in Tells => x \in T
    BY DEF Turns
  <1>2. \A x \in T : x[1] \in Tells \cup Reads => x \in T2
    BY DEF Turns
  <1> QED BY <1>1, <1>2, ViewFrame

LEMMA PlacedTurn ==
    ASSUME NEW T, NEW T2, NEW R, NEW name, NEW h, NEW N, Turns(T, T2, R, name, h, N),
           name \notin Steps \cup {"watch", "check"}, \A x \in N : x[1] \notin Steps,
           Placed(T), UNCHANGED <<sectors, pos, playing, m_hp>>
    PROVE  Placed(T2)'
  <1>1. \A x \in T2 : x[1] \in Steps => x \in T
    BY DEF Turns
  <1>2. \A x \in T : x[1] \in Steps \cup {"watch", "check"} => x \in T2
    BY DEF Turns
  <1> QED BY <1>1, <1>2, PlacedFrame

Ends == {"hide", "close", "logout"}
Rolls == Ends \cup {"view", "scan"}
Dies == {"check", "bury", "store", "greet", "watch", "seen"}

LEMMA RollTurn ==
    ASSUME NEW T, NEW T2, NEW R, NEW name, NEW h, NEW N, Turns(T, T2, R, name, h, N),
           name \notin Ends, \A x \in N : x[1] \notin Rolls,
           Roll(T), UNCHANGED <<clients, playing, saves>>
    PROVE  Roll(T2)'
  <1>1. \A x : x[1] \in {"hide", "close", "logout"} => (x \in T <=> x \in T2)
    BY DEF Turns, Rolls, Ends
  <1>2. \A x \in T2 : x[1] \in {"view", "scan"} => x \in T
    BY DEF Turns, Rolls
  <1> QED BY <1>1, <1>2, RollFrame

LEMMA DyingTurn ==
    ASSUME NEW T, NEW T2, NEW R, NEW name, NEW h, NEW N, Turns(T, T2, R, name, h, N),
           \A x \in N : x[1] \notin Dies, Dying(T), UNCHANGED <<respawns, m_hp>>
    PROVE  Dying(T2)'
  <1>1. \A x \in T2 : x[1] \in {"check", "bury", "store", "greet", "watch", "seen"} => x \in T
    BY DEF Turns, Dies
  <1> QED BY <1>1, DyingFrame

\* The operations that follow.
LEMMA FitsNone == \A name : Fits(name, <<>>) /\ Elems(<<>>) = {}
  BY RankedShort, ElemsShort DEF Fits

LEMMA FitsOne ==
    ASSUME NEW name, NEW x,
           \/ x[1] \in Steps
           \/ name \in Pairs /\ x[1] \in Pairs
           \/ name \notin Steps \cup Pairs \cup {"logout"}
    PROVE  Fits(name, <<x>>) /\ Elems(<<x>>) = {x}
  BY RankedShort, ElemsShort DEF Fits

\* What a player is told about a pair.
LEMMA PairKept ==
    ASSUME NEW w, NEW T, NEW T2, NEW R, NEW name \in Pairs, NEW h, NEW N,
           Turns(T, T2, R, name, h, N), \A x \in N : x[1] \in Pairs,
           T2 = Left(w)', Ranked(todo'[w]), One(todo[w], T), Aim(T2)', Clear(T2)',
           UNCHANGED <<sectors, pos, m_hp, respawns, clients, playing, saves>>
    PROVE  Kept(w)
  <1>1. /\ name \notin Steps \cup {"watch", "check"} /\ name \notin Ends
        /\ \A x \in N : x[1] \notin Steps /\ x[1] \notin Rolls /\ x[1] \notin Dies
    BY DEF Pairs, Steps, Rolls, Ends, Dies
  <1>2. Placed(T2)'
    BY <1>1, PlacedTurn DEF One
  <1>3. Roll(T2)'
    BY <1>1, RollTurn DEF One
  <1>4. Dying(T2)'
    BY <1>1, DyingTurn DEF One
  <1> QED BY <1>2, <1>3, <1>4, KeptBy

LEMMA SendAddKept ==
    ASSUME Typed, Shape, NEW w \in Workers, NEW T, T = Left(w), One(todo[w], T), SendAdd(w)
    PROVE  Kept(w)
  <1> HIDE DEF Ops, Calm
  <1>1. Op(w, "add")
    BY DEF SendAdd
  <1>2. PICK p \in PC, o \in Objects : p = Arg(w, 1) /\ o = Arg(w, 2)
    BY <1>1, HeadTypes
  <1>3. PICK h : h = Head(todo[w]) /\ h = <<"add", p, o>>
    BY <1>1, <1>2, HeadIs DEF Three
  <1>4. "add" \in Pairs /\ <<"put", p, o>>[1] \in Pairs
    BY DEF Pairs
  <1>5. PICK ops \in Seq(Ops) :
            /\ Then(w, ops) /\ Fits("add", ops)
            /\ IF can_send(p) /\ Known(o) /\ InGame(o) /\ o \notin visible[p]
               THEN visible' = [visible EXCEPT ![p] = @ \cup {o}] /\ Elems(ops) = {<<"put", p, o>>}
               ELSE UNCHANGED visible /\ Elems(ops) = {}
    <2>1. <<<<"put", p, o>>>> \in Seq(Ops) /\ <<>> \in Seq(Ops)
      BY CalmOps, CalmSeq, Short
    <2>2. Fits("add", <<<<"put", p, o>>>>) /\ Elems(<<<<"put", p, o>>>>) = {<<"put", p, o>>}
      BY <1>4, FitsOne
    <2>3. CASE can_send(p) /\ Known(o) /\ InGame(o) /\ o \notin visible[p]
      <3>1. Then(w, <<<<"put", p, o>>>>) /\ visible' = [visible EXCEPT ![p] = @ \cup {o}]
        BY <1>2, <2>3 DEF SendAdd
      <3> QED BY <2>1, <2>2, <2>3, <3>1
    <2>4. CASE ~(can_send(p) /\ Known(o) /\ InGame(o) /\ o \notin visible[p])
      <3>1. Then(w, <<>>) /\ UNCHANGED visible
        BY <1>2, <2>4 DEF SendAdd
      <3> QED BY <2>1, <2>4, <3>1, FitsNone
    <2> QED BY <2>3, <2>4
  <1>6. PICK N : N = Elems(ops)
    OBVIOUS
  <1>7. PICK T2, R : Turns(T, T2, R, "add", h, N) /\ T2 = Left(w)' /\ Ranked(todo'[w])
    BY <1>1, <1>3, <1>5, <1>6, Turn
  <1>8. Does(T, T2, R, "add", p, o, N)
    BY <1>3, <1>7 DEF Turns, Does
  <1>9. UNCHANGED <<pos, sectors, g_objs, clients, playing, saves, m_hp, respawns>>
    BY DEF SendAdd, players, npcs
  <1>10. Aim(T) /\ Clear(T) /\ playing \subseteq clients
    BY DEF One, Roll
  <1>11. Aim(T2)' /\ Clear(T2)'
    BY <1>5, <1>6, <1>8, <1>9, <1>10, SendAddPair
  <1>12. \A x \in N : x[1] \in Pairs
    BY <1>4, <1>5, <1>6
  <1> QED BY <1>4, <1>7, <1>9, <1>11, <1>12, PairKept

LEMMA EndTurn ==
    ASSUME Typed, Shape, NEW w \in Workers, NEW T, T = Left(w), One(todo[w], T),
           NEW name, Op(w, name), Then(w, <<>>), NEW h, h = Head(todo[w])
    PROVE  \E T2, R : Turns(T, T2, R, name, h, {}) /\ T2 = Left(w)' /\ Ranked(todo'[w])
  <1> HIDE DEF Ops
  <1>1. <<>> \in Seq(Ops) /\ Fits(name, <<>>) /\ Elems(<<>>) = {}
    BY FitsNone, Short
  <1>2. \E T2, R : /\ Turns(T, T2, R, name, h, Elems(<<>>))
                   /\ T2 = Left(w)' /\ Ranked(todo'[w])
    BY <1>1, Turn
  <1> QED BY <1>1, <1>2

LEMMA OneTurn ==
    ASSUME Typed, Shape, NEW w \in Workers, NEW T, T = Left(w), One(todo[w], T),
           NEW name, Op(w, name), NEW x \in Ops, Then(w, <<x>>), NEW h, h = Head(todo[w]),
           \/ x[1] \in Steps
           \/ name \in Pairs /\ x[1] \in Pairs
           \/ name \notin Steps \cup Pairs \cup {"logout"}
    PROVE  \E T2, R : Turns(T, T2, R, name, h, {x}) /\ T2 = Left(w)' /\ Ranked(todo'[w])
  <1> HIDE DEF Ops
  <1>1. <<x>> \in Seq(Ops)
    BY Short
  <1>2. Fits(name, <<x>>) /\ Elems(<<x>>) = {x}
    BY FitsOne
  <1>3. \E T2, R : /\ Turns(T, T2, R, name, h, Elems(<<x>>))
                   /\ T2 = Left(w)' /\ Ranked(todo'[w])
    BY <1>1, <1>2, Turn
  <1> QED BY <1>2, <1>3

LEMMA PutAddKept ==
    ASSUME Typed, Shape, Drawn, NEW w \in Workers, NEW T, T = Left(w), One(todo[w], T), PutAdd(w)
    PROVE  Kept(w)
  <1> HIDE DEF Ops
  <1>1. Op(w, "put") /\ Then(w, <<>>)
    BY DEF PutAdd
  <1>2. PICK p \in PC, o \in Objects : p = Arg(w, 1) /\ o = Arg(w, 2)
    BY <1>1, HeadTypes
  <1>3. PICK h : h = Head(todo[w]) /\ h = <<"put", p, o>>
    BY <1>1, <1>2, HeadIs DEF Three
  <1>4. PICK T2, R : Turns(T, T2, R, "put", h, {}) /\ T2 = Left(w)' /\ Ranked(todo'[w])
    BY <1>1, <1>3, EndTurn
  <1>5. Does(T, T2, R, "put", p, o, {})
    BY <1>3, <1>4 DEF Turns, Does
  <1>6. /\ UNCHANGED <<pos, sectors, visible, clients, playing, saves, m_hp, respawns>>
        /\ Draw(p, o)
    BY <1>2 DEF PutAdd, players, npcs
  <1>7. Aim(T) /\ Clear(T) /\ playing \subseteq PC /\ "put" \in Pairs
    BY DEF One, Roll, Typed, Pairs
  <1>8. Aim(T2)' /\ Clear(T2)'
    BY <1>5, <1>6, <1>7, PutAddPair
  <1>9. \A x \in {} : x[1] \in Pairs
    OBVIOUS
  <1> QED BY <1>4, <1>6, <1>7, <1>8, <1>9, PairKept

LEMMA PutRemoveKept ==
    ASSUME Typed, Shape, Drawn, NEW w \in Workers, NEW T, T = Left(w), One(todo[w], T),
           PutRemove(w)
    PROVE  Kept(w)
  <1> HIDE DEF Ops
  <1>1. Op(w, "del") /\ Then(w, <<>>)
    BY DEF PutRemove
  <1>2. PICK p \in PC, o \in Objects : p = Arg(w, 1) /\ o = Arg(w, 2)
    BY <1>1, HeadTypes
  <1>3. PICK h : h = Head(todo[w]) /\ h = <<"del", p, o>>
    BY <1>1, <1>2, HeadIs DEF Three
  <1>4. PICK T2, R : Turns(T, T2, R, "del", h, {}) /\ T2 = Left(w)' /\ Ranked(todo'[w])
    BY <1>1, <1>3, EndTurn
  <1>5. Does(T, T2, R, "del", p, o, {})
    BY <1>3, <1>4 DEF Turns, Does
  <1>6. /\ UNCHANGED <<pos, sectors, visible, clients, playing, saves, m_hp, respawns>>
        /\ Erase(p, o)
    BY <1>2 DEF PutRemove, players, npcs
  <1>7. Aim(T) /\ Clear(T) /\ playing \subseteq PC /\ "del" \in Pairs
    BY DEF One, Roll, Typed, Pairs
  <1>8. Aim(T2)' /\ Clear(T2)'
    BY <1>5, <1>6, <1>7, PutRemovePair
  <1>9. \A x \in {} : x[1] \in Pairs
    OBVIOUS
  <1> QED BY <1>4, <1>6, <1>7, <1>8, <1>9, PairKept

LEMMA SendMoveKept ==
    ASSUME Typed, Shape, Drawn, NEW w \in Workers, NEW T, T = Left(w), One(todo[w], T),
           SendMove(w)
    PROVE  Kept(w)
  <1> HIDE DEF Ops
  <1>1. Op(w, "mov") /\ Then(w, <<>>)
    BY DEF SendMove
  <1>2. PICK p \in PC, o \in Objects : p = Arg(w, 1) /\ o = Arg(w, 2)
    BY <1>1, HeadTypes
  <1>3. PICK h : h = Head(todo[w]) /\ h = <<"mov", p, o>>
    BY <1>1, <1>2, HeadIs DEF Three
  <1>4. PICK T2, R : Turns(T, T2, R, "mov", h, {}) /\ T2 = Left(w)' /\ Ranked(todo'[w])
    BY <1>1, <1>3, EndTurn
  <1>5. Does(T, T2, R, "mov", p, o, {})
    BY <1>3, <1>4 DEF Turns, Does
  <1>6. /\ UNCHANGED <<pos, sectors, visible, clients, playing, saves, m_hp, respawns>>
        /\ IF can_send(p) /\ Known(o) /\ InGame(o) THEN Follow(p, o) ELSE UNCHANGED g_objs
    BY <1>2 DEF SendMove, players, npcs
  <1>7. Aim(T) /\ Clear(T) /\ playing \subseteq clients /\ "mov" \in Pairs
    BY DEF One, Roll, Pairs
  <1>8. Aim(T2)' /\ Clear(T2)'
    BY <1>5, <1>6, <1>7, SendMovePair
  <1>9. \A x \in {} : x[1] \in Pairs
    OBVIOUS
  <1> QED BY <1>4, <1>6, <1>7, <1>8, <1>9, PairKept

LEMMA SendRemoveKept ==
    ASSUME Typed, Shape, NEW w \in Workers, NEW T, T = Left(w), One(todo[w], T), SendRemove(w)
    PROVE  Kept(w)
  <1> HIDE DEF Ops, Calm
  <1>1. Op(w, "rem")
    BY DEF SendRemove
  <1>2. PICK p \in PC, o \in Objects : p = Arg(w, 1) /\ o = Arg(w, 2)
    BY <1>1, HeadTypes
  <1>3. PICK h : h = Head(todo[w]) /\ h = <<"rem", p, o>>
    BY <1>1, <1>2, HeadIs DEF Three
  <1>4. "rem" \in Pairs /\ <<"del", p, o>>[1] \in Pairs
    BY DEF Pairs
  <1>5. UNCHANGED <<pos, sectors, g_objs, clients, playing, saves, m_hp, respawns>>
    BY DEF SendRemove, players, npcs
  <1>6. Aim(T) /\ Clear(T) /\ playing \subseteq clients
    BY DEF One, Roll
  <1>7. PICK T2, R, N :
            /\ Turns(T, T2, R, "rem", h, N) /\ T2 = Left(w)' /\ Ranked(todo'[w])
            /\ IF can_send(p) /\ o \in visible[p]
               THEN visible' = [visible EXCEPT ![p] = @ \ {o}] /\ N = {<<"del", p, o>>}
               ELSE UNCHANGED visible /\ N = {}
    <2>1. CASE can_send(p) /\ o \in visible[p]
      <3>1. Then(w, <<<<"del", p, o>>>>) /\ visible' = [visible EXCEPT ![p] = @ \ {o}]
        BY <1>2, <2>1 DEF SendRemove
      <3>2. <<"del", p, o>> \in Ops
        BY CalmOps
      <3>3. \E T2, R : /\ Turns(T, T2, R, "rem", h, {<<"del", p, o>>})
                       /\ T2 = Left(w)' /\ Ranked(todo'[w])
        BY <1>1, <1>3, <1>4, <3>1, <3>2, OneTurn
      <3> QED BY <2>1, <3>1, <3>3
    <2>2. CASE ~(can_send(p) /\ o \in visible[p])
      <3>1. Then(w, <<>>) /\ UNCHANGED visible
        BY <1>2, <2>2 DEF SendRemove
      <3>2. \E T2, R : Turns(T, T2, R, "rem", h, {}) /\ T2 = Left(w)' /\ Ranked(todo'[w])
        BY <1>1, <1>3, <3>1, EndTurn
      <3> QED BY <2>2, <3>1, <3>2
    <2> QED BY <2>1, <2>2
  <1>8. Does(T, T2, R, "rem", p, o, N)
    BY <1>3, <1>7 DEF Turns, Does
  <1>9. Aim(T2)' /\ Clear(T2)'
    BY <1>5, <1>6, <1>7, <1>8, SendRemovePair
  <1>10. \A x \in N : x[1] \in Pairs
    BY <1>4, <1>7
  <1> QED BY <1>4, <1>5, <1>7, <1>9, <1>10, PairKept

LEMMA AlreadyVisibleKept ==
    ASSUME Typed, Shape, NEW w \in Workers, NEW T, T = Left(w), One(todo[w], T),
           AlreadyVisible(w)
    PROVE  Kept(w)
  <1> HIDE DEF Ops, Calm
  <1>1. Op(w, "see")
    BY DEF AlreadyVisible
  <1>2. PICK p \in PC, n \in NPC : p = Arg(w, 1) /\ n = Arg(w, 2)
    BY <1>1, HeadTypes
  <1>3. PICK h : h = Head(todo[w]) /\ h = <<"see", p, n>>
    BY <1>1, <1>2, HeadIs DEF Three
  <1>4. PICK x : x = IF n \in visible[p] THEN <<"mov", p, n>> ELSE <<"add", p, n>>
    OBVIOUS
  <1>5. x \in Ops /\ "see" \in Pairs /\ x[1] \in Pairs /\ n \in Objects
    BY <1>4, Sets, CalmOps DEF Pairs
  <1>6. Then(w, <<x>>)
    BY <1>2, <1>4 DEF AlreadyVisible
  <1>7. PICK T2, R : Turns(T, T2, R, "see", h, {x}) /\ T2 = Left(w)' /\ Ranked(todo'[w])
    BY <1>1, <1>3, <1>5, <1>6, OneTurn
  <1>8. Does(T, T2, R, "see", p, n, {x})
    BY <1>3, <1>7 DEF Turns, Does
  <1>9. UNCHANGED <<pos, sectors, visible, g_objs, clients, playing, saves, m_hp, respawns>>
    BY DEF AlreadyVisible, players, npcs
  <1>10. Aim(T) /\ Clear(T) /\ playing \subseteq PC
    BY DEF One, Roll, Typed
  <1>11. {x} = IF n \in visible[p] THEN {<<"mov", p, n>>} ELSE {<<"add", p, n>>}
    BY <1>4
  <1>12. Aim(T2)' /\ Clear(T2)'
    BY <1>5, <1>8, <1>9, <1>10, <1>11, AlreadyVisiblePair
  <1>13. \A y \in {x} : y[1] \in Pairs
    BY <1>5
  <1> QED BY <1>5, <1>7, <1>9, <1>12, <1>13, PairKept

LEMMA WakeUpKept ==
    ASSUME Typed, Shape, NEW w \in Workers, NEW T, T = Left(w), One(todo[w], T), WakeUp(w)
    PROVE  Kept(w)
  <1> HIDE DEF Ops
  <1>1. Op(w, "wake") /\ Then(w, <<>>)
    BY DEF WakeUp
  <1>2. PICK h : h = Head(todo[w])
    OBVIOUS
  <1>3. PICK T2, R : Turns(T, T2, R, "wake", h, {}) /\ T2 = Left(w)' /\ Ranked(todo'[w])
    BY <1>1, <1>2, EndTurn
  <1>4. UNCHANGED <<pos, sectors, visible, g_objs, clients, playing, saves, m_hp, respawns>>
    BY DEF WakeUp, players
  <1>5. "wake" \in Pairs /\ "wake" \notin Tells \cup Reads
    BY DEF Pairs, Tells, Reads
  <1>6. Aim(T2)' /\ Clear(T2)'
    <2>1. \A x \in {} : x[1] \notin Tells
      OBVIOUS
    <2> QED BY <1>3, <1>4, <1>5, <2>1, ViewTurn DEF One
  <1>7. \A x \in {} : x[1] \in Pairs
    OBVIOUS
  <1> QED BY <1>3, <1>4, <1>5, <1>6, <1>7, PairKept

\* Sectors.
LEMMA StepKept ==
    ASSUME Typed, Shape, NEW w \in Workers, NEW T, T = Left(w), One(todo[w], T),
           Leave(w) \/ Enter(w)
    PROVE  Kept(w)
  <1> HIDE DEF Ops
  <1>1. PICK name \in Steps :
            /\ Op(w, name) /\ Then(w, <<>>)
            /\ sectors' = [sectors EXCEPT ![Arg(w, 2)] = IF name = "leave" THEN @ \ {Arg(w, 1)}
                                                         ELSE @ \cup {Arg(w, 1)}]
    BY DEF Leave, Enter, Steps
  <1>2. PICK o \in Objects, s \in Sectors : o = Arg(w, 1) /\ s = Arg(w, 2)
    BY <1>1, HeadTypes DEF Steps
  <1>3. PICK h : h = Head(todo[w]) /\ h = <<name, o, s>>
    BY <1>1, <1>2, HeadIs DEF Steps, Three
  <1>4. PICK T2, R : Turns(T, T2, R, name, h, {}) /\ T2 = Left(w)' /\ Ranked(todo'[w])
    BY <1>1, <1>3, EndTurn
  <1>5. Does(T, T2, R, name, o, s, {})
    BY <1>3, <1>4 DEF Turns, Does
  <1>6. UNCHANGED <<pos, visible, g_objs, clients, playing, saves, m_hp, respawns>>
    BY DEF Leave, Enter, players, npcs
  <1>7. name \notin Tells \cup Reads /\ name \notin Ends /\ \A x \in {} : x[1] \notin Tells \cup Rolls \cup Dies
    BY DEF Steps, Tells, Pairs, Reads, Ends
  <1>8. Aim(T2)' /\ Clear(T2)'
    BY <1>4, <1>6, <1>7, ViewTurn DEF One
  <1>9. Roll(T2)'
    BY <1>4, <1>6, <1>7, RollTurn DEF One
  <1>10. Dying(T2)'
    BY <1>4, <1>6, <1>7, DyingTurn DEF One
  <1>11. Placed(T2)'
    <2>1. CASE name = "leave"
      <3>1. sectors' = [sectors EXCEPT ![s] = @ \ {o}]
        BY <1>1, <1>2, <2>1
      <3> QED BY <1>5, <1>6, <2>1, <3>1, LeavePlaced DEF One
    <2>2. CASE name = "enter"
      <3>1. sectors' = [sectors EXCEPT ![s] = @ \cup {o}]
        BY <1>1, <1>2, <2>2
      <3> QED BY <1>5, <1>6, <2>2, <3>1, EnterPlaced DEF One
    <2> QED BY <2>1, <2>2 DEF Steps
  <1> QED BY <1>4, <1>8, <1>9, <1>10, <1>11, KeptBy
-----------------------------------------------------------------------------
\* What update_player_view tells.
LEMMA TellElems ==
    ASSUME NEW p, NEW o, NEW old
    PROVE  \A x : x \in Elems(Tell(p, o, old)) <=>
              \/ o \notin old /\ x = <<"add", p, o>>
              \/ o \notin old /\ o \in PC /\ x = <<"add", o, p>>
              \/ o \notin old /\ o \notin PC /\ x = <<"wake", o>>
              \/ o \in old /\ o \in PC /\ x = <<"mov", o, p>>
  <1>1. CASE o \notin old /\ o \in PC
    <2>1. Tell(p, o, old) = <<<<"add", p, o>>, <<"add", o, p>>>>
      BY <1>1 DEF Tell
    <2> QED BY <1>1, <2>1, ElemsShort
  <1>2. CASE o \notin old /\ o \notin PC
    <2>1. Tell(p, o, old) = <<<<"add", p, o>>, <<"wake", o>>>>
      BY <1>2 DEF Tell
    <2> QED BY <1>2, <2>1, ElemsShort
  <1>3. CASE o \in old /\ o \in PC
    <2>1. Tell(p, o, old) = <<<<"mov", o, p>>>>
      BY <1>3 DEF Tell
    <2> QED BY <1>3, <2>1, ElemsShort
  <1>4. CASE o \in old /\ o \notin PC
    <2>1. Tell(p, o, old) = <<>>
      BY <1>4 DEF Tell
    <2> QED BY <1>4, <2>1, ElemsShort
  <1> QED BY <1>1, <1>2, <1>3, <1>4

LEMMA UntellElems ==
    ASSUME NEW p, NEW o
    PROVE  \A x : x \in Elems(Untell(p, o)) <=>
              x = <<"rem", p, o>> \/ (o \in PC /\ x = <<"rem", o, p>>)
  <1> DEFINE T == {<<"rem", p, o>>, <<"rem", o, p>>}
  <1>1. <<<<"rem", p, o>>>> \in Seq(T) /\ <<<<"rem", o, p>>>> \in Seq(T) /\ <<>> \in Seq(T)
    OBVIOUS
  <1> HIDE DEF T
  <1>2. CASE o \in PC
    <2>1. Untell(p, o) = <<<<"rem", p, o>>>> \o <<<<"rem", o, p>>>>
      BY <1>2 DEF Untell
    <2>2. Elems(Untell(p, o)) = Elems(<<<<"rem", p, o>>>>) \cup Elems(<<<<"rem", o, p>>>>)
      BY <1>1, <2>1, ElemsConcat, ZenonT(60)
    <2>3. /\ Elems(<<<<"rem", p, o>>>>) = {<<"rem", p, o>>}
          /\ Elems(<<<<"rem", o, p>>>>) = {<<"rem", o, p>>}
      BY ElemsShort
    <2> QED BY <1>2, <2>2, <2>3
  <1>3. CASE o \notin PC
    <2>1. Untell(p, o) = <<<<"rem", p, o>>>> \o <<>>
      BY <1>3 DEF Untell
    <2>2. Elems(Untell(p, o)) = Elems(<<<<"rem", p, o>>>>) \cup Elems(<<>>)
      BY <1>1, <2>1, ElemsConcat, ZenonT(60)
    <2>3. Elems(<<<<"rem", p, o>>>>) = {<<"rem", p, o>>} /\ Elems(<<>>) = {}
      BY ElemsShort
    <2> QED BY <1>3, <2>2, <2>3
  <1> QED BY <1>2, <1>3

LEMMA NewViewOps ==
    ASSUME Typed, NEW p \in PC, NEW old \in SUBSET Objects, NEW new \in SUBSET Objects,
           NEW f, f = [i \in 1 .. Cardinality(new) |-> Tell(p, SetToSeq(new)[i], old)],
           NEW g, g = [i \in 1 .. Cardinality(old \ new) |-> Untell(p, SetToSeq(old \ new)[i])],
           NEW ops, ops = <<<<"mov", p, p>>>> \o FlattenSeq(f) \o FlattenSeq(g)
    PROVE  ops \in Seq(Ops) /\ NewTold(Elems(ops), p, old, new)
  <1> HIDE DEF Ops, Calm
  <1>1. ASSUME NEW o \in Objects
        PROVE  Tell(p, o, old) \in Seq(Ops) /\ Untell(p, o) \in Seq(Ops)
    <2>1. /\ <<"add", p, o>> \in Ops /\ <<"rem", p, o>> \in Ops
          /\ o \in PC => /\ <<"add", o, p>> \in Ops /\ <<"mov", o, p>> \in Ops
                         /\ <<"rem", o, p>> \in Ops
          /\ o \notin PC => <<"wake", o>> \in Ops
      BY Sets, CalmOps DEF Objects
    <2>2. Tell(p, o, old) \in Seq(Ops)
      BY <2>1, Short DEF Tell
    <2>3. Untell(p, o) \in Seq(Ops)
      BY <2>1, Short DEF Untell
    <2> QED BY <2>2, <2>3
  <1>2. PICK gone : gone = old \ new
    OBVIOUS
  <1>3. /\ IsFiniteSet(new) /\ IsFiniteSet(gone)
    BY <1>2, FiniteSome
  <1> DEFINE F == [o \in new |-> Tell(p, o, old)]
             G == [o \in gone |-> Untell(p, o)]
  <1>4. F \in [new -> Seq(Ops)] /\ G \in [gone -> Seq(Ops)]
    BY <1>1, <1>2
  <1>5. Looped(new, F, f)
    <2>1. SetToSeq(new) \in [1 .. Cardinality(new) -> new]
      BY <1>3, SetToSeqTypes
    <2> QED BY <2>1 DEF Looped
  <1>6. Looped(gone, G, g)
    <2>1. SetToSeq(gone) \in [1 .. Cardinality(gone) -> gone]
      BY <1>3, SetToSeqTypes
    <2> QED BY <1>2, <2>1 DEF Looped
  <1>7. /\ \A o \in new : F[o] = Tell(p, o, old)
        /\ \A o \in gone : G[o] = Untell(p, o)
    OBVIOUS
  <1> HIDE DEF F, G
  <1>8. PICK ff : ff = FlattenSeq(f)
    OBVIOUS
  <1>9. PICK gg : gg = FlattenSeq(g)
    OBVIOUS
  <1>10. ff \in Seq(Ops) /\ Gathers(ff, new, F)
    BY <1>3, <1>4, <1>5, <1>8, Loop
  <1>11. gg \in Seq(Ops) /\ Gathers(gg, gone, G)
    BY <1>3, <1>4, <1>6, <1>9, Loop
  <1>12. PICK m : m = <<<<"mov", p, p>>>>
    OBVIOUS
  <1>13. m \in Seq(Ops) /\ Elems(m) = {<<"mov", p, p>>}
    BY <1>12, Sets, CalmOps, Short, ElemsShort
  <1>14. PICK mf : mf = m \o ff
    OBVIOUS
  <1>15. mf \in Seq(Ops) /\ Elems(mf) = Elems(m) \cup Elems(ff)
    BY <1>10, <1>13, <1>14, ElemsConcat
  <1>16. ops \in Seq(Ops) /\ Elems(ops) = Elems(mf) \cup Elems(gg)
    <2>1. ops = mf \o gg
      BY <1>8, <1>9, <1>12, <1>14
    <2>2. mf \o gg \in Seq(Ops) /\ Elems(mf \o gg) = Elems(mf) \cup Elems(gg)
      BY <1>11, <1>15, ElemsConcat
    <2> QED BY <2>1, <2>2, Zenon
  <1>17. PICK N : N = Elems(ops)
    OBVIOUS
  <1>18. \A x : x \in N <=> x \in Elems(m) \/ x \in Elems(ff) \/ x \in Elems(gg)
    BY <1>15, <1>16, <1>17
  <1>19. \A x : x \in Elems(ff) <=>
              \E o \in new : \/ o \notin old /\ x = <<"add", p, o>>
                             \/ o \notin old /\ o \in PC /\ x = <<"add", o, p>>
                             \/ o \notin old /\ o \notin PC /\ x = <<"wake", o>>
                             \/ o \in old /\ o \in PC /\ x = <<"mov", o, p>>
    <2>1. \A o \in new : Elems(F[o]) = Elems(Tell(p, o, old))
      BY <1>7
    <2>2. \A x : x \in Elems(ff) <=> \E o \in new : x \in Elems(Tell(p, o, old))
      BY <1>10, <2>1 DEF Gathers
    <2> QED BY <2>2, TellElems
  <1>20. \A x : x \in Elems(gg) <=>
              \E o \in gone : x = <<"rem", p, o>> \/ (o \in PC /\ x = <<"rem", o, p>>)
    <2>1. \A o \in gone : Elems(G[o]) = Elems(Untell(p, o))
      BY <1>7
    <2>2. \A x : x \in Elems(gg) <=> \E o \in gone : x \in Elems(Untell(p, o))
      BY <1>11, <2>1 DEF Gathers
    <2> QED BY <2>2, UntellElems
  <1>21. \A x \in N : x[1] \in {"add", "mov", "rem", "wake"}
    <2> SUFFICES ASSUME NEW x \in N PROVE x[1] \in {"add", "mov", "rem", "wake"}
      OBVIOUS
    <2>1. CASE x \in Elems(m)
      BY <1>13, <2>1
    <2>2. CASE x \in Elems(ff)
      BY <1>19, <2>2
    <2>3. CASE x \in Elems(gg)
      BY <1>20, <2>3
    <2> QED BY <1>18, <2>1, <2>2, <2>3
  <1>22. ASSUME NEW a, NEW b
         PROVE  <<"add", a, b>> \in N <=>
                  (a = p /\ b \in new \ old) \/ (b = p /\ a \in (new \ old) \cap PC)
    <2>1. <<"add", a, b>> \notin Elems(m)
      BY <1>13
    <2>2. <<"add", a, b>> \notin Elems(gg)
      BY <1>20
    <2>3. <<"add", a, b>> \in Elems(ff) <=>
                  (a = p /\ b \in new \ old) \/ (b = p /\ a \in (new \ old) \cap PC)
      BY <1>19
    <2> QED BY <1>18, <2>1, <2>2, <2>3
  <1>23. ASSUME NEW a, NEW b
         PROVE  <<"mov", a, b>> \in N <=>
                  (a = p /\ b = p) \/ (b = p /\ a \in new \cap old \cap PC)
    <2>1. <<"mov", a, b>> \in Elems(m) <=> a = p /\ b = p
      BY <1>13
    <2>2. <<"mov", a, b>> \notin Elems(gg)
      BY <1>20
    <2>3. <<"mov", a, b>> \in Elems(ff) <=> b = p /\ a \in new \cap old \cap PC
      BY <1>19
    <2> QED BY <1>18, <2>1, <2>2, <2>3
  <1>24. ASSUME NEW a, NEW b
         PROVE  <<"rem", a, b>> \in N <=>
                  (a = p /\ b \in old \ new) \/ (b = p /\ a \in (old \ new) \cap PC)
    <2>1. <<"rem", a, b>> \notin Elems(m)
      BY <1>13
    <2>2. <<"rem", a, b>> \notin Elems(ff)
      BY <1>19
    <2>3. <<"rem", a, b>> \in Elems(gg) <=>
                  (a = p /\ b \in gone) \/ (b = p /\ a \in gone \cap PC)
      BY <1>20
    <2> QED BY <1>2, <1>18, <2>1, <2>2, <2>3
  <1>25. NewTold(N, p, old, new)
    BY <1>21, <1>22, <1>23, <1>24 DEF NewTold
  <1> QED BY <1>16, <1>17, <1>25

LEMMA FitsMany ==
    ASSUME NEW name, name \notin Steps \cup Pairs \cup {"logout"}, NEW ops \in Seq(Ops),
           \A x \in Elems(ops) : x[1] \in Steps \cup Pairs
    PROVE  Fits(name, ops)
  BY RankedMany DEF Fits

LEMMA HeadLeft ==
    ASSUME Typed, Shape, NEW w \in Workers, NEW name, Op(w, name)
    PROVE  Head(todo[w]) \in Left(w)
  <1> HIDE DEF Ops
  <1>1. todo[w] \in Seq(Ops) /\ todo[w] # <<>>
    BY NextOp
  <1> QED BY <1>1, ElemsTail DEF Left

LEMMA OldViewKept ==
    ASSUME Typed, Shape, NEW w \in Workers, NEW T, T = Left(w), One(todo[w], T), OldView(w)
    PROVE  Kept(w)
  <1> HIDE DEF Ops, Calm
  <1>1. Op(w, "view")
    BY DEF OldView
  <1>2. PICK p \in PC : p = Arg(w, 1)
    BY <1>1, HeadTypes
  <1>3. PICK h : h = Head(todo[w]) /\ h = <<"view", p>>
    BY <1>1, <1>2, HeadIs DEF Three
  <1>4. PICK x : x = <<"scan", p, visible[p]>>
    OBVIOUS
  <1>5. x \in Ops /\ "view" \notin Steps \cup Pairs \cup {"logout"}
    BY <1>4, CalmOps DEF Typed, Steps, Pairs
  <1>6. p \in playing /\ playing \subseteq clients
    <2>1. <<"view", p>> \in T
      BY <1>1, <1>3, HeadLeft
    <2> QED BY <2>1 DEF One, Roll
  <1>7. Then(w, <<x>>)
    BY <1>2, <1>4, <1>6 DEF OldView, can_send
  <1>8. PICK T2, R : Turns(T, T2, R, "view", h, {x}) /\ T2 = Left(w)' /\ Ranked(todo'[w])
    BY <1>1, <1>3, <1>5, <1>7, OneTurn
  <1>9. Besides(T, {<<"view", p>>}) /\ Besides(T2, {<<"scan", p, visible[p]>>})
    BY <1>3, <1>4, <1>5, <1>8, ReadTurn
  <1>10. UNCHANGED <<pos, sectors, visible, g_objs, clients, playing, saves, m_hp, respawns>>
    BY DEF OldView, players, npcs
  <1>11. Aim(T2)' /\ Clear(T2)' /\ p \notin visible[p]
    BY <1>6, <1>9, <1>10, OldViewPairs DEF One
  <1>12. "view" \notin Steps \cup {"watch", "check"} /\ x[1] \notin Steps /\ x[1] \notin Dies
    BY <1>4 DEF Steps, Dies
  <1>13. Placed(T2)'
    <2>1. \A y \in {x} : y[1] \notin Steps
      BY <1>12
    <2> QED BY <1>8, <1>10, <1>12, <2>1, PlacedTurn DEF One
  <1>14. Dying(T2)'
    <2>1. \A y \in {x} : y[1] \notin Dies
      BY <1>12
    <2> QED BY <1>8, <1>10, <2>1, DyingTurn DEF One
  <1>15. Roll(T2)'
    <2>1. \A a, b : /\ <<"hide", a>> \notin T /\ <<"close", a>> \notin T /\ <<"logout", a>> \notin T
                    /\ <<"hide", a>> \notin T2 /\ <<"close", a>> \notin T2
                    /\ <<"logout", a>> \notin T2 /\ <<"view", a>> \notin T2
                    /\ <<"scan", a, b>> \in T2 => a = p /\ b = visible[p]
      BY <1>9 DEF Besides, Late, Final
    <2>2. Roll(T)
      BY DEF One
    <2> QED BY <1>6, <1>10, <1>11, <2>1, <2>2 DEF Roll
  <1> QED BY <1>8, <1>11, <1>13, <1>14, <1>15, KeptBy

LEMMA NewViewKept ==
    ASSUME Typed, Shape, NEW w \in Workers, NEW T, T = Left(w), One(todo[w], T), NewView(w)
    PROVE  Kept(w)
  <1> HIDE DEF Ops, Calm
  <1>1. Op(w, "scan")
    BY DEF NewView
  <1>2. PICK p \in PC, old \in SUBSET Objects : p = Arg(w, 1) /\ old = Arg(w, 2)
    BY <1>1, HeadTypes
  <1>3. PICK h : h = Head(todo[w]) /\ h = <<"scan", p, old>>
    BY <1>1, <1>2, HeadIs DEF Three
  <1>4. PICK new : new = {o \in Around(pos[p]) : Sees(p, o) /\ Known(o) /\ InGame(o)}
    OBVIOUS
  <1>5. new \in SUBSET Objects /\ pos[p] \in Tiles /\ p \in Objects
    <2>1. pos[p] \in Tiles /\ p \in Objects
      BY Sets DEF Typed
    <2> QED BY <1>4, <2>1, AroundTypes
  <1>6. PICK f : f = [i \in 1 .. Cardinality(new) |-> Tell(p, SetToSeq(new)[i], old)]
    OBVIOUS
  <1>7. PICK g : g = [i \in 1 .. Cardinality(old \ new) |-> Untell(p, SetToSeq(old \ new)[i])]
    OBVIOUS
  <1>8. PICK ops : ops = <<<<"mov", p, p>>>> \o FlattenSeq(f) \o FlattenSeq(g)
    OBVIOUS
  <1>9. Then(w, ops)
    BY <1>2, <1>4, <1>6, <1>7, <1>8 DEF NewView, For
  <1>10. ops \in Seq(Ops) /\ NewTold(Elems(ops), p, old, new)
    BY <1>5, <1>6, <1>7, <1>8, NewViewOps
  <1>11. PICK N : N = Elems(ops)
    OBVIOUS
  <1>12. NewTold(N, p, old, new) /\ \A x \in N : x[1] \in {"add", "mov", "rem", "wake"}
    BY <1>10, <1>11 DEF NewTold
  <1>13. "scan" \notin Steps \cup Pairs \cup {"logout"}
    BY DEF Steps, Pairs
  <1>14. Fits("scan", ops)
    <2>1. \A x \in Elems(ops) : x[1] \in Steps \cup Pairs
      BY <1>11, <1>12 DEF Pairs
    <2> QED BY <1>10, <1>13, <2>1, FitsMany
  <1>15. PICK T2, R : Turns(T, T2, R, "scan", h, N) /\ T2 = Left(w)' /\ Ranked(todo'[w])
    BY <1>1, <1>3, <1>9, <1>10, <1>11, <1>14, Turn
  <1>16. Besides(T, {<<"scan", p, old>>}) /\ Besides(T2, N)
    BY <1>3, <1>13, <1>15, ReadTurn
  <1>17. p \in playing /\ p \notin old /\ playing \subseteq clients /\ playing \subseteq PC
    <2>1. <<"scan", p, old>> \in T
      BY <1>1, <1>3, HeadLeft
    <2> QED BY <2>1 DEF One, Roll, Typed
  <1>18. ASSUME NEW o PROVE o \in new <=> o \in Objects /\ o # p /\ Target(p, o)
    <2>1. CASE o \in Objects
      <3>1. Exact(o)
        <4>1. <<"scan", p, old>>[1] \notin Steps /\ <<"scan", p, old>>[1] \notin {"watch", "check"}
          BY DEF Steps
        <4> QED BY <1>16, <2>1, <4>1, SectorsRight DEF One
      <3>2. /\ o \in Around(pos[p]) => InGame(o) /\ Alive(o)
            /\ can_see(pos[p], pos[o]) /\ InGame(o) /\ Alive(o) => o \in Around(pos[p])
        BY <1>5, <2>1, <3>1, Nearby
      <3>3. InGame(o) => Known(o)
        BY <1>17 DEF InGame, Known
      <3> QED BY <1>4, <2>1, <3>2, <3>3 DEF Target, Sees
    <2>2. CASE o \notin Objects
      BY <1>5, <2>2
    <2> QED BY <2>1, <2>2
  <1>19. UNCHANGED <<pos, sectors, visible, g_objs, clients, playing, saves, m_hp, respawns>>
    BY DEF NewView, players, npcs
  <1>20. Aim(T2)' /\ Clear(T2)'
    BY <1>12, <1>16, <1>17, <1>18, <1>19, NewViewPairs DEF One
  <1>21. /\ "scan" \notin Steps \cup {"watch", "check"} /\ "scan" \notin Ends
         /\ \A x \in N : x[1] \notin Steps /\ x[1] \notin Rolls /\ x[1] \notin Dies
    BY <1>12 DEF Steps, Rolls, Ends, Dies
  <1>22. Placed(T2)'
    BY <1>15, <1>19, <1>21, PlacedTurn DEF One
  <1>23. Roll(T2)'
    BY <1>15, <1>19, <1>21, RollTurn DEF One
  <1>24. Dying(T2)'
    BY <1>15, <1>19, <1>21, DyingTurn DEF One
  <1> QED BY <1>15, <1>20, <1>22, <1>23, <1>24, KeptBy
-----------------------------------------------------------------------------
\* NPCs.
LEMMA GreetOps ==
    ASSUME NEW n \in NPC, NEW S \in SUBSET PC,
           NEW f, f = [i \in 1 .. Cardinality(S) |->
                          <<<<"add", SetToSeq(S)[i], n>>, <<"wake", n>>>>],
           NEW ops, ops = FlattenSeq(f)
    PROVE  /\ ops \in Seq(Ops)
           /\ \A x \in Elems(ops) : x[1] \in {"add", "wake"}
           /\ \A a, b : <<"add", a, b>> \in Elems(ops) <=> b = n /\ a \in S
  <1> HIDE DEF Ops, Calm
  <1> DEFINE F == [p \in S |-> <<<<"add", p, n>>, <<"wake", n>>>>]
  <1>1. IsFiniteSet(S)
    BY Sets, FiniteSome
  <1>2. F \in [S -> Seq(Ops)]
    <2>1. ASSUME NEW p \in S PROVE <<<<"add", p, n>>, <<"wake", n>>>> \in Seq(Ops)
      <3>1. <<"add", p, n>> \in Ops /\ <<"wake", n>> \in Ops
        BY Sets, CalmOps
      <3> QED BY <3>1, Short
    <2> QED BY <2>1
  <1>3. Looped(S, F, f)
    <2>1. SetToSeq(S) \in [1 .. Cardinality(S) -> S]
      BY <1>1, SetToSeqTypes
    <2> QED BY <2>1 DEF Looped
  <1>4. \A p \in S : Elems(F[p]) = {<<"add", p, n>>, <<"wake", n>>}
    BY ElemsShort
  <1> HIDE DEF F
  <1>5. ops \in Seq(Ops) /\ Gathers(ops, S, F)
    BY <1>1, <1>2, <1>3, Loop
  <1>6. \A x : x \in Elems(ops) <=> \E p \in S : x \in {<<"add", p, n>>, <<"wake", n>>}
    BY <1>4, <1>5 DEF Gathers
  <1>7. \A x \in Elems(ops) : x[1] \in {"add", "wake"}
    BY <1>6
  <1>8. ASSUME NEW a, NEW b PROVE <<"add", a, b>> \in Elems(ops) <=> b = n /\ a \in S
    BY <1>6
  <1> QED BY <1>5, <1>7, <1>8

\* The sectors of the players are right when a worker looks for viewers.
LEMMA ViewersAre ==
    ASSUME Typed, NEW T, NEW h, Besides(T, {h}), Placed(T), Roll(T), h[1] \notin Steps,
           h[1] \in {"watch", "check"} => h[2] \in NPC, NEW t \in Tiles
    PROVE  \A p : p \in Viewers(t) <=> p \in playing /\ can_see(pos[p], t)
  <1>1. playing \subseteq clients
    BY DEF Roll
  <1>2. ASSUME NEW p \in PC PROVE Exact(p)
    <2>1. p \in Objects /\ (h[1] \in {"watch", "check"} => h[2] # p)
      BY Sets
    <2> QED BY <2>1, SectorsRight
  <1> QED BY <1>1, <1>2, Watchers

LEMMA GreetKept ==
    ASSUME Typed, Shape, NEW w \in Workers, NEW T, T = Left(w), One(todo[w], T), Greet(w)
    PROVE  Kept(w)
  <1> HIDE DEF Ops, Calm
  <1>1. Op(w, "greet")
    BY DEF Greet
  <1>2. PICK n \in NPC : n = Arg(w, 1)
    BY <1>1, HeadTypes
  <1>3. PICK h : h = Head(todo[w]) /\ h = <<"greet", n>>
    BY <1>1, <1>2, HeadIs DEF Three
  <1>4. PICK S : S = Viewers(pos[n])
    OBVIOUS
  <1>5. S \in SUBSET PC /\ pos[n] \in Tiles
    <2>1. pos[n] \in Tiles
      BY Sets DEF Typed
    <2> QED BY <1>4, <2>1, AroundTypes
  <1>6. PICK f : f = [i \in 1 .. Cardinality(S) |->
                          <<<<"add", SetToSeq(S)[i], n>>, <<"wake", n>>>>]
    OBVIOUS
  <1>7. PICK ops : ops = FlattenSeq(f)
    OBVIOUS
  <1>8. Then(w, ops)
    BY <1>2, <1>4, <1>6, <1>7 DEF Greet, For
  <1>9. /\ ops \in Seq(Ops)
        /\ \A x \in Elems(ops) : x[1] \in {"add", "wake"}
        /\ \A a, b : <<"add", a, b>> \in Elems(ops) <=> b = n /\ a \in S
    BY <1>5, <1>6, <1>7, GreetOps
  <1>10. PICK N : N = Elems(ops)
    OBVIOUS
  <1>11. "greet" \notin Steps \cup Pairs \cup {"logout"}
    BY DEF Steps, Pairs
  <1>12. Fits("greet", ops)
    <2>1. \A x \in Elems(ops) : x[1] \in Steps \cup Pairs
      BY <1>9 DEF Pairs
    <2> QED BY <1>9, <1>11, <2>1, FitsMany
  <1>13. PICK T2, R : Turns(T, T2, R, "greet", h, N) /\ T2 = Left(w)' /\ Ranked(todo'[w])
    BY <1>1, <1>3, <1>8, <1>9, <1>10, <1>12, Turn
  <1>14. Besides(T, {<<"greet", n>>}) /\ Besides(T2, N)
    BY <1>3, <1>11, <1>13, ReadTurn
  <1>15. \A p : p \in S <=> p \in playing /\ can_see(pos[p], pos[n])
    <2>1. <<"greet", n>>[1] \notin Steps /\ <<"greet", n>>[1] \notin {"watch", "check"}
      BY DEF Steps
    <2> QED BY <1>4, <1>5, <1>14, <2>1, ViewersAre DEF One
  <1>16. GreetTold(N, n)
    BY <1>9, <1>10, <1>15 DEF GreetTold
  <1>17. Alive(n) /\ playing \subseteq PC
    <2>1. <<"greet", n>> \in T
      BY <1>1, <1>3, HeadLeft
    <2> QED BY <2>1 DEF One, Dying, Roll, Typed
  <1>18. UNCHANGED <<pos, sectors, visible, g_objs, clients, playing, saves, m_hp, respawns>>
    BY DEF Greet, players, npcs
  <1>19. Aim(T2)' /\ Clear(T2)'
    BY <1>14, <1>16, <1>17, <1>18, GreetPairs DEF One
  <1>20. /\ "greet" \notin Steps \cup {"watch", "check"} /\ "greet" \notin Ends
         /\ \A x \in N : x[1] \notin Steps /\ x[1] \notin Rolls /\ x[1] \notin Dies
    BY <1>9, <1>10 DEF Steps, Rolls, Ends, Dies
  <1>21. Placed(T2)'
    BY <1>13, <1>18, <1>20, PlacedTurn DEF One
  <1>22. Roll(T2)'
    BY <1>13, <1>18, <1>20, RollTurn DEF One
  <1>23. Dying(T2)'
    BY <1>13, <1>18, <1>20, DyingTurn DEF One
  <1> QED BY <1>13, <1>19, <1>21, <1>22, <1>23, KeptBy

\* The same operation on o for each player of S.
Each(s, name, S, o) == \A x : x \in Elems(s) <=> \E p \in S : x = <<name, p, o>>

LEMMA EachOps ==
    ASSUME NEW name, NEW o, NEW S \in SUBSET PC, \A p \in S : <<name, p, o>> \in Ops,
           NEW f, f = [i \in 1 .. Cardinality(S) |-> <<<<name, SetToSeq(S)[i], o>>>>],
           NEW ops, ops = FlattenSeq(f)
    PROVE  ops \in Seq(Ops) /\ Each(ops, name, S, o)
  <1> HIDE DEF Ops
  <1> DEFINE F == [p \in S |-> <<<<name, p, o>>>>]
  <1>1. IsFiniteSet(S)
    BY Sets, FiniteSome
  <1>2. F \in [S -> Seq(Ops)]
    <2>1. ASSUME NEW p \in S PROVE <<<<name, p, o>>>> \in Seq(Ops)
      <3>1. <<name, p, o>> \in Ops
        OBVIOUS
      <3> QED BY <3>1, Short
    <2> QED BY <2>1
  <1>3. Looped(S, F, f)
    <2>1. SetToSeq(S) \in [1 .. Cardinality(S) -> S]
      BY <1>1, SetToSeqTypes
    <2> QED BY <2>1 DEF Looped
  <1>4. \A p \in S : Elems(F[p]) = {<<name, p, o>>}
    BY ElemsShort
  <1> HIDE DEF F
  <1>5. ops \in Seq(Ops) /\ Gathers(ops, S, F)
    BY <1>1, <1>2, <1>3, Loop
  <1>6. \A x : x \in Elems(ops) <=> \E p \in S : x = <<name, p, o>>
    BY <1>4, <1>5 DEF Gathers
  <1> QED BY <1>5, <1>6 DEF Each

LEMMA NewViewersKept ==
    ASSUME Typed, Shape, NEW w \in Workers, NEW T, T = Left(w), One(todo[w], T), NewViewers(w)
    PROVE  Kept(w)
  <1> HIDE DEF Ops, Calm
  <1>1. Op(w, "seen")
    BY DEF NewViewers
  <1>2. PICK n \in NPC, old \in SUBSET PC : n = Arg(w, 1) /\ old = Arg(w, 2)
    BY <1>1, HeadTypes
  <1>3. PICK h : h = Head(todo[w]) /\ h = <<"seen", n, old>>
    BY <1>1, <1>2, HeadIs DEF Three
  <1>4. PICK S : S = Viewers(pos[n])
    OBVIOUS
  <1>5. S \in SUBSET PC /\ pos[n] \in Tiles
    <2>1. pos[n] \in Tiles
      BY Sets DEF Typed
    <2> QED BY <1>4, <2>1, AroundTypes
  <1>6. PICK U \in SUBSET PC : U = old \ S
    BY <1>2
  <1>7. PICK f : f = [i \in 1 .. Cardinality(S) |-> <<<<"see", SetToSeq(S)[i], n>>>>]
    OBVIOUS
  <1>8. PICK g : g = [i \in 1 .. Cardinality(U) |-> <<<<"rem", SetToSeq(U)[i], n>>>>]
    OBVIOUS
  <1>9. PICK ff : ff = FlattenSeq(f)
    OBVIOUS
  <1>10. PICK gg : gg = FlattenSeq(g)
    OBVIOUS
  <1>11. \A p \in PC : <<"see", p, n>> \in Ops /\ <<"rem", p, n>> \in Ops
    BY Sets, CalmOps
  <1>12. ff \in Seq(Ops) /\ Each(ff, "see", S, n)
    BY <1>5, <1>7, <1>9, <1>11, EachOps
  <1>13. gg \in Seq(Ops) /\ Each(gg, "rem", U, n)
    BY <1>6, <1>8, <1>10, <1>11, EachOps
  <1>14. PICK ops : ops = ff \o gg
    OBVIOUS
  <1>15. Then(w, ops)
    BY <1>2, <1>4, <1>6, <1>7, <1>8, <1>9, <1>10, <1>14 DEF NewViewers, For
  <1>16. ops \in Seq(Ops) /\ Elems(ops) = Elems(ff) \cup Elems(gg)
    BY <1>12, <1>13, <1>14, ElemsConcat
  <1>17. PICK N : N = Elems(ops)
    OBVIOUS
  <1>18. \A x : x \in N <=> (\E p \in S : x = <<"see", p, n>>) \/ (\E p \in U : x = <<"rem", p, n>>)
    BY <1>12, <1>13, <1>16, <1>17 DEF Each
  <1>19. \A x \in N : x[1] \in {"see", "rem"}
    BY <1>18
  <1>20. "seen" \notin Steps \cup Pairs \cup {"logout"}
    BY DEF Steps, Pairs
  <1>21. Fits("seen", ops)
    <2>1. \A x \in Elems(ops) : x[1] \in Steps \cup Pairs
      BY <1>17, <1>19 DEF Pairs
    <2> QED BY <1>16, <1>20, <2>1, FitsMany
  <1>22. PICK T2, R : Turns(T, T2, R, "seen", h, N) /\ T2 = Left(w)' /\ Ranked(todo'[w])
    BY <1>1, <1>3, <1>15, <1>16, <1>17, <1>21, Turn
  <1>23. Besides(T, {<<"seen", n, old>>}) /\ Besides(T2, N)
    BY <1>3, <1>20, <1>22, ReadTurn
  <1>24. \A p : p \in S <=> p \in playing /\ can_see(pos[p], pos[n])
    <2>1. <<"seen", n, old>>[1] \notin Steps /\ <<"seen", n, old>>[1] \notin {"watch", "check"}
      BY DEF Steps
    <2> QED BY <1>4, <1>5, <1>23, <2>1, ViewersAre DEF One
  <1>25. SeenTold(N, n, old)
    <2>1. ASSUME NEW a, NEW b
          PROVE  /\ <<"see", a, b>> \in N <=> b = n /\ a \in S
                 /\ <<"rem", a, b>> \in N <=> b = n /\ a \in U
      BY <1>18
    <2>2. \A a : a \in U <=> a \in old /\ ~(a \in playing /\ can_see(pos[a], pos[n]))
      BY <1>6, <1>24
    <2> QED BY <1>19, <1>24, <2>1, <2>2 DEF SeenTold
  <1>26. Alive(n) /\ playing \subseteq PC
    <2>1. <<"seen", n, old>> \in T
      BY <1>1, <1>3, HeadLeft
    <2> QED BY <2>1 DEF One, Dying, Roll, Typed
  <1>27. UNCHANGED <<pos, sectors, visible, g_objs, clients, playing, saves, m_hp, respawns>>
    BY DEF NewViewers, players, npcs
  <1>28. Aim(T2)' /\ Clear(T2)'
    BY <1>23, <1>25, <1>26, <1>27, NewViewersPairs DEF One
  <1>29. /\ "seen" \notin Steps \cup {"watch", "check"} /\ "seen" \notin Ends
         /\ \A x \in N : x[1] \notin Steps /\ x[1] \notin Rolls /\ x[1] \notin Dies
    BY <1>19 DEF Steps, Rolls, Ends, Dies
  <1>30. Placed(T2)'
    BY <1>22, <1>27, <1>29, PlacedTurn DEF One
  <1>31. Roll(T2)'
    BY <1>22, <1>27, <1>29, RollTurn DEF One
  <1>32. Dying(T2)'
    BY <1>22, <1>27, <1>29, DyingTurn DEF One
  <1> QED BY <1>22, <1>28, <1>30, <1>31, <1>32, KeptBy

\* A crossing, and what follows it.
Crosses(ops, o, t, u, x) == ops = Crossing(o, t, u) \o <<x>>
OnlyStepsAnd(N, x) == x \in N /\ \A y \in N : y = x \/ y[1] \in Steps

LEMMA CrossingOps ==
    ASSUME NEW o \in Objects, NEW t \in Tiles, NEW u \in Tiles, NEW x \in Ops,
           NEW name, name = x[1], name \notin Steps, NEW ops, Crosses(ops, o, t, u, x)
    PROVE  /\ ops \in Seq(Ops) /\ Ranked(ops) /\ Crossed(Elems(ops), o, t, u)
           /\ OnlyStepsAnd(Elems(ops), x)
  <1> HIDE DEF Ops, Calm
  <1> USE DEF Crosses
  <1>1. PICK c : c = Crossing(o, t, u)
    OBVIOUS
  <1>2. c \in Seq(Ops)
    BY <1>1, CrossingTypes, CalmSeq
  <1>3. \A y : y \in Elems(c) <=>
              /\ sector_id(t) # sector_id(u)
              /\ y \in {<<"leave", o, sector_id(t)>>, <<"enter", o, sector_id(u)>>}
    BY <1>1, CrossingElems
  <1>4. <<x>> \in Seq(Ops) /\ Elems(<<x>>) = {x} /\ Ranked(<<x>>)
    BY Short, ElemsShort, RankedShort
  <1>5. \A y \in Elems(c) : y[1] \in Steps
    BY <1>3 DEF Steps
  <1>6. ops \in Seq(Ops) /\ Elems(ops) = Elems(c) \cup {x}
    <2>1. c \o <<x>> \in Seq(Ops) /\ Elems(c \o <<x>>) = Elems(c) \cup Elems(<<x>>)
      BY <1>2, <1>4, ElemsConcat, ZenonT(60)
    <2> QED BY <1>1, <1>4, <2>1
  <1>7. Ranked(ops)
    <2>1. Ranked(c)
      BY <1>2, <1>5, RankedMany
    <2>2. \A a \in Elems(c), b \in Elems(<<x>>) : Follows(a[1], b[1])
      BY <1>5 DEF Follows
    <2>3. Ranked(c \o <<x>>)
      BY <1>2, <1>4, <2>1, <2>2, RankedConcat
    <2> QED BY <1>1, <2>3
  <1>8. ASSUME NEW e, NEW s
        PROVE  /\ <<"leave", e, s>> \in Elems(ops) <=>
                    sector_id(t) # sector_id(u) /\ e = o /\ s = sector_id(t)
               /\ <<"enter", e, s>> \in Elems(ops) <=>
                    sector_id(t) # sector_id(u) /\ e = o /\ s = sector_id(u)
    <2>1. <<"leave", e, s>> # x /\ <<"enter", e, s>> # x
      BY DEF Steps
    <2> QED BY <1>3, <1>6, <2>1
  <1>9. Crossed(Elems(ops), o, t, u)
    BY <1>8 DEF Crossed
  <1> QED BY <1>5, <1>6, <1>7, <1>9 DEF OnlyStepsAnd

LEMMA OldViewersKept ==
    ASSUME Typed, Shape, NEW w \in Workers, NEW T, T = Left(w), One(todo[w], T), OldViewers(w)
    PROVE  Kept(w)
  <1> HIDE DEF Ops, Calm
  <1>1. Op(w, "watch")
    BY DEF OldViewers
  <1>2. PICK n \in NPC, t \in Tiles : n = Arg(w, 1) /\ t = Arg(w, 2)
    BY <1>1, HeadTypes
  <1>3. PICK h : h = Head(todo[w]) /\ h = <<"watch", n, t>>
    BY <1>1, <1>2, HeadIs DEF Three
  <1>4. PICK S : S = Viewers(t)
    OBVIOUS
  <1>5. S \in SUBSET PC /\ pos[n] \in Tiles /\ n \in Objects
    BY <1>4, AroundTypes, Sets DEF Typed
  <1>6. PICK x : x = <<"seen", n, S>>
    OBVIOUS
  <1>7. x \in Ops /\ x[1] = "seen" /\ x[1] \notin Steps
    BY <1>5, <1>6, CalmOps DEF Steps
  <1>8. PICK ops : ops = Crossing(n, t, pos[n]) \o <<x>>
    OBVIOUS
  <1>9. Then(w, ops)
    BY <1>2, <1>4, <1>6, <1>8 DEF OldViewers
  <1>10. /\ ops \in Seq(Ops) /\ Ranked(ops) /\ Crossed(Elems(ops), n, t, pos[n])
         /\ x \in Elems(ops) /\ \A y \in Elems(ops) : y = x \/ y[1] \in Steps
    <2>1. PICK u \in Tiles : u = pos[n]
      BY <1>5
    <2>2. Crosses(ops, n, t, u, x)
      BY <1>8, <2>1 DEF Crosses
    <2>3. PICK name : name = x[1] /\ name \notin Steps
      BY <1>7
    <2>4. /\ ops \in Seq(Ops) /\ Ranked(ops) /\ Crossed(Elems(ops), n, t, u)
          /\ OnlyStepsAnd(Elems(ops), x)
      BY <1>5, <1>7, <2>2, <2>3, CrossingOps
    <2> QED BY <2>1, <2>4 DEF OnlyStepsAnd
  <1>11. PICK N : N = Elems(ops)
    OBVIOUS
  <1>12. "watch" \notin Steps \cup Pairs \cup {"logout"}
    BY DEF Steps, Pairs
  <1>13. Fits("watch", ops)
    BY <1>10, <1>12 DEF Fits
  <1>14. PICK T2, R : Turns(T, T2, R, "watch", h, N) /\ T2 = Left(w)' /\ Ranked(todo'[w])
    BY <1>1, <1>3, <1>9, <1>10, <1>11, <1>13, Turn
  <1>15. Besides(T, {<<"watch", n, t>>}) /\ Besides(T2, N)
    BY <1>3, <1>12, <1>14, ReadTurn
  <1>16. \A p : p \in S <=> p \in playing /\ can_see(pos[p], t)
    <2>1. <<"watch", n, t>>[1] \notin Steps /\ <<"watch", n, t>>[2] \in NPC
      BY DEF Steps
    <2> QED BY <1>4, <1>5, <1>15, <2>1, ViewersAre DEF One
  <1>17. Alive(n)
    <2>1. <<"watch", n, t>> \in T
      BY <1>1, <1>3, HeadLeft
    <2> QED BY <2>1 DEF One, Dying
  <1>18. UNCHANGED <<pos, sectors, visible, g_objs, clients, playing, saves, m_hp, respawns>>
    BY DEF OldViewers, players, npcs
  <1>19. \A y \in N : y[1] \in Steps \cup {"seen"}
    BY <1>7, <1>10, <1>11
  <1>20. Aim(T2)' /\ Clear(T2)'
    <2>1. <<"seen", n, S>> \in N /\ \A y \in N : y[1] \notin Tells
      BY <1>6, <1>10, <1>11, <1>19 DEF Tells, Pairs, Steps
    <2> QED BY <1>5, <1>15, <1>16, <1>18, <2>1, OldViewersPairs DEF One
  <1>21. Placed(T2)'
    <2>1. Crossed(N, n, t, pos[n])
      BY <1>10, <1>11
    <2> QED BY <1>15, <1>17, <1>18, <2>1, OldViewersPlaced DEF One
  <1>22. Roll(T2)'
    <2>1. "watch" \notin Ends /\ \A y \in N : y[1] \notin Rolls
      BY <1>19 DEF Ends, Rolls, Steps
    <2> QED BY <1>14, <1>18, <2>1, RollTurn DEF One
  <1>23. Dying(T2)'
    <2>1. \A m, a : /\ <<"bury", m>> \notin T2 /\ <<"check", m>> \notin T2
                    /\ <<"store", m, a>> \notin T2 /\ <<"greet", m>> \notin T2
                    /\ <<"watch", m, a>> \notin T2
      BY <1>15, <1>19 DEF Besides, Late, Final, Steps
    <2>2. ASSUME NEW m, NEW a, <<"seen", m, a>> \in T2 PROVE m = n
      <3>1. <<"seen", m, a>> \in N
        BY <1>15, <2>2 DEF Besides, Late, Final
      <3>2. <<"seen", m, a>> = x
        BY <1>10, <1>11, <3>1 DEF Steps
      <3> QED BY <1>6, <3>2
    <2>3. \A m : Alive(m)' <=> Alive(m)
      BY <1>18 DEF Alive
    <2>4. Dying(T)
      BY DEF One
    <2> QED BY <1>17, <1>18, <2>1, <2>2, <2>3, <2>4 DEF Dying
  <1> QED BY <1>14, <1>20, <1>21, <1>22, <1>23, KeptBy

\* A step that nobody sees.
LEMMA FrameKept ==
    ASSUME NEW w, NEW T, NEW T2, NEW R, NEW name, NEW h, NEW N,
           Turns(T, T2, R, name, h, N), T2 = Left(w)', Ranked(todo'[w]), One(todo[w], T),
           name \notin Tells \cup Reads \cup Steps \cup Ends,
           \A x \in N : x[1] \notin Tells \cup Steps \cup Rolls, Dying(T2)',
           UNCHANGED <<sectors, pos, visible, g_objs, m_hp, clients, playing, saves>>
    PROVE  Kept(w)
  <1>1. name \notin Steps \cup {"watch", "check"}
    BY DEF Reads
  <1>2. Aim(T2)' /\ Clear(T2)'
    BY ViewTurn DEF One
  <1>3. Placed(T2)'
    BY <1>1, PlacedTurn DEF One
  <1>4. Roll(T2)'
    BY RollTurn DEF One
  <1> QED BY <1>2, <1>3, <1>4, KeptBy

LEMMA TickEndKept ==
    ASSUME Typed, Shape, NEW w \in Workers, NEW T, T = Left(w), One(todo[w], T),
           HasNearby(w) \/ PushMove(w) \/ FallAsleep(w)
    PROVE  Kept(w)
  <1> HIDE DEF Ops, Calm
  <1>1. UNCHANGED <<pos, sectors, visible, g_objs, clients, playing, saves, m_hp, respawns>>
    BY DEF HasNearby, PushMove, FallAsleep, players, npcs
  <1>2. PICK h : h = Head(todo[w])
    OBVIOUS
  <1>3. PICK T2, R, name, N :
            /\ Turns(T, T2, R, name, h, N) /\ T2 = Left(w)' /\ Ranked(todo'[w])
            /\ name \in Final /\ \A x \in N : x[1] \in Final
    <2>1. CASE HasNearby(w)
      <3>1. Op(w, "stay")
        BY <2>1 DEF HasNearby
      <3>2. PICK n \in NPC : n = Arg(w, 1)
        BY <3>1, HeadTypes DEF Final
      <3>3. PICK x : x = IF Viewers(pos[n]) # {} THEN <<"push", n>> ELSE <<"sleep", n>>
        OBVIOUS
      <3>4. x \in Ops /\ x[1] \in Final /\ "stay" \in Final
        BY <3>3, CalmOps DEF Final
      <3>5. Then(w, <<x>>)
        BY <2>1, <3>2, <3>3 DEF HasNearby
      <3>6. "stay" \notin Steps \cup Pairs \cup {"logout"}
        BY DEF Steps, Pairs
      <3>7. \E T2, R : Turns(T, T2, R, "stay", h, {x}) /\ T2 = Left(w)' /\ Ranked(todo'[w])
        BY <1>2, <3>1, <3>4, <3>5, <3>6, OneTurn
      <3>8. \A y \in {x} : y[1] \in Final
        BY <3>4
      <3> QED BY <3>4, <3>7, <3>8
    <2>2. CASE PushMove(w) \/ FallAsleep(w)
      <3>1. PICK name \in Final : Op(w, name) /\ Then(w, <<>>)
        BY <2>2 DEF PushMove, FallAsleep, Final
      <3>2. \E T2, R : Turns(T, T2, R, name, h, {}) /\ T2 = Left(w)' /\ Ranked(todo'[w])
        BY <1>2, <3>1, EndTurn
      <3> QED BY <3>1, <3>2
    <2> QED BY <2>1, <2>2
  <1>4. /\ name \notin Tells \cup Reads \cup Steps \cup Ends
        /\ \A x \in N : x[1] \notin Tells \cup Steps \cup Rolls /\ x[1] \notin Dies
    BY <1>3 DEF Final, Tells, Pairs, Reads, Steps, Ends, Rolls, Dies
  <1>5. Dying(T2)'
    BY <1>1, <1>3, <1>4, DyingTurn DEF One
  <1> QED BY <1>1, <1>3, <1>4, <1>5, FrameKept

\* Fights.
LEMMA HitKept ==
    ASSUME Typed, Shape, NEW w \in Workers, NEW T, T = Left(w), One(todo[w], T), Hit(w)
    PROVE  Kept(w)
  <1> HIDE DEF Ops, Calm
  <1>1. Op(w, "load")
    BY DEF Hit
  <1>2. PICK n \in NPC : n = Arg(w, 2)
    BY <1>1, HeadTypes
  <1>3. PICK h : h = Head(todo[w])
    OBVIOUS
  <1>4. UNCHANGED <<pos, sectors, visible, g_objs, clients, playing, saves, m_hp, respawns>>
    BY DEF Hit, players, npcs
  <1>5. /\ "load" \notin Tells \cup Reads \cup Steps \cup Ends
        /\ "load" \notin Steps \cup Pairs \cup {"logout"}
    BY DEF Tells, Pairs, Reads, Steps, Ends
  <1>6. CASE Then(w, <<>>)
    <2>1. PICK T2, R : Turns(T, T2, R, "load", h, {}) /\ T2 = Left(w)' /\ Ranked(todo'[w])
      BY <1>1, <1>3, <1>6, EndTurn
    <2>2. /\ \A x \in {} : x[1] \notin Tells \cup Steps \cup Rolls
          /\ \A x \in {} : x[1] \notin Dies
      OBVIOUS
    <2>3. Dying(T2)'
      BY <1>4, <2>1, <2>2, DyingTurn DEF One
    <2> QED BY <1>4, <1>5, <2>1, <2>2, <2>3, FrameKept
  <1>7. CASE Alive(n) /\ Then(w, <<<<"store", n, m_hp[n] - 1>>>>)
    <2>1. PICK i \in Int : i = m_hp[n] - 1
      BY DEF Typed
    <2>2. PICK x : x = <<"store", n, i>>
      OBVIOUS
    <2>3. x \in Ops /\ Then(w, <<x>>)
      BY <1>7, <2>1, <2>2, CalmOps
    <2>4. PICK T2, R : Turns(T, T2, R, "load", h, {x}) /\ T2 = Left(w)' /\ Ranked(todo'[w])
      BY <1>1, <1>3, <1>5, <2>3, OneTurn
    <2>5. \A y \in {x} : y[1] \notin Tells \cup Steps \cup Rolls
      BY <2>2 DEF Tells, Pairs, Steps, Rolls, Ends
    <2>6. Besides(T2, {<<"store", n, i>>})
      BY <1>5, <2>2, <2>4, ReadTurn
    <2>7. Dying(T2)'
      <3>1. \A m, a : /\ <<"bury", m>> \notin T2 /\ <<"check", m>> \notin T2
                      /\ <<"seen", m, a>> \notin T2 /\ <<"greet", m>> \notin T2
                      /\ <<"watch", m, a>> \notin T2 /\ (<<"store", m, a>> \in T2 => m = n)
        BY <2>6 DEF Besides, Late, Final
      <3>2. \A m : Alive(m)' <=> Alive(m)
        BY <1>4 DEF Alive
      <3>3. Dying(T)
        BY DEF One
      <3> QED BY <1>4, <1>7, <3>1, <3>2, <3>3 DEF Dying
    <2> QED BY <1>4, <1>5, <2>4, <2>5, <2>7, FrameKept
  <1> QED BY <1>2, <1>6, <1>7 DEF Hit

LEMMA DamageKept ==
    ASSUME Typed, Shape, NEW w \in Workers, NEW T, T = Left(w), One(todo[w], T), Damage(w)
    PROVE  Kept(w)
  <1> HIDE DEF Ops, Calm
  <1>1. Op(w, "store")
    BY DEF Damage
  <1>2. PICK n \in NPC, i \in Int : n = Arg(w, 1) /\ i = Arg(w, 2)
    BY <1>1, HeadTypes
  <1>3. PICK h : h = Head(todo[w]) /\ h = <<"store", n, i>>
    BY <1>1, <1>2, HeadIs DEF Three
  <1>4. PICK x : x = <<"check", n>>
    OBVIOUS
  <1>5. x \in Ops /\ Then(w, <<x>>) /\ m_hp' = [m_hp EXCEPT ![n] = i]
    BY <1>2, <1>4, CalmOps DEF Damage
  <1>6. "store" \notin Steps \cup Pairs \cup {"logout"}
    BY DEF Pairs, Steps
  <1>7. PICK T2, R : Turns(T, T2, R, "store", h, {x}) /\ T2 = Left(w)' /\ Ranked(todo'[w])
    BY <1>1, <1>3, <1>5, <1>6, OneTurn
  <1>8. Besides(T, {<<"store", n, i>>}) /\ Besides(T2, {<<"check", n>>})
    BY <1>3, <1>4, <1>6, <1>7, ReadTurn
  <1>9. UNCHANGED <<pos, sectors, visible, g_objs, clients, playing, saves, respawns>>
    BY DEF Damage, players
  <1>10. Alive(n) /\ playing \subseteq PC
    <2>1. <<"store", n, i>> \in T
      BY <1>1, <1>3, HeadLeft
    <2> QED BY <2>1 DEF One, Dying, Roll, Typed
  <1>11. \A m \in NPC : m # n => m_hp'[m] = m_hp[m]
    BY <1>5 DEF Typed
  <1>12. Aim(T2)' /\ Clear(T2)'
    BY <1>8, <1>9, <1>10, <1>11, DamageViews DEF One
  <1>13. Placed(T2)'
    BY <1>8, <1>9, <1>10, <1>11, DamagePlaced DEF One
  <1>14. Dying(T2)'
    BY <1>8, <1>9, <1>10, <1>11, DamageDying DEF One
  <1>15. Roll(T2)'
    <2>1. "store" \notin Ends /\ \A y \in {x} : y[1] \notin Rolls
      BY <1>4 DEF Ends, Rolls
    <2> QED BY <1>7, <1>9, <2>1, RollTurn DEF One
  <1> QED BY <1>7, <1>12, <1>13, <1>14, <1>15, KeptBy

LEMMA BuryKept ==
    ASSUME Typed, Shape, NEW w \in Workers, NEW T, T = Left(w), One(todo[w], T), Bury(w)
    PROVE  Kept(w)
  <1> HIDE DEF Ops, Calm
  <1>1. Op(w, "bury") /\ Then(w, <<>>)
    BY DEF Bury
  <1>2. PICK n \in NPC : n = Arg(w, 1)
    BY <1>1, HeadTypes
  <1>3. PICK h : h = Head(todo[w]) /\ h = <<"bury", n>>
    BY <1>1, <1>2, HeadIs DEF Three
  <1>4. PICK T2, R : Turns(T, T2, R, "bury", h, {}) /\ T2 = Left(w)' /\ Ranked(todo'[w])
    BY <1>1, <1>3, EndTurn
  <1>5. /\ "bury" \notin Tells \cup Reads \cup Steps \cup Ends
        /\ "bury" \notin Steps \cup Pairs \cup {"logout"}
    BY DEF Tells, Pairs, Reads, Steps, Ends
  <1>6. Besides(T, {<<"bury", n>>}) /\ Besides(T2, {})
    BY <1>3, <1>4, <1>5, ReadTurn
  <1>7. /\ UNCHANGED <<pos, sectors, visible, g_objs, clients, playing, saves, m_hp>>
        /\ respawns' = [respawns EXCEPT ![n] = @ + 1]
    BY <1>2 DEF Bury, players
  <1>8. Dying(T2)'
    BY <1>6, <1>7, BuryDying DEF One
  <1>9. \A x \in {} : x[1] \notin Tells \cup Steps \cup Rolls
    OBVIOUS
  <1> QED BY <1>4, <1>5, <1>7, <1>8, <1>9, FrameKept

\* The players of S are told about o, and then the handler ends.
EndsWith(ops, f, e) == ops = FlattenSeq(f) \o e

LEMMA RemOps ==
    ASSUME NEW o \in Objects, NEW S \in SUBSET PC,
           NEW f, f = [i \in 1 .. Cardinality(S) |-> <<<<"rem", SetToSeq(S)[i], o>>>>],
           NEW e \in Seq(Ops), Ranked(e), NEW E, E = Elems(e),
           \A x \in E : x[1] \in Steps \cup {"bury", "close"},
           NEW ops, EndsWith(ops, f, e)
    PROVE  /\ ops \in Seq(Ops) /\ Ranked(ops)
           /\ \A x : x \in Elems(ops) <=> x \in E \/ \E p \in S : x = <<"rem", p, o>>
  <1> HIDE DEF Ops, Calm
  <1>1. PICK ff : ff = FlattenSeq(f)
    OBVIOUS
  <1>2. ff \in Seq(Ops) /\ Each(ff, "rem", S, o)
    <2>1. \A p \in S : <<"rem", p, o>> \in Ops
      BY CalmOps
    <2> QED BY <1>1, <2>1, EachOps
  <1>3. \A x : x \in Elems(ff) <=> \E p \in S : x = <<"rem", p, o>>
    BY <1>2 DEF Each
  <1>4. \A x \in Elems(ff) : x[1] \in Pairs
    BY <1>3 DEF Pairs
  <1>5. ff \o e \in Seq(Ops) /\ Elems(ff \o e) = Elems(ff) \cup E
    BY <1>2, ElemsConcat
  <1>6. Ranked(ff \o e)
    <2>1. Ranked(ff)
      BY <1>2, <1>4, RankedMany
    <2>2. \A a \in Elems(ff), b \in Elems(e) : Follows(a[1], b[1])
      BY <1>4 DEF Follows
    <2> QED BY <1>2, <2>1, <2>2, RankedConcat
  <1>7. ops = ff \o e
    BY <1>1 DEF EndsWith
  <1>8. ops \in Seq(Ops) /\ Elems(ops) = Elems(ff) \cup E /\ Ranked(ops)
    BY <1>5, <1>6, <1>7, Zenon
  <1> QED BY <1>3, <1>8

LEMMA DeathKept ==
    ASSUME Typed, Shape, NEW w \in Workers, NEW T, T = Left(w), One(todo[w], T), Judge(w),
           ~Alive(Arg(w, 1))
    PROVE  Kept(w)
  <1> HIDE DEF Ops, Calm
  <1>1. Op(w, "check")
    BY DEF Judge
  <1>2. PICK n \in NPC : n = Arg(w, 1) /\ ~Alive(n)
    BY <1>1, HeadTypes
  <1>3. PICK h : h = Head(todo[w]) /\ h = <<"check", n>>
    BY <1>1, <1>2, HeadIs DEF Three
  <1>4. PICK S : S = Around(pos[n]) \cap clients
    OBVIOUS
  <1>5. S \in SUBSET PC /\ pos[n] \in Tiles /\ n \in Objects
    BY <1>4, Sets DEF Typed
  <1>6. PICK f : f = [i \in 1 .. Cardinality(S) |-> <<<<"rem", SetToSeq(S)[i], n>>>>]
    OBVIOUS
  <1>7. PICK a, b : a = <<"leave", n, sector_id(pos[n])>> /\ b = <<"bury", n>>
    OBVIOUS
  <1>8. PICK e : e = <<a, b>>
    OBVIOUS
  <1>9. a \in Ops /\ b \in Ops /\ a[1] = "leave" /\ b[1] = "bury"
    BY <1>5, <1>7, CalmOps, SectorIdInRange
  <1>10. e \in Seq(Ops) /\ Elems(e) = {a, b} /\ Ranked(e)
    <2>1. Follows(a[1], b[1])
      BY <1>9 DEF Follows, Steps
    <2> QED BY <1>8, <1>9, <2>1, Short, ElemsShort, RankedShort
  <1>11. PICK ops : EndsWith(ops, f, e)
    BY DEF EndsWith
  <1>12. Then(w, ops)
    BY <1>2, <1>4, <1>6, <1>7, <1>8, <1>11 DEF Judge, For, EndsWith
  <1>13. PICK E : E = Elems(e)
    OBVIOUS
  <1>14. /\ ops \in Seq(Ops) /\ Ranked(ops)
         /\ \A x : x \in Elems(ops) <=> x \in E \/ \E p \in S : x = <<"rem", p, n>>
    <2>1. \A x \in E : x[1] \in Steps \cup {"bury", "close"}
      BY <1>9, <1>10, <1>13 DEF Steps
    <2> QED BY <1>5, <1>6, <1>10, <1>11, <1>13, <2>1, RemOps
  <1>15. PICK N : N = Elems(ops)
    OBVIOUS
  <1>16. \A x : x \in N <=> x = a \/ x = b \/ \E p \in S : x = <<"rem", p, n>>
    BY <1>10, <1>13, <1>14, <1>15
  <1>17. Buried(N, n)
    <2>1. \A x \in N : x[1] \in {"rem", "leave", "bury"}
      BY <1>9, <1>16
    <2>2. ASSUME NEW c, NEW d PROVE <<"rem", c, d>> \in N <=> d = n /\ c \in S
      <3>1. <<"rem", c, d>> # a /\ <<"rem", c, d>> # b
        BY <1>9
      <3> QED BY <1>16, <3>1
    <2>3. ASSUME NEW c, NEW d
          PROVE  <<"leave", c, d>> \in N <=> c = n /\ d = sector_id(pos[n])
      <3>1. <<"leave", c, d>> # b /\ \A p : <<"leave", c, d>> # <<"rem", p, n>>
        BY <1>9
      <3>2. <<"leave", c, d>> = a <=> c = n /\ d = sector_id(pos[n])
        BY <1>7
      <3> QED BY <1>16, <3>1, <3>2
    <2>4. ASSUME NEW c PROVE <<"bury", c>> \in N <=> c = n
      <3>1. <<"bury", c>> # a /\ \A p : <<"bury", c>> # <<"rem", p, n>>
        BY <1>7
      <3>2. <<"bury", c>> = b <=> c = n
        BY <1>7
      <3> QED BY <1>16, <3>1, <3>2
    <2> QED BY <1>4, <2>1, <2>2, <2>3, <2>4 DEF Buried
  <1>18. "check" \notin Steps \cup Pairs \cup {"logout"}
    BY DEF Steps, Pairs
  <1>19. Fits("check", ops)
    BY <1>14, <1>18 DEF Fits
  <1>20. PICK T2, R : Turns(T, T2, R, "check", h, N) /\ T2 = Left(w)' /\ Ranked(todo'[w])
    BY <1>1, <1>3, <1>12, <1>14, <1>15, <1>19, Turn
  <1>21. Besides(T, {<<"check", n>>}) /\ Besides(T2, N)
    BY <1>3, <1>18, <1>20, ReadTurn
  <1>22. UNCHANGED <<pos, sectors, visible, g_objs, clients, playing, saves, m_hp, respawns>>
    BY DEF Judge, players, npcs
  <1>23. playing \subseteq clients
    BY DEF One, Roll
  <1>24. Aim(T2)' /\ Clear(T2)'
    BY <1>2, <1>17, <1>21, <1>22, <1>23, JudgeViews DEF One
  <1>25. Placed(T2)'
    BY <1>2, <1>17, <1>21, <1>22, JudgePlaced DEF One
  <1>26. Dying(T2)'
    BY <1>2, <1>17, <1>21, <1>22, JudgeDying DEF One
  <1>27. Roll(T2)'
    <2>1. "check" \notin Ends /\ \A y \in N : y[1] \notin Rolls
      BY <1>17 DEF Ends, Rolls, Buried
    <2> QED BY <1>20, <1>22, <2>1, RollTurn DEF One
  <1> QED BY <1>20, <1>24, <1>25, <1>26, <1>27, KeptBy

LEMMA JudgeKept ==
    ASSUME Typed, Shape, NEW w \in Workers, NEW T, T = Left(w), One(todo[w], T), Judge(w)
    PROVE  Kept(w)
  <1> HIDE DEF Ops, Calm
  <1>1. Op(w, "check")
    BY DEF Judge
  <1>2. PICK n \in NPC : n = Arg(w, 1)
    BY <1>1, HeadTypes
  <1>3. CASE Alive(n)
    <2>1. PICK h : h = Head(todo[w]) /\ h = <<"check", n>>
      BY <1>1, <1>2, HeadIs DEF Three
    <2>2. PICK x : x = <<"wake", n>>
      OBVIOUS
    <2>3. x \in Ops /\ Then(w, <<x>>)
      BY <1>2, <1>3, <2>2, CalmOps DEF Judge
    <2>4. "check" \notin Steps \cup Pairs \cup {"logout"}
      BY DEF Steps, Pairs
    <2>5. PICK T2, R : Turns(T, T2, R, "check", h, {x}) /\ T2 = Left(w)' /\ Ranked(todo'[w])
      BY <1>1, <2>1, <2>3, <2>4, OneTurn
    <2>6. Besides(T, {<<"check", n>>}) /\ Besides(T2, {<<"wake", n>>})
      BY <2>1, <2>2, <2>4, <2>5, ReadTurn
    <2>7. UNCHANGED <<pos, sectors, visible, g_objs, clients, playing, saves, m_hp, respawns>>
      BY DEF Judge, players, npcs
    <2>8. Aim(T2)' /\ Clear(T2)' /\ Placed(T2)' /\ Dying(T2)'
      BY <1>3, <2>6, <2>7, JudgeAlive DEF One
    <2>9. Roll(T2)'
      <3>1. "check" \notin Ends /\ \A y \in {x} : y[1] \notin Rolls
        BY <2>2 DEF Ends, Rolls
      <3> QED BY <2>5, <2>7, <3>1, RollTurn DEF One
    <2> QED BY <2>5, <2>8, <2>9, KeptBy
  <1>4. CASE ~Alive(n)
    BY <1>2, <1>4, DeathKept
  <1> QED BY <1>3, <1>4

\* The end of a session.
LEMMA LogoutKept ==
    ASSUME Typed, Shape, NEW w \in Workers, NEW T, T = Left(w), One(todo[w], T), Logout(w)
    PROVE  Kept(w)
  <1> HIDE DEF Ops, Calm
  <1>1. Op(w, "logout")
    BY DEF Logout
  <1>2. PICK p \in PC : p = Arg(w, 1)
    BY <1>1, HeadTypes
  <1>3. PICK h : h = Head(todo[w]) /\ h = <<"logout", p>>
    BY <1>1, <1>2, HeadIs DEF Three
  <1>4. PICK x : x = <<"leave", p, sector_id(pos[p])>>
    OBVIOUS
  <1>5. x \in Ops /\ x[1] = "leave"
    <2>1. p \in Objects /\ pos[p] \in Tiles
      BY Sets DEF Typed
    <2> QED BY <1>4, <2>1, CalmOps, SectorIdInRange
  <1>6. Then(w, <<x>>) /\ playing' = playing \ {p}
    BY <1>2, <1>4 DEF Logout
  <1>7. PICK T2, R : Turns(T, T2, R, "logout", h, {x}) /\ T2 = Left(w)' /\ Ranked(todo'[w])
    <2>1. x[1] \in Steps
      BY <1>5 DEF Steps
    <2> QED BY <1>1, <1>3, <1>5, <1>6, <2>1, OneTurn
  <1>8. Ending(T, T2, R, p, {<<"leave", p, sector_id(pos[p])>>})
    BY <1>3, <1>4, <1>7 DEF Turns, Ending, Follows, Steps, Pairs
  <1>9. UNCHANGED <<pos, sectors, visible, g_objs, clients, saves, m_hp, respawns>>
    BY DEF Logout, npcs
  <1>10. \A y \in {<<"leave", p, sector_id(pos[p])>>} : y[1] = "leave"
    OBVIOUS
  <1>11. Aim(T2)' /\ Clear(T2)'
    BY <1>6, <1>8, <1>9, <1>10, LogoutViews DEF One
  <1>12. Placed(T2)'
    BY <1>6, <1>8, <1>9, LogoutPlaced DEF One
  <1>13. Roll(T2)'
    BY <1>6, <1>8, <1>9, <1>10, LogoutRoll DEF One
  <1>14. Dying(T2)'
    <2>1. \A y \in {x} : y[1] \notin Dies
      BY <1>5 DEF Dies
    <2> QED BY <1>7, <1>9, <2>1, DyingTurn DEF One
  <1> QED BY <1>7, <1>11, <1>12, <1>13, <1>14, KeptBy

LEMMA HideKept ==
    ASSUME Typed, Shape, NEW w \in Workers, NEW T, T = Left(w), One(todo[w], T),
           HideFromOthers(w)
    PROVE  Kept(w)
  <1> HIDE DEF Ops, Calm
  <1>1. Op(w, "hide")
    BY DEF HideFromOthers
  <1>2. PICK p \in PC : p = Arg(w, 1)
    BY <1>1, HeadTypes
  <1>3. PICK h : h = Head(todo[w]) /\ h = <<"hide", p>>
    BY <1>1, <1>2, HeadIs DEF Three
  <1>4. PICK S : S = visible[p] \cap PC
    OBVIOUS
  <1>5. S \in SUBSET PC /\ p \in Objects
    BY <1>4, Sets
  <1>6. PICK f : f = [i \in 1 .. Cardinality(S) |-> <<<<"rem", SetToSeq(S)[i], p>>>>]
    OBVIOUS
  <1>7. PICK b : b = <<"close", p>>
    OBVIOUS
  <1>8. PICK e : e = <<b>>
    OBVIOUS
  <1>9. b \in Ops /\ b[1] = "close"
    BY <1>7, CalmOps
  <1>10. e \in Seq(Ops) /\ Elems(e) = {b} /\ Ranked(e)
    BY <1>8, <1>9, Short, ElemsShort, RankedShort
  <1>11. PICK ops : EndsWith(ops, f, e)
    BY DEF EndsWith
  <1>12. Then(w, ops) /\ visible' = [visible EXCEPT ![p] = {}]
    BY <1>2, <1>4, <1>6, <1>7, <1>8, <1>11 DEF HideFromOthers, For, EndsWith
  <1>13. PICK E : E = Elems(e)
    OBVIOUS
  <1>14. /\ ops \in Seq(Ops) /\ Ranked(ops)
         /\ \A x : x \in Elems(ops) <=> x \in E \/ \E q \in S : x = <<"rem", q, p>>
    <2>1. \A x \in E : x[1] \in Steps \cup {"bury", "close"}
      BY <1>9, <1>10, <1>13
    <2> QED BY <1>5, <1>6, <1>10, <1>11, <1>13, <2>1, RemOps
  <1>15. PICK N : N = Elems(ops)
    OBVIOUS
  <1>16. \A x : x \in N <=> x = b \/ \E q \in S : x = <<"rem", q, p>>
    BY <1>10, <1>13, <1>14, <1>15
  <1>17. Hidden(N, p)
    <2>1. \A x \in N : x[1] \in {"rem", "close"}
      BY <1>9, <1>16
    <2>2. ASSUME NEW c, NEW d PROVE <<"rem", c, d>> \in N <=> d = p /\ c \in S
      <3>1. <<"rem", c, d>> # b
        BY <1>9
      <3> QED BY <1>16, <3>1
    <2>3. ASSUME NEW c PROVE <<"close", c>> \in N <=> c = p
      <3>1. \A q : <<"close", c>> # <<"rem", q, p>>
        OBVIOUS
      <3>2. <<"close", c>> = b <=> c = p
        BY <1>7
      <3> QED BY <1>16, <3>1, <3>2
    <2> QED BY <1>4, <2>1, <2>2, <2>3 DEF Hidden
  <1>18. "hide" \notin Steps \cup Pairs \cup {"logout"}
    BY DEF Steps, Pairs
  <1>19. Fits("hide", ops)
    BY <1>14, <1>18 DEF Fits
  <1>20. PICK T2, R : Turns(T, T2, R, "hide", h, N) /\ T2 = Left(w)' /\ Ranked(todo'[w])
    BY <1>1, <1>3, <1>12, <1>14, <1>15, <1>19, Turn
  <1>21. Besides(T, {<<"hide", p>>}) /\ Besides(T2, N)
    BY <1>3, <1>18, <1>20, ReadTurn
  <1>22. UNCHANGED <<pos, sectors, g_objs, clients, playing, saves, m_hp, respawns>>
    BY DEF HideFromOthers, players, npcs
  <1>23. Aim(T2)' /\ Clear(T2)'
    BY <1>12, <1>17, <1>21, <1>22, HidePairs DEF One
  <1>24. Roll(T2)'
    BY <1>17, <1>21, <1>22, HideRoll DEF One
  <1>25. "hide" \notin Steps \cup {"watch", "check"} /\ \A y \in N : y[1] \notin Steps /\ y[1] \notin Dies
    BY <1>17 DEF Steps, Dies, Hidden
  <1>26. Placed(T2)'
    BY <1>20, <1>22, <1>25, PlacedTurn DEF One
  <1>27. Dying(T2)'
    BY <1>20, <1>22, <1>25, DyingTurn DEF One
  <1> QED BY <1>20, <1>23, <1>24, <1>26, <1>27, KeptBy

LEMMA CloseKept ==
    ASSUME Typed, Shape, NEW w \in Workers, NEW T, T = Left(w), One(todo[w], T),
           CloseSession(w)
    PROVE  Kept(w)
  <1> HIDE DEF Ops, Calm
  <1>1. Op(w, "close") /\ Then(w, <<>>)
    BY DEF CloseSession
  <1>2. PICK p \in PC : p = Arg(w, 1)
    BY <1>1, HeadTypes
  <1>3. PICK h : h = Head(todo[w]) /\ h = <<"close", p>>
    BY <1>1, <1>2, HeadIs DEF Three
  <1>4. PICK T2, R : Turns(T, T2, R, "close", h, {}) /\ T2 = Left(w)' /\ Ranked(todo'[w])
    BY <1>1, <1>3, EndTurn
  <1>5. /\ "close" \notin Tells \cup Reads /\ "close" \notin Steps \cup {"watch", "check"}
        /\ "close" \notin Steps \cup Pairs \cup {"logout"}
    BY DEF Tells, Pairs, Reads, Steps
  <1>6. Besides(T, {<<"close", p>>}) /\ Besides(T2, {})
    BY <1>3, <1>4, <1>5, ReadTurn
  <1>7. /\ UNCHANGED <<pos, sectors, visible, g_objs, playing, saves, m_hp, respawns>>
        /\ clients' = clients \ {p}
    BY <1>2 DEF CloseSession, npcs
  <1>8. /\ \A x \in {} : x[1] \notin Tells
        /\ \A x \in {} : x[1] \notin Steps
        /\ \A x \in {} : x[1] \notin Dies
    OBVIOUS
  <1>9. Aim(T2)' /\ Clear(T2)'
    BY <1>4, <1>5, <1>7, <1>8, ViewTurn DEF One
  <1>10. Placed(T2)'
    BY <1>4, <1>5, <1>7, <1>8, PlacedTurn DEF One
  <1>11. Dying(T2)'
    BY <1>4, <1>7, <1>8, DyingTurn DEF One
  <1>12. Roll(T2)'
    BY <1>6, <1>7, CloseRoll DEF One
  <1> QED BY <1>4, <1>9, <1>10, <1>11, <1>12, KeptBy
-----------------------------------------------------------------------------
(***************************************************************************)
(* The only worker takes up a handler when it has nothing left to do: the  *)
(* world is in order.                                                      *)
(***************************************************************************)
LEMMA Fresh ==
    ASSUME Typed, Shape, NEW w \in Workers, NEW T, T = Left(w), NEW kind, NEW o,
           NEW ops \in Seq(Ops), Ranked(ops), Take(w, kind, o, ops)
    PROVE  T = {} /\ \E T2 : T2 = Left(w)' /\ T2 = Elems(ops) /\ Ranked(todo'[w])
  <1> HIDE DEF Ops
  <1>1. Left(w) = {} /\ todo'[w] = ops /\ Left(w)' = Elems(ops)
    BY Starts
  <1>2. Ranked(todo'[w])
    BY <1>1
  <1> QED BY <1>1, <1>2

LEMMA RankedLate ==
    ASSUME NEW s \in Seq(Ops), \A x \in Elems(s) : x[1] \in Late
    PROVE  Ranked(s)
  <1>1. \A k \in 1 .. Len(s) : s[k][1] \in Late
    BY DEF Elems
  <1> QED BY <1>1 DEF Ranked, Follows

\* A handler that has only read so far.
LEMMA StartFrame ==
    ASSUME NEW T2, NEW s, One(s, {}), \A x \in T2 : x[1] \notin Tells \cup Steps,
           UNCHANGED <<sectors, pos, visible, g_objs, m_hp, playing>>
    PROVE  Aim(T2)' /\ Clear(T2)' /\ Placed(T2)'
  <1>1. \A x \in T2 : x[1] \in Tells => x \in {}
    OBVIOUS
  <1>2. \A x \in T2 : x[1] \in Steps => x \in {}
    OBVIOUS
  <1>3. /\ \A x \in {} : x[1] \in Tells \cup Reads => x \in T2
        /\ \A x \in {} : x[1] \in Steps \cup {"watch", "check"} => x \in T2
    OBVIOUS
  <1>4. Aim(T2)' /\ Clear(T2)'
    BY <1>1, <1>3, ViewFrame DEF One
  <1>5. Placed(T2)'
    BY <1>2, <1>3, PlacedFrame DEF One
  <1> QED BY <1>4, <1>5

LEMMA StartDying ==
    ASSUME NEW T2, NEW s, One(s, {}), \A x \in T2 : x[1] \notin Dies, UNCHANGED <<respawns, m_hp>>
    PROVE  Dying(T2)'
  <1>1. \A x \in T2 : x[1] \in {"check", "bury", "store", "greet", "watch", "seen"} => x \in {}
    BY DEF Dies
  <1> QED BY <1>1, DyingFrame DEF One

LEMMA StartRoll ==
    ASSUME NEW T2, NEW s, One(s, {}), \A x \in T2 : x[1] \notin Rolls,
           UNCHANGED <<clients, playing, saves>>
    PROVE  Roll(T2)'
  <1>1. \A x : x[1] \in {"hide", "close", "logout"} => (x \in {} <=> x \in T2)
    BY DEF Rolls, Ends
  <1>2. \A x \in T2 : x[1] \in {"view", "scan"} => x \in {}
    BY DEF Rolls
  <1> QED BY <1>1, <1>2, RollFrame DEF One

LEMMA InOrder ==
    ASSUME NEW s, One(s, {}), Typed
    PROVE  /\ \A p \in playing, o \in Objects : Fixed(p, o)
           /\ \A o \in Objects : Exact(o)
           /\ clients = playing /\ playing \subseteq PC
           /\ \A p \in PC : saves[p] = IF p \in playing THEN 0 ELSE 1
  <1>1. Clear({}) /\ Placed({}) /\ Roll({})
    BY DEF One
  <1>2. clients \subseteq PC
    BY DEF Typed
  <1> QED BY <1>1, <1>2, Settled

LEMMA MoveKept ==
    ASSUME Typed, Shape, NEW w \in Workers, NEW T, T = Left(w), One(todo[w], T),
           NEW p \in PC, Move(w, p)
    PROVE  Kept(w)
  <1> HIDE DEF Ops, Calm
  <1>1. p \in Objects /\ pos[p] \in Tiles
    BY Sets DEF Typed
  <1>2. PICK u \in Tiles :
            /\ pos' = [pos EXCEPT ![p] = u]
            /\ Take(w, "recv", p, Crossing(p, pos[p], u) \o <<<<"view", p>>>>)
    BY <1>1 DEF Move, is_obstacle
  <1>3. PICK x : x = <<"view", p>>
    OBVIOUS
  <1>4. PICK t \in Tiles : t = pos[p]
    BY <1>1
  <1>5. PICK ops : Crosses(ops, p, t, u, x)
    BY DEF Crosses
  <1>6. Take(w, "recv", p, ops)
    BY <1>2, <1>3, <1>4, <1>5 DEF Crosses
  <1>7. x \in Ops /\ "view" = x[1] /\ "view" \notin Steps
    BY <1>3, CalmOps DEF Steps
  <1>8. /\ ops \in Seq(Ops) /\ Ranked(ops) /\ Crossed(Elems(ops), p, t, u)
        /\ OnlyStepsAnd(Elems(ops), x)
    BY <1>1, <1>5, <1>7, CrossingOps
  <1>9. T = {} /\ \E T2 : T2 = Left(w)' /\ T2 = Elems(ops) /\ Ranked(todo'[w])
    BY <1>6, <1>8, Fresh
  <1>10. PICK T2 : T2 = Left(w)' /\ T2 = Elems(ops) /\ Ranked(todo'[w])
    BY <1>9
  <1>11. One(todo[w], {})
    BY <1>9
  <1>12. /\ \A q \in playing, o \in Objects : Fixed(q, o)
         /\ \A o \in Objects : Exact(o)
         /\ clients = playing /\ playing \subseteq PC
    BY <1>11, InOrder
  <1>13. p \in playing
    BY <1>12 DEF Move
  <1>14. UNCHANGED <<sectors, visible, g_objs, clients, playing, saves, m_hp, respawns>>
    BY DEF Move, players, npcs
  <1>15. x \in T2 /\ \A y \in T2 : y = x \/ y[1] \in Steps
    BY <1>8, <1>10 DEF OnlyStepsAnd
  <1>16. \A y \in T2 : y[1] \in Steps \cup {"view"}
    BY <1>7, <1>15
  <1>17. Aim(T2)' /\ Clear(T2)'
    <2>1. <<"view", p>> \in T2 /\ \A y \in T2 : y[1] \notin Tells
      BY <1>3, <1>15, <1>16 DEF Steps, Tells, Pairs
    <2> QED BY <1>2, <1>12, <1>13, <1>14, <2>1, MoveViews
  <1>18. Placed(T2)'
    <2>1. Crossed(T2, p, pos[p], u)
      BY <1>4, <1>8, <1>10
    <2> QED BY <1>2, <1>12, <1>13, <1>14, <2>1, MovePlaced
  <1>19. Dying(T2)'
    <2>1. \A y \in T2 : y[1] \notin Dies
      BY <1>16 DEF Steps, Dies
    <2> QED BY <1>11, <1>14, <2>1, StartDying
  <1>20. Roll(T2)'
    <2>1. \A a, b : /\ <<"hide", a>> \notin T2 /\ <<"close", a>> \notin T2
                    /\ <<"logout", a>> \notin T2 /\ <<"scan", a, b>> \notin T2
      BY <1>16 DEF Steps
    <2>2. \A a : <<"view", a>> \in T2 => a = p
      <3>1. ASSUME NEW a, <<"view", a>> \in T2 PROVE a = p
        <4>1. <<"view", a>> = x
          BY <1>15, <3>1 DEF Steps
        <4> QED BY <1>3, <4>1
      <3> QED BY <3>1
    <2>3. Roll({})
      BY <1>11 DEF One
    <2> QED BY <1>13, <1>14, <2>1, <2>2, <2>3 DEF Roll
  <1> QED BY <1>10, <1>17, <1>18, <1>19, <1>20, KeptBy

LEMMA AttackKept ==
    ASSUME Typed, Shape, NEW w \in Workers, NEW T, T = Left(w), One(todo[w], T),
           NEW p \in PC, Attack(w, p)
    PROVE  Kept(w)
  <1> HIDE DEF Ops, Calm
  <1>1. PICK S : S = visible[p] \cap NPC
    OBVIOUS
  <1>2. IsFiniteSet(S)
    BY <1>1, Sets, FiniteSome
  <1>3. PICK f : f = [i \in 1 .. Cardinality(S) |-> <<<<"load", p, SetToSeq(S)[i]>>>>]
    OBVIOUS
  <1>4. PICK ops : ops = FlattenSeq(f)
    OBVIOUS
  <1>5. Take(w, "recv", p, ops)
    BY <1>1, <1>3, <1>4 DEF Attack, For
  <1>6. PICK F : F = [n \in S |-> <<<<"load", p, n>>>>]
    OBVIOUS
  <1>7. F \in [S -> Seq(Ops)]
    <2>1. ASSUME NEW n \in S PROVE <<<<"load", p, n>>>> \in Seq(Ops)
      <3>1. <<"load", p, n>> \in Ops
        BY <1>1, CalmOps
      <3> QED BY <3>1, Short
    <2> QED BY <1>6, <2>1
  <1>8. Looped(S, F, f)
    <2>1. SetToSeq(S) \in [1 .. Cardinality(S) -> S]
      BY <1>2, SetToSeqTypes
    <2> QED BY <1>3, <1>6, <2>1 DEF Looped
  <1>9. ops \in Seq(Ops) /\ Gathers(ops, S, F)
    BY <1>2, <1>4, <1>7, <1>8, Loop
  <1>10. \A x \in Elems(ops) : x[1] = "load"
    <2>1. \A n \in S : Elems(F[n]) = {<<"load", p, n>>}
      BY <1>6, ElemsShort
    <2> QED BY <1>9, <2>1 DEF Gathers
  <1>11. Ranked(ops)
    <2>1. \A x \in Elems(ops) : x[1] \in Late
      BY <1>10 DEF Late
    <2> QED BY <1>9, <2>1, RankedLate
  <1>12. T = {} /\ \E T2 : T2 = Left(w)' /\ T2 = Elems(ops) /\ Ranked(todo'[w])
    BY <1>5, <1>9, <1>11, Fresh
  <1>13. PICK T2 : T2 = Left(w)' /\ T2 = Elems(ops) /\ Ranked(todo'[w])
    BY <1>12
  <1>14. One(todo[w], {})
    BY <1>12
  <1>15. UNCHANGED <<pos, sectors, visible, g_objs, clients, playing, saves, m_hp, respawns>>
    BY DEF Attack, players, npcs
  <1>16. \A x \in T2 : x[1] \notin Tells \cup Steps /\ x[1] \notin Dies /\ x[1] \notin Rolls
    BY <1>10, <1>13 DEF Tells, Pairs, Steps, Dies, Rolls, Ends
  <1>17. Aim(T2)' /\ Clear(T2)' /\ Placed(T2)'
    BY <1>14, <1>15, <1>16, StartFrame
  <1>18. Dying(T2)'
    BY <1>14, <1>15, <1>16, StartDying
  <1>19. Roll(T2)'
    BY <1>14, <1>15, <1>16, StartRoll
  <1> QED BY <1>13, <1>17, <1>18, <1>19, KeptBy

LEMMA DisconnectKept ==
    ASSUME Typed, Shape, Drawn, NEW w \in Workers, NEW T, T = Left(w), One(todo[w], T),
           NEW p \in PC, Disconnect(w, p)
    PROVE  Kept(w)
  <1> HIDE DEF Ops, Calm
  <1>1. PICK a, b : a = <<"logout", p>> /\ b = <<"hide", p>>
    OBVIOUS
  <1>2. PICK ops : ops = <<a, b>>
    OBVIOUS
  <1>3. Take(w, "drop", p, ops)
    BY <1>1, <1>2 DEF Disconnect
  <1>4. a \in Ops /\ b \in Ops /\ a[1] = "logout" /\ b[1] = "hide"
    BY <1>1, CalmOps
  <1>5. ops \in Seq(Ops) /\ Elems(ops) = {a, b} /\ Ranked(ops)
    <2>1. Follows(a[1], b[1])
      BY <1>4 DEF Follows
    <2> QED BY <1>2, <1>4, <2>1, Short, ElemsShort, RankedShort
  <1>6. T = {} /\ \E T2 : T2 = Left(w)' /\ T2 = Elems(ops) /\ Ranked(todo'[w])
    BY <1>3, <1>5, Fresh
  <1>7. PICK T2 : T2 = Left(w)' /\ T2 = Elems(ops) /\ Ranked(todo'[w])
    BY <1>6
  <1>8. One(todo[w], {})
    BY <1>6
  <1>9. clients = playing /\ \A q \in PC : saves[q] = IF q \in playing THEN 0 ELSE 1
    BY <1>8, InOrder
  <1>10. p \in playing /\ saves' = [saves EXCEPT ![p] = @ + 1]
    BY <1>9 DEF Disconnect
  <1>11. UNCHANGED <<pos, sectors, visible, g_objs, clients, playing, m_hp, respawns>>
    BY DEF Disconnect, npcs
  <1>12. \A x \in T2 : x[1] \in {"logout", "hide"}
    BY <1>4, <1>5, <1>7
  <1>13. \A x \in T2 : x[1] \notin Tells \cup Steps /\ x[1] \notin Dies
    BY <1>12 DEF Tells, Pairs, Steps, Dies
  <1>14. Aim(T2)' /\ Clear(T2)' /\ Placed(T2)'
    BY <1>8, <1>11, <1>13, StartFrame
  <1>15. Dying(T2)'
    BY <1>8, <1>11, <1>13, StartDying
  <1>16. Roll(T2)'
    <2>1. \A q : /\ <<"logout", q>> \in T2 <=> q = p
                 /\ <<"hide", q>> \in T2 <=> q = p
      <3>1. ASSUME NEW q
            PROVE  /\ <<"logout", q>> \in T2 <=> q = p
                   /\ <<"hide", q>> \in T2 <=> q = p
        <4>1. T2 = {<<"logout", p>>, <<"hide", p>>}
          BY <1>1, <1>5, <1>7
        <4> QED BY <4>1
      <3> QED BY <3>1
    <2>2. \A q, c : <<"close", q>> \notin T2 /\ <<"view", q>> \notin T2 /\ <<"scan", q, c>> \notin T2
      BY <1>12
    <2>3. ASSUME NEW q \in PC
          PROVE  saves'[q] = IF q \in playing' /\ <<"logout", q>> \notin T2 THEN 0 ELSE 1
      <3>1. playing' = playing /\ saves \in [PC -> Nat]
        BY <1>11 DEF Drawn
      <3>2. CASE q = p
        <4>1. saves[p] = 0
          BY <1>9, <1>10
        <4>2. saves'[p] = 1
          BY <1>10, <3>1, <4>1
        <4>3. <<"logout", p>> \in T2
          BY <2>1
        <4> QED BY <3>2, <4>2, <4>3
      <3>3. CASE q # p
        <4>1. saves'[q] = saves[q] /\ <<"logout", q>> \notin T2
          BY <1>10, <2>1, <3>1, <3>3
        <4> QED BY <1>9, <3>1, <4>1
      <3> QED BY <3>2, <3>3
    <2>4. playing' \subseteq clients' /\ clients' \ playing' = {}
      BY <1>9, <1>11
    <2> QED BY <2>1, <2>2, <2>3, <2>4 DEF Roll
  <1> QED BY <1>7, <1>14, <1>15, <1>16, KeptBy

LEMMA NpcTickKept ==
    ASSUME Typed, Shape, NEW w \in Workers, NEW T, T = Left(w), One(todo[w], T),
           NEW n \in NPC, NpcTick(w, n)
    PROVE  Kept(w)
  <1> HIDE DEF Ops, Calm
  <1>1. /\ UNCHANGED <<sectors, visible, g_objs, clients, playing, saves, m_hp, respawns>>
        /\ n \in Objects /\ pos[n] \in Tiles
    BY Sets DEF NpcTick, players, Typed
  \* A dead NPC, or one that stays where it is.
  <1>2. ASSUME NEW ops \in Seq(Ops), Ranked(ops), Take(w, "tick", n, ops), UNCHANGED pos,
               \A x \in Elems(ops) : x[1] = "stay"
        PROVE  Kept(w)
    <2>1. T = {} /\ \E T2 : T2 = Left(w)' /\ T2 = Elems(ops) /\ Ranked(todo'[w])
      BY <1>2, Fresh
    <2>2. PICK T2 : T2 = Left(w)' /\ T2 = Elems(ops) /\ Ranked(todo'[w])
      BY <2>1
    <2>3. One(todo[w], {})
      BY <2>1
    <2>4. \A x \in T2 : x[1] \notin Tells \cup Steps /\ x[1] \notin Dies /\ x[1] \notin Rolls
      BY <1>2, <2>2 DEF Tells, Pairs, Steps, Dies, Rolls, Ends
    <2>5. Aim(T2)' /\ Clear(T2)' /\ Placed(T2)'
      BY <1>1, <1>2, <2>3, <2>4, StartFrame
    <2>6. Dying(T2)'
      BY <1>1, <2>3, <2>4, StartDying
    <2>7. Roll(T2)'
      BY <1>1, <2>3, <2>4, StartRoll
    <2> QED BY <2>2, <2>5, <2>6, <2>7, KeptBy
  <1>3. PICK t \in Tiles : t = pos[n]
    BY <1>1
  <1>4. CASE Take(w, "tick", n, <<>>) /\ UNCHANGED pos
    <2>1. <<>> \in Seq(Ops) /\ Ranked(<<>>) /\ Elems(<<>>) = {}
      BY Short, RankedShort, ElemsShort
    <2>2. \A x \in Elems(<<>>) : x[1] = "stay"
      BY <2>1
    <2> QED BY <1>2, <1>4, <2>1, <2>2
  <1>5. CASE Take(w, "tick", n, <<<<"stay", n>>>>) /\ UNCHANGED pos
    <2>1. PICK x : x = <<"stay", n>>
      OBVIOUS
    <2>2. x \in Ops /\ x[1] = "stay"
      BY <2>1, CalmOps DEF Final
    <2>3. <<x>> \in Seq(Ops) /\ Ranked(<<x>>) /\ Elems(<<x>>) = {x}
      BY <2>2, Short, RankedShort, ElemsShort
    <2>4. \A y \in Elems(<<x>>) : y[1] = "stay"
      BY <2>2, <2>3
    <2>5. PICK ops : ops = <<x>>
      OBVIOUS
    <2>6. Take(w, "tick", n, ops)
      BY <1>5, <2>1, <2>5
    <2> QED BY <1>2, <1>5, <2>3, <2>4, <2>5, <2>6
  <1>6. CASE /\ Alive(n) /\ \A o \in Objects : o # n => pos'[o] = pos[o]
             /\ Take(w, "tick", n, <<<<"watch", n, t>>, <<"stay", n>>>>)
    <2>1. PICK a, b : a = <<"watch", n, t>> /\ b = <<"stay", n>>
      OBVIOUS
    <2>2. PICK ops : ops = <<a, b>>
      OBVIOUS
    <2>3. Take(w, "tick", n, ops)
      BY <1>6, <2>1, <2>2
    <2>4. a \in Ops /\ b \in Ops /\ a[1] = "watch" /\ b[1] = "stay"
      BY <2>1, CalmOps DEF Final
    <2>5. ops \in Seq(Ops) /\ Elems(ops) = {a, b} /\ Ranked(ops)
      <3>1. Follows(a[1], b[1])
        BY <2>4 DEF Follows, Late, Final
      <3> QED BY <2>2, <2>4, <3>1, Short, ElemsShort, RankedShort
    <2>6. T = {} /\ \E T2 : T2 = Left(w)' /\ T2 = Elems(ops) /\ Ranked(todo'[w])
      BY <2>3, <2>5, Fresh
    <2>7. PICK T2 : T2 = Left(w)' /\ T2 = Elems(ops) /\ Ranked(todo'[w])
      BY <2>6
    <2>8. One(todo[w], {})
      BY <2>6
    <2>9. /\ \A p \in playing, o \in Objects : Fixed(p, o)
          /\ \A o \in Objects : Exact(o)
          /\ playing \subseteq PC
      BY <2>8, InOrder
    <2>10. T2 = {<<"watch", n, t>>, <<"stay", n>>}
      BY <2>1, <2>5, <2>7
    <2>11. /\ \A x \in T2 : x[1] \notin Tells /\ x[1] \notin Steps /\ x[1] \notin Rolls
           /\ <<"watch", n, t>> \in T2
      BY <2>10 DEF Tells, Pairs, Steps, Rolls, Ends
    <2>12. Aim(T2)' /\ Clear(T2)'
      BY <1>1, <1>3, <1>6, <2>9, <2>11, TickViews
    <2>13. Placed(T2)'
      BY <1>1, <1>3, <1>6, <2>9, <2>11, TickPlaced
    <2>14. Dying(T2)'
      BY <1>1, <1>6, <2>8, <2>10, TickDying DEF One
    <2>15. Roll(T2)'
      BY <1>1, <2>8, <2>11, StartRoll
    <2> QED BY <2>7, <2>12, <2>13, <2>14, <2>15, KeptBy
  <1>7. CASE ~Alive(n)
    BY <1>4, <1>7 DEF NpcTick
  <1>8. CASE Alive(n)
    <2>1. \/ Take(w, "tick", n, <<<<"stay", n>>>>) /\ UNCHANGED pos
          \/ \E u : /\ pos' = [pos EXCEPT ![n] = u]
                    /\ Take(w, "tick", n, <<<<"watch", n, t>>, <<"stay", n>>>>)
      BY <1>3, <1>8 DEF NpcTick
    <2>2. ASSUME NEW u, pos' = [pos EXCEPT ![n] = u]
          PROVE  \A o \in Objects : o # n => pos'[o] = pos[o]
      BY <2>2 DEF Typed
    <2> QED BY <1>5, <1>6, <1>8, <2>1, <2>2
  <1> QED BY <1>7, <1>8

LEMMA RespawnKept ==
    ASSUME Typed, Shape, NEW w \in Workers, NEW T, T = Left(w), One(todo[w], T),
           NEW n \in NPC, Respawn(w, n)
    PROVE  Kept(w)
  <1> HIDE DEF Ops, Calm
  <1>1. /\ UNCHANGED <<sectors, visible, g_objs, clients, playing, saves>>
        /\ respawns' = [respawns EXCEPT ![n] = @ - 1] /\ respawns[n] > 0
        /\ m_hp' = [m_hp EXCEPT ![n] = MAX_HP] /\ pos' = [pos EXCEPT ![n] = m_origin[n]]
        /\ Take(w, "respawn", n, <<<<"enter", n, sector_id(m_origin[n])>>, <<"greet", n>>>>)
    BY DEF Respawn, players
  <1>2. n \in Objects /\ m_origin[n] \in Tiles /\ MAX_HP > 0
    BY Sets, RaceAssumption
  <1>3. PICK u \in Sectors : u = sector_id(m_origin[n])
    BY <1>2, SectorIdInRange
  <1>4. PICK a, b : a = <<"enter", n, u>> /\ b = <<"greet", n>>
    OBVIOUS
  <1>5. PICK ops : ops = <<a, b>>
    OBVIOUS
  <1>6. Take(w, "respawn", n, ops)
    BY <1>1, <1>3, <1>4, <1>5
  <1>7. a \in Ops /\ b \in Ops /\ a[1] = "enter" /\ b[1] = "greet"
    BY <1>2, <1>4, CalmOps
  <1>8. ops \in Seq(Ops) /\ Elems(ops) = {a, b} /\ Ranked(ops)
    <2>1. Follows(a[1], b[1])
      BY <1>7 DEF Follows, Steps
    <2> QED BY <1>5, <1>7, <2>1, Short, ElemsShort, RankedShort
  <1>9. T = {} /\ \E T2 : T2 = Left(w)' /\ T2 = Elems(ops) /\ Ranked(todo'[w])
    BY <1>6, <1>8, Fresh
  <1>10. PICK T2 : T2 = Left(w)' /\ T2 = Elems(ops) /\ Ranked(todo'[w])
    BY <1>9
  <1>11. One(todo[w], {}) /\ Dying({})
    BY <1>9 DEF One
  <1>12. /\ \A p \in playing, o \in Objects : Fixed(p, o)
         /\ \A o \in Objects : Exact(o)
         /\ playing \subseteq PC
    BY <1>11, InOrder
  <1>13. T2 = {<<"enter", n, u>>, <<"greet", n>>}
    BY <1>4, <1>8, <1>10
  <1>14. /\ \A x \in T2 : x[1] \notin Tells /\ x[1] \notin Rolls
         /\ <<"greet", n>> \in T2
    BY <1>13 DEF Tells, Pairs, Steps, Rolls, Ends
  <1>15. ~Alive(n) /\ respawns[n] = 1
    BY <1>1, <1>11, RespawnDead
  <1>16. /\ \A o \in Objects : o # n => pos'[o] = pos[o]
         /\ \A m \in NPC : m # n => m_hp'[m] = m_hp[m]
         /\ u = sector_id(pos'[n])
    BY <1>1, <1>2, <1>3 DEF Typed
  <1>17. Alive(n)'
    <2>1. m_hp'[n] = MAX_HP
      BY <1>1 DEF Typed
    <2> QED BY <1>2, <2>1 DEF Alive
  <1>18. Aim(T2)' /\ Clear(T2)'
    BY <1>1, <1>12, <1>14, <1>15, <1>16, RespawnViews
  <1>19. Placed(T2)'
    BY <1>1, <1>12, <1>13, <1>15, <1>16, <1>17, RespawnPlaced
  <1>20. Dying(T2)'
    BY <1>1, <1>11, <1>13, <1>15, <1>16, <1>17, RespawnDying
  <1>21. Roll(T2)'
    BY <1>1, <1>11, <1>14, StartRoll
  <1> QED BY <1>10, <1>18, <1>19, <1>20, <1>21, KeptBy
-----------------------------------------------------------------------------
\* The operations of a handler that has been taken up.
Proceeds(w) ==
    \/ Leave(w) \/ Enter(w)
    \/ SendAdd(w) \/ PutAdd(w) \/ SendRemove(w) \/ PutRemove(w) \/ SendMove(w)
    \/ WakeUp(w) \/ OldView(w) \/ NewView(w)
    \/ Hit(w) \/ Damage(w) \/ Judge(w) \/ Bury(w) \/ Greet(w)
    \/ OldViewers(w) \/ NewViewers(w) \/ AlreadyVisible(w)
    \/ HasNearby(w) \/ PushMove(w) \/ FallAsleep(w)
    \/ Logout(w) \/ HideFromOthers(w) \/ CloseSession(w)

\* ... and those that take one up.
Takes(w) ==
    \/ \E p \in PC : Move(w, p) \/ Attack(w, p) \/ Disconnect(w, p)
    \/ \E n \in NPC : NpcTick(w, n) \/ Respawn(w, n)

LEMMA Acts ==
    ASSUME Typed, Shape, NEW w \in Workers, Proceeds(w) \/ Takes(w)
    PROVE  w \in pool /\ pool' = pool
  <1>1. CASE Proceeds(w)
    <2>1. \E name, ops : Op(w, name) /\ Then(w, ops)
      BY <1>1 DEF Proceeds, Leave, Enter, SendAdd, PutAdd, SendRemove, PutRemove, SendMove, WakeUp,
                  OldView, NewView, Hit, Damage, Judge, Bury, Greet, OldViewers, NewViewers,
                  AlreadyVisible, HasNearby, PushMove, FallAsleep, Logout, HideFromOthers,
                  CloseSession
    <2> QED BY <2>1 DEF Op, Then, Shape
  <1>2. CASE Takes(w)
    <2>1. \E kind, o, ops : Take(w, kind, o, ops)
      BY <1>2 DEF Takes, Move, Attack, Disconnect, NpcTick, Respawn
    <2> QED BY <2>1 DEF Take
  <1> QED BY <1>1, <1>2

LEMMA DrawnKept ==
    ASSUME Typed, Shape, Drawn, NEW w \in Workers, Proceeds(w) \/ Takes(w)
    PROVE  Drawn'
  <1>1. \A o \in Objects : pos[o] \in Tiles \cup {NONE}
    BY DEF Typed
  <1>2. g_objs' \in [PC -> [Objects -> Tiles \cup {NONE}]]
    <2>1. CASE UNCHANGED g_objs
      BY <2>1 DEF Drawn
    <2>2. CASE PutAdd(w)
      <3>1. PICK p \in PC, o \in Objects : p = Arg(w, 1) /\ o = Arg(w, 2)
        BY <2>2, HeadTypes DEF PutAdd
      <3> QED BY <1>1, <2>2, <3>1 DEF PutAdd, Draw, Drawn
    <2>3. CASE PutRemove(w)
      <3>1. PICK p \in PC, o \in Objects : p = Arg(w, 1) /\ o = Arg(w, 2)
        BY <2>3, HeadTypes DEF PutRemove
      <3> QED BY <2>3, <3>1 DEF PutRemove, Erase, Drawn
    <2>4. CASE SendMove(w)
      <3>1. PICK p \in PC, o \in Objects : p = Arg(w, 1) /\ o = Arg(w, 2)
        BY <2>4, HeadTypes DEF SendMove
      <3>2. UNCHANGED g_objs \/ g_objs' = [g_objs EXCEPT ![p][o] = pos[o]]
        BY <2>4, <3>1 DEF SendMove, Follow
      <3> QED BY <1>1, <3>1, <3>2 DEF Drawn
    <2> QED BY <2>1, <2>2, <2>3, <2>4
        DEF Proceeds, Takes, Leave, Enter, SendAdd, SendRemove, WakeUp, OldView, NewView, Hit,
            Damage, Judge, Bury, Greet, OldViewers, NewViewers, AlreadyVisible, HasNearby,
            PushMove, FallAsleep, Logout, HideFromOthers, CloseSession, Move, Attack,
            Disconnect, NpcTick, Respawn
  <1>3. saves' \in [PC -> Nat]
    <2>1. CASE UNCHANGED saves
      BY <2>1 DEF Drawn
    <2>2. CASE \E p \in PC : Disconnect(w, p)
      <3>1. PICK p \in PC : Disconnect(w, p)
        BY <2>2
      <3>2. UNCHANGED saves \/ saves' = [saves EXCEPT ![p] = @ + 1]
        BY <3>1 DEF Disconnect, Drawn
      <3> QED BY <3>1, <3>2 DEF Drawn
    <2> QED BY <2>1, <2>2
        DEF Proceeds, Takes, Leave, Enter, SendAdd, PutAdd, SendRemove, PutRemove, SendMove,
            WakeUp, OldView, NewView, Hit, Damage, Judge, Bury, Greet, OldViewers, NewViewers,
            AlreadyVisible, HasNearby, PushMove, FallAsleep, Logout, HideFromOthers,
            CloseSession, Move, Attack, NpcTick, Respawn, players
  <1> QED BY <1>2, <1>3 DEF Drawn

LEMMA StepsKeep ==
    ASSUME Typed, Shape, Drawn, NEW w \in Workers, NEW T, T = Left(w), One(todo[w], T),
           Proceeds(w) \/ Takes(w)
    PROVE  Kept(w)
  <1>1. CASE Takes(w)
    <2>1. CASE \E p \in PC : Move(w, p)
      BY <2>1, MoveKept
    <2>2. CASE \E p \in PC : Attack(w, p)
      BY <2>2, AttackKept
    <2>3. CASE \E p \in PC : Disconnect(w, p)
      BY <2>3, DisconnectKept
    <2>4. CASE \E n \in NPC : NpcTick(w, n)
      BY <2>4, NpcTickKept
    <2>5. CASE \E n \in NPC : Respawn(w, n)
      BY <2>5, RespawnKept
    <2> QED BY <1>1, <2>1, <2>2, <2>3, <2>4, <2>5 DEF Takes
  <1>2. CASE Leave(w) \/ Enter(w)
    BY <1>2, StepKept
  <1>3. CASE SendAdd(w) \/ PutAdd(w) \/ SendRemove(w) \/ PutRemove(w) \/ SendMove(w)
    BY <1>3, SendAddKept, PutAddKept, SendRemoveKept, PutRemoveKept, SendMoveKept
  <1>4. CASE WakeUp(w) \/ OldView(w) \/ NewView(w)
    BY <1>4, WakeUpKept, OldViewKept, NewViewKept
  <1>5. CASE Hit(w) \/ Damage(w) \/ Judge(w) \/ Bury(w) \/ Greet(w)
    BY <1>5, HitKept, DamageKept, JudgeKept, BuryKept, GreetKept
  <1>6. CASE OldViewers(w) \/ NewViewers(w) \/ AlreadyVisible(w)
    BY <1>6, OldViewersKept, NewViewersKept, AlreadyVisibleKept
  <1>7. CASE HasNearby(w) \/ PushMove(w) \/ FallAsleep(w)
    BY <1>7, TickEndKept
  <1>8. CASE Logout(w) \/ HideFromOthers(w) \/ CloseSession(w)
    BY <1>8, LogoutKept, HideKept, CloseKept
  <1> QED BY <1>1, <1>2, <1>3, <1>4, <1>5, <1>6, <1>7, <1>8 DEF Proceeds

LEMMA AloneNext ==
    ASSUME Typed, Shape, Alone, Next
    PROVE  Alone'
  <1>1. PICK w \in Workers : Proceeds(w) \/ Takes(w)
    BY DEF Next, Proceeds, Takes
  <1>2. w \in pool /\ pool' = pool
    BY <1>1, Acts
  <1>3. Drawn /\ Drawn'
    BY <1>1, DrawnKept DEF Alone
  <1>4. ASSUME NEW v \in Workers, NEW T2, pool' = {v}, T2 = Left(v)'
        PROVE  One(todo[v], T2)'
    <2>1. v = w /\ pool = {w}
      BY <1>2, <1>4
    <2>2. PICK T : T = Left(w)
      OBVIOUS
    <2>3. One(todo[w], T)
      BY <2>1, <2>2 DEF Alone
    <2>4. Kept(w)
      BY <1>1, <1>3, <2>2, <2>3, StepsKeep
    <2> QED BY <1>4, <2>1, <2>4 DEF Kept
  <1> QED BY <1>3, <1>4 DEF Alone

LEMMA AloneSame ==
    ASSUME Alone, UNCHANGED vars
    PROVE  Alone'
  <1>1. UNCHANGED <<pool, todo, job, overlaps, pos, sectors, clients, playing, visible, saves,
                    m_hp, m_active_npc, moves, respawns, revived, g_objs>>
    BY DEF vars, handlers
  <1>2. Drawn'
    BY <1>1 DEF Alone, Drawn
  <1>3. ASSUME NEW w \in Workers, NEW T, pool' = {w}, T = Left(w)'
        PROVE  One(todo[w], T)'
    <2>1. pool = {w} /\ T = Left(w) /\ todo'[w] = todo[w]
      BY <1>1, <1>3 DEF Left
    <2>2. One(todo[w], T)
      BY <2>1 DEF Alone
    <2>3. Ranked(todo'[w])
      BY <2>1, <2>2 DEF One
    <2>4. Aim(T)' /\ Clear(T)'
      BY <1>1, <2>2, ViewFrame DEF One
    <2>5. Placed(T)'
      BY <1>1, <2>2, PlacedFrame DEF One
    <2>6. Roll(T)'
      BY <1>1, <2>2, RollFrame DEF One
    <2>7. Dying(T)'
      BY <1>1, <2>2, DyingFrame DEF One
    <2> QED BY <2>3, <2>4, <2>5, <2>6, <2>7 DEF One
  <1> QED BY <1>2, <1>3 DEF Alone

LEMMA AloneInit ==
    ASSUME Init
    PROVE  Alone
  <1>1. Typed
    BY InitShape
  <1>2. /\ playing = PC /\ clients = PC
        /\ sectors = [s \in Sectors |-> {o \in Objects : sector_id(pos[o]) = s}]
        /\ visible = [p \in PC |-> {o \in Objects : Sees(p, o)}]
        /\ saves = [p \in PC |-> 0] /\ respawns = [n \in NPC |-> 0]
        /\ g_objs = [p \in PC |-> [o \in Objects |->
                        IF o \in visible[p] \cup {p} THEN pos[o] ELSE NONE]]
    BY DEF Init
  <1>3. \A o \in Objects : InGame(o) /\ Alive(o) /\ pos[o] \in Tiles
    <2>1. \A n \in NPC : m_hp[n] = MAX_HP /\ MAX_HP > 0
      BY RaceAssumption DEF Init
    <2> QED BY <1>1, <1>2, <2>1 DEF Objects, InGame, Alive, Typed
  <1>4. Drawn
    BY <1>2, <1>3 DEF Drawn
  <1>5. ASSUME NEW w \in Workers, NEW T, T = Left(w)
        PROVE  One(todo[w], T)
    <2>1. todo[w] = <<>>
      BY DEF Init, Waiting
    <2>2. T = {} /\ Ranked(todo[w])
      BY <1>5, <2>1, ElemsShort, RankedShort DEF Left
    <2>3. Aim({})
      BY DEF Aim, Sound
    <2>4. Clear({})
      <3>1. ASSUME NEW p \in PC, NEW o \in Objects PROVE Fixed(p, o)
        <4>1. Target(p, o) <=> o = p \/ Sees(p, o)
          BY <1>3 DEF Target
        <4>2. o \in visible[p] <=> Sees(p, o)
          BY <1>2
        <4>3. Sees(p, o) => o # p
          BY DEF Sees
        <4>4. g_objs[p][o] = IF o \in visible[p] \cup {p} THEN pos[o] ELSE NONE
          BY <1>2
        <4> QED BY <4>1, <4>2, <4>3, <4>4 DEF Fixed
      <3> QED BY <1>2, <3>1 DEF Clear
    <2>5. Placed({})
      BY <1>2, <1>3 DEF Placed, Home
    <2>6. Roll({})
      BY <1>2 DEF Roll
    <2>7. Dying({})
      BY <1>2 DEF Dying
    <2> QED BY <2>2, <2>3, <2>4, <2>5, <2>6, <2>7 DEF One
  <1> QED BY <1>4, <1>5 DEF Alone

LEMMA AloneInvariant == Spec => []Alone
  <1>1. Init => Alone
    BY AloneInit
  <1>2. IInv /\ Alone /\ [Next]_vars => Alone'
    BY AloneNext, AloneSame DEF IInv
  <1> QED BY <1>1, <1>2, Invariance, PTL DEF Spec

\* Between two handlers of the only worker nothing is left to do.
LEMMA AloneSettled ==
    ASSUME IInv, Alone, Cardinality(pool) = 1, Quiet
    PROVE  /\ \A p \in playing, o \in Objects : Fixed(p, o)
           /\ \A o \in Objects : Exact(o)
           /\ clients = playing /\ playing \subseteq PC
           /\ \A p \in PC : saves[p] = IF p \in playing THEN 0 ELSE 1
  <1>1. Typed /\ Shape
    BY DEF IInv
  <1>2. pool \in Pools /\ pool \subseteq Workers
    <2>1. pool \in Pools
      BY <1>1 DEF Typed
    <2> QED BY <2>1 DEF Workers
  <1>3. IsFiniteSet(pool)
    BY <1>2, HandlersAssumption
  <1>4. PICK w : pool = {w}
    BY <1>3, FS_Singleton
  <1>5. w \in Workers /\ job[w] = NONE
    BY <1>2, <1>4 DEF Quiet
  <1>6. Left(w) = {}
    <2>1. todo[w] = <<>>
      BY <1>1, <1>5 DEF Shape
    <2> QED BY <2>1, ElemsShort DEF Left
  <1>7. One(todo[w], {})
    BY <1>4, <1>5, <1>6 DEF Alone
  <1> QED BY <1>1, <1>7, InOrder

\* With one worker every client draws, whenever no handler runs, its own player
\* and exactly the players and living NPCs in view, each at its tile: what
\* do_move, process_npc_move, npc_die, process_npc_respawn and disconnect send
\* through send_add_object, send_move_object and send_remove_object adds up, for
\* any world and any number of players and NPCs.
THEOREM MirrorsAreExact == Spec => []SerialMirror
  <1>1. ASSUME IInv, Alone PROVE SerialMirror
    <2> SUFFICES ASSUME Cardinality(pool) = 1, Quiet, NEW p \in clients, NEW o \in Objects
                 PROVE  g_objs[p][o] = IF o = p \/ (Sees(p, o) /\ Known(o) /\ Alive(o))
                                       THEN pos[o] ELSE NONE
      BY DEF SerialMirror, MirrorExact
    <2>1. Fixed(p, o) /\ clients = playing
      BY <1>1, AloneSettled
    <2>2. Target(p, o) <=> o = p \/ (Sees(p, o) /\ Known(o) /\ Alive(o))
      BY <2>1 DEF Target, InGame, Known
    <2> QED BY <2>1, <2>2 DEF Fixed
  <1> QED BY <1>1, Invariance, AloneInvariant, PTL

\* With one worker a player whose session disconnect has closed was saved once,
\* however often its receive and its sends failed; it is in no sector
\* (remove_object_from_sector) and in nobody's view (send_remove_object).
THEOREM GoneForGood == Spec => []SerialGone
  <1>1. ASSUME IInv, Alone PROVE SerialGone
    <2> SUFFICES ASSUME Cardinality(pool) = 1, Quiet, NEW p \in PC \ clients
                 PROVE  /\ saves[p] = 1
                        /\ \A s \in Sectors : p \notin sectors[s]
                        /\ \A q \in clients : p \notin visible[q]
      BY DEF SerialGone
    <2>1. /\ \A q \in playing, o \in Objects : Fixed(q, o)
          /\ \A o \in Objects : Exact(o)
          /\ clients = playing
          /\ \A q \in PC : saves[q] = IF q \in playing THEN 0 ELSE 1
      BY <1>1, AloneSettled
    <2>2. p \in Objects /\ p \notin playing /\ p \notin NPC
      BY <2>1, Sets
    <2>3. ~InGame(p)
      BY <2>2 DEF InGame
    <2>4. \A s \in Sectors : p \notin sectors[s]
      BY <2>1, <2>2, <2>3 DEF Exact, Home
    <2>5. \A q \in clients : p \notin visible[q]
      BY <2>1, <2>2, <2>3 DEF Fixed, Target
    <2> QED BY <2>1, <2>2, <2>4, <2>5
  <1> QED BY <1>1, Invariance, AloneInvariant, PTL
=============================================================================
