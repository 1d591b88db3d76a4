--------------------------- MODULE TreeRelayProofs ---------------------------
(***************************************************************************)
(* Theorems about TreeRelay: a request that is handed on along the tree    *)
(* reaches nobody twice, over no more hops than a tree of its degree       *)
(* needs, for every number of ranks, root and degree.                      *)
(***************************************************************************)
EXTENDS TreeRelay, RpcTreeProofs

\* A rank gets the request when the rank that it takes for its parent relays.
FromParent ==
    \A r \in Ranks(ranks) :
        deliveries[r] = IF r = root \/ ParentRank(r, ranks, root, degree) \in relayed
                        THEN 1 ELSE 0

\* How far from the root a rank is tells how many positions are before its own.
HopsFit ==
    \A r \in Ranks(ranks) :
        /\ hops[r] \in Nat /\ hops[r] <= Position(r, ranks, root)
        /\ LevelStart(degree)[hops[r]] <= Position(r, ranks, root)

Inv == TypeOK /\ FromParent /\ HopsFit
-----------------------------------------------------------------------------
(* The recursive function LevelStart exists.                               *)

\* g is LevelStart up to n.
UpTo(g, k, n) ==
    /\ g \in [0 .. n -> Nat] /\ g[0] = 0
    /\ \A h \in 1 .. n : g[h] = k * g[h - 1] + 1

LEMMA UpToExists ==
  ASSUME NEW k \in Nat, NEW n \in Nat
  PROVE  \E g : UpTo(g, k, n)
<1> DEFINE T == { m \in Nat : ~ \E g : UpTo(g, k, m) }
<1> SUFFICES T = {}
  OBVIOUS
<1> SUFFICES ASSUME T # {} PROVE FALSE
  OBVIOUS
<1>1. PICK m \in T : \A y \in T : m <= y
  <2>1. T \in SUBSET Nat
    OBVIOUS
  <2> HIDE DEF T
  <2> QED BY <2>1, NatMin
<1>2. m # 0
  <2>1. UpTo([h \in 0 .. 0 |-> 0], k, 0)
    BY DEF UpTo
  <2> QED BY <1>1, <2>1
<1>3. PICK g : UpTo(g, k, m - 1)
  <2>1. m - 1 \in Nat /\ ~ (m <= m - 1)
    BY <1>1, <1>2
  <2> QED BY <1>1, <2>1
<1> DEFINE f == [h \in 0 .. m |-> IF h = m THEN k * g[m - 1] + 1 ELSE g[h]]
<1>4. m \in Nat /\ m - 1 \in 0 .. m - 1 /\ m \in 1 .. m
  BY <1>1, <1>2
<1>5. g \in [0 .. m - 1 -> Nat] /\ g[0] = 0 /\ \A h \in 1 .. m - 1 : g[h] = k * g[h - 1] + 1
  BY <1>3 DEF UpTo
<1>6. f \in [0 .. m -> Nat]
  <2>1. k * g[m - 1] + 1 \in Nat
    BY <1>4, <1>5
  <2>2. \A h \in 0 .. m : h # m => g[h] \in Nat
    BY <1>4, <1>5
  <2> QED BY <2>1, <2>2
<1>7. f[0] = 0
  BY <1>2, <1>4, <1>5
<1>8. ASSUME NEW h \in 1 .. m PROVE f[h] = k * f[h - 1] + 1
  <2>1. h \in 0 .. m /\ h - 1 \in 0 .. m /\ h - 1 # m
    BY <1>4
  <2>2. f[h - 1] = g[h - 1]
    BY <2>1
  <2>3. CASE h = m
    BY <2>1, <2>2, <2>3
  <2>4. CASE h # m
    <3>1. h \in 1 .. m - 1
      BY <1>4, <2>4
    <3>2. f[h] = g[h]
      BY <2>1, <2>4
    <3> QED BY <1>5, <2>2, <3>1, <3>2
  <2> QED BY <2>3, <2>4
<1>9. UpTo(f, k, m)
  <2> HIDE DEF f
  <2> QED BY <1>6, <1>7, <1>8 DEF UpTo
<1> QED BY <1>1, <1>9

\* Two of them agree where both are defined.
LEMMA UpToUnique ==
  ASSUME NEW k \in Nat, NEW n \in Nat, NEW m \in Nat, NEW f, NEW g,
         UpTo(f, k, n), UpTo(g, k, m), NEW h \in 0 .. n, h <= m
  PROVE  f[h] = g[h]
<1> DEFINE T == { x \in Nat : x <= n /\ x <= m /\ f[x] # g[x] }
<1> SUFFICES ASSUME h \in T PROVE FALSE
  OBVIOUS
<1>1. PICK x \in T : \A y \in T : x <= y
  <2>1. T \in SUBSET Nat /\ T # {}
    OBVIOUS
  <2> HIDE DEF T
  <2> QED BY <2>1, NatMin
<1>2. x # 0
  BY <1>1 DEF UpTo
<1>3. x - 1 \in Nat /\ x - 1 <= n /\ x - 1 <= m /\ ~ (x <= x - 1)
  BY <1>1, <1>2
<1>4. f[x - 1] = g[x - 1]
  BY <1>1, <1>3
<1>5. x \in 1 .. n /\ x \in 1 .. m
  BY <1>1, <1>2
<1>6. f[x] = k * f[x - 1] + 1 /\ g[x] = k * g[x - 1] + 1
  BY <1>5 DEF UpTo
<1> QED BY <1>1, <1>4, <1>6

\* So that LevelStart is what its definition says.
LEMMA LevelStartIs ==
  ASSUME NEW k \in Nat
  PROVE  /\ LevelStart(k) \in [Nat -> Nat]
         /\ LevelStart(k)[0] = 0
         /\ \A h \in Nat : LevelStart(k)[h + 1] = k * LevelStart(k)[h] + 1
<1> DEFINE G(n) == CHOOSE g : UpTo(g, k, n)
           F == [n \in Nat |-> G(n)[n]]
           Body(f) == [h \in Nat |-> IF h = 0 THEN 0 ELSE k * f[h - 1] + 1]
<1>1. \A n \in Nat : UpTo(G(n), k, n)
  BY UpToExists
<1> HIDE DEF G
<1>2. F \in [Nat -> Nat]
  BY <1>1 DEF UpTo
<1>3. F[0] = 0
  BY <1>1 DEF UpTo
<1>4. ASSUME NEW h \in Nat, h # 0 PROVE F[h] = k * F[h - 1] + 1
  <2>1. h - 1 \in Nat /\ h \in 1 .. h /\ h - 1 \in 0 .. h - 1 /\ h - 1 <= h
    BY <1>4
  <2>2. G(h)[h] = k * G(h)[h - 1] + 1
    BY <1>1, <2>1 DEF UpTo
  <2>3. G(h - 1)[h - 1] = G(h)[h - 1]
    BY <1>1, <2>1, UpToUnique
  <2> QED BY <2>1, <2>2, <2>3
<1>5. F = Body(F)
  <2>1. \A h \in Nat : F[h] = Body(F)[h]
    <3> HIDE DEF F
    <3> QED BY <1>3, <1>4
  <2> QED BY <2>1
<1>6. LevelStart(k) = CHOOSE f : f = Body(f)
  BY DEF LevelStart
<1> HIDE DEF F
<1>7. LevelStart(k) = Body(LevelStart(k))
  <2> HIDE DEF Body
  <2> QED BY <1>5, <1>6
<1> DEFINE L == LevelStart(k)
<1>8. L[0] = 0 /\ \A h \in Nat : L[h + 1] = k * L[h] + 1
  <2>1. \A h \in Nat : Body(L)[h] = IF h = 0 THEN 0 ELSE k * L[h - 1] + 1
    OBVIOUS
  <2>2. \A h \in Nat : L[h] = IF h = 0 THEN 0 ELSE k * L[h - 1] + 1
    BY <1>7, <2>1, Zenon
  <2> HIDE DEF L
  <2>3. \A h \in Nat : h + 1 \in Nat /\ h + 1 # 0 /\ (h + 1) - 1 = h
    OBVIOUS
  <2> QED BY <2>2, <2>3
<1>9. L \in [Nat -> Nat]
  <2> DEFINE T == { n \in Nat : L[n] \notin Nat }
  <2>1. T = {}
    <3> SUFFICES ASSUME T # {} PROVE FALSE
      OBVIOUS
    <3>1. PICK n \in T : \A y \in T : n <= y
      <4>1. T \in SUBSET Nat
        OBVIOUS
      <4> HIDE DEF T
      <4> QED BY <4>1, NatMin
    <3> HIDE DEF L
    <3>2. n # 0
      BY <1>8, <3>1
    <3>3. n - 1 \in Nat /\ (n - 1) + 1 = n /\ ~ (n <= n - 1)
      BY <3>1, <3>2
    <3>4. L[n - 1] \in Nat
      BY <3>1, <3>3
    <3>5. L[n] = k * L[n - 1] + 1
      BY <1>8, <3>3
    <3> QED BY <3>1, <3>4, <3>5
  <2>2. L = [h \in Nat |-> L[h]]
    <3>1. L = Body(L)
      BY <1>7
    <3>2. Body(L) = [h \in Nat |-> Body(L)[h]]
      OBVIOUS
    <3> HIDE DEF L, Body
    <3> QED BY <3>1, <3>2
  <2> HIDE DEF L
  <2> QED BY <2>1, <2>2
<1> QED BY <1>8, <1>9
-----------------------------------------------------------------------------
(* Steps.                                                                  *)

LEMMA Sizes ==
  ASSUME TypeOK
  PROVE  /\ ranks \in Nat \ {0} /\ degree \in Nat \ {0} /\ root \in Ranks(ranks)
         /\ \A r \in Ranks(ranks) : Position(r, ranks, root) \in 0 .. ranks - 1
<1>1. ranks \in Nat \ {0} /\ degree \in Nat \ {0} /\ root \in Ranks(ranks)
  BY RelayAssumption DEF TypeOK
<1>2. \A r \in Ranks(ranks) : Position(r, ranks, root) \in Ranks(ranks)
  BY <1>1, RankAtInRanks
<1> QED BY <1>1, <1>2 DEF Ranks

LEMMA InitInv == Init => Inv
<1> SUFFICES ASSUME Init PROVE Inv
  OBVIOUS
<1>1. TypeOK
  BY RelayAssumption DEF Init, TypeOK, Ranks
<1>2. FromParent
  BY DEF Init, FromParent
<1>3. HopsFit
  <2>1. degree \in Nat /\ \A r \in Ranks(ranks) : Position(r, ranks, root) \in Nat
    BY <1>1, Sizes
  <2>2. LevelStart(degree)[0] = 0
    BY <2>1, LevelStartIs
  <2> QED BY <2>1, <2>2 DEF Init, HopsFit
<1> QED BY <1>1, <1>2, <1>3 DEF Inv

\* A child is no nearer than the left end of its parent's list.
LEMMA ChildIsFurther ==
  ASSUME NEW n \in Nat \ {0}, NEW k \in Nat \ {0}, NEW rt \in Ranks(n),
         NEW r \in Ranks(n), NEW c \in Children(r, n, rt, k)
  PROVE  /\ Position(c, n, rt) >= k * Position(r, n, rt) + 1
         /\ c # rt /\ c # r
<1>1. PICK j \in 1 .. ChildCount(r, n, rt, k) : c = ChildRank(r, n, rt, k, j)
  BY DEF Children
<1> DEFINE p == Position(r, n, rt)
           q == LeftPosition(p, k) + j - 1
<1>2. p \in Ranks(n) /\ j \in 1 .. PositionChildCount(p, n, k)
  BY RankAtInRanks DEF ChildCount
<1>3. q \in Ranks(n) /\ j \in 1 .. k
  BY <1>2, ChildPosition
<1>4. Position(c, n, rt) = q
  BY <1>1, <1>3, RankAtInRanks DEF ChildRank
<1>5. q >= k * p + 1
  <2>1. p * k = k * p /\ p * k \in Nat
    BY <1>2 DEF Ranks
  <2> QED BY <1>3, <2>1 DEF LeftPosition
<1>6. c # rt
  BY <1>1, ChildrenDistinct
<1>7. c # r
  <2>1. Position(c, n, rt) > Position(r, n, rt) /\ Position(r, n, rt) \in Int
    BY <1>2, ChildIsRank DEF Ranks
  <2> QED BY <2>1
<1> QED BY <1>4, <1>5, <1>6, <1>7

\* The children of a rank are those that take it for their parent.
LEMMA ChildrenAre ==
  ASSUME TypeOK, NEW r \in Ranks(ranks), NEW c \in Ranks(ranks)
  PROVE  c \in ChildrenOf(r) <=> c # root /\ ParentRank(c, ranks, root, degree) = r
<1>1. /\ ranks \in Nat \ {0} /\ degree \in Nat \ {0} /\ root \in Ranks(ranks)
  BY Sizes
<1>2. c \in ChildrenOf(r) => c # root /\ ParentRank(c, ranks, root, degree) = r
  BY <1>1, ChildIsRank, ChildIsFurther DEF ChildrenOf
<1>3. ASSUME c # root, ParentRank(c, ranks, root, degree) = r PROVE c \in ChildrenOf(r)
  <2>1. \E j \in 1 .. ChildCount(r, ranks, root, degree) :
          ChildRank(r, ranks, root, degree, j) = c
    BY <1>1, <1>3, ParentListsChild
  <2> QED BY <2>1 DEF ChildrenOf, Children
<1> QED BY <1>2, <1>3

LEMMA RelayStep ==
  ASSUME Inv, NEW r \in Ranks(ranks), Relay(r)
  PROVE  Inv'
<1> DEFINE L == LevelStart(degree)
           Pos(x) == Position(x, ranks, root)
<1>0. UNCHANGED <<ranks, root, degree>> /\ TypeOK /\ FromParent /\ HopsFit
  BY DEF Relay, args, Inv
<1>1. /\ ranks \in Nat \ {0} /\ degree \in Nat \ {0} /\ root \in Ranks(ranks)
      /\ \A x \in Ranks(ranks) : Pos(x) \in 0 .. ranks - 1
  BY <1>0, Sizes
<1>2. /\ L \in [Nat -> Nat] /\ \A h \in Nat : L[h + 1] = degree * L[h] + 1
  BY <1>1, LevelStartIs
<1>3. ASSUME NEW c \in Ranks(ranks)
      PROVE  /\ hops'[c] \in Nat /\ hops'[c] <= Pos(c) /\ L[hops'[c]] <= Pos(c)
  <2>1. CASE c \notin ChildrenOf(r)
    BY <1>0, <2>1 DEF Relay, HopsFit
  <2>2. CASE c \in ChildrenOf(r)
    <3>1. hops'[c] = hops[r] + 1
      BY <2>2 DEF Relay
    <3>2. hops[r] \in Nat /\ hops[r] <= Pos(r) /\ L[hops[r]] <= Pos(r)
      BY <1>0 DEF HopsFit
    <3>3. Pos(c) >= degree * Pos(r) + 1
      BY <1>1, <2>2, ChildIsFurther DEF ChildrenOf
    <3>4. L[hops'[c]] = degree * L[hops[r]] + 1 /\ L[hops[r]] \in Nat
      BY <1>2, <3>1, <3>2
    <3>5. Pos(r) \in Nat /\ Pos(c) \in Nat
      BY <1>1
    <3> HIDE DEF L, Pos
    <3>6. degree * L[hops[r]] <= degree * Pos(r) /\ Pos(r) <= degree * Pos(r)
      BY <1>1, <3>2, <3>4, <3>5
    <3>7. degree * L[hops[r]] \in Nat /\ degree * Pos(r) \in Nat
      BY <1>1, <3>4, <3>5
    <3> QED BY <3>1, <3>2, <3>3, <3>4, <3>5, <3>6, <3>7
  <2> QED BY <2>1, <2>2
<1>4. HopsFit'
  BY <1>0, <1>3 DEF HopsFit
<1>5. FromParent'
  <2>1. relayed' = relayed \cup {r} /\ r \notin relayed
    BY DEF Relay
  <2>2. ASSUME NEW c \in Ranks(ranks)
        PROVE  deliveries'[c] = IF c = root \/ ParentRank(c, ranks, root, degree) \in relayed'
                                THEN 1 ELSE 0
    <3>1. deliveries'[c] = IF c \in ChildrenOf(r) THEN deliveries[c] + 1 ELSE deliveries[c]
      BY DEF Relay
    <3>2. c \in ChildrenOf(r) <=> c # root /\ ParentRank(c, ranks, root, degree) = r
      BY <1>0, ChildrenAre
    <3> QED BY <1>0, <2>1, <3>1, <3>2 DEF FromParent
  <2> QED BY <1>0, <2>2 DEF FromParent
<1>6. TypeOK'
  <2>1. deliveries' \in [Ranks(ranks) -> Nat]
    BY <1>0 DEF Relay, TypeOK
  <2>2. hops' \in [Ranks(ranks) -> Ranks(ranks)]
    <3>1. \A c \in Ranks(ranks) : hops'[c] \in Ranks(ranks)
      BY <1>1, <1>3 DEF Ranks
    <3> QED BY <3>1 DEF Relay
  <2>3. relayed' \subseteq Ranks(ranks)
    BY <1>0 DEF Relay, TypeOK
  <2> QED BY <1>0, <2>1, <2>2, <2>3 DEF TypeOK
<1> QED BY <1>4, <1>5, <1>6 DEF Inv

LEMMA Invariance == Spec => []Inv
<1>1. Inv /\ [Next]_vars => Inv'
  <2>1. Inv /\ UNCHANGED vars => Inv'
    BY DEF Inv, vars, args, TypeOK, FromParent, HopsFit
  <2> QED BY <2>1, RelayStep DEF Next
<1> QED BY <1>1, InitInv, PTL DEF Spec

(***************************************************************************)
(* Nobody is more hops away than there are ranks, and only ranks relay.    *)
(***************************************************************************)
THEOREM TypeCorrect == Spec => []TypeOK
<1>1. Inv => TypeOK
  BY DEF Inv
<1> QED BY <1>1, Invariance, PTL

(***************************************************************************)
(* The child lists that metasim_rpc_tree_init computes at each rank by     *)
(* itself hand a request to no rank twice.                                 *)
(***************************************************************************)
THEOREM OnlyOnce == Spec => []DeliveredOnce
<1>1. Inv => DeliveredOnce
  BY DEF Inv, FromParent, DeliveredOnce
<1> QED BY <1>1, Invariance, PTL

(***************************************************************************)
(* A rank is h hops from the root only when there are at least as many     *)
(* ranks as the levels above it can take: the depth of a collective call   *)
(* is logarithmic in the number of servers.                                *)
(***************************************************************************)
THEOREM DepthIsLeast == Spec => []LevelsAreFull
<1>1. Inv => LevelsAreFull
  <2> SUFFICES ASSUME Inv, NEW r \in Ranks(ranks)
               PROVE  LevelStart(degree)[hops[r]] < ranks
    BY DEF LevelsAreFull
  <2>1. /\ LevelStart(degree)[hops[r]] <= Position(r, ranks, root)
        /\ hops[r] \in Nat /\ TypeOK
    BY DEF Inv, HopsFit
  <2>2. Position(r, ranks, root) \in 0 .. ranks - 1 /\ degree \in Nat /\ ranks \in Nat
    BY <2>1, Sizes
  <2>3. LevelStart(degree)[hops[r]] \in Nat
    BY <2>1, <2>2, LevelStartIs
  <2> QED BY <2>1, <2>2, <2>3
<1> QED BY <1>1, Invariance, PTL
=============================================================================
