--------------------------- MODULE RpcTreeProofs ---------------------------
(***************************************************************************)
(* Theorems about the trees of metasim_rpc_tree_init, for every number of  *)
(* ranks, every root and every degree: the lists that the ranks compute    *)
(* each for itself fit together to one tree of all ranks.                  *)
(***************************************************************************)
EXTENDS RpcTree, WellFoundedInduction, TLAPS

\* A nonempty set of naturals has a least element.
LEMMA NatMin ==
  ASSUME NEW T \in SUBSET Nat, T # {}
  PROVE  \E x \in T : \A y \in T : x <= y
<1> DEFINE R == OpToRel(<, Nat)
<1>1. \A x, y \in Nat : y < x => <<y, x>> \in R
  BY DEF OpToRel
<1>2. IsWellFoundedOn(R, Nat)
  BY NatLessThanWellFounded
<1> HIDE DEF R
<1>3. \E x \in T : \A y \in T : ~ (<<y, x>> \in R)
  BY <1>2, WFMin, Zenon
<1>4. PICK x \in T : \A y \in T : ~ (<<y, x>> \in R)
  BY <1>3
<1>5. ASSUME NEW y \in T PROVE x <= y
  <2>1. x \in Nat /\ y \in Nat
    OBVIOUS
  <2>2. ~ (y < x)
    BY <1>1, <1>4, <2>1, Zenon
  <2> QED BY <2>1, <2>2
<1> QED BY <1>5

\* The quotient of q * k + i, with i < k, is q (positions of children).
LEMMA DivMult ==
  ASSUME NEW k \in Nat \ {0}, NEW q \in Nat, NEW i \in 0 .. k-1
  PROVE  (q * k + i) \div k = q
OBVIOUS

\* A quotient brackets its dividend (ParentPosition).
LEMMA DivBounds ==
  ASSUME NEW k \in Nat \ {0}, NEW a \in Nat
  PROVE  /\ a \div k \in Nat
         /\ (a \div k) * k <= a
         /\ a < (a \div k) * k + k
OBVIOUS

\* Rotating a position by the root gives a rank, and Position undoes it.
LEMMA RankAtInRanks ==
  ASSUME NEW n \in Nat \ {0}, NEW root \in Ranks(n), NEW p \in Ranks(n)
  PROVE  /\ RankAt(p, n, root) \in Ranks(n)
         /\ Position(RankAt(p, n, root), n, root) = p
         /\ Position(p, n, root) \in Ranks(n)
         /\ RankAt(Position(p, n, root), n, root) = p
BY DEF RankAt, Ranks, Position

-----------------------------------------------------------------------------
(* Facts about positions.                                                  *)

\* The positions from LeftPosition to RightPosition are positions of ranks,
\* past their parent, which ParentPosition finds again.
LEMMA ChildPosition ==
  ASSUME NEW n \in Nat \ {0}, NEW k \in Nat \ {0}, NEW p \in Ranks(n),
         NEW i \in 1 .. PositionChildCount(p, n, k)
  PROVE  /\ LeftPosition(p, k) + i - 1 \in Ranks(n)
         /\ LeftPosition(p, k) + i - 1 > p
         /\ ParentPosition(LeftPosition(p, k) + i - 1, k) = p
         /\ i \in 1 .. k
<1>1. p * k \in Nat /\ p * k >= p
  BY DEF Ranks
<1>2. PositionChildCount(p, n, k) > 0 /\ i \in Nat /\ i >= 1
  BY <1>1 DEF PositionChildCount, RightPosition, LeftPosition, Ranks
<1>3. p * k + 1 < n
  BY <1>1, <1>2 DEF PositionChildCount, LeftPosition, Ranks
<1>4. i <= k /\ p * k + i < n
  BY <1>1, <1>2, <1>3 DEF PositionChildCount, RightPosition, LeftPosition, Ranks
<1>5. (p * k + (i - 1)) \div k = p
  BY <1>2, <1>4, DivMult DEF Ranks
<1>6. LeftPosition(p, k) + i - 1 = p * k + i
  BY <1>1, <1>2 DEF LeftPosition
<1>7. ParentPosition(p * k + i, k) = p
  <2>1. (p * k + i) - 1 = p * k + (i - 1)
    BY <1>1, <1>2
  <2> QED BY <2>1, <1>5, Zenon DEF ParentPosition
<1> QED BY <1>1, <1>2, <1>4, <1>6, <1>7 DEF Ranks

\* Every position but 0 is among those of its ParentPosition's children.
LEMMA PositionHasParent ==
  ASSUME NEW n \in Nat \ {0}, NEW k \in Nat \ {0}, NEW p \in Ranks(n), p > 0
  PROVE  /\ ParentPosition(p, k) \in Ranks(n)
         /\ ParentPosition(p, k) < p
         /\ \E i \in 1 .. PositionChildCount(ParentPosition(p, k), n, k) :
               LeftPosition(ParentPosition(p, k), k) + i - 1 = p
<1> DEFINE q == ParentPosition(p, k)
           m == q * k
           i == p - m
<1>1. p - 1 \in Nat /\ p \in Nat
  BY DEF Ranks
<1>2. q \in Nat /\ m <= p - 1 /\ p - 1 < m + k
  BY <1>1, DivBounds DEF ParentPosition
<1>3. m \in Nat /\ m >= q
  BY <1>2
<1> HIDE DEF m
<1>4. q \in Ranks(n) /\ q < p
  BY <1>1, <1>2, <1>3 DEF Ranks
<1>5. i \in 1 .. PositionChildCount(q, n, k)
  <2>1. PositionChildCount(q, n, k) =
          IF m + 1 < n THEN (IF m + k >= n THEN n - 1 ELSE m + k) - (m + 1) + 1 ELSE 0
    BY DEF PositionChildCount, LeftPosition, RightPosition, m
  <2> QED BY <2>1, <1>1, <1>2, <1>3 DEF Ranks
<1>6. LeftPosition(q, k) + i - 1 = p
  <2>1. LeftPosition(q, k) = m + 1
    BY DEF LeftPosition, m
  <2> QED BY <2>1, <1>1, <1>3
<1> QED BY <1>4, <1>5, <1>6

-----------------------------------------------------------------------------
(* Facts about ranks.                                                      *)

(***************************************************************************)
(* What a rank computes about its child agrees with what the child         *)
(* computes about itself: the i-th entry of child_ranks is a rank, is      *)
(* further from the root, and its own parent_rank is the rank that listed  *)
(* it.                                                                     *)
(***************************************************************************)
THEOREM ChildKnowsParent ==
  ASSUME NEW n \in Nat \ {0}, NEW k \in Nat \ {0}, NEW root \in Ranks(n),
         NEW r \in Ranks(n), NEW i \in 1 .. ChildCount(r, n, root, k)
  PROVE  /\ ChildRank(r, n, root, k, i) \in Ranks(n)
         /\ Position(ChildRank(r, n, root, k, i), n, root) > Position(r, n, root)
         /\ ParentRank(ChildRank(r, n, root, k, i), n, root, k) = r
         /\ i \in 1 .. k
<1> DEFINE p == Position(r, n, root)
           q == LeftPosition(p, k) + i - 1
           c == ChildRank(r, n, root, k, i)
<1>1. p \in Ranks(n) /\ RankAt(p, n, root) = r
  BY RankAtInRanks
<1>2. i \in 1 .. PositionChildCount(p, n, k)
  BY DEF ChildCount
<1>3. q \in Ranks(n) /\ q > p /\ ParentPosition(q, k) = p /\ i \in 1 .. k
  BY <1>1, <1>2, ChildPosition
<1>4. c = RankAt(q, n, root)
  BY DEF ChildRank
<1> HIDE DEF p, q
<1>5. c \in Ranks(n) /\ Position(c, n, root) = q
  BY <1>3, <1>4, RankAtInRanks
<1>6. q > 0
  BY <1>1, <1>3 DEF Ranks
<1>7. ParentRank(c, n, root, k) = r
  BY <1>1, <1>3, <1>5, <1>6 DEF ParentRank
<1> QED BY <1>3, <1>5, <1>7 DEF p

(***************************************************************************)
(* And conversely: every rank but the root is listed by exactly the rank   *)
(* it takes for its parent, so that a request reaches it.                  *)
(***************************************************************************)
THEOREM ParentListsChild ==
  ASSUME NEW n \in Nat \ {0}, NEW k \in Nat \ {0}, NEW root \in Ranks(n),
         NEW r \in Ranks(n), r # root
  PROVE  /\ ParentRank(r, n, root, k) \in Ranks(n)
         /\ Position(ParentRank(r, n, root, k), n, root) < Position(r, n, root)
         /\ \E i \in 1 .. ChildCount(ParentRank(r, n, root, k), n, root, k) :
               ChildRank(ParentRank(r, n, root, k), n, root, k, i) = r
<1> DEFINE p == Position(r, n, root)
           q == ParentPosition(p, k)
           f == ParentRank(r, n, root, k)
<1>1. p \in Ranks(n) /\ RankAt(p, n, root) = r /\ p > 0
  <2>1. p > 0
    BY DEF Position, Ranks
  <2> QED BY <2>1, RankAtInRanks
<1>2. /\ q \in Ranks(n)
      /\ q < p
      /\ \E i \in 1 .. PositionChildCount(q, n, k) : LeftPosition(q, k) + i - 1 = p
  BY <1>1, PositionHasParent
<1>3. f = RankAt(q, n, root)
  BY <1>1 DEF ParentRank
<1>4. f \in Ranks(n) /\ Position(f, n, root) = q
  BY <1>2, <1>3, RankAtInRanks
<1>5. PICK i \in 1 .. PositionChildCount(q, n, k) : LeftPosition(q, k) + i - 1 = p
  BY <1>2
<1>6. i \in 1 .. ChildCount(f, n, root, k)
  BY <1>4, <1>5 DEF ChildCount
<1>7. ChildRank(f, n, root, k, i) = r
  BY <1>1, <1>4, <1>5 DEF ChildRank
<1> QED BY <1>2, <1>4, <1>6, <1>7

(***************************************************************************)
(* child_ranks names no rank twice, and never the root.                    *)
(***************************************************************************)
THEOREM ChildrenDistinct ==
  ASSUME NEW n \in Nat \ {0}, NEW k \in Nat \ {0}, NEW root \in Ranks(n),
         NEW r \in Ranks(n),
         NEW i \in 1 .. ChildCount(r, n, root, k)
  PROVE  /\ ChildRank(r, n, root, k, i) # root
         /\ \A j \in 1 .. ChildCount(r, n, root, k) :
               ChildRank(r, n, root, k, i) = ChildRank(r, n, root, k, j) => i = j
<1> DEFINE p == Position(r, n, root)
           q(m) == LeftPosition(p, k) + m - 1
<1>1. p \in Ranks(n) /\ Position(root, n, root) = 0
  <2>1. p \in Ranks(n)
    BY RankAtInRanks
  <2>2. Position(root, n, root) = 0
    BY DEF Position, Ranks
  <2> QED BY <2>1, <2>2
<1>2. \A m \in 1 .. ChildCount(r, n, root, k) :
        /\ q(m) \in Ranks(n)
        /\ q(m) > p
        /\ Position(ChildRank(r, n, root, k, m), n, root) = q(m)
  <2> TAKE m \in 1 .. ChildCount(r, n, root, k)
  <2>1. q(m) \in Ranks(n) /\ q(m) > p
    BY <1>1, ChildPosition DEF ChildCount
  <2>2. ChildRank(r, n, root, k, m) = RankAt(q(m), n, root)
    BY DEF ChildRank
  <2> HIDE DEF q
  <2> QED BY <2>1, <2>2, RankAtInRanks
<1>3. \A j \in 1 .. ChildCount(r, n, root, k) : q(i) = q(j) => i = j
  <2>1. p * k \in Nat
    BY <1>1 DEF Ranks
  <2> QED BY <2>1 DEF LeftPosition
<1> HIDE DEF p, q
<1>4. ChildRank(r, n, root, k, i) # root
  BY <1>1, <1>2 DEF Ranks
<1> QED BY <1>2, <1>3, <1>4

(***************************************************************************)
(* Coverage: a set of ranks that holds the root, and with a rank all of    *)
(* its children, holds every rank.  A request forwarded from the root by   *)
(* every rank that gets it therefore leaves no server out.                 *)
(***************************************************************************)
THEOREM Coverage ==
  ASSUME NEW n \in Nat \ {0}, NEW k \in Nat \ {0}, NEW root \in Ranks(n),
         NEW S \in SUBSET Ranks(n), root \in S,
         \A r \in S : Children(r, n, root, k) \subseteq S
  PROVE  S = Ranks(n)
<1> SUFFICES ASSUME S # Ranks(n) PROVE FALSE
  OBVIOUS
<1> DEFINE Out == Ranks(n) \ S
           T   == { Position(r, n, root) : r \in Out }
<1>1. T \in SUBSET Nat /\ T # {}
  <2>1. \A r \in Ranks(n) : Position(r, n, root) \in Nat
    BY RankAtInRanks DEF Ranks
  <2>2. Out # {}
    OBVIOUS
  <2> QED BY <2>1, <2>2
<1>2. PICK x \in T : \A y \in T : x <= y
  BY <1>1, NatMin
<1>3. PICK r \in Out : Position(r, n, root) = x
  BY <1>2
<1> DEFINE f == ParentRank(r, n, root, k)
<1>4. /\ f \in Ranks(n)
      /\ Position(f, n, root) < x
      /\ \E i \in 1 .. ChildCount(f, n, root, k) : ChildRank(f, n, root, k, i) = r
  BY <1>3, ParentListsChild
<1>5. r \in Children(f, n, root, k)
  BY <1>4 DEF Children
<1> HIDE DEF f
<1>6. f \notin S
  BY <1>5, <1>3
<1>7. Position(f, n, root) \in T
  BY <1>4, <1>6
<1>8. x \in Nat /\ Position(f, n, root) \in Nat
  BY <1>1, <1>2, <1>7
<1> QED BY <1>2, <1>4, <1>7, <1>8

-----------------------------------------------------------------------------
(* Subtrees.                                                               *)

\* What a rank lists in child_ranks are ranks.
LEMMA ChildIsRank ==
  ASSUME NEW n \in Nat \ {0}, NEW k \in Nat \ {0}, NEW root \in Ranks(n),
         NEW r \in Ranks(n), NEW c \in Children(r, n, root, k)
  PROVE  /\ c \in Ranks(n)
         /\ ParentRank(c, n, root, k) = r
         /\ Position(c, n, root) > Position(r, n, root)
<1>1. PICK i \in 1 .. ChildCount(r, n, root, k) : c = ChildRank(r, n, root, k, i)
  BY DEF Children
<1> QED BY <1>1, ChildKnowsParent

\* A subtree holds its top.
LEMMA BelowSelf ==
  ASSUME NEW n, NEW k, NEW root, NEW r \in Ranks(n)
  PROVE  r \in Below(r, n, root, k)
BY DEF Below

\* A subtree holds the children of its ranks.
LEMMA BelowClosed ==
  ASSUME NEW n \in Nat \ {0}, NEW k \in Nat \ {0}, NEW root \in Ranks(n),
         NEW r \in Ranks(n)
  PROVE  /\ Closed(Below(r, n, root, k), n, root, k)
         /\ Below(r, n, root, k) \in SUBSET Ranks(n)
<1>1. Below(r, n, root, k) \in SUBSET Ranks(n)
  BY DEF Below
<1>2. ASSUME NEW y \in Below(r, n, root, k), NEW z \in Children(y, n, root, k)
      PROVE  z \in Below(r, n, root, k)
  <2>1. z \in Ranks(n)
    BY <1>1, ChildIsRank
  <2>2. ASSUME NEW S \in SUBSET Ranks(n), r \in S, Closed(S, n, root, k)
        PROVE  z \in S
    <3>1. y \in S
      BY <2>2 DEF Below
    <3> QED BY <3>1, <2>2 DEF Closed
  <2> QED BY <2>1, <2>2 DEF Below
<1> QED BY <1>1, <1>2 DEF Closed

\* The subtree of a child lies within that of its parent, without the parent.
LEMMA BelowChild ==
  ASSUME NEW n \in Nat \ {0}, NEW k \in Nat \ {0}, NEW root \in Ranks(n),
         NEW r \in Ranks(n), NEW c \in Children(r, n, root, k)
  PROVE  /\ Below(c, n, root, k) \subseteq Below(r, n, root, k)
         /\ r \notin Below(c, n, root, k)
<1>1. c \in Ranks(n) /\ Position(c, n, root) > Position(r, n, root)
  BY ChildIsRank
<1>2. ASSUME NEW S \in SUBSET Ranks(n), r \in S, Closed(S, n, root, k)
      PROVE  c \in S
  BY <1>2 DEF Closed
<1>3. Below(c, n, root, k) \subseteq Below(r, n, root, k)
  BY <1>2 DEF Below
<1>4. r \notin Below(c, n, root, k)
  <2> DEFINE S == { y \in Ranks(n) : Position(y, n, root) > Position(r, n, root) }
  <2>1. c \in S /\ r \notin S
    <3>1. Position(r, n, root) \in Int
      BY RankAtInRanks DEF Ranks
    <3> QED BY <1>1, <3>1
  <2>2. Closed(S, n, root, k)
    <3>1. ASSUME NEW y \in S, NEW z \in Children(y, n, root, k)
          PROVE  z \in S
      <4>1. z \in Ranks(n) /\ Position(z, n, root) > Position(y, n, root)
        BY ChildIsRank
      <4>2. \A x \in Ranks(n) : Position(x, n, root) \in Int
        BY RankAtInRanks DEF Ranks
      <4> QED BY <4>1, <4>2
    <3> QED BY <3>1 DEF Closed
  <2>3. S \in SUBSET Ranks(n)
    OBVIOUS
  <2> HIDE DEF S
  <2> QED BY <2>1, <2>2, <2>3 DEF Below
<1> QED BY <1>3, <1>4

\* A rank of a subtree is its top, or its parent is in the subtree.
LEMMA BelowParent ==
  ASSUME NEW n \in Nat \ {0}, NEW k \in Nat \ {0}, NEW root \in Ranks(n),
         NEW c \in Ranks(n), NEW z \in Below(c, n, root, k), z # c
  PROVE  ParentRank(z, n, root, k) \in Below(c, n, root, k)
<1> DEFINE B == Below(c, n, root, k)
           S == { x \in B : x = c \/ ParentRank(x, n, root, k) \in B }
<1>1. Closed(B, n, root, k) /\ B \in SUBSET Ranks(n) /\ c \in B
  BY BelowClosed, BelowSelf
<1>2. Closed(S, n, root, k)
  <2>1. ASSUME NEW y \in S, NEW x \in Children(y, n, root, k)
        PROVE  x \in S
    <3>1. y \in B /\ y \in Ranks(n)
      BY <1>1
    <3>2. x \in B
      BY <1>1, <3>1 DEF Closed
    <3>3. ParentRank(x, n, root, k) = y
      BY <3>1, ChildIsRank
    <3> QED BY <3>1, <3>2, <3>3
  <2> QED BY <2>1 DEF Closed
<1>3. S \in SUBSET Ranks(n) /\ c \in S
  BY <1>1
<1>4. z \in S
  <2> HIDE DEF S
  <2> QED BY <1>2, <1>3 DEF Below
<1> QED BY <1>4

(***************************************************************************)
(* The subtrees of two children of a rank have no rank in common, so that  *)
(* adding up the partial sums of the children counts nobody twice.         *)
(***************************************************************************)
THEOREM SiblingsDisjoint ==
  ASSUME NEW n \in Nat \ {0}, NEW k \in Nat \ {0}, NEW root \in Ranks(n),
         NEW r \in Ranks(n),
         NEW c \in Children(r, n, root, k), NEW d \in Children(r, n, root, k),
         c # d
  PROVE  Below(c, n, root, k) \cap Below(d, n, root, k) = {}
<1> DEFINE D == Below(d, n, root, k)
           S == { x \in Ranks(n) : x \notin D /\ Position(x, n, root) > Position(r, n, root) }
<1>0. \A x \in Ranks(n) : Position(x, n, root) \in Int
  BY RankAtInRanks DEF Ranks
<1>1. /\ c \in Ranks(n) /\ d \in Ranks(n)
      /\ ParentRank(c, n, root, k) = r /\ ParentRank(d, n, root, k) = r
      /\ Position(c, n, root) > Position(r, n, root)
  BY ChildIsRank
<1>2. r \notin D
  BY BelowChild
<1>3. c \in S
  <2>1. c \notin D
    <3> HIDE DEF D
    <3> SUFFICES ASSUME c \in D PROVE FALSE
      OBVIOUS
    <3>1. ParentRank(c, n, root, k) \in D
      BY <1>1, BelowParent DEF D
    <3> QED BY <1>1, <1>2, <3>1
  <2> QED BY <1>1, <2>1
<1>4. Closed(S, n, root, k)
  <2>1. ASSUME NEW y \in S, NEW z \in Children(y, n, root, k)
        PROVE  z \in S
    <3>1. y \in Ranks(n) /\ y \notin D /\ Position(y, n, root) > Position(r, n, root)
      OBVIOUS
    <3>2. /\ z \in Ranks(n) /\ ParentRank(z, n, root, k) = y
          /\ Position(z, n, root) > Position(y, n, root)
      BY <3>1, ChildIsRank
    <3>3. Position(z, n, root) > Position(r, n, root)
      BY <1>0, <3>1, <3>2
    <3>4. z # d
      BY <1>0, <1>1, <3>1, <3>2
    <3>5. z \notin D
      <4> SUFFICES ASSUME z \in D PROVE FALSE
        OBVIOUS
      <4>1. ParentRank(z, n, root, k) \in D
        BY <1>1, <3>4, BelowParent
      <4> QED BY <3>1, <3>2, <4>1
    <3> HIDE DEF D
    <3> QED BY <3>2, <3>3, <3>5
  <2> QED BY <2>1 DEF Closed
<1>5. S \in SUBSET Ranks(n) /\ S \cap D = {}
  <2> HIDE DEF D
  <2> QED OBVIOUS
<1>6. Below(c, n, root, k) \subseteq S
  <2> HIDE DEF S
  <2> QED BY <1>3, <1>4, <1>5 DEF Below
<1> QED BY <1>5, <1>6

(***************************************************************************)
(* A subtree is its top and the subtrees of the children of the top; the   *)
(* subtree of the root is all ranks.                                       *)
(***************************************************************************)
THEOREM BelowIsChildren ==
  ASSUME NEW n \in Nat \ {0}, NEW k \in Nat \ {0}, NEW root \in Ranks(n),
         NEW r \in Ranks(n), NEW x \in Below(r, n, root, k), x # r
  PROVE  \E c \in Children(r, n, root, k) : x \in Below(c, n, root, k)
<1> DEFINE S == { y \in Ranks(n) : \/ y = r
                                   \/ \E c \in Children(r, n, root, k) :
                                        y \in Below(c, n, root, k) }
<1>1. Closed(S, n, root, k)
  <2>1. ASSUME NEW y \in S, NEW z \in Children(y, n, root, k)
        PROVE  z \in S
    <3>1. z \in Ranks(n)
      BY ChildIsRank
    <3>2. CASE y = r
      BY <3>1, <3>2, BelowSelf
    <3>3. CASE y # r
      <4>1. PICK c \in Children(r, n, root, k) : y \in Below(c, n, root, k)
        BY <3>3
      <4>2. c \in Ranks(n)
        BY ChildIsRank
      <4>3. z \in Below(c, n, root, k)
        BY <4>1, <4>2, BelowClosed DEF Closed
      <4> QED BY <3>1, <4>3
    <3> QED BY <3>2, <3>3
  <2> QED BY <2>1 DEF Closed
<1>2. S \in SUBSET Ranks(n) /\ r \in S
  OBVIOUS
<1>3. x \in S
  <2> HIDE DEF S
  <2> QED BY <1>1, <1>2 DEF Below
<1> QED BY <1>3

\* The subtree of the root, the ranks a request of the root reaches, is all
\* ranks: metasim_rpc_tree_init at every rank leaves none out.
THEOREM BelowRoot ==
  ASSUME NEW n \in Nat \ {0}, NEW k \in Nat \ {0}, NEW root \in Ranks(n)
  PROVE  Below(root, n, root, k) = Ranks(n)
<1>1. /\ Closed(Below(root, n, root, k), n, root, k)
      /\ Below(root, n, root, k) \in SUBSET Ranks(n)
      /\ root \in Below(root, n, root, k)
  BY BelowClosed, BelowSelf
<1> QED BY <1>1, Coverage DEF Closed
=============================================================================
