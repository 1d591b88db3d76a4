------------------------------ MODULE RpcTree ------------------------------
(***************************************************************************)
(* The k-ary tree over which the servers forward a collective RPC          *)
(* (server/src/metasim-rpc-tree.c, metasim_rpc_tree_init, and the copy of  *)
(* it in server/src/margotree.c, tree_init).                               *)
(*                                                                         *)
(* The function is pure: rank, ranks, root and degree k go in, the parent  *)
(* and the list of children come out.  Ranks are rotated so that the root  *)
(* is position 0, the neighbours are computed as positions of a heap, and  *)
(* positions are rotated back into ranks.  Every server of a call          *)
(* evaluates it by itself, with nothing but the root in the message: the   *)
(* tree exists only because their results fit together.                    *)
(*                                                                         *)
(* All operators are total for n \in Nat \ {0}, k \in Nat \ {0} and rt     *)
(* (the root), rank \in 0 .. n-1, which every caller in the repository     *)
(* respects (k is 2 everywhere).  They use no recursion, so that           *)
(* RpcTreeProofs can prove about them for every size.                      *)
(***************************************************************************)
EXTENDS Integers, FiniteSets

NoRank == -1     \* parent_rank of the root

Ranks(n) == 0 .. n-1

\* rank -= root; if (rank < 0) rank += ranks
Position(rank, n, rt) ==
    IF rank < rt THEN rank - rt + n ELSE rank - rt

\* rank += root; if (rank >= ranks) rank -= ranks
RankAt(position, n, rt) ==
    IF position + rt >= n THEN position + rt - n ELSE position + rt

ParentPosition(p, k) == (p - 1) \div k

\* Mutant: `rank * k', which makes the root its own first child.
LeftPositionOffByOne(p, k) == p * k

LeftPosition(p, k) == p * k + 1

\* The rightmost child, adjusted when the last set of children is not full.
RightPosition(p, n, k) ==
    IF p * k + k >= n THEN n - 1 ELSE p * k + k

\* Mutant: `right - left', the last child left out.
PositionChildCountOffByOne(p, n, k) ==
    IF LeftPosition(p, k) < n THEN RightPosition(p, n, k) - LeftPosition(p, k) ELSE 0

\* t->child_count: left < ranks guards the only assignment that makes it > 0.
PositionChildCount(p, n, k) ==
    IF LeftPosition(p, k) < n
    THEN RightPosition(p, n, k) - LeftPosition(p, k) + 1
    ELSE 0

ChildCount(rank, n, rt, k) == PositionChildCount(Position(rank, n, rt), n, k)

\* t->child_ranks[i-1], for i \in 1 .. ChildCount: the order of the requests.
ChildRank(rank, n, rt, k, i) ==
    RankAt(LeftPosition(Position(rank, n, rt), k) + i - 1, n, rt)

ParentRank(rank, n, rt, k) ==
    LET p == Position(rank, n, rt)
    IN  IF p > 0 THEN RankAt(ParentPosition(p, k), n, rt) ELSE NoRank

Children(rank, n, rt, k) ==
    { ChildRank(rank, n, rt, k, i) : i \in 1 .. ChildCount(rank, n, rt, k) }
-----------------------------------------------------------------------------
(* Subtrees, which no server computes; properties speak of them.           *)

Closed(S, n, rt, k) == \A y \in S : Children(y, n, rt, k) \subseteq S

\* The ranks of the subtree at r: those in every set that holds r and, with a
\* rank, its children.
Below(r, n, rt, k) ==
    { x \in Ranks(n) : \A S \in SUBSET Ranks(n) :
                         r \in S /\ Closed(S, n, rt, k) => x \in S }
=============================================================================
