------------------------------ MODULE TreeRelay ------------------------------
(***************************************************************************)
(* The tree of RpcTree put to its use: a request starts at the root, and   *)
(* each rank that holds it evaluates metasim_rpc_tree_init for itself and  *)
(* hands it to the ranks in its own child_ranks.  No other part of an RPC  *)
(* is here, so that trees of many sizes, roots and degrees can be checked. *)
(***************************************************************************)
EXTENDS RpcTree

CONSTANTS
    MaxRanks,   \* bound on the number of servers
    MaxDegree   \* bound on k (the code only uses 2)

ASSUME RelayAssumption == MaxRanks \in Nat \ {0} /\ MaxDegree \in Nat \ {0}

VARIABLES
    ranks, root, degree,   \* the arguments all ranks agree on
    deliveries,            \* deliveries[r]: how often r was handed it
    hops,                  \* hops[r]: length of the path it came on
    relayed                \* ranks that have forwarded it

args == <<ranks, root, degree>>
vars == <<args, deliveries, hops, relayed>>

Init ==
    /\ ranks \in 1 .. MaxRanks
    /\ root \in Ranks(ranks)
    /\ degree \in 1 .. MaxDegree
    /\ deliveries = [r \in Ranks(ranks) |-> IF r = root THEN 1 ELSE 0]
    /\ hops = [r \in Ranks(ranks) |-> 0]
    /\ relayed = {}

\* Mutant: the degree is not passed on, and the tree is a chain.
ChildrenOfChain(r) == Children(r, ranks, root, 1)

ChildrenOf(r) == Children(r, ranks, root, degree)

\* Mutant: marks the next rank, not itself, as done.
RelayMarksNext(r) ==
    /\ deliveries[r] > 0 /\ r \notin relayed
    /\ relayed' = relayed \cup {r + 1}
    /\ UNCHANGED <<args, deliveries, hops>>

Relay(r) ==
    /\ deliveries[r] > 0 /\ r \notin relayed
    /\ relayed' = relayed \cup {r}
    /\ deliveries' = [c \in Ranks(ranks) |->
                        IF c \in ChildrenOf(r) THEN deliveries[c] + 1 ELSE deliveries[c]]
    /\ hops' = [c \in Ranks(ranks) |->
                  IF c \in ChildrenOf(r) THEN hops[r] + 1 ELSE hops[c]]
    /\ UNCHANGED args

Next == \E r \in Ranks(ranks) : Relay(r)

Spec == Init /\ [][Next]_vars /\ WF_vars(Next)
-----------------------------------------------------------------------------
TypeOK ==
    /\ ranks \in 1 .. MaxRanks
    /\ root \in Ranks(ranks)
    /\ degree \in 1 .. MaxDegree
    /\ deliveries \in [Ranks(ranks) -> Nat]
    /\ hops \in [Ranks(ranks) -> Ranks(ranks)]
    /\ relayed \subseteq Ranks(ranks)

(***************************************************************************)
(* The ranks' separately computed child lists never overlap and never lead *)
(* back to the root: nobody gets the request twice.                        *)
(***************************************************************************)
DeliveredOnce == \A r \in Ranks(ranks) : deliveries[r] <= 1

\* The first position that is h hops away in a full tree of degree k, which is
\* 1 + k + ... + k^(h-1): as many ranks are nearer to the root.
LevelStart(k) == LET start[h \in Nat] == IF h = 0 THEN 0 ELSE k * start[h - 1] + 1
                 IN  start

(***************************************************************************)
(* The tree is as flat as its degree allows: a rank h hops away exists     *)
(* only when the levels above it are full, so that with degree 2 no rank   *)
(* of n is more than log2(n) hops from the root.                           *)
(***************************************************************************)
LevelsAreFull == \A r \in Ranks(ranks) : LevelStart(degree)[hops[r]] < ranks

(***************************************************************************)
(* The request reaches every server.                                       *)
(***************************************************************************)
ReachesAll == <>(\A r \in Ranks(ranks) : deliveries[r] > 0)
=============================================================================
