----------------------------- MODULE SumService -----------------------------
(***************************************************************************)
(* What the collective sum promises to the code that calls                 *)
(* metasim_rpc_invoke_sum (server/src/metasim-rpc.c:283): a call made at   *)
(* some rank is answered once, and the answer counts the contribution      *)
(* rank + seed of every server exactly once.  When a Mercury, Margo or     *)
(* malloc call may fail (Reliable = FALSE), the code promises less: the    *)
(* call may never be answered, or be answered with an error, or count      *)
(* fewer servers, but still no server twice, nor without the caller's own. *)
(*                                                                         *)
(* SumBroadcast implements this module over the tree of servers.           *)
(***************************************************************************)
EXTENDS RpcTree

CONSTANTS
    N,          \* number of servers (metasim->nranks)
    Ops,        \* calls of metasim_rpc_invoke_sum
    Reliable    \* TRUE when no library call fails

VARIABLES
    caller,     \* caller[o]: the rank that made call o, NoRank before
    answer      \* answer[o]: the answer returned to it, NoAnswer before

vars == <<caller, answer>>

NoAnswer  == [kind |-> "none"]
Failure   == [kind |-> "failure"]       \* a non-zero return value
Garbage   == [kind |-> "garbage"]       \* an uninitialised sum was added

\* The sum of rank + seed over S, as how often each rank was added.
Counted(S) ==
    [kind |-> "sum", of |-> [x \in Ranks(N) |-> IF x \in S THEN 1 ELSE 0]]

Complete == Counted(Ranks(N))

Answers(r) ==
    IF Reliable
    THEN {Complete}
    ELSE {Failure, Garbage} \cup { Counted(S) : S \in {T \in SUBSET Ranks(N) : r \in T} }

Init ==
    /\ caller = [o \in Ops |-> NoRank]
    /\ answer = [o \in Ops |-> NoAnswer]

Call(o, r) ==
    /\ caller[o] = NoRank
    /\ caller' = [caller EXCEPT ![o] = r]
    /\ UNCHANGED answer

Answer(o) ==
    /\ caller[o] # NoRank
    /\ answer[o] = NoAnswer
    /\ \E a \in Answers(caller[o]) : answer' = [answer EXCEPT ![o] = a]
    /\ UNCHANGED caller

Next ==
    \E o \in Ops : (\E r \in Ranks(N) : Call(o, r)) \/ Answer(o)

SafeSpec == Init /\ [][Next]_vars

\* Without a failing library call, every call is answered.
Spec == SafeSpec /\ \A o \in Ops : WF_vars(Answer(o))
=============================================================================
