---------------------------- MODULE SumBroadcast ----------------------------
(***************************************************************************)
(* The collective sum of the servers (server/src/metasim-rpc.c).           *)
(*                                                                         *)
(* A call of metasim_rpc_invoke_sum at rank `root' forwards a request to   *)
(* the children of the root in the tree of RpcTree; every server that gets *)
(* the request forwards it to its own children, waits for their partial    *)
(* sums in the order of its child list, adds its own rank + seed and       *)
(* replies.  The request and the replies are Margo RPCs.                   *)
(*                                                                         *)
(* Each call runs as a ULT (user-level thread) of Argobots on a fixed      *)
(* number of execution streams (ES): the RPC handlers of a server share    *)
(* the pool of the Margo instance metasim->mid, the callers, handlers of   *)
(* the local clients' requests, the pool of the listener's instance.  A    *)
(* ULT keeps its ES until it ends or waits in margo_wait for a reply that  *)
(* has not come; network progress has a thread of its own.                 *)
(*                                                                         *)
(* A partial sum is the number of times the contribution rank + seed of    *)
(* each server was added to it.  Requests travel in `requests'; a reply is *)
(* the state of the replying ULT, which ends with it.                      *)
(*                                                                         *)
(* Library calls fail at most MaxFaults times per call; `faults' remembers *)
(* where.  A failure the code turns into no reply at all leaves the parent *)
(* waiting: no call in this path has a timeout.                            *)
(***************************************************************************)
EXTENDS RpcTree

CONSTANTS
    N,          \* metasim->nranks
    Ops,        \* calls of metasim_rpc_invoke_sum
    Callers,    \* ranks whose clients call
    Streams,    \* execution streams of each pool (4 in the code)
    MaxFaults   \* bound on the failing library calls of one call

ASSUME NAssumption       == N \in Nat \ {0}
ASSUME StreamsAssumption == Streams \in Nat \ {0}
ASSUME CallersAssumption == Callers \subseteq Ranks(N)
ASSUME FaultsAssumption  == MaxFaults \in Nat

Degree == 2     \* the k every caller passes to metasim_rpc_tree_init

Rank == Ranks(N)

VARIABLES
    bcast_tree, \* bcast_tree[r]: child_count of the tree r built for itself
    root,       \* root[o]: in.root of call o, NoRank before the call
    requests,   \* <<o, from, to>>: sum requests `to' has not started on
    pc,         \* pc[o][r]: where the ULT of call o at rank r is
    child_count,\* locals of sum_forward: the tree's child_count,
    sent,       \*   how many requests were forwarded
    got,        \*   and how many replies were added
    sum,        \* sum[o][r][x]: times rank x was added to sum at r
    garbage,    \* garbage[o][r]: out->sum holds an uninitialised value
    ret,        \* ret[o][r]: what sum_forward returned
    faults      \* faults[o]: <<rank, kind>> of the calls that failed

ult  == <<pc, child_count, sent, got, sum, garbage, ret>>
vars == <<bcast_tree, root, requests, ult, faults>>

TreeChildCount(r, rt) == ChildCount(r, N, rt, Degree)
\* Mutant: the children in the rank's own tree (bcast_tree), not in the root's.
ChildOfOwnTree(o, r, i) == ChildRank(r, N, r, Degree, i)

Child(o, r, i)        == ChildRank(r, N, root[o], Degree, i)

Kinds == {"input", "tree", "alloc", "forward", "wait", "output", "respond"}

Nothing == [x \in Rank |-> 0]
-----------------------------------------------------------------------------
(* Execution streams.                                                      *)

\* The calls that hold an ES of the pool that the ULT of o at r runs on.
SamePool(o, r) == { p \in Ops : (root[p] = r) <=> (root[o] = r) }

\* Mutant: margo_wait keeps the ES while it waits.
HoldersWithWaiting(o, r) ==
    { p \in SamePool(o, r) : pc[p][r] \in {"running", "out", "blocked"} }

Holders(o, r) == { p \in SamePool(o, r) : pc[p][r] \in {"running", "out"} }

FreeStream(o, r) == Cardinality(Holders(o, r)) < Streams

\* A caller runs on the listener's pool: only other callers at r compete.
FreeListenerStream(r) ==
    Cardinality({ p \in Ops : root[p] = r /\ pc[p][r] \in {"running", "out"} }) < Streams

\* Mutant: a reply does not wake the ULT that waits for it.
OnStreamNoWakeup(o, r) == pc[o][r] = "running"

\* A ULT in margo_wait goes on where it was, or takes an ES again.
OnStream(o, r) ==
    \/ pc[o][r] = "running"
    \/ pc[o][r] = "blocked" /\ FreeStream(o, r)

Fault(o, r, kind) ==
    /\ Cardinality(faults[o]) < MaxFaults
    /\ faults' = [faults EXCEPT ![o] = @ \cup {<<r, kind>>}]

Goto(o, r, label) == pc' = [pc EXCEPT ![o][r] = label]
-----------------------------------------------------------------------------
\* metasim_rpc_register ignores the result of metasim_rpc_tree_init: when its
\* malloc fails, the server goes on with a tree that has no child.
Init ==
    /\ \E bad \in SUBSET Rank :
         /\ Cardinality(bad) <= MaxFaults
         /\ bcast_tree = [r \in Rank |-> IF r \in bad THEN 0 ELSE TreeChildCount(r, r)]
    /\ root        = [o \in Ops |-> NoRank]
    /\ requests    = {}
    /\ pc          = [o \in Ops |-> [r \in Rank |-> "idle"]]
    /\ child_count = [o \in Ops |-> [r \in Rank |-> 0]]
    /\ sent        = [o \in Ops |-> [r \in Rank |-> 0]]
    /\ got         = [o \in Ops |-> [r \in Rank |-> 0]]
    /\ sum         = [o \in Ops |-> [r \in Rank |-> Nothing]]
    /\ garbage     = [o \in Ops |-> [r \in Rank |-> FALSE]]
    /\ ret         = [o \in Ops |-> [r \in Rank |-> "ok"]]
    /\ faults      = [o \in Ops |-> {}]

\* metasim_rpc_invoke_sum at rank r, up to its call of sum_forward.
InvokeSum(o, r) ==
    /\ root[o] = NoRank /\ r \in Callers
    /\ FreeListenerStream(r)
    /\ root' = [root EXCEPT ![o] = r]
    /\ Goto(o, r, "running")
    /\ child_count' = [child_count EXCEPT ![o][r] = bcast_tree[r]]
    /\ IF bcast_tree[r] = TreeChildCount(r, r)
       THEN UNCHANGED faults
       ELSE Fault(o, r, "tree")
    /\ UNCHANGED <<bcast_tree, requests, sent, got, sum, garbage, ret>>

\* The ULT of a request at a server: metasim_rpc_handle_sum begins.
Receive(o, r) ==
    /\ \E m \in requests :
         /\ m[1] = o /\ m[3] = r
         /\ requests' = requests \ {m}
    /\ pc[o][r] = "idle"
    /\ FreeStream(o, r)
    /\ UNCHANGED <<bcast_tree, root, sent, got, sum, garbage, ret>>

HandleSum(o, r) ==
    /\ Receive(o, r)
    /\ Goto(o, r, "running")
    /\ child_count' = [child_count EXCEPT ![o][r] = TreeChildCount(r, root[o])]
    /\ UNCHANGED faults

\* margo_get_input fails: the handler returns and nothing is ever replied.
GetInputFails(o, r) ==
    /\ Receive(o, r)
    /\ Goto(o, r, "silent")
    /\ Fault(o, r, "input")
    /\ UNCHANGED child_count

\* malloc fails in metasim_rpc_tree_init and the handler does not look.
TreeInitFails(o, r) ==
    /\ Receive(o, r)
    /\ Goto(o, r, "running")
    /\ child_count' = [child_count EXCEPT ![o][r] = 0]
    /\ Fault(o, r, "tree")
-----------------------------------------------------------------------------
(* sum_forward                                                             *)

\* `return ENOMEM' before out->sum was ever assigned.
AllocFails(o, r) ==
    /\ pc[o][r] = "running" /\ sent[o][r] = 0 /\ child_count[o][r] > 0
    /\ Fault(o, r, "alloc")
    /\ garbage' = [garbage EXCEPT ![o][r] = TRUE]
    /\ ret' = [ret EXCEPT ![o][r] = "error"]
    /\ Goto(o, r, "out")
    /\ UNCHANGED <<bcast_tree, root, requests, child_count, sent, got, sum>>

\* Mutant: `i <= child_count' in the loop that forwards.
ForwardOneMore(o, r) ==
    /\ pc[o][r] = "running" /\ sent[o][r] <= child_count[o][r]
    /\ requests' = requests \cup {<<o, r, Child(o, r, sent[o][r] + 1)>>}
    /\ sent' = [sent EXCEPT ![o][r] = @ + 1]
    /\ UNCHANGED <<bcast_tree, root, pc, child_count, got, sum, garbage, ret, faults>>

ForwardRequest(o, r) ==
    /\ pc[o][r] = "running" /\ sent[o][r] < child_count[o][r]
    /\ requests' = requests \cup {<<o, r, Child(o, r, sent[o][r] + 1)>>}
    /\ sent' = [sent EXCEPT ![o][r] = @ + 1]
    /\ UNCHANGED <<bcast_tree, root, pc, child_count, got, sum, garbage, ret, faults>>

\* margo_wait blocks: the child has not replied, and the ES is given away.
Block(o, r) ==
    /\ pc[o][r] = "running"
    /\ sent[o][r] = child_count[o][r] /\ got[o][r] < child_count[o][r]
    /\ pc[o][Child(o, r, got[o][r] + 1)] # "replied"
    /\ Goto(o, r, "blocked")
    /\ UNCHANGED <<bcast_tree, root, requests, child_count, sent, got, sum, garbage, ret, faults>>

Add(o, r, c) ==
    /\ sum' = [sum EXCEPT ![o][r] = [x \in Rank |-> sum[o][r][x] + sum[o][c][x]]]
    /\ garbage' = [garbage EXCEPT ![o][r] = garbage[o][r] \/ garbage[o][c]]
    /\ got' = [got EXCEPT ![o][r] = @ + 1]
    /\ Goto(o, r, "running")
    /\ UNCHANGED <<bcast_tree, root, requests, child_count, sent, ret, faults>>

\* Mutant: a wait that gives up on a silent child, and adds a sum of 0.
CollectOrGiveUp(o, r) ==
    /\ OnStream(o, r)
    /\ sent[o][r] = child_count[o][r] /\ got[o][r] < child_count[o][r]
    /\ pc[o][Child(o, r, got[o][r] + 1)] \in {"replied", "silent"}
    /\ Add(o, r, Child(o, r, got[o][r] + 1))

\* margo_wait returns the reply of the next child: sum += partial_sum.
Collect(o, r) ==
    /\ OnStream(o, r)
    /\ sent[o][r] = child_count[o][r] /\ got[o][r] < child_count[o][r]
    /\ pc[o][Child(o, r, got[o][r] + 1)] = "replied"
    /\ Add(o, r, Child(o, r, got[o][r] + 1))

\* margo_get_output fails, which the code does not look at: it adds the
\* uninitialised _out.sum in place of the child's partial sum.
GetOutputFails(o, r) ==
    /\ OnStream(o, r)
    /\ sent[o][r] = child_count[o][r] /\ got[o][r] < child_count[o][r]
    /\ pc[o][Child(o, r, got[o][r] + 1)] = "replied"
    /\ garbage' = [garbage EXCEPT ![o][r] = TRUE]
    /\ got' = [got EXCEPT ![o][r] = @ + 1]
    /\ Goto(o, r, "running")
    /\ Fault(o, r, "output")
    /\ UNCHANGED <<bcast_tree, root, requests, child_count, sent, sum, ret>>

\* Mutant: a rank without children returns before it adds itself.
AddOwnUnlessLeaf(o, r, rc) ==
    /\ sum' = IF child_count[o][r] = 0 THEN sum ELSE [sum EXCEPT ![o][r][r] = @ + 1]
    /\ ret' = [ret EXCEPT ![o][r] = rc]
    /\ Goto(o, r, "out")
    /\ UNCHANGED <<bcast_tree, root, requests, child_count, sent, got, garbage>>

\* The code at `out:': the rank adds itself, whatever it got from its children.
AddOwn(o, r, rc) ==
    /\ sum' = [sum EXCEPT ![o][r][r] = @ + 1]
    /\ ret' = [ret EXCEPT ![o][r] = rc]
    /\ Goto(o, r, "out")
    /\ UNCHANGED <<bcast_tree, root, requests, child_count, sent, got, garbage>>

\* Mutant: replies without waiting for the children.
FinishWithoutWaiting(o, r) ==
    /\ pc[o][r] = "running"
    /\ sent[o][r] = child_count[o][r]
    /\ AddOwn(o, r, "ok")
    /\ UNCHANGED faults

\* Mutant: `i < child_count - 1' in the loop that collects.
FinishOneEarly(o, r) ==
    /\ pc[o][r] = "running"
    /\ sent[o][r] = child_count[o][r] /\ got[o][r] + 1 >= child_count[o][r]
    /\ AddOwn(o, r, "ok")
    /\ UNCHANGED faults

Finish(o, r) ==
    /\ pc[o][r] = "running"
    /\ sent[o][r] = child_count[o][r] /\ got[o][r] = child_count[o][r]
    /\ AddOwn(o, r, "ok")
    /\ UNCHANGED faults

\* margo_create or margo_iforward fails: the children from here on get no
\* request, and the replies of the earlier ones are not waited for.
ForwardFails(o, r) ==
    /\ pc[o][r] = "running" /\ sent[o][r] < child_count[o][r]
    /\ AddOwn(o, r, "error")
    /\ Fault(o, r, "forward")

\* Mutant: the error of margo_wait is lost on the way to `out:'.
WaitFailsSilently(o, r) ==
    /\ OnStream(o, r)
    /\ sent[o][r] = child_count[o][r] /\ got[o][r] < child_count[o][r]
    /\ AddOwn(o, r, "ok")
    /\ Fault(o, r, "wait")

\* margo_wait fails: this and the later replies are not added.
WaitFails(o, r) ==
    /\ OnStream(o, r)
    /\ sent[o][r] = child_count[o][r] /\ got[o][r] < child_count[o][r]
    /\ AddOwn(o, r, "error")
    /\ Fault(o, r, "wait")
-----------------------------------------------------------------------------
\* The handler only logs an error of sum_forward, and replies.
Respond(o, r) ==
    /\ pc[o][r] = "out" /\ root[o] # r
    /\ Goto(o, r, "replied")
    /\ UNCHANGED <<bcast_tree, root, requests, child_count, sent, got, sum, garbage, ret, faults>>

\* Mutant: a failed reply is tried again from the start of `out:'.
RespondFailsRetries(o, r) ==
    /\ pc[o][r] = "out" /\ root[o] # r
    /\ Goto(o, r, "running")
    /\ Fault(o, r, "respond")
    /\ UNCHANGED <<bcast_tree, root, requests, child_count, sent, got, sum, garbage, ret>>

RespondFails(o, r) ==
    /\ pc[o][r] = "out" /\ root[o] # r
    /\ Goto(o, r, "silent")
    /\ Fault(o, r, "respond")
    /\ UNCHANGED <<bcast_tree, root, requests, child_count, sent, got, sum, garbage, ret>>

\* metasim_rpc_invoke_sum returns to the listener.
Return(o, r) ==
    /\ pc[o][r] = "out" /\ root[o] = r
    /\ Goto(o, r, "returned")
    /\ UNCHANGED <<bcast_tree, root, requests, child_count, sent, got, sum, garbage, ret, faults>>

\* What the ULT of call o at r does when nothing fails.
Run(o, r) ==
    \/ HandleSum(o, r)
    \/ ForwardRequest(o, r)
    \/ Block(o, r)
    \/ Collect(o, r)
    \/ Finish(o, r)
    \/ Respond(o, r)
    \/ Return(o, r)

Fail(o, r) ==
    \/ GetInputFails(o, r)
    \/ TreeInitFails(o, r)
    \/ AllocFails(o, r)
    \/ ForwardFails(o, r)
    \/ WaitFails(o, r)
    \/ GetOutputFails(o, r)
    \/ RespondFails(o, r)

Next == \E o \in Ops, r \in Rank : InvokeSum(o, r) \/ Run(o, r) \/ Fail(o, r)

\* The ESs and the progress threads are OS threads that always run: as long as
\* some ULT can go on, one does.  (A call has finitely many steps, so no ULT can
\* be passed over forever.)  Clients need not call, and nothing has to fail.
Fairness == WF_vars(\E o \in Ops, r \in Rank : Run(o, r))

Spec == Init /\ [][Next]_vars /\ Fairness
-----------------------------------------------------------------------------
Labels == {"idle", "running", "blocked", "out", "replied", "silent", "returned"}

TypeOK ==
    /\ bcast_tree \in [Rank -> 0 .. Degree]
    /\ root \in [Ops -> Rank \cup {NoRank}]
    /\ requests \subseteq Ops \X Rank \X Rank
    /\ pc \in [Ops -> [Rank -> Labels]]
    /\ child_count \in [Ops -> [Rank -> 0 .. Degree]]
    /\ sent \in [Ops -> [Rank -> 0 .. Degree]]
    /\ got \in [Ops -> [Rank -> 0 .. Degree]]
    /\ sum \in [Ops -> [Rank -> [Rank -> Nat]]]
    /\ garbage \in [Ops -> [Rank -> BOOLEAN]]
    /\ ret \in [Ops -> [Rank -> {"ok", "error"}]]
    /\ faults \in [Ops -> SUBSET (Rank \X Kinds)]

-----------------------------------------------------------------------------
(* Properties.                                                             *)

Started(o, r) == pc[o][r] # "idle"

Returned(o) == root[o] # NoRank /\ pc[o][root[o]] = "returned"

FaultAt(o, r, kinds) == \E kind \in kinds : <<r, kind>> \in faults[o]

\* Subtree[rt][r]: the subtree at r in the tree with root rt.
Subtree == [rt \in Rank |-> [r \in Rank |-> Below(r, N, rt, Degree)]]

\* The ranks whose subtrees, with root rt, hold rank r: r and its ancestors.
Above(r, rt) == { y \in Rank : r \in Subtree[rt][y] }

ProperAncestors(r, rt) == Above(r, rt) \ {r}

(***************************************************************************)
(* Each call starts one handler at each server, ever: a rank gets a        *)
(* request from at most one rank, none once its handler has started, and   *)
(* the caller's own rank gets none.  It is what lets the handlers of a     *)
(* call be told apart by their rank, and the reason no server counts       *)
(* itself twice; it rests on ranks agreeing about a tree each of them      *)
(* computes alone.                                                         *)
(***************************************************************************)
OneRequestPerRank ==
    \A m \in requests :
        /\ pc[m[1]][m[3]] = "idle"
        /\ \A l \in requests : l[1] = m[1] /\ l[3] = m[3] => l = m

(***************************************************************************)
(* No partial sum holds the contribution of a server twice, whatever       *)
(* failed and however the replies of a call and of other calls interleave. *)
(***************************************************************************)
CountedAtMostOnce ==
    \A o \in Ops, r, x \in Rank : sum[o][r][x] <= 1

(***************************************************************************)
(* A call that returns without any failed library call has summed over     *)
(* every server: its result is the value that test_sum and the examples    *)
(* expect, seed and rank of each server once.                              *)
(***************************************************************************)
ExactSum ==
    \A o \in Ops : Returned(o) /\ faults[o] = {} =>
        /\ \A x \in Rank : sum[o][root[o]][x] = 1
        /\ ~ garbage[o][root[o]]
        /\ ret[o][root[o]] = "ok"

(***************************************************************************)
(* A server replies only when the sum is settled below it: every child it  *)
(* forwarded to has replied, unless the server itself lost an RPC.         *)
(***************************************************************************)
RepliesAfterChildren ==
    \A o \in Ops, r \in Rank :
        /\ pc[o][r] \in {"out", "replied", "returned"}
        /\ ~ FaultAt(o, r, {"forward", "wait"})
        => \A i \in 1 .. sent[o][r] : pc[o][Child(o, r, i)] = "replied"

(***************************************************************************)
(* What the return value tells the caller: an error exactly when a call    *)
(* failed in sum_forward at the caller's own rank.  Failures further down, *)
(* a tree that could not be built and a reply that could not be decoded    *)
(* are not reported at all.                                                *)
(***************************************************************************)
ErrorIsLocal ==
    \A o \in Ops : Returned(o) =>
        (ret[o][root[o]] = "error" <=> FaultAt(o, root[o], {"alloc", "forward", "wait"}))

(***************************************************************************)
(* A server missing from a sum that is returned without error is missing   *)
(* because an ancestor of it failed; a failure never costs a server        *)
(* outside the subtree of the rank it happened at.                         *)
(***************************************************************************)
MissingIsExplained ==
    \A o \in Ops, x \in Rank :
        Returned(o) /\ sum[o][root[o]][x] = 0 =>
            \/ FaultAt(o, x, {"alloc"})
            \/ \E y \in ProperAncestors(x, root[o]) :
                  FaultAt(o, y, {"tree", "alloc", "forward", "wait", "output"})

(***************************************************************************)
(* An uninitialised value gets into the result only from a server whose    *)
(* calloc failed, or that could not decode a reply.                        *)
(***************************************************************************)
GarbageIsExplained ==
    \A o \in Ops : Returned(o) /\ garbage[o][root[o]] =>
        \E y \in Rank : FaultAt(o, y, {"alloc", "output"})

(***************************************************************************)
(* Whatever is wrong with a result that is returned without error has a    *)
(* reason that limits it to the subtree of a rank where a call failed.     *)
(***************************************************************************)
LossIsExplained == MissingIsExplained /\ GarbageIsExplained

(***************************************************************************)
(* A server that never replies (its input could not be decoded, or its     *)
(* reply not sent) hangs the call: it can return only when a rank above    *)
(* stopped waiting because of a failure of its own.                        *)
(***************************************************************************)
SilenceHangsTheCall ==
    \A o \in Ops, x \in Rank :
        Returned(o) /\ pc[o][x] = "silent" =>
            \E y \in ProperAncestors(x, root[o]) : FaultAt(o, y, {"forward", "wait"})

(***************************************************************************)
(* A call with failures is answered as long as no server stays silent:     *)
(* whatever else fails, the error path of sum_forward leaves nobody        *)
(* waiting for a reply that does not come.  Calls that cross on one ES are *)
(* the subject of ServiceSpec.                                             *)
(***************************************************************************)
EveryCallReturns ==
    \A o \in Ops : root[o] # NoRank ~> Returned(o) \/ \E r \in Rank : pc[o][r] = "silent"

(***************************************************************************)
(* The abstract specification: the answer a caller has is that of its own  *)
(* rank's ULT once it has returned.                                        *)
(***************************************************************************)
AnswerTo(o) ==
    IF ~ Returned(o) THEN [kind |-> "none"]
    ELSE IF ret[o][root[o]] = "error" THEN [kind |-> "failure"]
    ELSE IF garbage[o][root[o]] THEN [kind |-> "garbage"]
    ELSE [kind |-> "sum", of |-> sum[o][root[o]]]

Service == INSTANCE SumService WITH
    Reliable <- (MaxFaults = 0),
    caller   <- root,
    answer   <- [o \in Ops |-> AnswerTo(o)]

ServiceSpec     == Service!Spec
ServiceSafeSpec == Service!SafeSpec
=============================================================================
