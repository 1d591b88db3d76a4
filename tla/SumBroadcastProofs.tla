------------------------- MODULE SumBroadcastProofs -------------------------
(***************************************************************************)
(* Theorems about SumBroadcast, for every number of servers, calls and     *)
(* execution streams, and every bound on the failures.  The second part is *)
(* about the failures: which servers a sum may miss, what the return value *)
(* says, when a call hangs, and that the calls implement the abstract      *)
(* specification SumService.                                               *)
(***************************************************************************)
EXTENDS SumBroadcast, RpcTreeProofs, FiniteSetTheorems

ParentOf(o, r) == ParentRank(r, N, root[o], Degree)
Kids(o, r)     == Children(r, N, root[o], Degree)

(***************************************************************************)
(* The locals of a ULT stay within the tree: an idle one holds nothing,    *)
(* and no more is added than was forwarded, no more forwarded than there   *)
(* are children.                                                           *)
(***************************************************************************)
Bookkeeping ==
    /\ \A r \in Rank : bcast_tree[r] <= TreeChildCount(r, r)
    /\ \A o \in Ops : root[o] # NoRank => pc[o][root[o]] # "idle"
    /\ \A o \in Ops, r \in Rank :
         /\ root[o] = NoRank => pc[o][r] = "idle"
         /\ root[o] # NoRank => child_count[o][r] <= TreeChildCount(r, root[o])
         /\ pc[o][r] = "idle" => child_count[o][r] = 0
         /\ got[o][r] <= sent[o][r] /\ sent[o][r] <= child_count[o][r]

(***************************************************************************)
(* A request is one the parent's loop has sent, and its receiver has not   *)
(* started; a handler that has started was sent a request by its parent.   *)
(***************************************************************************)
SentBy(o, r, c) == \E i \in 1 .. sent[o][r] : c = Child(o, r, i)

Asked ==
    /\ \A m \in requests :
         /\ root[m[1]] # NoRank
         /\ pc[m[1]][m[3]] = "idle"
         /\ SentBy(m[1], m[2], m[3])
    /\ \A o \in Ops, r \in Rank :
         pc[o][r] # "idle" /\ r # root[o] => SentBy(o, ParentOf(o, r), r)
-----------------------------------------------------------------------------
\* What the assumptions say of the constants and of child counts.
LEMMA Constants ==
  /\ N \in Nat \ {0}
  /\ Degree \in Nat \ {0}
  /\ NoRank \notin Rank
  /\ \A r, rt \in Rank : TreeChildCount(r, rt) \in 0 .. Degree
<1>1. N \in Nat \ {0} /\ Degree \in Nat \ {0} /\ NoRank \notin Rank
  BY NAssumption DEF Degree, NoRank, Rank, Ranks
<1>2. ASSUME NEW r \in Rank, NEW rt \in Rank
      PROVE  TreeChildCount(r, rt) \in 0 .. Degree
  <2> DEFINE p == Position(r, N, rt)
  <2>1. p \in 0 .. N - 1
    BY <1>1, RankAtInRanks DEF Rank, Ranks
  <2>2. TreeChildCount(r, rt) = PositionChildCount(p, N, Degree)
    BY DEF TreeChildCount, ChildCount
  <2> HIDE DEF p
  <2> QED BY <1>1, <2>1, <2>2
      DEF PositionChildCount, LeftPosition, RightPosition, Degree
<1> QED BY <1>1, <1>2

\* The i-th child of a started ULT is a rank, not the root, has r for its parent,
\* and differs from the other children.
LEMMA ChildOf ==
  ASSUME TypeOK, Bookkeeping, NEW o \in Ops, NEW r \in Rank, root[o] # NoRank,
         NEW i \in 1 .. child_count[o][r]
  PROVE  /\ Child(o, r, i) \in Kids(o, r)
         /\ Child(o, r, i) \in Rank
         /\ Child(o, r, i) # root[o]
         /\ ParentOf(o, Child(o, r, i)) = r
         /\ \A j \in 1 .. child_count[o][r] : Child(o, r, i) = Child(o, r, j) => i = j
<1>1. root[o] \in Ranks(N) /\ r \in Ranks(N)
  BY DEF TypeOK, Rank
<1>2. /\ child_count[o][r] \in Nat
      /\ ChildCount(r, N, root[o], Degree) \in Nat
      /\ child_count[o][r] <= ChildCount(r, N, root[o], Degree)
  BY <1>1, Constants DEF TypeOK, Bookkeeping, TreeChildCount, Rank
<1>3. \A j \in 1 .. child_count[o][r] : j \in 1 .. ChildCount(r, N, root[o], Degree)
  BY <1>2
<1> QED
  BY <1>1, <1>3, Constants, ChildKnowsParent, ChildrenDistinct
  DEF Child, Kids, Children, ParentOf, Rank
-----------------------------------------------------------------------------
(* Type correctness needs Bookkeeping: a request goes to a rank only       *)
(* because its sender is still within its list of children.                *)

\* The inductive invariant holds initially.
LEMMA InitInvariant == Init => TypeOK /\ Bookkeeping /\ Asked
<1> SUFFICES ASSUME Init PROVE TypeOK /\ Bookkeeping /\ Asked
  OBVIOUS
<1>1. PICK bad \in SUBSET Rank :
        bcast_tree = [r \in Rank |-> IF r \in bad THEN 0 ELSE TreeChildCount(r, r)]
  BY DEF Init
<1>2. \A r \in Rank : TreeChildCount(r, r) \in 0 .. Degree
  BY Constants
<1>3. /\ bcast_tree \in [Rank -> 0 .. Degree]
      /\ \A r \in Rank : bcast_tree[r] <= TreeChildCount(r, r)
  BY <1>1, <1>2, Constants
<1>4. TypeOK
  BY <1>3, Constants DEF Init, TypeOK, Labels, Nothing
<1>5. Bookkeeping
  BY <1>3, Constants DEF Init, Bookkeeping
<1>6. Asked
  BY DEF Init, Asked
<1> QED BY <1>4, <1>5, <1>6

\* Recording a fault keeps the type of `faults'.
LEMMA FaultType ==
  ASSUME TypeOK, NEW o \in Ops, NEW r \in Rank, NEW kind \in Kinds,
         Fault(o, r, kind)
  PROVE  faults' \in [Ops -> SUBSET (Rank \X Kinds)]
<1>1. faults[o] \cup {<<r, kind>>} \in SUBSET (Rank \X Kinds)
  BY DEF TypeOK
<1>2. faults' = [faults EXCEPT ![o] = faults[o] \cup {<<r, kind>>}]
  BY DEF Fault
<1> QED BY <1>1, <1>2 DEF TypeOK

\* Moving a ULT keeps the type of pc.
LEMMA GotoType ==
  ASSUME TypeOK, NEW o \in Ops, NEW r \in Rank, NEW label \in Labels,
         Goto(o, r, label)
  PROVE  pc' \in [Ops -> [Rank -> Labels]]
BY DEF TypeOK, Goto

Ind == TypeOK /\ Bookkeeping /\ Asked

\* Every step keeps the types.
LEMMA TypeStep == Ind /\ [Next]_vars => TypeOK'
<1> SUFFICES ASSUME Ind, [Next]_vars PROVE TypeOK'
  OBVIOUS
<1>0. TypeOK
  BY DEF Ind
<1>1. ASSUME NEW o \in Ops, NEW r \in Rank, InvokeSum(o, r) PROVE TypeOK'
  <2>1. faults' \in [Ops -> SUBSET (Rank \X Kinds)]
    BY <1>0, <1>1, FaultType DEF InvokeSum, Kinds, TypeOK
  <2>2. pc' \in [Ops -> [Rank -> Labels]]
    BY <1>0, <1>1, GotoType DEF InvokeSum, Labels
  <2> QED BY <1>0, <1>1, <2>1, <2>2 DEF InvokeSum, TypeOK
<1>2. ASSUME NEW o \in Ops, NEW r \in Rank, Receive(o, r)
      PROVE  /\ root[o] \in Rank
             /\ requests' \subseteq Ops \X Rank \X Rank
  <2>1. PICK m \in requests : m[1] = o /\ m[3] = r /\ requests' = requests \ {m}
    BY <1>2 DEF Receive
  <2>2. root[o] # NoRank
    BY <2>1 DEF Ind, Asked
  <2> QED BY <1>0, <2>1, <2>2 DEF TypeOK
<1>3. ASSUME NEW o \in Ops, NEW r \in Rank, HandleSum(o, r) PROVE TypeOK'
  <2>1. Receive(o, r)
    BY <1>3 DEF HandleSum
  <2>2. pc' \in [Ops -> [Rank -> Labels]]
    BY <1>0, <1>3, GotoType DEF HandleSum, Labels
  <2>3. TreeChildCount(r, root[o]) \in 0 .. Degree
    BY <1>2, <2>1, Constants
  <2> QED BY <1>0, <1>2, <1>3, <2>1, <2>2, <2>3 DEF HandleSum, Receive, TypeOK
<1>4. ASSUME NEW o \in Ops, NEW r \in Rank, GetInputFails(o, r) PROVE TypeOK'
  <2>1. faults' \in [Ops -> SUBSET (Rank \X Kinds)]
    BY <1>0, <1>4, FaultType DEF GetInputFails, Kinds
  <2>2. pc' \in [Ops -> [Rank -> Labels]]
    BY <1>0, <1>4, GotoType DEF GetInputFails, Labels
  <2>3. Receive(o, r)
    BY <1>4 DEF GetInputFails
  <2> QED BY <1>0, <1>2, <1>4, <2>1, <2>2, <2>3 DEF GetInputFails, Receive, TypeOK
<1>5. ASSUME NEW o \in Ops, NEW r \in Rank, TreeInitFails(o, r) PROVE TypeOK'
  <2>1. faults' \in [Ops -> SUBSET (Rank \X Kinds)]
    BY <1>0, <1>5, FaultType DEF TreeInitFails, Kinds
  <2>2. pc' \in [Ops -> [Rank -> Labels]]
    BY <1>0, <1>5, GotoType DEF TreeInitFails, Labels
  <2>3. Receive(o, r)
    BY <1>5 DEF TreeInitFails
  <2>4. 0 \in 0 .. Degree
    BY Constants
  <2>5. child_count' \in [Ops -> [Rank -> 0 .. Degree]]
    BY <1>0, <1>5, <2>4 DEF TreeInitFails, TypeOK
  <2>6. root[o] \in Rank /\ requests' \subseteq Ops \X Rank \X Rank
    BY <1>2, <2>3
  <2> QED BY <1>0, <2>1, <2>2, <2>3, <2>5, <2>6 DEF Receive, TypeOK
<1>6. ASSUME NEW o \in Ops, NEW r \in Rank, AllocFails(o, r) PROVE TypeOK'
  <2>1. faults' \in [Ops -> SUBSET (Rank \X Kinds)]
    BY <1>0, <1>6, FaultType DEF AllocFails, Kinds
  <2>2. pc' \in [Ops -> [Rank -> Labels]]
    BY <1>0, <1>6, GotoType DEF AllocFails, Labels
  <2> QED BY <1>0, <1>6, <2>1, <2>2 DEF AllocFails, TypeOK
<1>7. ASSUME NEW o \in Ops, NEW r \in Rank, ForwardRequest(o, r) PROVE TypeOK'
  <2>1. /\ sent[o][r] \in Nat /\ child_count[o][r] \in 0 .. Degree
        /\ sent[o][r] < child_count[o][r]
    BY <1>0, <1>7 DEF ForwardRequest, TypeOK
  <2>2. sent[o][r] + 1 \in 1 .. child_count[o][r] /\ sent[o][r] + 1 \in 0 .. Degree
    BY <2>1, Constants
  <2>3. root[o] # NoRank
    BY <1>7 DEF ForwardRequest, Ind, Bookkeeping
  <2>4. Child(o, r, sent[o][r] + 1) \in Rank
    BY <1>0, <2>2, <2>3, ChildOf DEF Ind
  <2> QED BY <1>0, <1>7, <2>2, <2>4 DEF ForwardRequest, TypeOK
<1>8. ASSUME NEW o \in Ops, NEW r \in Rank, Block(o, r) PROVE TypeOK'
  BY <1>0, <1>8, GotoType DEF Block, TypeOK, Labels
<1>9. ASSUME NEW o \in Ops, NEW r \in Rank,
             sent[o][r] = child_count[o][r], got[o][r] < child_count[o][r]
      PROVE  /\ got[o][r] + 1 \in 0 .. Degree
             /\ Child(o, r, got[o][r] + 1) \in Rank
  <2>1. got[o][r] \in Nat /\ child_count[o][r] \in 0 .. Degree
    BY <1>0 DEF TypeOK
  <2>2. got[o][r] + 1 \in 1 .. child_count[o][r] /\ got[o][r] + 1 \in 0 .. Degree
    BY <1>9, <2>1, Constants
  <2>3. root[o] # NoRank
    BY <2>2 DEF Ind, Bookkeeping
  <2> QED BY <1>0, <2>2, <2>3, ChildOf DEF Ind
<1>10. ASSUME NEW o \in Ops, NEW r \in Rank, Collect(o, r) PROVE TypeOK'
  <2> DEFINE c == Child(o, r, got[o][r] + 1)
             s == [x \in Rank |-> sum[o][r][x] + sum[o][c][x]]
  <2>1. c \in Rank /\ got[o][r] + 1 \in 0 .. Degree
    BY <1>9, <1>10 DEF Collect
  <2>2. s \in [Rank -> Nat]
    BY <1>0, <2>1 DEF TypeOK
  <2>3. sum' = [sum EXCEPT ![o][r] = s]
    BY <1>10 DEF Collect, Add
  <2>4. pc' \in [Ops -> [Rank -> Labels]]
    BY <1>0, <1>10, GotoType DEF Collect, Add, Labels
  <2>5. (garbage[o][r] \/ garbage[o][c]) \in BOOLEAN
    OBVIOUS
  <2>6. garbage' \in [Ops -> [Rank -> BOOLEAN]]
    BY <1>0, <1>10, <2>5 DEF Collect, Add, TypeOK
  <2> HIDE DEF s, c
  <2> QED BY <1>0, <1>10, <2>1, <2>2, <2>3, <2>4, <2>6 DEF Collect, Add, TypeOK
<1>11. ASSUME NEW o \in Ops, NEW r \in Rank, GetOutputFails(o, r) PROVE TypeOK'
  <2>1. faults' \in [Ops -> SUBSET (Rank \X Kinds)]
    BY <1>0, <1>11, FaultType DEF GetOutputFails, Kinds
  <2>2. pc' \in [Ops -> [Rank -> Labels]]
    BY <1>0, <1>11, GotoType DEF GetOutputFails, Labels
  <2>3. got[o][r] + 1 \in 0 .. Degree
    BY <1>9, <1>11 DEF GetOutputFails
  <2> QED BY <1>0, <1>11, <2>1, <2>2, <2>3 DEF GetOutputFails, TypeOK
<1>12. ASSUME NEW o \in Ops, NEW r \in Rank, NEW rc \in {"ok", "error"},
              AddOwn(o, r, rc), faults' \in [Ops -> SUBSET (Rank \X Kinds)]
       PROVE  TypeOK'
  <2>1. pc' \in [Ops -> [Rank -> Labels]]
    BY <1>0, <1>12, GotoType DEF AddOwn, Labels
  <2>2. sum[o][r][r] + 1 \in Nat
    BY <1>0 DEF TypeOK
  <2>3. sum' \in [Ops -> [Rank -> [Rank -> Nat]]]
    BY <1>0, <1>12, <2>2 DEF AddOwn, TypeOK
  <2> QED BY <1>0, <1>12, <2>1, <2>3 DEF AddOwn, TypeOK
<1>13. ASSUME NEW o \in Ops, NEW r \in Rank, Finish(o, r) PROVE TypeOK'
  BY <1>0, <1>12, <1>13 DEF Finish, TypeOK
<1>14. ASSUME NEW o \in Ops, NEW r \in Rank, ForwardFails(o, r) PROVE TypeOK'
  BY <1>0, <1>12, <1>14, FaultType DEF ForwardFails, Kinds
<1>15. ASSUME NEW o \in Ops, NEW r \in Rank, WaitFails(o, r) PROVE TypeOK'
  BY <1>0, <1>12, <1>15, FaultType DEF WaitFails, Kinds
<1>16. ASSUME NEW o \in Ops, NEW r \in Rank, Respond(o, r) \/ Return(o, r) PROVE TypeOK'
  BY <1>0, <1>16, GotoType DEF Respond, Return, TypeOK, Labels
<1>17. ASSUME NEW o \in Ops, NEW r \in Rank, RespondFails(o, r) PROVE TypeOK'
  <2>1. faults' \in [Ops -> SUBSET (Rank \X Kinds)]
    BY <1>0, <1>17, FaultType DEF RespondFails, Kinds
  <2> QED BY <1>0, <1>17, <2>1, GotoType DEF RespondFails, TypeOK, Labels
<1>18. CASE UNCHANGED vars
  BY <1>0, <1>18 DEF vars, ult, TypeOK
<1> QED
  BY <1>1, <1>3, <1>4, <1>5, <1>6, <1>7, <1>8, <1>10, <1>11, <1>13, <1>14,
     <1>15, <1>16, <1>17, <1>18 DEF Next, Run, Fail

-----------------------------------------------------------------------------
(* Most actions only move a ULT that has started from one label to         *)
(* another: they touch neither the requests nor what was sent.             *)

StartedKept ==
    \A p \in Ops, x \in Rank : pc'[p][x] = "idle" <=> pc[p][x] = "idle"

LocalStep(o, r) ==
    \/ AllocFails(o, r)
    \/ Block(o, r)
    \/ Collect(o, r)
    \/ GetOutputFails(o, r)
    \/ Finish(o, r)
    \/ ForwardFails(o, r)
    \/ WaitFails(o, r)
    \/ Respond(o, r)
    \/ RespondFails(o, r)
    \/ Return(o, r)

\* A ULT that has started is not made idle.
LEMMA GotoKeepsStarted ==
  ASSUME TypeOK, NEW o \in Ops, NEW r \in Rank, NEW label \in Labels,
         label # "idle", pc[o][r] # "idle", Goto(o, r, label)
  PROVE  StartedKept
BY DEF TypeOK, Goto, StartedKept

\* A step of sum_forward or of its reply sends nothing and starts nobody.
LEMMA LocalFrame ==
  ASSUME Ind, NEW o \in Ops, NEW r \in Rank, LocalStep(o, r)
  PROVE  /\ StartedKept
         /\ UNCHANGED <<bcast_tree, root, requests, child_count, sent>>
         /\ \A p \in Ops, x \in Rank : got'[p][x] <= sent'[p][x]
<1>0. TypeOK /\ Bookkeeping
  BY DEF Ind
<1>1. pc[o][r] # "idle"
  BY DEF LocalStep, AllocFails, Block, Collect, GetOutputFails, Finish, ForwardFails,
         WaitFails, Respond, RespondFails, Return, OnStream
<1>2. \E label \in Labels \ {"idle"} : Goto(o, r, label)
  BY DEF LocalStep, AllocFails, Block, Collect, GetOutputFails, Finish, ForwardFails,
         WaitFails, Respond, RespondFails, Return, Add, AddOwn, Labels
<1>3. StartedKept
  BY <1>0, <1>1, <1>2, GotoKeepsStarted
<1>4. UNCHANGED <<bcast_tree, root, requests, child_count, sent>>
  BY DEF LocalStep, AllocFails, Block, Collect, GetOutputFails, Finish, ForwardFails,
         WaitFails, Respond, RespondFails, Return, Add, AddOwn
<1>5. \/ got' = got
      \/ /\ sent[o][r] = child_count[o][r] /\ got[o][r] < child_count[o][r]
         /\ got' = [got EXCEPT ![o][r] = @ + 1]
  BY DEF LocalStep, AllocFails, Block, Collect, GetOutputFails, Finish, ForwardFails,
         WaitFails, Respond, RespondFails, Return, Add, AddOwn
<1>6. \A p \in Ops, x \in Rank :
        /\ got[p][x] \in Int /\ sent[p][x] \in Int /\ child_count[p][x] \in Int
        /\ got[p][x] <= sent[p][x]
  BY <1>0 DEF TypeOK, Bookkeeping
<1>7. \A p \in Ops, x \in Rank : got'[p][x] <= sent'[p][x]
  <2>1. sent' = sent
    BY <1>4
  <2>2. CASE got' = got
    BY <1>6, <2>1, <2>2
  <2>3. CASE /\ sent[o][r] = child_count[o][r] /\ got[o][r] < child_count[o][r]
             /\ got' = [got EXCEPT ![o][r] = @ + 1]
    <3>1. \A p \in Ops, x \in Rank :
            got'[p][x] = IF p = o /\ x = r THEN got[p][x] + 1 ELSE got[p][x]
      BY <1>0, <2>3 DEF TypeOK
    <3> QED BY <1>6, <2>1, <2>3, <3>1
  <2> QED BY <1>5, <2>2, <2>3
<1> QED BY <1>3, <1>4, <1>7

\* What the handler's first step does, whichever of the three it is.
LEMMA ReceiveFrame ==
  ASSUME Ind, NEW o \in Ops, NEW r \in Rank,
         HandleSum(o, r) \/ GetInputFails(o, r) \/ TreeInitFails(o, r)
  PROVE  /\ root[o] \in Rank /\ pc[o][r] = "idle"
         /\ \E m \in requests : m[1] = o /\ m[3] = r /\ requests' = requests \ {m}
         /\ \E label \in Labels \ {"idle"} : Goto(o, r, label)
         /\ \E n \in {0, TreeChildCount(r, root[o])} :
               child_count' \in {child_count, [child_count EXCEPT ![o][r] = n]}
         /\ UNCHANGED <<bcast_tree, root, sent, got, sum, garbage, ret>>
<1>1. Receive(o, r)
  BY DEF HandleSum, GetInputFails, TreeInitFails
<1>2. PICK m \in requests : m[1] = o /\ m[3] = r /\ requests' = requests \ {m}
  BY <1>1 DEF Receive
<1>3. root[o] \in Rank
  BY <1>2 DEF Ind, Asked, TypeOK
<1>4. \E label \in Labels \ {"idle"} : Goto(o, r, label)
  BY DEF HandleSum, GetInputFails, TreeInitFails, Labels
<1>5. \E n \in {0, TreeChildCount(r, root[o])} :
        child_count' \in {child_count, [child_count EXCEPT ![o][r] = n]}
  BY DEF HandleSum, GetInputFails, TreeInitFails
<1> QED BY <1>1, <1>2, <1>3, <1>4, <1>5 DEF Receive

\* Every step keeps the loop counters within the tree.
LEMMA BookkeepingStep == Ind /\ [Next]_vars => Bookkeeping'
<1> SUFFICES ASSUME Ind, [Next]_vars PROVE Bookkeeping'
  OBVIOUS
<1>0. TypeOK /\ Bookkeeping
  BY DEF Ind
<1>1. ASSUME NEW o \in Ops, NEW r \in Rank, InvokeSum(o, r) PROVE Bookkeeping'
  <2>1. /\ root' = [root EXCEPT ![o] = r] /\ root[o] = NoRank
        /\ pc' = [pc EXCEPT ![o][r] = "running"]
        /\ child_count' = [child_count EXCEPT ![o][r] = bcast_tree[r]]
        /\ UNCHANGED <<bcast_tree, sent, got>>
    BY <1>1 DEF InvokeSum, Goto
  <2>2. \A x \in Rank : /\ pc[o][x] = "idle" /\ child_count[o][x] = 0
                        /\ sent[o][x] = 0 /\ got[o][x] = 0
    BY <1>0, <2>1 DEF TypeOK, Bookkeeping
  <2>3. \A x \in Rank : TreeChildCount(x, r) \in Nat /\ bcast_tree[x] \in Nat
    BY <1>0, Constants DEF TypeOK
  <2>4. \A p \in Ops : root'[p] # NoRank => pc'[p][root'[p]] # "idle"
    BY <1>0, <2>1 DEF TypeOK, Bookkeeping
  <2>5. ASSUME NEW p \in Ops, NEW x \in Rank
        PROVE  /\ root'[p] = NoRank => pc'[p][x] = "idle"
               /\ root'[p] # NoRank => child_count'[p][x] <= TreeChildCount(x, root'[p])
               /\ pc'[p][x] = "idle" => child_count'[p][x] = 0
               /\ got'[p][x] <= sent'[p][x] /\ sent'[p][x] <= child_count'[p][x]
    <3>1. CASE p = o
      <4>1. root'[p] = r /\ r # NoRank
        BY <1>0, <2>1, <3>1, Constants DEF TypeOK
      <4>2. child_count'[p][x] = IF x = r THEN bcast_tree[r] ELSE 0
        BY <1>0, <2>1, <2>2, <3>1 DEF TypeOK
      <4>3. child_count'[p][x] <= TreeChildCount(x, r) /\ 0 <= child_count'[p][x]
        BY <1>0, <2>3, <4>2 DEF Bookkeeping
      <4>4. pc'[p][x] = IF x = r THEN "running" ELSE "idle"
        BY <1>0, <2>1, <2>2, <3>1 DEF TypeOK
      <4> QED BY <2>1, <2>2, <3>1, <4>1, <4>2, <4>3, <4>4
    <3>2. CASE p # o
      <4>1. /\ root'[p] = root[p] /\ pc'[p] = pc[p]
            /\ child_count'[p] = child_count[p]
        BY <1>0, <2>1, <3>2 DEF TypeOK
      <4> QED BY <1>0, <2>1, <4>1 DEF Bookkeeping
    <3> QED BY <3>1, <3>2
  <2> QED BY <1>0, <2>1, <2>4, <2>5 DEF Bookkeeping
<1>2. ASSUME NEW o \in Ops, NEW r \in Rank,
             HandleSum(o, r) \/ GetInputFails(o, r) \/ TreeInitFails(o, r)
      PROVE  Bookkeeping'
  <2>1. /\ root[o] \in Rank /\ pc[o][r] = "idle"
        /\ UNCHANGED <<bcast_tree, root, sent, got>>
    BY <1>2, ReceiveFrame
  <2>2. PICK label \in Labels \ {"idle"} : pc' = [pc EXCEPT ![o][r] = label]
    BY <1>2, ReceiveFrame DEF Goto
  <2>3. PICK n \in {0, TreeChildCount(r, root[o])} :
          child_count' \in {child_count, [child_count EXCEPT ![o][r] = n]}
    BY <1>2, ReceiveFrame
  <2>4. /\ n \in Nat /\ n <= TreeChildCount(r, root[o])
        /\ child_count[o][r] = 0 /\ sent[o][r] = 0 /\ got[o][r] = 0
    BY <1>0, <2>1, Constants DEF TypeOK, Bookkeeping
  <2>5. \A p \in Ops, x \in Rank :
          \/ child_count'[p][x] = child_count[p][x]
          \/ p = o /\ x = r /\ child_count'[p][x] = n
    BY <1>0, <2>3 DEF TypeOK
  <2>6. \A p \in Ops, x \in Rank :
          pc'[p][x] = IF p = o /\ x = r THEN label ELSE pc[p][x]
    BY <1>0, <2>2 DEF TypeOK
  <2>7. \A p \in Ops : root[p] # NoRank => pc'[p][root[p]] # "idle"
    BY <1>0, <2>2, <2>6 DEF Bookkeeping, TypeOK
  <2>8. root[o] # NoRank
    BY <2>1, Constants
  <2> QED BY <1>0, <2>1, <2>2, <2>4, <2>5, <2>6, <2>7, <2>8 DEF Bookkeeping
<1>3. ASSUME NEW o \in Ops, NEW r \in Rank, ForwardRequest(o, r) PROVE Bookkeeping'
  <2>1. /\ UNCHANGED <<bcast_tree, root, pc, child_count, got>>
        /\ sent' = [sent EXCEPT ![o][r] = @ + 1]
        /\ sent[o][r] < child_count[o][r]
    BY <1>3 DEF ForwardRequest
  <2>2. \A p \in Ops, x \in Rank :
          /\ got[p][x] \in Int /\ sent[p][x] \in Int /\ child_count[p][x] \in Int
          /\ sent'[p][x] = IF p = o /\ x = r THEN sent[p][x] + 1 ELSE sent[p][x]
    BY <1>0, <2>1 DEF TypeOK
  <2>3. \A p \in Ops, x \in Rank :
          got[p][x] <= sent'[p][x] /\ sent'[p][x] <= child_count[p][x]
    BY <1>0, <2>1, <2>2 DEF Bookkeeping
  <2> QED BY <1>0, <2>1, <2>3 DEF Bookkeeping
<1>4. ASSUME NEW o \in Ops, NEW r \in Rank, LocalStep(o, r) PROVE Bookkeeping'
  <2>1. /\ StartedKept
        /\ UNCHANGED <<bcast_tree, root, child_count, sent>>
        /\ \A p \in Ops, x \in Rank : got'[p][x] <= sent'[p][x]
    BY <1>4, LocalFrame
  <2>2. \A p \in Ops : root[p] # NoRank => root[p] \in Rank
    BY <1>0 DEF TypeOK
  <2> QED BY <1>0, <2>1, <2>2 DEF Bookkeeping, StartedKept
<1>5. CASE UNCHANGED vars
  BY <1>0, <1>5 DEF vars, ult, Bookkeeping
<1> QED
  BY <1>1, <1>2, <1>3, <1>4, <1>5 DEF Next, Run, Fail, LocalStep

-----------------------------------------------------------------------------
(* Requests.                                                               *)

\* Whoever the loop of r has sent to is a child of r.
LEMMA SentChild ==
  ASSUME TypeOK, Bookkeeping, NEW o \in Ops, NEW r \in Rank, root[o] # NoRank,
         NEW c, SentBy(o, r, c)
  PROVE  c \in Rank /\ c # root[o] /\ ParentOf(o, c) = r /\ c \in Kids(o, r)
<1>1. PICK i \in 1 .. sent[o][r] : c = Child(o, r, i)
  BY DEF SentBy
<1>2. i \in 1 .. child_count[o][r]
  <2>1. sent[o][r] \in Nat /\ child_count[o][r] \in Nat /\ sent[o][r] <= child_count[o][r]
    BY DEF TypeOK, Bookkeeping
  <2> QED BY <2>1
<1> QED BY <1>1, <1>2, ChildOf

\* A request on its way comes from the parent of its receiver.
LEMMA RequestFromParent ==
  ASSUME Ind, NEW m \in requests
  PROVE  /\ m[1] \in Ops /\ m[2] \in Rank /\ m[3] \in Rank /\ m = <<m[1], m[2], m[3]>>
         /\ root[m[1]] # NoRank /\ pc[m[1]][m[3]] = "idle"
         /\ SentBy(m[1], m[2], m[3])
         /\ m[3] # root[m[1]]
         /\ m[2] = ParentOf(m[1], m[3])
<1>1. m[1] \in Ops /\ m[2] \in Rank /\ m[3] \in Rank /\ m = <<m[1], m[2], m[3]>>
  BY DEF Ind, TypeOK
<1>2. root[m[1]] # NoRank /\ pc[m[1]][m[3]] = "idle" /\ SentBy(m[1], m[2], m[3])
  BY DEF Ind, Asked
<1> QED BY <1>1, <1>2, SentChild DEF Ind

\* Two requests to a rank have one sender, its parent, so they are the same.
LEMMA IndOneRequest == Ind => OneRequestPerRank
<1> SUFFICES ASSUME Ind, NEW m \in requests
             PROVE  /\ pc[m[1]][m[3]] = "idle"
                    /\ \A l \in requests : l[1] = m[1] /\ l[3] = m[3] => l = m
  BY DEF OneRequestPerRank
<1>1. pc[m[1]][m[3]] = "idle" /\ m = <<m[1], m[2], m[3]>> /\ m[2] = ParentOf(m[1], m[3])
  BY RequestFromParent
<1>2. ASSUME NEW l \in requests, l[1] = m[1], l[3] = m[3]
      PROVE  l = m
  <2>1. l = <<l[1], l[2], l[3]>> /\ l[2] = ParentOf(l[1], l[3])
    BY RequestFromParent
  <2> QED BY <1>1, <1>2, <2>1
<1> QED BY <1>1, <1>2

\* Every step keeps the requests those that a parent sent to an idle child.
LEMMA AskedStep == Ind /\ [Next]_vars => Asked'
<1> SUFFICES ASSUME Ind, [Next]_vars PROVE Asked'
  OBVIOUS
<1>0. TypeOK /\ Bookkeeping /\ Asked
  BY DEF Ind
<1>1. ASSUME NEW o \in Ops, NEW r \in Rank, InvokeSum(o, r) PROVE Asked'
  <2>1. /\ root[o] = NoRank /\ root' = [root EXCEPT ![o] = r]
        /\ pc' = [pc EXCEPT ![o][r] = "running"]
        /\ UNCHANGED <<requests, sent>>
    BY <1>1 DEF InvokeSum, Goto
  <2>2. \A p \in Ops : p # o => root'[p] = root[p] /\ pc'[p] = pc[p]
    BY <1>0, <2>1 DEF TypeOK
  <2>3. \A x \in Rank : pc'[o][x] # "idle" => x = root'[o]
    BY <1>0, <2>1 DEF TypeOK, Bookkeeping
  <2>4. ASSUME NEW m \in requests'
        PROVE  /\ root'[m[1]] # NoRank /\ pc'[m[1]][m[3]] = "idle"
               /\ SentBy(m[1], m[2], m[3])'
    <3>1. /\ m[1] \in Ops /\ root[m[1]] # NoRank /\ pc[m[1]][m[3]] = "idle"
          /\ SentBy(m[1], m[2], m[3])
      BY <2>1, RequestFromParent
    <3>2. m[1] # o
      BY <2>1, <3>1
    <3> QED BY <2>1, <2>2, <3>1, <3>2 DEF SentBy, Child
  <2>5. ASSUME NEW p \in Ops, NEW x \in Rank, pc'[p][x] # "idle", x # root'[p]
        PROVE  SentBy(p, ParentOf(p, x), x)'
    <3>1. p # o
      BY <2>3, <2>5
    <3>2. SentBy(p, ParentOf(p, x), x)
      BY <1>0, <2>2, <2>5, <3>1 DEF Asked
    <3> QED BY <2>1, <2>2, <3>1, <3>2 DEF SentBy, Child, ParentOf
  <2> QED BY <2>4, <2>5 DEF Asked
<1>2. ASSUME NEW o \in Ops, NEW r \in Rank,
             HandleSum(o, r) \/ GetInputFails(o, r) \/ TreeInitFails(o, r)
      PROVE  Asked'
  <2>1. pc[o][r] = "idle" /\ UNCHANGED <<root, sent>>
    BY <1>2, ReceiveFrame
  <2>2. PICK m \in requests : m[1] = o /\ m[3] = r /\ requests' = requests \ {m}
    BY <1>2, ReceiveFrame
  <2>3. PICK label \in Labels \ {"idle"} : pc' = [pc EXCEPT ![o][r] = label]
    BY <1>2, ReceiveFrame DEF Goto
  <2>4. \A p \in Ops, x \in Rank : p # o \/ x # r => pc'[p][x] = pc[p][x]
    BY <1>0, <2>3 DEF TypeOK
  <2>5. ASSUME NEW l \in requests'
        PROVE  root'[l[1]] # NoRank /\ pc'[l[1]][l[3]] = "idle" /\ SentBy(l[1], l[2], l[3])'
    <3>1. l \in requests /\ l # m
      BY <2>2
    <3>2. /\ l[1] \in Ops /\ l[3] \in Rank /\ root[l[1]] # NoRank
          /\ pc[l[1]][l[3]] = "idle" /\ SentBy(l[1], l[2], l[3])
      BY <3>1, RequestFromParent
    <3>3. l[1] # o \/ l[3] # r
      BY <2>2, <3>1, IndOneRequest DEF OneRequestPerRank
    <3> QED BY <2>1, <2>4, <3>2, <3>3 DEF SentBy, Child
  <2>6. ASSUME NEW p \in Ops, NEW x \in Rank, pc'[p][x] # "idle", x # root'[p]
        PROVE  SentBy(p, ParentOf(p, x), x)'
    <3>1. SentBy(p, ParentOf(p, x), x)
      <4>1. CASE p = o /\ x = r
        BY <2>2, <4>1, RequestFromParent
      <4>2. CASE ~ (p = o /\ x = r)
        BY <1>0, <2>1, <2>4, <2>6, <4>2 DEF Asked
      <4> QED BY <4>1, <4>2
    <3> QED BY <2>1, <3>1 DEF SentBy, Child, ParentOf
  <2> QED BY <2>5, <2>6 DEF Asked
<1>3. ASSUME NEW o \in Ops, NEW r \in Rank, ForwardRequest(o, r) PROVE Asked'
  <2>0. PICK c : c = Child(o, r, sent[o][r] + 1)
    OBVIOUS
  <2>1. /\ UNCHANGED <<root, pc>>
        /\ requests' = requests \cup {<<o, r, c>>}
        /\ sent' = [sent EXCEPT ![o][r] = @ + 1]
        /\ sent[o][r] < child_count[o][r] /\ pc[o][r] = "running"
    BY <1>3, <2>0 DEF ForwardRequest
  <2>2. sent[o][r] \in Nat /\ child_count[o][r] \in Nat /\ root[o] # NoRank
    BY <1>0, <2>1 DEF TypeOK, Bookkeeping
  <2>3. sent[o][r] + 1 \in 1 .. child_count[o][r]
    BY <2>1, <2>2
  <2>4. /\ c \in Rank /\ c # root[o] /\ ParentOf(o, c) = r
        /\ \A j \in 1 .. child_count[o][r] : c = Child(o, r, j) => sent[o][r] + 1 = j
    BY <1>0, <2>0, <2>2, <2>3, ChildOf
  <2>5. ~ SentBy(o, r, c)
    BY <2>1, <2>2, <2>4 DEF SentBy
  <2>6. pc[o][c] = "idle"
    BY <1>0, <2>4, <2>5 DEF Asked
  <2>7. \A p \in Ops, y \in Rank : sent'[p][y] \in Nat /\ sent[p][y] \in Nat
                                  /\ sent[p][y] <= sent'[p][y]
    BY <1>0, <2>1 DEF TypeOK
  <2>8. ASSUME NEW p \in Ops, NEW y \in Rank, NEW x, SentBy(p, y, x)
        PROVE  SentBy(p, y, x)'
    BY <2>1, <2>7, <2>8 DEF SentBy, Child
  <2>9. SentBy(o, r, c)'
    <3>1. sent'[o][r] = sent[o][r] + 1
      BY <1>0, <2>1 DEF TypeOK
    <3> QED BY <2>0, <2>1, <2>2, <3>1 DEF SentBy, Child
  <2>10. ASSUME NEW m \in requests'
         PROVE  root'[m[1]] # NoRank /\ pc'[m[1]][m[3]] = "idle" /\ SentBy(m[1], m[2], m[3])'
    <3>1. CASE m \in requests
      BY <2>1, <2>8, <3>1, RequestFromParent
    <3>2. CASE m = <<o, r, c>>
      BY <2>1, <2>2, <2>6, <2>9, <3>2
    <3> QED BY <2>1, <3>1, <3>2
  <2>11. ASSUME NEW p \in Ops, NEW x \in Rank, pc'[p][x] # "idle", x # root'[p]
         PROVE  SentBy(p, ParentOf(p, x), x)'
    <3>1. SentBy(p, ParentOf(p, x), x) /\ ParentOf(p, x)' = ParentOf(p, x)
      BY <1>0, <2>1, <2>11 DEF Asked, ParentOf
    <3>2. ParentOf(p, x) \in Rank
      <4>1. root[p] \in Rank
        BY <1>0, <2>1, <2>11 DEF TypeOK, Bookkeeping
      <4> QED BY <2>1, <2>11, <4>1, Constants, ParentListsChild DEF ParentOf, Rank
    <3> QED BY <2>8, <3>1, <3>2
  <2> QED BY <2>10, <2>11 DEF Asked
<1>4. ASSUME NEW o \in Ops, NEW r \in Rank, LocalStep(o, r) PROVE Asked'
  <2>1. StartedKept /\ UNCHANGED <<root, requests, sent>>
    BY <1>4, LocalFrame
  <2>2. \A m \in requests : m[1] \in Ops /\ m[3] \in Rank
    BY RequestFromParent
  <2> QED BY <1>0, <2>1, <2>2 DEF Asked, StartedKept, SentBy, Child, ParentOf
<1>5. CASE UNCHANGED vars
  BY <1>0, <1>5 DEF vars, ult, Asked, SentBy, Child, ParentOf
<1> QED
  BY <1>1, <1>2, <1>3, <1>4, <1>5 DEF Next, Run, Fail, LocalStep

(***************************************************************************)
(* In every behaviour of the servers the variables have their types.       *)
(***************************************************************************)
THEOREM TypeCorrect == Spec => []TypeOK
<1>1. Init => Ind
  BY InitInvariant DEF Ind
<1>2. Ind /\ [Next]_vars => Ind'
  BY TypeStep, BookkeepingStep, AskedStep DEF Ind
<1>3. Ind => TypeOK
  BY DEF Ind
<1> QED BY <1>1, <1>2, <1>3, PTL DEF Spec

(***************************************************************************)
(* For any number of servers, each handles one request of a call at most:  *)
(* one is never on its way to a server that has already started, and never *)
(* two at a time (OneRequestPerRank).                                      *)
(***************************************************************************)
THEOREM OneHandlerPerRank == Spec => []OneRequestPerRank
<1>1. Init => Ind
  BY InitInvariant DEF Ind
<1>2. Ind /\ [Next]_vars => Ind'
  BY TypeStep, BookkeepingStep, AskedStep DEF Ind
<1> QED BY <1>1, <1>2, IndOneRequest, PTL DEF Spec

-----------------------------------------------------------------------------
(* Sums.  What a ULT has added up is described by a set of ranks: while it *)
(* collects, the subtrees of the children it has collected; from then on,  *)
(* its own subtree.  Nobody outside the set was added, nobody was added    *)
(* twice, and without a failure everybody in the set was added.            *)

Under(o, r) == Below(r, N, root[o], Degree)

Gathered(o, r) ==
    { x \in Rank : \E i \in 1 .. got[o][r] : x \in Under(o, Child(o, r, i)) }

Due(o, r) ==
    IF pc[o][r] = "idle" THEN {}
    ELSE IF pc[o][r] \in {"running", "blocked"} THEN Gathered(o, r)
    ELSE Under(o, r)

NobodyElse(o, r) ==
    \A x \in Rank : sum[o][r][x] <= 1 /\ (sum[o][r][x] # 0 => x \in Due(o, r))

Everybody(o, r) ==
    /\ pc[o][r] # "silent" /\ ~ garbage[o][r] /\ ret[o][r] = "ok"
    /\ pc[o][r] # "idle" => child_count[o][r] = TreeChildCount(r, root[o])
    /\ \A x \in Due(o, r) : sum[o][r][x] = 1

SumOf(o, r) == NobodyElse(o, r) /\ (faults[o] = {} => Everybody(o, r))

Sums == \A o \in Ops, r \in Rank : SumOf(o, r)

\* What r has gathered lies in its subtree, and is not r itself.
LEMMA GatheredUnder ==
  ASSUME Ind, NEW o \in Ops, NEW r \in Rank, pc[o][r] # "idle"
  PROVE  /\ root[o] \in Rank
         /\ Gathered(o, r) \subseteq Under(o, r)
         /\ r \notin Gathered(o, r)
         /\ r \in Under(o, r) /\ Under(o, r) \subseteq Rank
<1>0. TypeOK /\ Bookkeeping
  BY DEF Ind
<1>1. root[o] \in Rank /\ root[o] # NoRank
  BY <1>0 DEF TypeOK, Bookkeeping
<1>2. \A i \in 1 .. got[o][r] : i \in 1 .. child_count[o][r]
  <2>1. /\ got[o][r] \in Int /\ sent[o][r] \in Int /\ child_count[o][r] \in Int
        /\ got[o][r] <= sent[o][r] /\ sent[o][r] <= child_count[o][r]
    BY <1>0 DEF TypeOK, Bookkeeping
  <2> QED BY <2>1
<1>3. ASSUME NEW i \in 1 .. got[o][r]
      PROVE  Under(o, Child(o, r, i)) \subseteq Under(o, r) /\ r \notin Under(o, Child(o, r, i))
  <2>1. Child(o, r, i) \in Kids(o, r)
    BY <1>0, <1>1, <1>2, ChildOf
  <2> QED BY <1>1, <2>1, Constants, BelowChild DEF Under, Kids, Rank
<1>4. r \in Under(o, r) /\ Under(o, r) \subseteq Rank
  BY <1>1, Constants, BelowSelf DEF Under, Rank, Below
<1> QED BY <1>1, <1>3, <1>4 DEF Gathered

\* The next child's subtree is disjoint from those already collected.
LEMMA NextChildDisjoint ==
  ASSUME Ind, NEW o \in Ops, NEW r \in Rank,
         got[o][r] < child_count[o][r], root[o] # NoRank
  PROVE  /\ Child(o, r, got[o][r] + 1) \in Rank
         /\ Child(o, r, got[o][r] + 1) # r
         /\ Under(o, Child(o, r, got[o][r] + 1)) \cap Gathered(o, r) = {}
<1>0. TypeOK /\ Bookkeeping
  BY DEF Ind
<1>1. root[o] \in Rank
  BY <1>0 DEF TypeOK
<1>2. /\ got[o][r] \in Nat /\ child_count[o][r] \in Nat
      /\ got[o][r] + 1 \in 1 .. child_count[o][r]
      /\ \A i \in 1 .. got[o][r] : i \in 1 .. child_count[o][r] /\ i # got[o][r] + 1
  BY <1>0 DEF TypeOK
<1>3. PICK c : c = Child(o, r, got[o][r] + 1)
  OBVIOUS
<1>4. /\ c \in Kids(o, r) /\ c \in Rank
      /\ \A j \in 1 .. child_count[o][r] : c = Child(o, r, j) => got[o][r] + 1 = j
  BY <1>0, <1>2, <1>3, ChildOf
<1>5. c # r
  BY <1>1, <1>4, Constants, BelowChild, BelowSelf DEF Kids, Rank
<1>6. ASSUME NEW i \in 1 .. got[o][r]
      PROVE  Under(o, c) \cap Under(o, Child(o, r, i)) = {}
  <2>1. Child(o, r, i) \in Kids(o, r) /\ Child(o, r, i) # c
    BY <1>0, <1>2, <1>4, ChildOf
  <2> QED BY <1>1, <1>4, <2>1, Constants, SiblingsDisjoint DEF Under, Kids, Rank
<1> QED BY <1>3, <1>4, <1>5, <1>6 DEF Gathered

\* A ULT that a step leaves alone keeps its part of the invariant.
LEMMA SumOfUntouched ==
  ASSUME NEW p \in Ops, NEW x \in Rank, SumOf(p, x),
         pc'[p][x] = pc[p][x], got'[p][x] = got[p][x], sum'[p][x] = sum[p][x],
         garbage'[p][x] = garbage[p][x], ret'[p][x] = ret[p][x],
         child_count'[p][x] = child_count[p][x],
         root'[p] = root[p] \/ pc[p][x] = "idle",
         faults'[p] = {} => faults[p] = {}
  PROVE  SumOf(p, x)'
<1>1. Due(p, x)' = Due(p, x)
  BY DEF Due, Gathered, Under, Child
<1> QED BY <1>1 DEF SumOf, NobodyElse, Everybody

\* A fault is never forgotten.
LEMMA FaultsGrow ==
  ASSUME Ind, [Next]_vars, NEW p \in Ops
  PROVE  faults'[p] = {} => faults[p] = {}
<1>1. \/ faults' = faults
      \/ \E o \in Ops, r \in Rank, kind \in Kinds : Fault(o, r, kind)
  BY DEF Next, Run, Fail, vars, InvokeSum, HandleSum, GetInputFails, TreeInitFails,
         AllocFails, ForwardRequest, Block, Collect, Add, GetOutputFails, Finish,
         ForwardFails, WaitFails, Respond, RespondFails, Return, Kinds
<1>2. faults \in [Ops -> SUBSET (Rank \X Kinds)]
  BY DEF Ind, TypeOK
<1> QED BY <1>1, <1>2 DEF Fault

\* A fault that happens is recorded.
LEMMA FaultRecorded ==
  ASSUME Ind, NEW o \in Ops, NEW r \in Rank, NEW kind \in Kinds, Fault(o, r, kind)
  PROVE  faults'[o] # {}
BY DEF Fault, Ind, TypeOK

\* The invariant about the sums holds initially.
LEMMA InitSums == Init => Sums
<1> SUFFICES ASSUME Init, NEW o \in Ops, NEW r \in Rank PROVE SumOf(o, r)
  BY DEF Sums
<1>1. pc[o][r] = "idle" /\ ~ garbage[o][r] /\ ret[o][r] = "ok"
  BY DEF Init
<1>2. \A x \in Rank : sum[o][r][x] = 0
  BY DEF Init, Nothing
<1> QED BY <1>1, <1>2 DEF SumOf, NobodyElse, Everybody, Due

\* A local step of one ULT changes nothing of the others.
LEMMA OthersUntouched ==
  ASSUME Ind, NEW o \in Ops, NEW r \in Rank, LocalStep(o, r)
  PROVE  \A p \in Ops, x \in Rank : p # o \/ x # r =>
           /\ pc'[p][x] = pc[p][x] /\ got'[p][x] = got[p][x]
           /\ sum'[p][x] = sum[p][x] /\ garbage'[p][x] = garbage[p][x]
           /\ ret'[p][x] = ret[p][x] /\ child_count'[p][x] = child_count[p][x]
           /\ root'[p] = root[p]
<1>0. TypeOK
  BY DEF Ind
<1>1. UNCHANGED <<root, child_count>>
  BY LocalFrame
<1>2. \E label \in Labels : pc' = [pc EXCEPT ![o][r] = label]
  BY DEF LocalStep, AllocFails, Block, Collect, GetOutputFails, Finish, ForwardFails,
         WaitFails, Respond, RespondFails, Return, Add, AddOwn, Goto, Labels
<1>3. got' = got \/ got' = [got EXCEPT ![o][r] = @ + 1]
  BY DEF LocalStep, AllocFails, Block, Collect, GetOutputFails, Finish, ForwardFails,
         WaitFails, Respond, RespondFails, Return, Add, AddOwn
<1>4. sum' = sum \/ \E s : sum' = [sum EXCEPT ![o][r] = s]
  <2>1. \/ sum' = sum
        \/ Collect(o, r)
        \/ sum' = [sum EXCEPT ![o][r][r] = @ + 1]
    BY DEF LocalStep, AllocFails, Block, GetOutputFails, Finish, ForwardFails,
           WaitFails, Respond, RespondFails, Return, AddOwn
  <2>2. CASE Collect(o, r)
    BY <2>2 DEF Collect, Add
  <2>3. CASE sum' = [sum EXCEPT ![o][r][r] = @ + 1]
    <3>1. sum' = [sum EXCEPT ![o][r] = [sum[o][r] EXCEPT ![r] = @ + 1]]
      BY <1>0, <2>3 DEF TypeOK
    <3> QED BY <3>1
  <2> QED BY <2>1, <2>2, <2>3
<1>5. garbage' = garbage \/ \E g : garbage' = [garbage EXCEPT ![o][r] = g]
  <2>1. CASE Collect(o, r)
    BY <2>1 DEF Collect, Add
  <2>2. CASE ~ Collect(o, r)
    BY <2>2 DEF LocalStep, AllocFails, Block, GetOutputFails, Finish, ForwardFails,
         WaitFails, Respond, RespondFails, Return, AddOwn
  <2> QED BY <2>1, <2>2
<1>6. ret' = ret \/ \E rc : ret' = [ret EXCEPT ![o][r] = rc]
  BY DEF LocalStep, AllocFails, Block, Collect, GetOutputFails, Finish, ForwardFails,
         WaitFails, Respond, RespondFails, Return, Add, AddOwn
<1>7. \A p \in Ops, x \in Rank : p # o \/ x # r =>
        pc'[p][x] = pc[p][x] /\ got'[p][x] = got[p][x]
  BY <1>0, <1>2, <1>3 DEF TypeOK
<1>8. \A p \in Ops, x \in Rank : p # o \/ x # r => sum'[p][x] = sum[p][x]
  BY <1>0, <1>4 DEF TypeOK
<1>9. \A p \in Ops, x \in Rank : p # o \/ x # r => garbage'[p][x] = garbage[p][x]
  <2>1. garbage \in [Ops -> [Rank -> BOOLEAN]]
    BY <1>0 DEF TypeOK
  <2>2. CASE garbage' = garbage
    BY <2>2
  <2>3. CASE \E g : garbage' = [garbage EXCEPT ![o][r] = g]
    <3>1. PICK g : garbage' = [garbage EXCEPT ![o] = [garbage[o] EXCEPT ![r] = g]]
      BY <2>3
    <3>2. ASSUME NEW p \in Ops, p # o PROVE garbage'[p] = garbage[p]
      BY <2>1, <3>1, <3>2, Zenon
    <3>3. garbage'[o] = [garbage[o] EXCEPT ![r] = g]
      BY <2>1, <3>1, Zenon
    <3>4. ASSUME NEW x \in Rank, x # r PROVE garbage'[o][x] = garbage[o][x]
      BY <2>1, <3>3, <3>4, Zenon
    <3> QED BY <3>2, <3>4, Zenon
  <2> QED BY <1>5, <2>2, <2>3
<1>10. \A p \in Ops, x \in Rank : p # o \/ x # r => ret'[p][x] = ret[p][x]
  BY <1>0, <1>6 DEF TypeOK
<1> QED BY <1>1, <1>7, <1>8, <1>9, <1>10

\* One more child collected: what was due, and the child's subtree.
LEMMA DueAfterReply ==
  ASSUME Ind, NEW o \in Ops, NEW r \in Rank,
         Collect(o, r) \/ GetOutputFails(o, r)
  PROVE  \E c \in Rank :
           /\ c = Child(o, r, got[o][r] + 1) /\ c # r
           /\ pc[o][c] = "replied" /\ pc'[o][r] = "running"
           /\ Due(o, r) \cap Due(o, c) = {}
           /\ Due(o, c) = Under(o, c)
           /\ Due(o, r)' = Due(o, r) \cup Due(o, c)
<1>0. TypeOK /\ Bookkeeping
  BY DEF Ind
<1>1. LocalStep(o, r)
  BY DEF LocalStep
<1>2. /\ got[o][r] < child_count[o][r] /\ OnStream(o, r)
      /\ pc[o][Child(o, r, got[o][r] + 1)] = "replied"
      /\ got' = [got EXCEPT ![o][r] = @ + 1]
      /\ Goto(o, r, "running")
  BY DEF Collect, GetOutputFails, Add
<1>3. root[o] \in Rank /\ root[o] # NoRank /\ root' = root
  <2>1. pc[o][r] # "idle"
    BY <1>2 DEF OnStream
  <2> QED BY <1>1, <2>1, LocalFrame, GatheredUnder, Constants
<1>4. PICK c \in Rank :
        /\ c = Child(o, r, got[o][r] + 1) /\ c # r
        /\ Under(o, c) \cap Gathered(o, r) = {}
  BY <1>2, <1>3, NextChildDisjoint
<1>5. got[o][r] \in Nat /\ got'[o][r] = got[o][r] + 1 /\ pc'[o][r] = "running"
  BY <1>0, <1>2 DEF TypeOK, Goto
<1>6. Due(o, c) = Under(o, c)
  BY <1>2, <1>4 DEF Due
<1>7. Due(o, r) = Gathered(o, r)
  BY <1>2 DEF Due, OnStream
<1>8. Due(o, r)' = Gathered(o, r)'
  BY <1>5 DEF Due
<1>9. Gathered(o, r)' = Gathered(o, r) \cup Under(o, c)
  <2>1. Gathered(o, r)' = { x \in Rank : \E i \in 1 .. got[o][r] + 1 :
                                          x \in Under(o, Child(o, r, i)) }
    BY <1>3, <1>5 DEF Gathered, Under, Child
  <2>2. Under(o, c) \subseteq Rank
    BY Constants DEF Under, Below, Rank
  <2>3. \A i : i \in 1 .. got[o][r] + 1 <=> i \in 1 .. got[o][r] \/ i = got[o][r] + 1
    BY <1>5
  <2> QED BY <1>4, <2>1, <2>2, <2>3 DEF Gathered
<1> QED BY <1>2, <1>4, <1>5, <1>6, <1>7, <1>8, <1>9

\* Every step keeps each partial sum what its ULT has gathered.
LEMMA SumsStep == Ind /\ Ind' /\ Sums /\ [Next]_vars => Sums'
<1> SUFFICES ASSUME Ind, Ind', Sums, [Next]_vars PROVE Sums'
  OBVIOUS
<1>0. /\ TypeOK /\ Bookkeeping /\ TypeOK'
      /\ \A p \in Ops : faults'[p] = {} => faults[p] = {}
  BY FaultsGrow DEF Ind
<1>1. ASSUME NEW o \in Ops, NEW r \in Rank, SumOf(o, r)',
             \A p \in Ops, x \in Rank : p # o \/ x # r =>
               /\ pc'[p][x] = pc[p][x] /\ got'[p][x] = got[p][x]
               /\ sum'[p][x] = sum[p][x] /\ garbage'[p][x] = garbage[p][x]
               /\ ret'[p][x] = ret[p][x] /\ child_count'[p][x] = child_count[p][x]
               /\ root'[p] = root[p] \/ pc[p][x] = "idle"
      PROVE  Sums'
  <2> SUFFICES ASSUME NEW p \in Ops, NEW x \in Rank PROVE SumOf(p, x)'
    BY DEF Sums
  <2>1. CASE p = o /\ x = r
    BY <1>1, <2>1
  <2>2. CASE p # o \/ x # r
    BY <1>0, <1>1, <2>2, SumOfUntouched DEF Sums
  <2> QED BY <2>1, <2>2
<1>2. ASSUME NEW o \in Ops, NEW r \in Rank, pc[o][r] = "idle"
      PROVE  /\ \A x \in Rank : sum[o][r][x] = 0
             /\ got[o][r] = 0
             /\ faults[o] = {} => ~ garbage[o][r] /\ ret[o][r] = "ok"
  <2>1. SumOf(o, r)
    BY DEF Sums
  <2>2. Due(o, r) = {}
    BY <1>2 DEF Due
  <2>3. got[o][r] = 0
    BY <1>0, <1>2 DEF TypeOK, Bookkeeping
  <2> QED BY <2>1, <2>2, <2>3 DEF SumOf, NobodyElse, Everybody
<1>3. ASSUME NEW o \in Ops, NEW r \in Rank, InvokeSum(o, r) PROVE Sums'
  <2>1. /\ root[o] = NoRank /\ root' = [root EXCEPT ![o] = r]
        /\ pc' = [pc EXCEPT ![o][r] = "running"]
        /\ child_count' = [child_count EXCEPT ![o][r] = bcast_tree[r]]
        /\ UNCHANGED <<sent, got, sum, garbage, ret>>
    BY <1>3 DEF InvokeSum, Goto
  <2>2. \A x \in Rank : pc[o][x] = "idle"
    BY <1>0, <2>1 DEF Bookkeeping
  <2>3. \A x \in Rank : sum'[o][r][x] = 0
    BY <1>2, <2>1, <2>2
  <2>4. Due(o, r)' = {}
    <3>1. pc'[o][r] = "running" /\ got'[o][r] = 0
      BY <1>0, <1>2, <2>1, <2>2 DEF TypeOK
    <3> QED BY <3>1 DEF Due, Gathered
  <2>5. faults'[o] = {} => child_count'[o][r] = TreeChildCount(r, root'[o])
    <3>1. root'[o] = r /\ child_count'[o][r] = bcast_tree[r]
      BY <1>0, <2>1 DEF TypeOK
    <3>2. bcast_tree[r] = TreeChildCount(r, r) \/ faults'[o] # {}
      BY <1>3, FaultRecorded DEF InvokeSum, Kinds
    <3> QED BY <3>1, <3>2
  <2>6. faults'[o] = {} => ~ garbage'[o][r] /\ ret'[o][r] = "ok"
    BY <1>0, <1>2, <2>1, <2>2
  <2>7. pc'[o][r] = "running"
    BY <1>0, <2>1 DEF TypeOK
  <2>8. SumOf(o, r)'
    BY <2>3, <2>4, <2>5, <2>6, <2>7 DEF SumOf, NobodyElse, Everybody, TreeChildCount
  <2>9. \A p \in Ops, x \in Rank : p # o \/ x # r =>
          /\ pc'[p][x] = pc[p][x] /\ child_count'[p][x] = child_count[p][x]
          /\ root'[p] = root[p] \/ pc[p][x] = "idle"
    BY <1>0, <2>1, <2>2 DEF TypeOK
  <2> QED BY <1>1, <2>1, <2>8, <2>9
<1>4. ASSUME NEW o \in Ops, NEW r \in Rank,
             HandleSum(o, r) \/ GetInputFails(o, r) \/ TreeInitFails(o, r)
      PROVE  Sums'
  <2>1. /\ root[o] \in Rank /\ pc[o][r] = "idle"
        /\ UNCHANGED <<root, got, sum, garbage, ret>>
    BY <1>4, ReceiveFrame
  <2>2. PICK label \in {"running", "silent"} : pc' = [pc EXCEPT ![o][r] = label]
    BY <1>4 DEF HandleSum, GetInputFails, TreeInitFails, Goto
  <2>3. pc'[o][r] = label
    BY <1>0, <2>2 DEF TypeOK
  <2>4. \A x \in Rank : sum'[o][r][x] = 0
    BY <1>2, <2>1
  <2>5. NobodyElse(o, r)'
    BY <2>4 DEF NobodyElse
  <2>6. ASSUME faults'[o] = {} PROVE Everybody(o, r)'
    <3>1. HandleSum(o, r)
      BY <1>4, <2>6, FaultRecorded DEF GetInputFails, TreeInitFails, Kinds
    <3>2. pc'[o][r] = "running" /\ child_count'[o][r] = TreeChildCount(r, root'[o])
      BY <1>0, <2>1, <3>1 DEF HandleSum, Goto, TypeOK
    <3>3. Due(o, r)' = {}
      BY <1>2, <2>1, <3>2 DEF Due, Gathered
    <3>4. ~ garbage'[o][r] /\ ret'[o][r] = "ok"
      BY <1>0, <1>2, <2>1, <2>6
    <3> QED BY <3>2, <3>3, <3>4 DEF Everybody, TreeChildCount
  <2>7. SumOf(o, r)'
    BY <2>5, <2>6 DEF SumOf
  <2>8. \A p \in Ops, x \in Rank : p # o \/ x # r =>
          pc'[p][x] = pc[p][x] /\ child_count'[p][x] = child_count[p][x]
    <3>1. PICK n \in {0, TreeChildCount(r, root[o])} :
            child_count' \in {child_count, [child_count EXCEPT ![o][r] = n]}
      BY <1>4, ReceiveFrame
    <3> QED BY <1>0, <2>2, <3>1 DEF TypeOK
  <2> QED BY <1>1, <2>1, <2>7, <2>8
<1>5. ASSUME NEW o \in Ops, NEW r \in Rank, ForwardRequest(o, r) PROVE Sums'
  <2>1. UNCHANGED <<root, pc, child_count, got, sum, garbage, ret>>
    BY <1>5 DEF ForwardRequest
  <2> QED BY <1>0, <2>1, SumOfUntouched DEF Sums
<1>6. ASSUME NEW o \in Ops, NEW r \in Rank, LocalStep(o, r), SumOf(o, r)' PROVE Sums'
  BY <1>1, <1>6, OthersUntouched
<1>7. ASSUME NEW o \in Ops, NEW r \in Rank, LocalStep(o, r)
      PROVE  /\ SumOf(o, r) /\ UNCHANGED <<root, child_count>>
             /\ pc[o][r] # "idle" /\ root[o] \in Rank
             /\ Under(o, r)' = Under(o, r)
  <2>1. SumOf(o, r)
    BY DEF Sums
  <2>2. UNCHANGED <<root, child_count>>
    BY <1>7, LocalFrame
  <2>3. pc[o][r] # "idle"
    BY <1>7 DEF LocalStep, AllocFails, Block, Collect, GetOutputFails, Finish,
                ForwardFails, WaitFails, Respond, RespondFails, Return, OnStream
  <2> QED BY <2>1, <2>2, <2>3, GatheredUnder DEF Under
<1>8. ASSUME NEW o \in Ops, NEW r \in Rank, AllocFails(o, r) PROVE Sums'
  <2>1. LocalStep(o, r)
    BY <1>8 DEF LocalStep
  <2>2. pc[o][r] = "running" /\ pc'[o][r] = "out" /\ sum' = sum /\ faults'[o] # {}
    BY <1>0, <1>8, FaultRecorded DEF AllocFails, Goto, TypeOK, Kinds
  <2>3. Due(o, r) \subseteq Due(o, r)'
    BY <1>7, <2>1, <2>2, GatheredUnder DEF Due
  <2>4. NobodyElse(o, r)'
    BY <1>7, <2>1, <2>2, <2>3 DEF SumOf, NobodyElse
  <2> QED BY <1>6, <2>1, <2>2, <2>4 DEF SumOf
<1>9. ASSUME NEW o \in Ops, NEW r \in Rank,
             Block(o, r) \/ Respond(o, r) \/ Return(o, r) \/ RespondFails(o, r)
      PROVE  Sums'
  <2>1. LocalStep(o, r)
    BY <1>9 DEF LocalStep
  <2>2. UNCHANGED <<got, sum, garbage, ret>>
    BY <1>9 DEF Block, Respond, Return, RespondFails
  <2>3. \/ pc[o][r] = "running" /\ pc'[o][r] = "blocked"
        \/ pc[o][r] = "out" /\ pc'[o][r] \in {"replied", "returned", "silent"}
    BY <1>0, <1>9 DEF Block, Respond, Return, RespondFails, Goto, TypeOK
  <2>4. Due(o, r)' = Due(o, r)
    BY <1>7, <2>1, <2>2, <2>3 DEF Due, Gathered, Under, Child
  <2>5. pc'[o][r] = "silent" => faults'[o] # {}
    BY <1>0, <1>9, <2>3, FaultRecorded DEF Block, Respond, Return, RespondFails, Goto,
       TypeOK, Kinds
  <2>6. SumOf(o, r)'
    <3>1. NobodyElse(o, r)'
      BY <1>7, <2>1, <2>2, <2>4 DEF SumOf, NobodyElse
    <3>2. ASSUME faults'[o] = {} PROVE Everybody(o, r)'
      <4>1. Everybody(o, r)
        BY <1>0, <1>7, <2>1, <3>2 DEF SumOf
      <4>2. pc'[o][r] # "silent"
        BY <2>5, <3>2
      <4> QED BY <1>7, <2>1, <2>2, <2>4, <4>1, <4>2 DEF Everybody, TreeChildCount
    <3> QED BY <3>1, <3>2 DEF SumOf
  <2> QED BY <1>6, <2>1, <2>6
<1>10. ASSUME NEW o \in Ops, NEW r \in Rank, Collect(o, r) PROVE Sums'
  <2>1. LocalStep(o, r)
    BY <1>10 DEF LocalStep
  <2>2. PICK c \in Rank :
          /\ c = Child(o, r, got[o][r] + 1) /\ c # r
          /\ pc[o][c] = "replied" /\ pc'[o][r] = "running"
          /\ Due(o, r) \cap Due(o, c) = {}
          /\ Due(o, r)' = Due(o, r) \cup Due(o, c)
    BY <1>10, DueAfterReply
  <2>3. SumOf(o, r) /\ SumOf(o, c)
    BY DEF Sums
  <2>4. sum' = [sum EXCEPT ![o][r] = [x \in Rank |-> sum[o][r][x] + sum[o][c][x]]]
    BY <1>10, <2>2 DEF Collect, Add
  <2>5. \A x \in Rank : /\ sum'[o][r][x] = sum[o][r][x] + sum[o][c][x]
                        /\ sum[o][r][x] \in Nat /\ sum[o][c][x] \in Nat
    BY <1>0, <2>4 DEF TypeOK
  <2>6. NobodyElse(o, r) /\ NobodyElse(o, c)
    BY <2>3 DEF SumOf
  <2>7. NobodyElse(o, r)'
    <3> SUFFICES ASSUME NEW x \in Rank
                 PROVE  sum'[o][r][x] <= 1 /\ (sum'[o][r][x] # 0 => x \in Due(o, r)')
      BY DEF NobodyElse
    <3>1. /\ sum[o][r][x] <= 1 /\ (sum[o][r][x] # 0 => x \in Due(o, r))
          /\ sum[o][c][x] <= 1 /\ (sum[o][c][x] # 0 => x \in Due(o, c))
      BY <2>6 DEF NobodyElse
    <3>2. sum[o][r][x] = 0 \/ sum[o][c][x] = 0
      BY <2>2, <3>1
    <3> QED BY <2>2, <2>5, <3>1, <3>2
  <2>8. ASSUME faults'[o] = {} PROVE Everybody(o, r)'
    <3>1. Everybody(o, r) /\ Everybody(o, c)
      BY <1>0, <2>3, <2>8 DEF SumOf
    <3>2. \A x \in Due(o, r)' : sum'[o][r][x] = 1
      <4> SUFFICES ASSUME NEW x \in Due(o, r)' PROVE sum'[o][r][x] = 1
        OBVIOUS
      <4>1. x \in Rank
        <5>1. Due(o, r) \subseteq Rank /\ Due(o, c) \subseteq Rank
          BY DEF Due, Gathered, Under, Below, Rank
        <5> QED BY <2>2, <5>1
      <4>2. CASE x \in Due(o, r)
        <5>1. sum[o][r][x] = 1 /\ x \notin Due(o, c)
          BY <2>2, <3>1, <4>2 DEF Everybody
        <5>2. sum[o][c][x] = 0
          BY <2>6, <4>1, <5>1 DEF NobodyElse
        <5> QED BY <2>5, <4>1, <5>1, <5>2
      <4>3. CASE x \in Due(o, c)
        <5>1. sum[o][c][x] = 1 /\ x \notin Due(o, r)
          BY <2>2, <3>1, <4>3 DEF Everybody
        <5>2. sum[o][r][x] = 0
          BY <2>6, <4>1, <5>1 DEF NobodyElse
        <5> QED BY <2>5, <4>1, <5>1, <5>2
      <4> QED BY <2>2, <4>2, <4>3
    <3>3. ret' = ret /\ garbage' = [garbage EXCEPT ![o][r] = garbage[o][r] \/ garbage[o][c]]
      BY <1>10, <2>2 DEF Collect, Add
    <3>4. ~ garbage'[o][r]
      <4>1. garbage \in [Ops -> [Rank -> BOOLEAN]]
        BY <1>0 DEF TypeOK
      <4>2. garbage'[o][r] = (garbage[o][r] \/ garbage[o][c])
        BY <3>3, <4>1
      <4>3. ~ garbage[o][r] /\ ~ garbage[o][c]
        BY <3>1 DEF Everybody
      <4> QED BY <4>2, <4>3
    <3> QED BY <1>7, <2>1, <2>2, <3>1, <3>2, <3>3, <3>4 DEF Everybody, TreeChildCount
  <2> QED BY <1>6, <2>1, <2>7, <2>8 DEF SumOf
<1>11. ASSUME NEW o \in Ops, NEW r \in Rank, GetOutputFails(o, r) PROVE Sums'
  <2>1. LocalStep(o, r)
    BY <1>11 DEF LocalStep
  <2>2. faults'[o] # {} /\ sum' = sum
    BY <1>11, FaultRecorded DEF GetOutputFails, Kinds
  <2>3. Due(o, r) \subseteq Due(o, r)'
    BY <1>11, DueAfterReply
  <2>4. NobodyElse(o, r)'
    BY <1>7, <2>1, <2>2, <2>3 DEF SumOf, NobodyElse
  <2> QED BY <1>6, <2>1, <2>2, <2>4 DEF SumOf
<1>12. ASSUME NEW o \in Ops, NEW r \in Rank, NEW rc \in {"ok", "error"},
              AddOwn(o, r, rc), LocalStep(o, r), pc[o][r] \in {"running", "blocked"},
              faults'[o] = {} => Finish(o, r)
       PROVE  Sums'
  <2>1. /\ sum' = [sum EXCEPT ![o][r][r] = @ + 1] /\ pc'[o][r] = "out"
        /\ garbage' = garbage /\ ret' = [ret EXCEPT ![o][r] = rc]
    BY <1>0, <1>12 DEF AddOwn, Goto, TypeOK
  <2>2. \A x \in Rank : /\ sum[o][r][x] \in Nat
                        /\ sum'[o][r][x] = IF x = r THEN sum[o][r][x] + 1 ELSE sum[o][r][x]
    BY <1>0, <2>1 DEF TypeOK
  <2>3. /\ Due(o, r) = Gathered(o, r) /\ Due(o, r)' = Under(o, r)
        /\ r \notin Due(o, r) /\ r \in Due(o, r)' /\ Due(o, r) \subseteq Due(o, r)'
    BY <1>7, <1>12, <2>1, GatheredUnder DEF Due
  <2>4. NobodyElse(o, r)
    BY <1>7, <1>12 DEF SumOf
  <2>5. sum[o][r][r] = 0
    BY <2>3, <2>4 DEF NobodyElse
  <2>6. NobodyElse(o, r)'
    BY <2>2, <2>3, <2>4, <2>5 DEF NobodyElse
  <2>7. ASSUME faults'[o] = {} PROVE Everybody(o, r)'
    <3>1. Everybody(o, r)
      BY <1>0, <1>7, <1>12, <2>7 DEF SumOf
    <3>2. got[o][r] = TreeChildCount(r, root[o]) /\ rc = "ok"
      <4>1. got[o][r] = child_count[o][r] /\ ret' = [ret EXCEPT ![o][r] = "ok"]
        BY <1>12, <2>7 DEF Finish, AddOwn
      <4>2. ret'[o][r] = "ok" /\ ret'[o][r] = rc
        BY <1>0, <2>1, <4>1 DEF TypeOK
      <4> QED BY <1>7, <1>12, <3>1, <4>1, <4>2 DEF Everybody
    <3>3. ASSUME NEW x \in Under(o, r), x # r PROVE x \in Gathered(o, r)
      <4>1. root[o] \in Ranks(N) /\ r \in Ranks(N)
        BY <1>7, <1>12 DEF Rank
      <4>2. PICK c \in Kids(o, r) : x \in Under(o, c)
        BY <3>3, <4>1, Constants, BelowIsChildren DEF Under, Kids
      <4>3. PICK i \in 1 .. TreeChildCount(r, root[o]) : c = Child(o, r, i)
        BY <4>2 DEF Kids, Children, Child, TreeChildCount
      <4>4. x \in Rank
        BY <3>3, <4>1 DEF Under, Below, Rank
      <4> QED BY <3>2, <4>2, <4>3, <4>4 DEF Gathered
    <3>4. \A x \in Due(o, r)' : sum'[o][r][x] = 1
      <4> SUFFICES ASSUME NEW x \in Due(o, r)' PROVE sum'[o][r][x] = 1
        OBVIOUS
      <4>1. x \in Rank
        BY <1>7, <1>12, <2>3, GatheredUnder
      <4>2. CASE x = r
        BY <2>2, <2>5, <4>1, <4>2
      <4>3. CASE x # r
        <5>1. sum[o][r][x] = 1
          BY <2>3, <3>1, <3>3, <4>3 DEF Everybody
        <5> QED BY <2>2, <4>1, <4>3, <5>1
      <4> QED BY <4>2, <4>3
    <3>5. ret'[o][r] = "ok"
      BY <1>0, <2>1, <3>2 DEF TypeOK
    <3> QED BY <1>7, <1>12, <2>1, <3>1, <3>4, <3>5 DEF Everybody, TreeChildCount
  <2> QED BY <1>6, <1>12, <2>6, <2>7 DEF SumOf
<1>13. ASSUME NEW o \in Ops, NEW r \in Rank,
              Finish(o, r) \/ ForwardFails(o, r) \/ WaitFails(o, r)
       PROVE  Sums'
  <2>1. LocalStep(o, r)
    BY <1>13 DEF LocalStep
  <2>2. pc[o][r] \in {"running", "blocked"}
    BY <1>13 DEF Finish, ForwardFails, WaitFails, OnStream
  <2>3. \E rc \in {"ok", "error"} : AddOwn(o, r, rc)
    BY <1>13 DEF Finish, ForwardFails, WaitFails
  <2>4. faults'[o] = {} => Finish(o, r)
    BY <1>13, FaultRecorded DEF ForwardFails, WaitFails, Kinds
  <2> QED BY <1>12, <2>1, <2>2, <2>3, <2>4
<1>14. CASE UNCHANGED vars
  <2>1. UNCHANGED <<root, pc, child_count, got, sum, garbage, ret>>
    BY <1>14 DEF vars, ult
  <2> QED BY <1>0, <2>1, SumOfUntouched DEF Sums
<1> QED
  BY <1>3, <1>4, <1>5, <1>8, <1>9, <1>10, <1>11, <1>13, <1>14 DEF Next, Run, Fail

\* The two invariants together are inductive.
LEMMA SumsInvariant == Spec => [](Ind /\ Sums)
<1>1. Init => Ind /\ Sums
  BY InitInvariant, InitSums DEF Ind
<1>2. Ind /\ Sums /\ [Next]_vars => (Ind /\ Sums)'
  BY TypeStep, BookkeepingStep, AskedStep, SumsStep DEF Ind
<1> QED BY <1>1, <1>2, PTL DEF Spec

(***************************************************************************)
(* For any number of servers and whatever fails, no partial sum holds a    *)
(* server twice (CountedAtMostOnce).                                       *)
(***************************************************************************)
THEOREM NobodyTwice == Spec => []CountedAtMostOnce
<1>1. Sums => CountedAtMostOnce
  BY DEF Sums, SumOf, NobodyElse, CountedAtMostOnce
<1> QED BY <1>1, SumsInvariant, PTL

(***************************************************************************)
(* For any number of servers, a call in which nothing failed returns the   *)
(* sum over all of them (ExactSum), however many calls run at the same     *)
(* time and share the execution streams.                                   *)
(***************************************************************************)
THEOREM SumIsExact == Spec => []ExactSum
<1>1. Ind /\ Sums => ExactSum
  <2> SUFFICES ASSUME Ind, Sums, NEW o \in Ops, Returned(o), faults[o] = {}
               PROVE  /\ \A x \in Rank : sum[o][root[o]][x] = 1
                      /\ ~ garbage[o][root[o]]
                      /\ ret[o][root[o]] = "ok"
    BY DEF ExactSum
  <2>1. root[o] \in Rank /\ pc[o][root[o]] = "returned"
    BY DEF Returned, Ind, TypeOK
  <2>2. Everybody(o, root[o])
    BY <2>1 DEF Sums, SumOf
  <2>3. Due(o, root[o]) = Rank
    BY <2>1, Constants, BelowRoot DEF Due, Under, Rank
  <2> QED BY <2>2, <2>3 DEF Everybody
<1> QED BY <1>1, SumsInvariant, PTL
-----------------------------------------------------------------------------
(* Calls that fail: the inductive invariant, for each ULT.                 *)

Finished(o, r) == pc[o][r] \in {"out", "replied", "returned"}

\* The children the ULT works through are those of the root's tree.
Built(o, r) ==
    pc[o][r] \notin {"idle", "silent"} =>
        child_count[o][r] = TreeChildCount(r, root[o]) \/ FaultAt(o, r, {"tree"})

\* The return value says whether a call failed in sum_forward at this rank.
Reported(o, r) ==
    /\ ret[o][r] = "error" <=> FaultAt(o, r, {"alloc", "forward", "wait"})
    /\ pc[o][r] \in {"idle", "running", "blocked"} => ret[o][r] = "ok"

\* What was collected were replies, and who is done waited for all of them.
Waited(o, r) ==
    /\ \A i \in 1 .. got[o][r] : pc[o][Child(o, r, i)] = "replied"
    /\ Finished(o, r) => got[o][r] = sent[o][r] \/ FaultAt(o, r, {"forward", "wait"})

\* An uninitialised value comes from a failed calloc or decoding.
Decoded(o, r) ==
    garbage[o][r] => \E y \in Rank : FaultAt(o, y, {"alloc", "output"})

\* Who ends without an error has added itself.
AddedItself(o, r) ==
    Finished(o, r) /\ ret[o][r] = "ok" => sum[o][r][r] = 1

\* Rank x need not be in a sum: it lost its own sum, or a rank above failed.
Cutting == {"tree", "alloc", "forward", "wait", "output"}

Excused(o, x) ==
    \/ FaultAt(o, x, {"alloc"})
    \/ \E y \in Rank : y # x /\ x \in Under(o, y) /\ FaultAt(o, y, Cutting)

\* Whoever is due and was not added is excused.
Accounted(o, r) ==
    pc[o][r] \notin {"idle", "silent"} =>
        \A x \in Due(o, r) : sum[o][r][x] = 0 => Excused(o, x)

Sound(o, r) ==
    /\ Built(o, r)
    /\ Reported(o, r)
    /\ Waited(o, r)
    /\ Decoded(o, r)
    /\ AddedItself(o, r)
    /\ Accounted(o, r)

AllSound == \A o \in Ops, r \in Rank : Sound(o, r)
-----------------------------------------------------------------------------
(* What a step at rank r in call o leaves alone.                           *)

StepBy(o, r) == InvokeSum(o, r) \/ Run(o, r) \/ Fail(o, r)

\* The first steps of a handler.
FirstStep(o, r) == HandleSum(o, r) \/ GetInputFails(o, r) \/ TreeInitFails(o, r)

\* A fault is added to those of its call, and nowhere else.
LEMMA FaultEffect ==
  ASSUME TypeOK, NEW o \in Ops, NEW r \in Rank, NEW kind, Fault(o, r, kind)
  PROVE  /\ <<r, kind>> \in faults'[o]
         /\ \A p \in Ops : faults[p] \subseteq faults'[p]
         /\ \A p \in Ops : \A x, k :
              <<x, k>> \in faults'[p] =>
                <<x, k>> \in faults[p] \/ (p = o /\ x = r /\ k = kind)
<1>1. faults' = [faults EXCEPT ![o] = faults[o] \cup {<<r, kind>>}]
  BY DEF Fault
<1>2. /\ faults'[o] = faults[o] \cup {<<r, kind>>}
      /\ \A p \in Ops : p # o => faults'[p] = faults[p]
  BY <1>1 DEF TypeOK
<1> QED BY <1>2

FaultsElsewhere(o, r) ==
    /\ \A p \in Ops : faults[p] \subseteq faults'[p]
    /\ \A p \in Ops : \A x, k :
         <<x, k>> \in faults'[p] => <<x, k>> \in faults[p] \/ (p = o /\ x = r)

\* Every step adds faults of its own rank and call only.
LEMMA FaultsStep ==
  ASSUME TypeOK, NEW o \in Ops, NEW r \in Rank, StepBy(o, r)
  PROVE  FaultsElsewhere(o, r)
<1>1. faults' = faults \/ \E kind : Fault(o, r, kind)
  BY DEF StepBy, Run, Fail, InvokeSum, HandleSum, GetInputFails, TreeInitFails,
         AllocFails, ForwardRequest, Block, Collect, Add, GetOutputFails, Finish,
         ForwardFails, WaitFails, Respond, RespondFails, Return
<1> QED BY <1>1, FaultEffect DEF FaultsElsewhere

OthersKept(o, r) ==
    /\ \A p \in Ops, x \in Rank : p # o \/ x # r =>
         /\ pc'[p][x] = pc[p][x] /\ got'[p][x] = got[p][x]
         /\ sum'[p][x] = sum[p][x] /\ garbage'[p][x] = garbage[p][x]
         /\ ret'[p][x] = ret[p][x] /\ child_count'[p][x] = child_count[p][x]
         /\ sent'[p][x] = sent[p][x]
         /\ root'[p] = root[p] \/ pc[p][x] = "idle"
    /\ pc[o][r] \in {"idle", "running", "blocked", "out"}

\* Every step moves one ULT, which had neither replied nor returned.
LEMMA OthersStep ==
  ASSUME Ind, NEW o \in Ops, NEW r \in Rank, StepBy(o, r)
  PROVE  OthersKept(o, r)
<1>0. TypeOK /\ Bookkeeping
  BY DEF Ind
<1>1. CASE InvokeSum(o, r)
  <2>1. /\ root[o] = NoRank /\ root' = [root EXCEPT ![o] = r]
        /\ pc' = [pc EXCEPT ![o][r] = "running"]
        /\ child_count' = [child_count EXCEPT ![o][r] = bcast_tree[r]]
        /\ UNCHANGED <<sent, got, sum, garbage, ret>>
    BY <1>1 DEF InvokeSum, Goto
  <2>2. \A x \in Rank : pc[o][x] = "idle"
    BY <1>0, <2>1 DEF Bookkeeping
  <2> QED BY <1>0, <2>1, <2>2 DEF TypeOK, OthersKept
<1>2. CASE FirstStep(o, r)
  <2>1. /\ pc[o][r] = "idle"
        /\ UNCHANGED <<root, sent, got, sum, garbage, ret>>
    BY <1>2, ReceiveFrame DEF FirstStep
  <2>2. PICK label : pc' = [pc EXCEPT ![o][r] = label]
    BY <1>2, ReceiveFrame DEF FirstStep, Goto
  <2>3. PICK n : child_count' \in {child_count, [child_count EXCEPT ![o][r] = n]}
    BY <1>2, ReceiveFrame DEF FirstStep
  <2> QED BY <1>0, <2>1, <2>2, <2>3 DEF TypeOK, OthersKept
<1>3. CASE ForwardRequest(o, r)
  <2>1. /\ UNCHANGED <<root, pc, child_count, got, sum, garbage, ret>>
        /\ sent' = [sent EXCEPT ![o][r] = @ + 1] /\ pc[o][r] = "running"
    BY <1>3 DEF ForwardRequest
  <2> QED BY <1>0, <2>1 DEF TypeOK, OthersKept
<1>4. CASE LocalStep(o, r)
  <2>1. sent' = sent
    BY <1>4, LocalFrame
  <2>2. pc[o][r] \in {"running", "blocked", "out"}
    BY <1>4 DEF LocalStep, AllocFails, Block, Collect, GetOutputFails, Finish,
                ForwardFails, WaitFails, Respond, RespondFails, Return, OnStream
  <2> QED BY <1>4, <2>1, <2>2, OthersUntouched DEF OthersKept
<1> QED BY <1>1, <1>2, <1>3, <1>4 DEF StepBy, Run, Fail, FirstStep, LocalStep

\* A ULT that a step leaves alone keeps its part of the invariant.
LEMMA SoundUntouched ==
  ASSUME Ind, NEW o \in Ops, NEW r \in Rank, OthersKept(o, r), FaultsElsewhere(o, r),
         NEW p \in Ops, NEW x \in Rank, p # o \/ x # r, Sound(p, x)
  PROVE  Sound(p, x)'
<1>0. TypeOK /\ Bookkeeping
  BY DEF Ind
<1>1. /\ pc'[p][x] = pc[p][x] /\ got'[p][x] = got[p][x]
      /\ sum'[p][x] = sum[p][x] /\ garbage'[p][x] = garbage[p][x]
      /\ ret'[p][x] = ret[p][x] /\ child_count'[p][x] = child_count[p][x]
      /\ sent'[p][x] = sent[p][x]
      /\ root'[p] = root[p] \/ pc[p][x] = "idle"
  BY DEF OthersKept
<1>2. \A kinds : FaultAt(p, x, kinds)' <=> FaultAt(p, x, kinds)
  BY DEF FaultsElsewhere, FaultAt
<1>3. \A kinds, y : FaultAt(p, y, kinds) => FaultAt(p, y, kinds)'
  BY DEF FaultsElsewhere, FaultAt
<1>4. Built(p, x)' /\ Reported(p, x)'
  BY <1>1, <1>2 DEF Sound, Built, Reported
<1>5. Waited(p, x)'
  <2>1. \A i \in 1 .. got'[p][x] : pc'[p][Child(p, x, i)'] = "replied"
    <3>1. CASE pc[p][x] = "idle"
      <4>1. got[p][x] = 0
        BY <1>0, <3>1 DEF TypeOK, Bookkeeping
      <4> QED BY <1>1, <4>1
    <3>2. CASE root'[p] = root[p] /\ pc[p][x] # "idle"
      <4> SUFFICES ASSUME NEW i \in 1 .. got[p][x]
                   PROVE  pc'[p][Child(p, x, i)] = "replied"
        BY <1>1, <3>2 DEF Child
      <4>1. pc[p][Child(p, x, i)] = "replied"
        BY DEF Sound, Waited
      <4>2. Child(p, x, i) \in Rank
        <5>1. i \in 1 .. child_count[p][x] /\ root[p] # NoRank
          BY <1>0, <3>2 DEF TypeOK, Bookkeeping
        <5> QED BY <1>0, <5>1, ChildOf
      <4>3. p # o \/ Child(p, x, i) # r
        BY <4>1 DEF OthersKept
      <4> QED BY <4>1, <4>2, <4>3 DEF OthersKept
    <3> QED BY <1>1, <3>1, <3>2
  <2> QED BY <1>1, <1>2, <2>1 DEF Sound, Waited, Finished
<1>6. Decoded(p, x)'
  BY <1>1, <1>3 DEF Sound, Decoded
<1>7. AddedItself(p, x)'
  BY <1>1 DEF Sound, AddedItself, Finished
<1>8. Accounted(p, x)'
  <2> SUFFICES ASSUME pc[p][x] \notin {"idle", "silent"}, NEW y \in Due(p, x)',
                      sum[p][x][y] = 0
               PROVE  Excused(p, y)'
    BY <1>1 DEF Accounted
  <2>1. root'[p] = root[p] /\ y \in Due(p, x)
    BY <1>1 DEF Due, Gathered, Under, Child
  <2>2. Excused(p, y)
    BY <2>1 DEF Sound, Accounted
  <2> QED BY <1>3, <2>1, <2>2 DEF Excused, Under
<1> QED BY <1>4, <1>5, <1>6, <1>7, <1>8 DEF Sound

-----------------------------------------------------------------------------
(* What a step does to the ULT it moves.                                   *)

\* A reply is there to stay.
LEMMA RepliedKept ==
  ASSUME Ind, NEW o \in Ops, NEW r \in Rank, OthersKept(o, r), Sound(o, r),
         pc[o][r] # "idle", root' = root, got'[o][r] = got[o][r]
  PROVE  \A i \in 1 .. got'[o][r] : pc'[o][Child(o, r, i)'] = "replied"
<1> SUFFICES ASSUME NEW i \in 1 .. got[o][r]
             PROVE  pc'[o][Child(o, r, i)] = "replied"
  BY DEF Child
<1>1. TypeOK /\ Bookkeeping
  BY DEF Ind
<1>2. pc[o][Child(o, r, i)] = "replied"
  BY DEF Sound, Waited
<1>3. i \in 1 .. child_count[o][r] /\ root[o] # NoRank
  BY <1>1 DEF TypeOK, Bookkeeping
<1>4. Child(o, r, i) \in Rank
  BY <1>1, <1>3, ChildOf
<1>5. Child(o, r, i) # r
  BY <1>2 DEF OthersKept
<1> QED BY <1>2, <1>4, <1>5 DEF OthersKept

\* A ULT begins with nothing collected, and only its tree can have failed.
LEMMA BeginSound ==
  ASSUME Ind, NEW o \in Ops, NEW r \in Rank, Sound(o, r), FaultsElsewhere(o, r),
         InvokeSum(o, r) \/ FirstStep(o, r)
  PROVE  Sound(o, r)'
<1>0. TypeOK /\ Bookkeeping
  BY DEF Ind
<1>1. /\ pc[o][r] = "idle"
      /\ UNCHANGED <<got, sent, sum, garbage, ret>>
  <2>1. CASE InvokeSum(o, r)
    BY <1>0, <2>1 DEF InvokeSum, Bookkeeping
  <2>2. CASE FirstStep(o, r)
    BY <2>2, ReceiveFrame DEF FirstStep
  <2> QED BY <2>1, <2>2
<1>2. got[o][r] = 0 /\ ret[o][r] = "ok" /\ ~ FaultAt(o, r, {"alloc", "forward", "wait"})
  BY <1>0, <1>1 DEF TypeOK, Bookkeeping, Sound, Reported
<1>3. pc'[o][r] \in {"running", "silent"}
  BY <1>0 DEF InvokeSum, FirstStep, HandleSum, GetInputFails, TreeInitFails, Goto, TypeOK
<1>4. faults' = faults \/ Fault(o, r, "tree") \/ Fault(o, r, "input")
  BY DEF InvokeSum, FirstStep, HandleSum, GetInputFails, TreeInitFails
<1>5. ~ FaultAt(o, r, {"alloc", "forward", "wait"})'
  <2>1. CASE faults' = faults
    BY <1>2, <2>1 DEF FaultAt
  <2>2. ASSUME NEW kind \in {"tree", "input"}, Fault(o, r, kind)
        PROVE  ~ FaultAt(o, r, {"alloc", "forward", "wait"})'
    <3>1. \A p \in Ops : \A x, k :
            <<x, k>> \in faults'[p] =>
              <<x, k>> \in faults[p] \/ (p = o /\ x = r /\ k = kind)
      BY <1>0, <2>2, FaultEffect
    <3> QED BY <1>2, <2>2, <3>1 DEF FaultAt
  <2> QED BY <1>4, <2>1, <2>2
<1>6. Built(o, r)'
  <2>1. CASE InvokeSum(o, r)
    <3>1. root'[o] = r /\ child_count'[o][r] = bcast_tree[r]
      BY <1>0, <2>1 DEF InvokeSum, TypeOK
    <3>2. bcast_tree[r] = TreeChildCount(r, r) \/ Fault(o, r, "tree")
      BY <2>1 DEF InvokeSum
    <3>3. Fault(o, r, "tree") => FaultAt(o, r, {"tree"})'
      BY <1>0, FaultEffect DEF FaultAt
    <3> QED BY <3>1, <3>2, <3>3 DEF Built, TreeChildCount
  <2>2. CASE HandleSum(o, r)
    <3>1. root' = root
      BY <2>2, ReceiveFrame
    <3>2. child_count'[o][r] = TreeChildCount(r, root[o])
      BY <1>0, <2>2 DEF HandleSum, TypeOK
    <3> QED BY <3>1, <3>2 DEF Built, TreeChildCount
  <2>3. CASE GetInputFails(o, r)
    <3>1. pc'[o][r] = "silent"
      BY <1>0, <2>3 DEF GetInputFails, Goto, TypeOK
    <3> QED BY <3>1 DEF Built
  <2>4. CASE TreeInitFails(o, r)
    <3>1. FaultAt(o, r, {"tree"})'
      BY <1>0, <2>4, FaultEffect DEF FaultAt, TreeInitFails
    <3> QED BY <3>1 DEF Built
  <2> QED BY <2>1, <2>2, <2>3, <2>4 DEF FirstStep
<1>7. Reported(o, r)'
  BY <1>1, <1>2, <1>5 DEF Reported
<1>8. Waited(o, r)'
  BY <1>1, <1>2, <1>3 DEF Waited, Finished
<1>9. Decoded(o, r)'
  BY <1>1 DEF Sound, Decoded, FaultAt, FaultsElsewhere
<1>10. AddedItself(o, r)'
  BY <1>3 DEF AddedItself, Finished
<1>11. Accounted(o, r)'
  BY <1>1, <1>2, <1>3 DEF Accounted, Due, Gathered
<1> QED BY <1>6, <1>7, <1>8, <1>9, <1>10, <1>11 DEF Sound

\* Forwarding a request, giving the ES away and replying keep what holds.
LEMMA PassSound ==
  ASSUME Ind, NEW o \in Ops, NEW r \in Rank, Sound(o, r), OthersKept(o, r),
         \/ ForwardRequest(o, r) \/ Block(o, r)
         \/ Respond(o, r) \/ Return(o, r) \/ RespondFails(o, r)
  PROVE  Sound(o, r)'
<1>0. TypeOK /\ Bookkeeping
  BY DEF Ind
<1>1. UNCHANGED <<root, child_count, got, sum, garbage, ret>>
  BY DEF ForwardRequest, Block, Respond, Return, RespondFails
<1>2. \/ pc[o][r] = "running" /\ pc'[o][r] \in {"running", "blocked"}
      \/ /\ pc[o][r] = "out" /\ pc'[o][r] \in {"replied", "returned", "silent"}
         /\ sent' = sent
  BY <1>0 DEF ForwardRequest, Block, Respond, Return, RespondFails, Goto, TypeOK
<1>3. faults' = faults \/ Fault(o, r, "respond")
  BY DEF ForwardRequest, Block, Respond, Return, RespondFails
<1>4. /\ \A k : k # "respond" => (<<r, k>> \in faults'[o] <=> <<r, k>> \in faults[o])
      /\ \A x, k : <<x, k>> \in faults[o] => <<x, k>> \in faults'[o]
  BY <1>0, <1>3, FaultEffect
<1>5. Built(o, r)'
  BY <1>1, <1>2, <1>4 DEF Sound, Built, FaultAt, TreeChildCount
<1>6. Reported(o, r)'
  BY <1>1, <1>2, <1>4 DEF Sound, Reported, FaultAt
<1>7. Waited(o, r)'
  <2>1. \A i \in 1 .. got'[o][r] : pc'[o][Child(o, r, i)'] = "replied"
    BY <1>1, <1>2, RepliedKept
  <2> QED BY <1>1, <1>2, <1>4, <2>1 DEF Sound, Waited, Finished, FaultAt
<1>8. Decoded(o, r)'
  BY <1>1, <1>4 DEF Sound, Decoded, FaultAt
<1>9. AddedItself(o, r)'
  BY <1>1, <1>2 DEF Sound, AddedItself, Finished
<1>10. Accounted(o, r)'
  <2> SUFFICES ASSUME pc'[o][r] # "silent", NEW x \in Due(o, r)', sum[o][r][x] = 0
               PROVE  Excused(o, x)'
    BY <1>1 DEF Accounted
  <2>1. x \in Due(o, r)
    BY <1>1, <1>2 DEF Due, Gathered, Under, Child
  <2>2. Excused(o, x)
    BY <1>2, <2>1 DEF Sound, Accounted
  <2> QED BY <1>1, <1>4, <2>2 DEF Excused, FaultAt, Under
<1> QED BY <1>5, <1>6, <1>7, <1>8, <1>9, <1>10 DEF Sound

\* A reply collected, or lost to a failing margo_get_output.
LEMMA CollectSound ==
  ASSUME Ind, AllSound, NEW o \in Ops, NEW r \in Rank, OthersKept(o, r),
         Collect(o, r) \/ GetOutputFails(o, r)
  PROVE  Sound(o, r)'
<1>0. TypeOK /\ Bookkeeping /\ Sound(o, r)
  BY DEF Ind, AllSound
<1>1. PICK c \in Rank :
        /\ c = Child(o, r, got[o][r] + 1) /\ c # r
        /\ pc[o][c] = "replied" /\ pc'[o][r] = "running"
        /\ Due(o, c) = Under(o, c)
        /\ Due(o, r)' = Due(o, r) \cup Due(o, c)
  BY DueAfterReply
<1>2. /\ UNCHANGED <<root, child_count, ret>>
      /\ got' = [got EXCEPT ![o][r] = @ + 1] /\ got[o][r] < child_count[o][r]
      /\ pc[o][r] \in {"running", "blocked"}
  BY DEF Collect, GetOutputFails, Add, OnStream
<1>3. faults' = faults \/ Fault(o, r, "output")
  BY DEF Collect, GetOutputFails, Add
<1>4. /\ \A k : k # "output" => (<<r, k>> \in faults'[o] <=> <<r, k>> \in faults[o])
      /\ \A x, k : <<x, k>> \in faults[o] => <<x, k>> \in faults'[o]
  BY <1>0, <1>3, FaultEffect
<1>5. Sound(o, c)
  BY DEF AllSound
<1>6. Built(o, r)'
  BY <1>0, <1>2, <1>4 DEF Sound, Built, FaultAt, TreeChildCount
<1>7. Reported(o, r)'
  BY <1>0, <1>1, <1>2, <1>4 DEF Sound, Reported, FaultAt
<1>8. Waited(o, r)'
  <2>1. got[o][r] \in Nat /\ got'[o][r] = got[o][r] + 1
    BY <1>0, <1>2 DEF TypeOK
  <2>2. ASSUME NEW i \in 1 .. got'[o][r]
        PROVE  pc'[o][Child(o, r, i)] = "replied"
    <3>1. pc[o][Child(o, r, i)] = "replied"
      BY <1>0, <1>1, <2>1 DEF Sound, Waited
    <3>2. Child(o, r, i) \in Rank
      <4>1. i \in 1 .. child_count[o][r] /\ root[o] # NoRank
        <5>1. root[o] # NoRank
          BY <1>0, <1>2 DEF Bookkeeping
        <5>2. child_count[o][r] \in Nat
          BY <1>0 DEF TypeOK
        <5> QED BY <1>2, <2>1, <5>1, <5>2
      <4> QED BY <1>0, <4>1, ChildOf
    <3>3. Child(o, r, i) # r
      BY <1>2, <3>1
    <3> QED BY <3>1, <3>2, <3>3 DEF OthersKept
  <2> QED BY <1>1, <1>2, <2>2 DEF Waited, Finished, Child
<1>9. Decoded(o, r)'
  <2>1. CASE Collect(o, r)
    <3>1. garbage' = [garbage EXCEPT ![o][r] = garbage[o][r] \/ garbage[o][c]]
      BY <1>1, <2>1 DEF Collect, Add
    <3>2. garbage \in [Ops -> [Rank -> BOOLEAN]]
      BY <1>0 DEF TypeOK
    <3>3. garbage'[o][r] = (garbage[o][r] \/ garbage[o][c])
      BY <3>1, <3>2
    <3>4. garbage'[o][r] => \E y \in Rank : FaultAt(o, y, {"alloc", "output"})
      BY <1>0, <1>5, <3>3 DEF Sound, Decoded
    <3> QED BY <1>4, <3>4 DEF Decoded, FaultAt
  <2>2. CASE GetOutputFails(o, r)
    <3>1. FaultAt(o, r, {"alloc", "output"})'
      BY <1>0, <2>2, FaultEffect DEF GetOutputFails, FaultAt
    <3> QED BY <3>1 DEF Decoded
  <2> QED BY <2>1, <2>2
<1>10. AddedItself(o, r)'
  BY <1>1 DEF AddedItself, Finished
<1>11. Accounted(o, r)'
  <2> SUFFICES ASSUME NEW x \in Due(o, r)', sum'[o][r][x] = 0
               PROVE  Excused(o, x)'
    BY DEF Accounted
  <2>1. Excused(o, x) => Excused(o, x)'
    BY <1>2, <1>4 DEF Excused, FaultAt, Under
  <2>2. x \in Rank
    <3>1. Due(o, r) \subseteq Rank /\ Due(o, c) \subseteq Rank
      BY DEF Due, Gathered, Under, Below, Rank
    <3> QED BY <1>1, <3>1
  <2>3. sum[o][r][x] \in Nat /\ sum[o][c][x] \in Nat
    BY <1>0, <2>2 DEF TypeOK
  <2>4. CASE Collect(o, r)
    <3>1. sum' = [sum EXCEPT ![o][r] = [y \in Rank |-> sum[o][r][y] + sum[o][c][y]]]
      BY <1>1, <2>4 DEF Collect, Add
    <3>2. sum'[o][r][x] = sum[o][r][x] + sum[o][c][x]
      BY <1>0, <2>2, <3>1 DEF TypeOK
    <3>3. sum[o][r][x] = 0 /\ sum[o][c][x] = 0
      BY <2>3, <3>2
    <3> QED BY <1>0, <1>1, <1>2, <1>5, <2>1, <3>3 DEF Sound, Accounted
  <2>5. CASE GetOutputFails(o, r)
    <3>1. sum[o][r][x] = 0
      BY <2>5 DEF GetOutputFails
    <3>2. CASE x \in Due(o, r)
      BY <1>0, <1>2, <2>1, <3>1, <3>2 DEF Sound, Accounted
    <3>3. CASE x \in Under(o, c)
      <4>1. FaultAt(o, r, Cutting)'
        BY <1>0, <2>5, FaultEffect DEF GetOutputFails, FaultAt, Cutting
      <4>2. x # r /\ x \in Under(o, r)
        <5>1. root[o] \in Rank /\ root[o] # NoRank
          BY <1>2, GatheredUnder, Constants
        <5>2. got[o][r] + 1 \in 1 .. child_count[o][r]
          BY <1>0, <1>2 DEF TypeOK
        <5>3. c \in Kids(o, r)
          BY <1>0, <1>1, <5>1, <5>2, ChildOf
        <5> QED BY <3>3, <5>1, <5>3, Constants, BelowChild DEF Under, Kids, Rank
      <4> QED BY <1>2, <4>1, <4>2 DEF Excused, Under
    <3> QED BY <1>1, <3>2, <3>3
  <2> QED BY <2>4, <2>5
<1> QED BY <1>6, <1>7, <1>8, <1>9, <1>10, <1>11 DEF Sound

\* A failed calloc: the whole subtree is lost, and the caller's value undefined.
LEMMA AllocSound ==
  ASSUME Ind, NEW o \in Ops, NEW r \in Rank, Sound(o, r), OthersKept(o, r),
         FaultsElsewhere(o, r), AllocFails(o, r)
  PROVE  Sound(o, r)'
<1>0. TypeOK /\ Bookkeeping
  BY DEF Ind
<1>1. /\ pc[o][r] = "running" /\ sent[o][r] = 0
      /\ UNCHANGED <<root, child_count, sent, got, sum>>
      /\ Fault(o, r, "alloc")
  BY DEF AllocFails
<1>2. pc'[o][r] = "out" /\ ret'[o][r] = "error"
  BY <1>0 DEF AllocFails, Goto, TypeOK
<1>3. /\ <<r, "alloc">> \in faults'[o]
      /\ \A k : <<r, k>> \in faults[o] => <<r, k>> \in faults'[o]
  BY <1>0, <1>1, FaultEffect
<1>4. Built(o, r)'
  BY <1>1, <1>3 DEF Sound, Built, FaultAt, TreeChildCount
<1>5. Reported(o, r)'
  BY <1>2, <1>3 DEF Reported, FaultAt
<1>6. Waited(o, r)'
  <2>1. got[o][r] = sent[o][r]
    BY <1>0, <1>1 DEF TypeOK, Bookkeeping
  <2>2. \A i \in 1 .. got'[o][r] : pc'[o][Child(o, r, i)'] = "replied"
    BY <1>1, RepliedKept
  <2> QED BY <1>1, <2>1, <2>2 DEF Waited
<1>7. Decoded(o, r)'
  BY <1>3 DEF Decoded, FaultAt
<1>8. AddedItself(o, r)'
  BY <1>2 DEF AddedItself
<1>9. Accounted(o, r)'
  <2>1. Due(o, r)' = Under(o, r)
    BY <1>1, <1>2 DEF Due, Under
  <2>2. FaultAt(o, r, Cutting)' /\ FaultAt(o, r, {"alloc"})'
    BY <1>3 DEF FaultAt, Cutting
  <2>3. \A x \in Under(o, r) : Excused(o, x)'
    BY <1>1, <2>2 DEF Excused, Under
  <2> QED BY <2>1, <2>3 DEF Accounted
<1> QED BY <1>4, <1>5, <1>6, <1>7, <1>8, <1>9 DEF Sound

\* The end of sum_forward: the rank adds itself.
LEMMA AddOwnSound ==
  ASSUME Ind, Sums, NEW o \in Ops, NEW r \in Rank, Sound(o, r), OthersKept(o, r),
         Finish(o, r) \/ ForwardFails(o, r) \/ WaitFails(o, r)
  PROVE  Sound(o, r)'
<1>0. TypeOK /\ Bookkeeping
  BY DEF Ind
<1>1. PICK rc \in {"ok", "error"} : AddOwn(o, r, rc) /\ (rc = "ok" <=> Finish(o, r))
  <2>1. CASE Finish(o, r)
    BY <2>1 DEF Finish
  <2>2. CASE ~ Finish(o, r)
    BY <2>2 DEF ForwardFails, WaitFails
  <2> QED BY <2>1, <2>2
<1>2. /\ pc[o][r] \in {"running", "blocked"}
      /\ UNCHANGED <<root, child_count, sent, got, garbage>>
      /\ sum' = [sum EXCEPT ![o][r][r] = @ + 1]
  BY <1>1 DEF AddOwn, Finish, ForwardFails, WaitFails, OnStream
<1>3. pc'[o][r] = "out" /\ ret'[o][r] = rc
  BY <1>0, <1>1 DEF AddOwn, Goto, TypeOK
<1>4. \/ /\ rc = "ok" /\ faults' = faults
         /\ sent[o][r] = child_count[o][r] /\ got[o][r] = child_count[o][r]
      \/ rc = "error" /\ \E kind \in {"forward", "wait"} : Fault(o, r, kind)
  <2>1. CASE Finish(o, r)
    BY <1>1, <2>1 DEF Finish
  <2>2. CASE ~ Finish(o, r)
    BY <1>1, <2>2 DEF ForwardFails, WaitFails
  <2> QED BY <2>1, <2>2
<1>5. /\ \A x, k : <<x, k>> \in faults[o] => <<x, k>> \in faults'[o]
      /\ rc = "ok" => faults' = faults
      /\ rc = "error" => <<r, "forward">> \in faults'[o] \/ <<r, "wait">> \in faults'[o]
  BY <1>0, <1>4, FaultEffect
<1>6. Built(o, r)'
  BY <1>2, <1>5 DEF Sound, Built, FaultAt, TreeChildCount
<1>7. Reported(o, r)'
  <2>1. ~ FaultAt(o, r, {"alloc", "forward", "wait"})
    BY <1>2 DEF Sound, Reported
  <2> QED BY <1>3, <1>5, <2>1 DEF Reported, FaultAt
<1>8. Waited(o, r)'
  <2>1. \A i \in 1 .. got'[o][r] : pc'[o][Child(o, r, i)'] = "replied"
    BY <1>2, RepliedKept
  <2> QED BY <1>2, <1>4, <1>5, <2>1 DEF Waited, FaultAt
<1>9. Decoded(o, r)'
  BY <1>2, <1>5 DEF Sound, Decoded, FaultAt
<1>10. /\ root[o] \in Rank /\ Due(o, r) = Gathered(o, r) /\ Due(o, r)' = Under(o, r)
       /\ r \notin Due(o, r) /\ Due(o, r)' \subseteq Rank
  BY <1>2, <1>3, GatheredUnder DEF Due, Under
<1>11. \A x \in Rank : /\ sum[o][r][x] \in Nat
                       /\ sum'[o][r][x] = IF x = r THEN sum[o][r][x] + 1 ELSE sum[o][r][x]
  BY <1>0, <1>2 DEF TypeOK
<1>12. AddedItself(o, r)'
  <2>1. sum[o][r][r] = 0
    BY <1>10 DEF Sums, SumOf, NobodyElse
  <2> QED BY <1>11, <2>1 DEF AddedItself
<1>13. Accounted(o, r)'
  <2> SUFFICES ASSUME NEW x \in Under(o, r), sum'[o][r][x] = 0
               PROVE  Excused(o, x)'
    BY <1>10 DEF Accounted
  <2>1. x \in Rank /\ x # r /\ sum[o][r][x] = 0
    BY <1>10, <1>11
  <2>2. Excused(o, x) => Excused(o, x)'
    BY <1>2, <1>5 DEF Excused, FaultAt, Under
  <2>3. FaultAt(o, r, Cutting)' => Excused(o, x)'
    BY <1>2, <2>1 DEF Excused, Under
  <2>4. CASE x \in Gathered(o, r)
    BY <1>2, <1>10, <2>1, <2>2, <2>4 DEF Sound, Accounted
  <2>5. CASE x \notin Gathered(o, r) /\ rc = "ok"
    <3>1. PICK c \in Kids(o, r) : x \in Under(o, c)
      BY <1>10, <2>1, Constants, BelowIsChildren DEF Under, Kids, Rank
    <3>2. PICK i \in 1 .. TreeChildCount(r, root[o]) : c = Child(o, r, i)
      BY <3>1 DEF Kids, Children, Child, TreeChildCount
    <3>3. got[o][r] # TreeChildCount(r, root[o])
      BY <2>1, <2>5, <3>1, <3>2 DEF Gathered
    <3>4. got[o][r] = child_count[o][r]
      BY <1>4, <2>5
    <3>5. FaultAt(o, r, {"tree"})
      BY <1>2, <3>3, <3>4 DEF Sound, Built
    <3> QED BY <1>5, <2>3, <3>5 DEF FaultAt, Cutting
  <2>6. CASE rc = "error"
    BY <1>5, <2>3, <2>6 DEF FaultAt, Cutting
  <2> QED BY <2>4, <2>5, <2>6
<1> QED BY <1>6, <1>7, <1>8, <1>9, <1>12, <1>13 DEF Sound

\* The invariant holds initially.
LEMMA InitSound == Init => AllSound
<1> SUFFICES ASSUME Init, NEW o \in Ops, NEW r \in Rank PROVE Sound(o, r)
  BY DEF AllSound
<1>1. /\ pc[o][r] = "idle" /\ got[o][r] = 0 /\ ~ garbage[o][r] /\ ret[o][r] = "ok"
      /\ faults[o] = {}
  BY DEF Init
<1> QED
  BY <1>1 DEF Sound, Built, Reported, Waited, Decoded, AddedItself, Accounted, Finished,
              FaultAt

\* Every step keeps it, for the ULT that moves and for the others.
LEMMA SoundStep == Ind /\ Sums /\ AllSound /\ [Next]_vars => AllSound'
<1> SUFFICES ASSUME Ind, Sums, AllSound, [Next]_vars PROVE AllSound'
  OBVIOUS
<1>1. ASSUME NEW o \in Ops, NEW r \in Rank, StepBy(o, r) PROVE AllSound'
  <2>1. OthersKept(o, r) /\ FaultsElsewhere(o, r) /\ Sound(o, r)
    BY <1>1, OthersStep, FaultsStep DEF Ind, AllSound
  <2>2. Sound(o, r)'
    <3>1. CASE InvokeSum(o, r) \/ FirstStep(o, r)
      BY <2>1, <3>1, BeginSound
    <3>2. CASE \/ ForwardRequest(o, r) \/ Block(o, r)
               \/ Respond(o, r) \/ Return(o, r) \/ RespondFails(o, r)
      BY <2>1, <3>2, PassSound
    <3>3. CASE Collect(o, r) \/ GetOutputFails(o, r)
      BY <2>1, <3>3, CollectSound
    <3>4. CASE AllocFails(o, r)
      BY <2>1, <3>4, AllocSound
    <3>5. CASE Finish(o, r) \/ ForwardFails(o, r) \/ WaitFails(o, r)
      BY <2>1, <3>5, AddOwnSound
    <3> QED BY <1>1, <3>1, <3>2, <3>3, <3>4, <3>5 DEF StepBy, Run, Fail, FirstStep
  <2>3. \A p \in Ops, x \in Rank : p # o \/ x # r => Sound(p, x)'
    BY <2>1, SoundUntouched DEF AllSound
  <2> QED BY <2>2, <2>3 DEF AllSound
<1>2. CASE UNCHANGED vars
  <2>1. UNCHANGED <<root, pc, child_count, sent, got, sum, garbage, ret, faults>>
    BY <1>2 DEF vars, ult
  <2> SUFFICES ASSUME NEW o \in Ops, NEW r \in Rank PROVE Sound(o, r)'
    BY DEF AllSound
  <2>2. Sound(o, r)
    BY DEF AllSound
  <2>3. Built(o, r)' /\ Reported(o, r)' /\ AddedItself(o, r)'
    BY <2>1, <2>2 DEF Sound, Built, Reported, AddedItself, Finished, FaultAt, TreeChildCount
  <2>4. Waited(o, r)' /\ Decoded(o, r)'
    BY <2>1, <2>2 DEF Sound, Waited, Decoded, Finished, FaultAt, Child
  <2>5. Due(o, r)' = Due(o, r) /\ \A x : Excused(o, x)' = Excused(o, x)
    BY <2>1 DEF Due, Gathered, Under, Child, Excused, FaultAt
  <2>6. Accounted(o, r)'
    BY <2>1, <2>2, <2>5 DEF Sound, Accounted
  <2> QED BY <2>3, <2>4, <2>6 DEF Sound
<1> QED BY <1>1, <1>2 DEF Next, StepBy

Inv == Ind /\ Sums /\ AllSound

\* The three invariants together are inductive.
LEMMA SoundInvariant == Spec => []Inv
<1>1. Init => Inv
  BY InitInvariant, InitSums, InitSound DEF Inv, Ind
<1>2. Inv /\ [Next]_vars => Inv'
  BY TypeStep, BookkeepingStep, AskedStep, SumsStep, SoundStep DEF Inv, Ind
<1> QED BY <1>1, <1>2, PTL DEF Spec

-----------------------------------------------------------------------------
(***************************************************************************)
(* For any number of servers, whoever replies has waited for every child   *)
(* it forwarded to, unless it lost an RPC itself (RepliesAfterChildren).   *)
(***************************************************************************)
THEOREM RepliesInOrder == Spec => []RepliesAfterChildren
<1>1. Inv => RepliesAfterChildren
  <2> SUFFICES ASSUME Inv, NEW o \in Ops, NEW r \in Rank,
                      pc[o][r] \in {"out", "replied", "returned"},
                      ~ FaultAt(o, r, {"forward", "wait"}), NEW i \in 1 .. sent[o][r]
               PROVE  pc[o][Child(o, r, i)] = "replied"
    BY DEF RepliesAfterChildren
  <2>1. Waited(o, r)
    BY DEF Inv, AllSound, Sound
  <2> QED BY <2>1 DEF Waited, Finished
<1> QED BY <1>1, SoundInvariant, PTL

(***************************************************************************)
(* For any number of servers, a call returns an error exactly when a       *)
(* library call failed in sum_forward at the caller's rank (ErrorIsLocal). *)
(***************************************************************************)
THEOREM ErrorsAreLocal == Spec => []ErrorIsLocal
<1>1. Inv => ErrorIsLocal
  <2> SUFFICES ASSUME Inv, NEW o \in Ops, Returned(o)
               PROVE  ret[o][root[o]] = "error" <=>
                        FaultAt(o, root[o], {"alloc", "forward", "wait"})
    BY DEF ErrorIsLocal
  <2>1. root[o] \in Rank
    BY DEF Returned, Inv, Ind, TypeOK
  <2> QED BY <2>1 DEF Inv, AllSound, Sound, Reported
<1> QED BY <1>1, SoundInvariant, PTL

\* The model's Above holds exactly the ranks whose subtrees hold the rank.
LEMMA AboveUnder ==
  ASSUME TypeOK, NEW o \in Ops, root[o] \in Rank, NEW x \in Rank, NEW y \in Rank, y # x,
         x \in Under(o, y)
  PROVE  y \in ProperAncestors(x, root[o])
BY DEF ProperAncestors, Above, Subtree, Under

(***************************************************************************)
(* For any number of servers and failures, a server missing from a result  *)
(* lost its own sum or is below a rank where a call failed, and a result   *)
(* is undefined only when a calloc or a decoding failed (LossIsExplained). *)
(***************************************************************************)
THEOREM LossesAreExplained == Spec => []LossIsExplained
<1>1. Inv => MissingIsExplained
  <2> SUFFICES ASSUME Inv, NEW o \in Ops, NEW x \in Rank, Returned(o),
                      sum[o][root[o]][x] = 0
               PROVE  \/ FaultAt(o, x, {"alloc"})
                      \/ \E y \in ProperAncestors(x, root[o]) : FaultAt(o, y, Cutting)
    BY DEF MissingIsExplained, Cutting
  <2>1. TypeOK /\ root[o] \in Rank /\ pc[o][root[o]] = "returned"
    BY DEF Returned, Inv, Ind, TypeOK
  <2>2. Due(o, root[o]) = Rank
    BY <2>1, Constants, BelowRoot DEF Due, Under, Rank
  <2>3. Excused(o, x)
    BY <2>1, <2>2 DEF Inv, AllSound, Sound, Accounted
  <2> QED BY <2>1, <2>3, AboveUnder DEF Excused
<1>2. Inv => GarbageIsExplained
  <2> SUFFICES ASSUME Inv, NEW o \in Ops, Returned(o), garbage[o][root[o]]
               PROVE  \E y \in Rank : FaultAt(o, y, {"alloc", "output"})
    BY DEF GarbageIsExplained
  <2>1. root[o] \in Rank
    BY DEF Returned, Inv, Ind, TypeOK
  <2> QED BY <2>1 DEF Inv, AllSound, Sound, Decoded
<1> QED BY <1>1, <1>2, SoundInvariant, PTL DEF LossIsExplained

-----------------------------------------------------------------------------
(* Silence.  Every rank above a started one has started, and a rank that   *)
(* replied without giving up has the replies of all its started children:  *)
(* without a rank that gave up, "has replied" goes down from the root to   *)
(* every started rank, which leaves no room for a silent one.              *)

\* A started rank other than the root is one its parent has sent to.
LEMMA StartedChild ==
  ASSUME Ind, NEW o \in Ops, root[o] \in Rank, NEW z \in Rank, NEW c \in Kids(o, z),
         pc[o][c] # "idle"
  PROVE  \E i \in 1 .. sent[o][z] : c = Child(o, z, i)
<1>1. c \in Rank /\ ParentOf(o, c) = z
  BY Constants, ChildIsRank DEF Kids, ParentOf, Rank
<1>2. c # root[o]
  BY Constants, ChildrenDistinct DEF Kids, Children, Rank
<1> QED BY <1>1, <1>2 DEF Ind, Asked, SentBy

\* Whoever is above a started rank has started.
LEMMA StartedAbove ==
  ASSUME Ind, NEW o \in Ops, root[o] \in Rank, NEW y \in Rank, NEW x \in Under(o, y),
         pc[o][x] # "idle"
  PROVE  pc[o][y] # "idle"
<1> DEFINE S == { z \in Rank : pc[o][z] = "idle" }
<1>1. ASSUME NEW z \in S, NEW c \in Kids(o, z) PROVE c \in S
  <2>1. c \in Rank
    BY Constants, ChildIsRank DEF Kids, Rank
  <2>2. sent[o][z] = 0
    BY DEF Ind, TypeOK, Bookkeeping
  <2> QED BY <2>1, <2>2, StartedChild
<1>2. Closed(S, N, root[o], Degree)
  BY <1>1 DEF Closed, Kids
<1>3. y \in S => x \in S
  BY <1>2 DEF Under, Below, Rank
<1> QED BY <1>3

(***************************************************************************)
(* For any number of servers, a call one of whose servers never replied    *)
(* returns only when a rank above that server gave up waiting              *)
(* (SilenceHangsTheCall).                                                  *)
(***************************************************************************)
THEOREM SilenceHangs == Spec => []SilenceHangsTheCall
<1>1. Inv => SilenceHangsTheCall
  <2> SUFFICES ASSUME Inv, NEW o \in Ops, NEW x \in Rank, Returned(o), pc[o][x] = "silent",
                      \A y \in ProperAncestors(x, root[o]) :
                         ~ FaultAt(o, y, {"forward", "wait"})
               PROVE  FALSE
    BY DEF SilenceHangsTheCall
  <2> DEFINE T == { z \in Rank : x \in Under(o, z) => pc[o][z] \in {"replied", "returned"} }
  <2>1. Ind /\ TypeOK /\ root[o] \in Rank /\ pc[o][root[o]] = "returned"
    BY DEF Returned, Inv, Ind, TypeOK
  <2>2. ASSUME NEW z \in T, NEW c \in Kids(o, z), x \in Under(o, c)
        PROVE  pc[o][c] = "replied"
    <3>1. x \in Under(o, z) /\ z # x
      BY <2>1, <2>2, Constants, BelowChild DEF Under, Kids, Rank
    <3>2. ~ FaultAt(o, z, {"forward", "wait"})
      BY <2>1, <3>1, AboveUnder
    <3>3. got[o][z] = sent[o][z] /\ \A i \in 1 .. got[o][z] : pc[o][Child(o, z, i)] = "replied"
      BY <3>1, <3>2 DEF Inv, AllSound, Sound, Waited, Finished
    <3>4. c \in Rank
      BY <2>1, Constants, ChildIsRank DEF Kids, Rank
    <3>5. pc[o][c] # "idle"
      BY <2>1, <2>2, <3>4, StartedAbove
    <3> QED BY <2>1, <3>3, <3>5, StartedChild
  <2>3. \A z \in T : Kids(o, z) \subseteq T
    <3>1. \A z \in Rank : Kids(o, z) \subseteq Rank
      BY <2>1, Constants, ChildIsRank DEF Kids, Rank
    <3> QED BY <2>2, <3>1
  <2>4. root[o] \in T
    BY <2>1
  <2>5. T = Rank
    <3> HIDE DEF T
    <3>1. T \in SUBSET Ranks(N)
      BY DEF T, Rank
    <3> QED BY <2>1, <2>3, <2>4, <3>1, Constants, Coverage DEF Kids, Rank
  <2>6. x \in Under(o, x)
    BY BelowSelf DEF Under, Rank
  <2> QED BY <2>5, <2>6
<1> QED BY <1>1, SoundInvariant, PTL
-----------------------------------------------------------------------------
(* Refinement: the answers change only when the caller's own ULT returns,  *)
(* and then become one of those SumService allows.                         *)

\* No call has more failures than the bound allows; with a bound of 0, none.
FaultsBounded == \A o \in Ops : MaxFaults = 0 => faults[o] = {}

\* What AnswerTo is, case by case.
LEMMA AnswerCases ==
  ASSUME NEW o \in Ops
  PROVE  /\ ~ Returned(o) => AnswerTo(o) = [kind |-> "none"]
         /\ Returned(o) /\ ret[o][root[o]] = "error" => AnswerTo(o) = [kind |-> "failure"]
         /\ Returned(o) /\ ret[o][root[o]] # "error" /\ garbage[o][root[o]]
              => AnswerTo(o) = [kind |-> "garbage"]
         /\ Returned(o) /\ ret[o][root[o]] # "error" /\ ~ garbage[o][root[o]]
              => AnswerTo(o) = [kind |-> "sum", of |-> sum[o][root[o]]]
BY DEF AnswerTo

AnswersAllowed ==
    \A o \in Ops : Returned(o) => AnswerTo(o) \in Service!Answers(root[o])

\* A returned call has one of the answers of SumService.
LEMMA AnswerAllowed == Inv /\ FaultsBounded => AnswersAllowed
<1> SUFFICES ASSUME Inv, FaultsBounded, NEW o \in Ops, Returned(o)
             PROVE  AnswerTo(o) \in Service!Answers(root[o])
  BY DEF AnswersAllowed
<1> DEFINE rt == root[o]
           S == { x \in Rank : sum[o][rt][x] = 1 }
<1>1. rt \in Rank /\ pc[o][rt] = "returned" /\ TypeOK
  BY DEF Returned, Inv, Ind, TypeOK
<1>2. \A x \in Rank : sum[o][rt][x] \in Nat /\ sum[o][rt][x] <= 1
  BY <1>1 DEF TypeOK, Inv, Sums, SumOf, NobodyElse
<1>3. sum[o][rt] = [x \in Rank |-> IF x \in S THEN 1 ELSE 0]
  <2>1. \A x \in Rank : sum[o][rt][x] = IF x \in S THEN 1 ELSE 0
    BY <1>2
  <2>2. sum[o][rt] \in [Rank -> Nat]
    BY <1>1 DEF TypeOK
  <2> HIDE DEF S
  <2> QED BY <2>1, <2>2
<1>4. [kind |-> "sum", of |-> sum[o][rt]] = Service!Counted(S)
  BY <1>3 DEF Service!Counted, Service!Ranks, Ranks, Rank
<1>5. CASE MaxFaults = 0
  <2>1. faults[o] = {}
    BY <1>5 DEF FaultsBounded
  <2>2. Everybody(o, rt) /\ Due(o, rt) = Rank
    BY <1>1, <2>1, Constants, BelowRoot DEF Inv, Sums, SumOf, Due, Under, Rank
  <2>3. S = Rank
    BY <2>2 DEF Everybody
  <2>4. AnswerTo(o) = [kind |-> "sum", of |-> sum[o][rt]]
    BY <2>2, AnswerCases DEF Everybody
  <2> QED BY <1>4, <1>5, <2>3, <2>4 DEF Service!Answers, Service!Complete, Service!Ranks, Ranks, Rank
<1>6. CASE MaxFaults # 0
  <2>1. CASE ret[o][rt] = "error"
    BY <1>6, <2>1, AnswerCases DEF Service!Answers, Service!Failure
  <2>2. CASE ret[o][rt] # "error" /\ garbage[o][rt]
    BY <1>6, <2>2, AnswerCases DEF Service!Answers, Service!Garbage
  <2>3. CASE ret[o][rt] # "error" /\ ~ garbage[o][rt]
    <3>1. sum[o][rt][rt] = 1
      BY <1>1, <2>3 DEF TypeOK, Inv, AllSound, Sound, AddedItself, Finished
    <3>2. S \in { X \in SUBSET Ranks(N) : rt \in X }
      BY <1>1, <3>1 DEF Rank
    <3>3. AnswerTo(o) = Service!Counted(S)
      BY <1>4, <2>3, AnswerCases
    <3> HIDE DEF S
    <3> QED BY <1>6, <3>2, <3>3 DEF Service!Answers, Service!Ranks, Ranks
  <2> QED BY <2>1, <2>2, <2>3
<1> QED BY <1>5, <1>6

\* The failures of a call stay within the bound.
LEMMA FaultsBoundedStep == TypeOK /\ FaultsBounded /\ [Next]_vars => FaultsBounded'
<1> SUFFICES ASSUME TypeOK, FaultsBounded, [Next]_vars, MaxFaults = 0 PROVE faults' = faults
  BY DEF FaultsBounded
<1>1. ASSUME NEW o \in Ops, NEW r \in Rank, NEW kind PROVE ~ Fault(o, r, kind)
  <2>1. faults[o] = {}
    BY DEF FaultsBounded
  <2>2. ~ Cardinality(faults[o]) < MaxFaults
    BY <2>1, FS_EmptySet
  <2> QED BY <2>2 DEF Fault
<1> QED
  BY <1>1 DEF Next, Run, Fail, vars, InvokeSum, HandleSum, GetInputFails, TreeInitFails,
     AllocFails, ForwardRequest, Block, Collect, Add, GetOutputFails, Finish, ForwardFails,
     WaitFails, Respond, RespondFails, Return

\* An answer depends on the caller's own ULT only.
LEMMA AnswerKept ==
  ASSUME NEW p \in Ops, Returned(p)' <=> Returned(p),
         Returned(p) => /\ root'[p] = root[p]
                        /\ ret'[p][root[p]] = ret[p][root[p]]
                        /\ garbage'[p][root[p]] = garbage[p][root[p]]
                        /\ sum'[p][root[p]] = sum[p][root[p]]
  PROVE  AnswerTo(p)' = AnswerTo(p)
BY DEF AnswerTo

\* A call is made.
LEMMA CallStep ==
  ASSUME Inv, NEW o \in Ops, NEW r \in Rank, InvokeSum(o, r)
  PROVE  Service!Call(o, r)
<1>0. TypeOK /\ Bookkeeping
  BY DEF Inv, Ind
<1>1. /\ root[o] = NoRank /\ root' = [root EXCEPT ![o] = r]
      /\ pc' = [pc EXCEPT ![o][r] = "running"]
      /\ UNCHANGED <<ret, garbage, sum>>
  BY DEF InvokeSum, Goto
<1>2. ASSUME NEW p \in Ops PROVE AnswerTo(p)' = AnswerTo(p)
  <2>1. CASE p = o
    <3>1. ~ Returned(p) /\ ~ Returned(p)'
      BY <1>0, <1>1, <2>1 DEF Returned, TypeOK
    <3> QED BY <3>1, AnswerKept
  <2>2. CASE p # o
    <3>1. root'[p] = root[p] /\ pc'[p] = pc[p]
      BY <1>0, <1>1, <2>2 DEF TypeOK
    <3>2. Returned(p)' <=> Returned(p)
      BY <3>1 DEF Returned
    <3> QED BY <1>1, <3>1, <3>2, AnswerKept
  <2> QED BY <2>1, <2>2
<1> QED BY <1>1, <1>2 DEF Service!Call, Service!NoRank, NoRank

\* A step of a ULT answers its call, or changes nothing the caller sees.
LEMMA UltStep ==
  ASSUME Inv, AnswersAllowed', NEW o \in Ops, NEW r \in Rank, StepBy(o, r),
         ~ InvokeSum(o, r)
  PROVE  Service!Answer(o) \/ UNCHANGED Service!vars
<1>0. TypeOK /\ Bookkeeping
  BY DEF Inv, Ind
<1>1. OthersKept(o, r)
  BY OthersStep DEF Inv
<1>2. root' = root
  BY DEF StepBy, Run, Fail, HandleSum, GetInputFails, TreeInitFails, Receive,
     AllocFails, ForwardRequest, Block, Collect, Add, AddOwn, GetOutputFails, Finish,
     ForwardFails, WaitFails, Respond, RespondFails, Return
<1>3. \A p \in Ops : Returned(p) => root[p] \in Rank
  BY <1>0 DEF Returned, TypeOK
<1>4. ASSUME NEW p \in Ops, p # o \/ r # root[o]
      PROVE  AnswerTo(p)' = AnswerTo(p)
  <2>1. CASE root[p] = NoRank
    BY <1>2, <2>1, AnswerKept DEF Returned
  <2>2. CASE root[p] \in Rank
    <3>1. p # o \/ root[p] # r
      BY <1>4
    <3>2. Returned(p)' <=> Returned(p)
      BY <1>1, <1>2, <2>2, <3>1 DEF OthersKept, Returned
    <3> QED BY <1>1, <1>2, <2>2, <3>1, <3>2, AnswerKept DEF OthersKept
  <2> QED BY <1>0, <2>1, <2>2 DEF TypeOK
<1>5. root[o] = r => ~ Returned(o)
  BY <1>1 DEF OthersKept, Returned
<1>6. CASE root[o] = r /\ Returned(o)'
  <2>1. AnswerTo(o) = Service!NoAnswer
    BY <1>5, <1>6, AnswerCases DEF Service!NoAnswer
  <2>2. AnswerTo(o)' \in Service!Answers(root[o])
    BY <1>2, <1>6 DEF AnswersAllowed, Service!Answers
  <2>3. \A p \in Ops : p # o => AnswerTo(p)' = AnswerTo(p)
    BY <1>4
  <2>4. [p \in Ops |-> AnswerTo(p)]' = [[p \in Ops |-> AnswerTo(p)] EXCEPT ![o] = AnswerTo(o)']
    BY <2>3
  <2>5. root[o] # Service!NoRank
    BY <1>6, Constants DEF Service!NoRank, NoRank
  <2>6. Service!Answer(o)
    BY <1>2, <2>1, <2>2, <2>4, <2>5 DEF Service!Answer
  <2> QED BY <2>6
<1>7. CASE ~ (root[o] = r /\ Returned(o)')
  <2>1. \A p \in Ops : AnswerTo(p)' = AnswerTo(p)
    <3>1. root[o] = r => AnswerTo(o)' = AnswerTo(o)
      BY <1>5, <1>7, AnswerKept
    <3> QED BY <1>4, <3>1
  <2> QED BY <1>2, <2>1 DEF Service!vars
<1> QED BY <1>6, <1>7

(***************************************************************************)
(* For any number of servers and calls, the tree of servers implements     *)
(* what SumService promises: each call is answered once, without failures  *)
(* by the sum over all servers, and with them by an error, an undefined    *)
(* value or a sum that holds the caller and no server twice                *)
(* (ServiceSafeSpec).                                                      *)
(***************************************************************************)
THEOREM ServiceImplemented == Spec => ServiceSafeSpec
<1>1. Init => Service!Init
  <2> SUFFICES ASSUME Init PROVE Service!Init
    OBVIOUS
  <2>1. \A o \in Ops : AnswerTo(o) = [kind |-> "none"]
    BY AnswerCases DEF Init, Returned
  <2> QED BY <2>1 DEF Init, Service!Init, Service!NoRank, NoRank, Service!NoAnswer
<1>2. Inv /\ AnswersAllowed' /\ [Next]_vars => [Service!Next]_(Service!vars)
  <2> SUFFICES ASSUME Inv, AnswersAllowed', [Next]_vars
               PROVE  [Service!Next]_(Service!vars)
    OBVIOUS
  <2>1. ASSUME NEW o \in Ops, NEW r \in Rank, StepBy(o, r)
        PROVE  [Service!Next]_(Service!vars)
    <3>1. CASE InvokeSum(o, r)
      BY <3>1, CallStep DEF Service!Next, Rank, Service!Ranks, Ranks
    <3>2. CASE ~ InvokeSum(o, r)
      BY <2>1, <3>2, UltStep DEF Service!Next
    <3> QED BY <3>1, <3>2
  <2>2. CASE UNCHANGED vars
    <3>1. \A p \in Ops : AnswerTo(p)' = AnswerTo(p)
      BY <2>2, AnswerKept DEF vars, ult, Returned
    <3> QED BY <2>2, <3>1 DEF vars, Service!vars
  <2> QED BY <2>1, <2>2 DEF Next, StepBy
<1>3. Spec => [](Inv /\ AnswersAllowed)
  <2>1. Init => FaultsBounded
    BY DEF Init, FaultsBounded
  <2>2. Inv => TypeOK
    BY DEF Inv, Ind
  <2> QED BY <2>1, <2>2, FaultsBoundedStep, AnswerAllowed, SoundInvariant, PTL DEF Spec
<1> QED BY <1>1, <1>2, <1>3, PTL DEF Spec, ServiceSafeSpec, Service!SafeSpec
=============================================================================
