--------------------------- MODULE FilesizeProofs ---------------------------
(***************************************************************************)
(* Proofs about Filesize: for any number of ranks, of reductions and of    *)
(* execution streams, with acknowledgements and without, a reduction is    *)
(* right unless a race of its handlers went wrong.  What `races' says of a *)
(* race is all that is assumed of the order of loads, stores and checks:   *)
(* num_responses may lose increments, and never counts too many; and       *)
(* unless two handlers conclude one reduction, the one that does is the    *)
(* last of its rank, which the rest follows from.                          *)
(***************************************************************************)
EXTENDS Filesize, RpcTreeProofs, FiniteSetTheorems

Req(o, r) == <<"req", o, r>>
Rsp(o, r) == <<"rsp", o, r>>

Server     == Present \ {Root}      \* the ranks that are sent requests
Kids(r)    == Children(r, glb_ranks, Root, Degree)
Subtree(r) == Below(r, glb_ranks, Root, Degree)

Waiting    == {"none", "sent", "acked"}     \* has not looked at glb_st
Compared   == {"load", "store", "check", "send", "waitrsp", "lock", "done"}
Concluding == {"send", "waitrsp", "lock"}
Settled    == {"waitrsp", "done"}

\* Rank r has the structure of round o, and its request i is out.
Allocated(o, r) == IF r = Root THEN o <= round ELSE pc[Req(o, r)] \notin Waiting

SentTo(o, r, i) == IF r = Root THEN o = round => i <= mnext ELSE i <= next[Req(o, r)]

\* The structure of rank r has done its service.
AllDone(o, r) ==
    IF Count(r) = 0 THEN pc[Req(o, r)] = "done"
                    ELSE \A c \in Kids(r) : pc[Rsp(o, c)] = "done"
-----------------------------------------------------------------------------
(* The inductive invariant.                                                *)

Placed == \A u \in Ult : pc[u] # "none" => u[3] \in Present

\* ULTs by their kind, and the structure each of them works on.
Stages ==
    /\ Placed
    /\ \A o \in Round, r \in Server :
         LET u == Req(o, r)
         IN  /\ pc[u] \in Waiting \cup {"forward", "waitack", "send"} \cup Settled
             /\ pc[u] \in Waiting => next[u] = 0
             /\ pc[u] \notin Waiting => st[u] = o
             /\ pc[u] \in {"send", "waitrsp"} => Count(r) = 0
             /\ next[u] <= Count(r)
    /\ \A o \in Round, r \in Server :
         LET u == Rsp(o, r)
         IN  /\ pc[u] \in Waiting \cup {"setmax"} \cup Compared
             /\ pc[u] \notin Waiting => st[u] = o
             /\ pc[u] \in {"send", "waitrsp"} => Parent(r) # Root
             /\ pc[u] = "lock" => Parent(r) = Root

\* A request comes from the loop of the parent.
Requested ==
    \A o \in Round, r \in Present : \A i \in 1 .. Count(r) :
        pc[Req(o, Child(r, i))] # "none" => Allocated(o, r) /\ SentTo(o, r, i)

\* A response comes from a rank that needs no other response.
Answered ==
    \A o \in Round, r \in Server :
        pc[Rsp(o, r)] # "none" =>
            /\ Allocated(o, r)
            /\ Count(r) = 0 => pc[Req(o, r)] \in Settled
            /\ \A c \in Kids(r) : pc[Rsp(o, c)] \in Settled

\* The handler that concludes is the last one.
LastConcludes ==
    \A o \in Round, r \in Present : \A c, d \in Kids(r) :
        pc[Rsp(o, c)] \in Concluding /\ d # c => pc[Rsp(o, d)] = "done"

Counted(o, r) == { c \in Kids(r) : HasCounted(Rsp(o, c)) }

\* No response is counted twice, though some may not be counted.
Counting ==
    /\ \A o \in Round, r \in Present : num_responses[o][r] <= Cardinality(Counted(o, r))
    /\ \A o \in Round, c \in Server :
         pc[Rsp(o, c)] = "store" => tmp[Rsp(o, c)] <= Cardinality(Counted(o, Parent(c)))

\* A size that is at least those of the subtree at r.
Covers(size, r) == \A x \in Subtree(r) : x <= size

\* Every size of round o has come up from the ranks that have concluded.
Covered(o) ==
    /\ \A r \in Present : \A c \in Kids(r) :
         LET u == Rsp(o, c)
         IN  /\ pc[u] # "none" => Covers(value[u], c)
             /\ pc[u] \in Compared => value[u] <= filesize[o][r]
             /\ pc[u] \in {"send", "lock"} => Covers(filesize[o][r], r)
    /\ \A r \in Server : pc[Req(o, r)] = "send" => Covers(filesize[o][r], r)
    /\ o = round /\ main = "woken" => Covers(filesize[o][Root], Root)

Sizes ==
    /\ \A o \in Round, r \in Present : filesize[o][r] \in Present
    /\ \A o \in Round, c \in Server : pc[Rsp(o, c)] # "none" => value[Rsp(o, c)] \in Present
    /\ \A o \in Round : <<"max", o>> \notin races => Covered(o)

\* Structures that are in use.
Living ==
    /\ \A o \in Round, r \in Server :
         Allocated(o, r) /\ ~ AllDone(o, r) => alive[o][r] = "live"
    /\ main # "idle" => alive[round][Root] = "live"

Pointing ==
    /\ \A r \in Server : round \in Round /\ Allocated(round, r) => glb_st[r] = round
    /\ main # "idle" => glb_st[Root] = round

\* The main thread of rank 0 goes on when all the responses are handled.
Turns ==
    /\ round \in 0 .. times /\ mnext <= Count(Root)
    /\ main # "idle" => round \in Round
    /\ \A o \in Round : o < round \/ (o = round /\ main \in {"idle", "woken"}) =>
         \A c \in Kids(Root) : pc[Rsp(o, c)] = "done"

Phases ==
    /\ round > 0 => \A r \in Present : phase[r] \in {"connected", "finalized"}
    /\ \A r \in Present : phase[r] = "finalized" => ReductionsOver

Inv ==
    /\ Types /\ Stages /\ Requested /\ Answered /\ LastConcludes
    /\ Counting /\ Sizes /\ Living /\ Pointing /\ Turns /\ Phases

IInv == Types /\ Placed /\ (ConcludedTwice \/ Inv)
-----------------------------------------------------------------------------
(* The tree of a run.                                                      *)

LEMMA Sized ==
  ASSUME Types
  PROVE  /\ glb_ranks \in 2 .. MaxRanks /\ glb_ranks \in Nat \ {0}
         /\ reply \in BOOLEAN /\ times \in 0 .. Rounds
         /\ MaxRanks \in Nat /\ Rounds \in Nat
         /\ Degree \in Nat \ {0} /\ Degree = 2 /\ Root = 0
         /\ Present = Ranks(glb_ranks) /\ Root \in Present
         /\ Present \in SUBSET Rank /\ Present \in SUBSET Nat
<1>1. /\ glb_ranks \in 2 .. MaxRanks /\ reply \in BOOLEAN /\ times \in 0 .. Rounds
      /\ MaxRanks \in Nat /\ Rounds \in Nat
  BY FilesizeAssumption DEF Types
<1>2. glb_ranks \in Nat \ {0} /\ 0 \in 0 .. glb_ranks - 1
  BY <1>1
<1> QED BY <1>1, <1>2 DEF Degree, Root, Present, Ranks, Rank

\* The fields of a tree_t.
LEMMA TreeFields ==
  ASSUME Types, NEW r \in Present
  PROVE  /\ Count(r) = ChildCount(r, glb_ranks, Root, Degree)
         /\ Parent(r) = ParentRank(r, glb_ranks, Root, Degree)
         /\ \A i \in 1 .. Count(r) : Child(r, i) = ChildRank(r, glb_ranks, Root, Degree, i)
<1>1. glb_ranks \in 2 .. MaxRanks /\ r \in Ranks(glb_ranks)
  BY Sized DEF Present
<1> QED BY <1>1 DEF Count, Parent, Child, Tree

LEMMA CountType ==
  ASSUME Types, NEW r \in Present
  PROVE  Count(r) \in 0 .. Degree
<1>1. /\ glb_ranks \in Nat \ {0} /\ Degree \in Nat \ {0} /\ Degree = 2
      /\ Root \in Ranks(glb_ranks) /\ r \in Ranks(glb_ranks)
  BY Sized
<1>2. Position(r, glb_ranks, Root) \in Ranks(glb_ranks)
  BY <1>1, RankAtInRanks
<1>3. PositionChildCount(Position(r, glb_ranks, Root), glb_ranks, Degree) \in 0 .. Degree
  <2> DEFINE p == Position(r, glb_ranks, Root)
  <2>1. p \in Nat
    BY <1>1, <1>2 DEF Ranks
  <2> HIDE DEF p
  <2>2. PositionChildCount(p, glb_ranks, 2) \in 0 .. 2
    BY <1>1, <2>1 DEF PositionChildCount, LeftPosition, RightPosition
  <2> QED BY <1>1, <2>2 DEF p
<1> QED BY <1>3, TreeFields DEF ChildCount

LEMMA ChildOf ==
  ASSUME Types, NEW r \in Present, NEW i \in 1 .. Count(r)
  PROVE  /\ Child(r, i) \in Kids(r)
         /\ Child(r, i) \in Server
         /\ Parent(Child(r, i)) = r
         /\ \A j \in 1 .. Count(r) : Child(r, i) = Child(r, j) => i = j
<1>1. /\ glb_ranks \in Nat \ {0} /\ Degree \in Nat \ {0} /\ Present = Ranks(glb_ranks)
      /\ Root \in Ranks(glb_ranks) /\ r \in Ranks(glb_ranks)
  BY Sized
<1>2. /\ Count(r) = ChildCount(r, glb_ranks, Root, Degree)
      /\ \A j \in 1 .. Count(r) : Child(r, j) = ChildRank(r, glb_ranks, Root, Degree, j)
  BY TreeFields
<1>3. /\ Child(r, i) \in Ranks(glb_ranks) /\ Child(r, i) # Root
      /\ ParentRank(Child(r, i), glb_ranks, Root, Degree) = r
      /\ \A j \in 1 .. Count(r) : Child(r, i) = Child(r, j) => i = j
  BY <1>1, <1>2, ChildKnowsParent, ChildrenDistinct
<1>4. Parent(Child(r, i)) = ParentRank(Child(r, i), glb_ranks, Root, Degree)
  BY <1>1, <1>3, TreeFields
<1> QED BY <1>1, <1>2, <1>3, <1>4 DEF Kids, Children, Server

LEMMA KidOf ==
  ASSUME Types, NEW r \in Present, NEW c \in Kids(r)
  PROVE  /\ c \in Server /\ c \in Present
         /\ Parent(c) = r
         /\ Count(r) > 0
         /\ \E i \in 1 .. Count(r) : c = Child(r, i)
<1>1. Count(r) = ChildCount(r, glb_ranks, Root, Degree)
  BY TreeFields
<1>2. PICK i \in 1 .. Count(r) : c = Child(r, i)
  BY <1>1, TreeFields DEF Kids, Children
<1>3. Count(r) > 0
  BY <1>2, CountType, Sized
<1> QED BY <1>2, <1>3, ChildOf DEF Server

LEMMA ParentOf ==
  ASSUME Types, NEW c \in Server
  PROVE  Parent(c) \in Present /\ c \in Kids(Parent(c)) /\ c \in Rank \ {Root}
<1>1. /\ glb_ranks \in Nat \ {0} /\ Degree \in Nat \ {0} /\ Present = Ranks(glb_ranks)
      /\ Root \in Ranks(glb_ranks) /\ c \in Ranks(glb_ranks) /\ c # Root
      /\ c \in Rank
  BY Sized DEF Server
<1>2. Parent(c) = ParentRank(c, glb_ranks, Root, Degree)
  BY <1>1, TreeFields
<1> QED BY <1>1, <1>2, ParentListsChild DEF Kids, Children

LEMMA KidsFinite ==
  ASSUME Types, NEW r \in Present
  PROVE  IsFiniteSet(Kids(r)) /\ Cardinality(Kids(r)) = Count(r)
<1> DEFINE f == [i \in 1 .. Count(r) |-> Child(r, i)]
<1>1. Count(r) \in Nat
  BY CountType, Sized
<1>2. IsFiniteSet(1 .. Count(r)) /\ Cardinality(1 .. Count(r)) = Count(r)
  BY <1>1, FS_Interval
<1>3. f \in Bijection(1 .. Count(r), Kids(r))
  <2>1. f \in [1 .. Count(r) -> Kids(r)]
    BY ChildOf
  <2>2. \A i, j \in 1 .. Count(r) : f[i] = f[j] => i = j
    BY ChildOf
  <2>3. \A c \in Kids(r) : \E i \in 1 .. Count(r) : f[i] = c
    BY KidOf
  <2> HIDE DEF f
  <2> QED BY <2>1, <2>2, <2>3 DEF Bijection, Injection, Surjection, IsInjective
<1> QED BY <1>2, <1>3, FS_Bijection DEF ExistsBijection

LEMMA Leaf ==
  ASSUME Types, NEW r \in Present
  PROVE  Count(r) = 0 <=> Kids(r) = {}
<1>1. IsFiniteSet(Kids(r)) /\ Cardinality(Kids(r)) = Count(r)
  BY KidsFinite
<1> QED BY <1>1, FS_EmptySet

\* A subtree is its top and those of the children; the root's is everybody.
LEMMA SubtreeOf ==
  ASSUME Types, NEW r \in Present
  PROVE  /\ Subtree(r) \in SUBSET Present
         /\ \A x \in Subtree(r) : x = r \/ \E c \in Kids(r) : x \in Subtree(c)
         /\ Subtree(Root) = Present
<1>1. /\ glb_ranks \in Nat \ {0} /\ Degree \in Nat \ {0} /\ Present = Ranks(glb_ranks)
      /\ Root \in Ranks(glb_ranks) /\ r \in Ranks(glb_ranks)
  BY Sized
<1> QED BY <1>1, BelowClosed, BelowIsChildren, BelowRoot DEF Subtree, Kids

\* What holds at the root, and at the children of a rank where it holds, holds
\* everywhere.
LEMMA Everywhere ==
  ASSUME Types, NEW S \in SUBSET Present, Root \in S, \A r \in S : Kids(r) \subseteq S
  PROVE  S = Present
<1>1. /\ glb_ranks \in Nat \ {0} /\ Degree \in Nat \ {0} /\ Present = Ranks(glb_ranks)
      /\ Root \in Ranks(glb_ranks)
  BY Sized
<1> QED BY <1>1, Coverage DEF Kids

\* ULTs by kind, round and rank.
LEMMA Ults ==
  /\ \A o \in Round, r \in Rank \ {Root} : Req(o, r) \in Ult /\ Rsp(o, r) \in Ult
  /\ \A u \in Ult : /\ u[2] \in Round /\ u[3] \in Rank \ {Root}
                    /\ \/ u[1] = "req" /\ u = Req(u[2], u[3])
                       \/ u[1] = "rsp" /\ u = Rsp(u[2], u[3])
  /\ \A o, r : /\ Req(o, r)[1] = "req" /\ Req(o, r)[2] = o /\ Req(o, r)[3] = r
               /\ Rsp(o, r)[1] = "rsp" /\ Rsp(o, r)[2] = o /\ Rsp(o, r)[3] = r
  /\ \A o, r, p, q : /\ Req(o, r) # Rsp(p, q)
                     /\ Req(o, r) = Req(p, q) => o = p /\ r = q
                     /\ Rsp(o, r) = Rsp(p, q) => o = p /\ r = q
<1>1. \A o \in Round, r \in Rank \ {Root} : Req(o, r) \in Ult /\ Rsp(o, r) \in Ult
  BY DEF Ult, Req, Rsp
<1>2. \A u \in Ult : /\ u[2] \in Round /\ u[3] \in Rank \ {Root}
                     /\ \/ u[1] = "req" /\ u = Req(u[2], u[3])
                        \/ u[1] = "rsp" /\ u = Rsp(u[2], u[3])
  BY DEF Ult, Req, Rsp
<1>3. \A o, r : /\ Req(o, r)[1] = "req" /\ Req(o, r)[2] = o /\ Req(o, r)[3] = r
                /\ Rsp(o, r)[1] = "rsp" /\ Rsp(o, r)[2] = o /\ Rsp(o, r)[3] = r
  BY DEF Req, Rsp
<1>4. \A o, r, p, q : /\ Req(o, r) # Rsp(p, q)
                      /\ Req(o, r) = Req(p, q) => o = p /\ r = q
                      /\ Rsp(o, r) = Rsp(p, q) => o = p /\ r = q
  BY DEF Req, Rsp
<1> QED BY <1>1, <1>2, <1>3, <1>4

LEMMA Homes ==
  /\ \A o, r : Home(Req(o, r)) = r /\ Home(Rsp(o, r)) = Parent(r)
BY Ults DEF Home

-----------------------------------------------------------------------------
(* Where ULTs come from, and where each step takes its own.                *)

Arcs(u) ==
    \/ Start(u) /\ reply /\ pc[u] = "sent" /\ pc'[u] = "acked"
    \/ AllocState(u) /\ u[1] = "req" /\ pc[u] \in {"sent", "acked"} /\ pc'[u] = "forward"
         
    \/ ForwardRequest(u) /\ pc[u] = "forward" /\ pc'[u] = "waitack"
    \/ RequestAcked(u) /\ pc[u] = "waitack" /\ pc'[u] = "forward" 
    \/ LeafConcludes(u) /\ pc[u] = "forward" /\ pc'[u] = IF Home(u) = Root THEN "lock" ELSE "send"
    \/ Forwarded(u) /\ pc[u] = "forward" /\ pc'[u] = "done"
    \/ LookUp(u) /\ u[1] = "rsp" /\ pc[u] \in {"sent", "acked"} 
         /\ pc'[u] = IF value[u] > filesize[st'[u]][Home(u)] THEN "setmax" ELSE "load"
    \/ SetMax(u) /\ pc[u] = "setmax" /\ pc'[u] = "load"
    \/ Load(u) /\ pc[u] = "load" /\ pc'[u] = "store"
    \/ Store(u) /\ pc[u] = "store" /\ pc'[u] = "check"
    \/ CheckComplete(u) /\ pc[u] = "check" /\ pc'[u] = IF Home(u) = Root THEN "lock" ELSE "send"
    \/ CheckIncomplete(u) /\ pc[u] = "check" /\ pc'[u] = "done"
    \/ SendResponse(u) /\ pc[u] = "send" /\ pc'[u] = "waitrsp"
    \/ FreeState(u) /\ pc[u] = "waitrsp" /\ pc'[u] = "done"
    \/ Signal(u) /\ pc[u] = "lock" /\ pc'[u] = "done"

Birth(v) ==
    /\ pc'[v] = "sent"
    /\ \/ MainForward /\ v = Req(round, Child(Root, mnext + 1))
       \/ \E u \in Ult : ForwardRequest(u) /\ pc[u] = "forward" /\ v = Req(u[2], Child(u[3], next[u] + 1))
       \/ \E u \in Ult : SendResponse(u) /\ pc[u] = "send" /\ v = Rsp(st[u], Home(u))

LEMMA Handling ==
  ASSUME Types, NEW u \in Ult, Handle(u)
  PROVE  Arcs(u) /\ \A v \in Ult : v # u /\ pc'[v] # pc[v] => Birth(v)
<1>1. pc \in [Ult -> Labels]
  BY DEF Types
<1>2. ASSUME NEW from, NEW to, Step(u, from, to)
      PROVE  pc[u] = from /\ pc'[u] = to /\ \A v \in Ult : v # u => pc'[v] = pc[v]
  BY <1>1, <1>2 DEF Step
<1>3. CASE Start(u)
  BY <1>2, <1>3 DEF Start, Wake, Arcs
<1>4. CASE AllocState(u)
  BY <1>1, <1>4 DEF AllocState, Ready, Arcs
<1>5. CASE ForwardRequest(u)
  <2>1. /\ pc[u] = "forward" /\ pc'[u] = "waitack"
        /\ \A v \in Ult : v # u => pc'[v] = pc[v]
                             \/ (v = Req(u[2], Child(u[3], next[u] + 1)) /\ pc'[v] = "sent")
    BY <1>1, <1>5 DEF ForwardRequest, Req
  <2> QED BY <1>5, <2>1 DEF Arcs, Birth
<1>6. CASE RequestAcked(u)
  BY <1>2, <1>6 DEF RequestAcked, Wake, Arcs
<1>7. CASE LeafConcludes(u)
  BY <1>1, <1>7 DEF LeafConcludes, Conclude, Arcs
<1>8. CASE Forwarded(u)
  BY <1>2, <1>8 DEF Forwarded, Arcs
<1>9. CASE LookUp(u)
  BY <1>1, <1>9 DEF LookUp, Ready, Arcs
<1>10. CASE SetMax(u)
  BY <1>2, <1>10 DEF SetMax, Arcs
<1>11. CASE Load(u)
  BY <1>2, <1>11 DEF Load, Arcs
<1>12. CASE Store(u)
  BY <1>2, <1>12 DEF Store, Arcs
<1>13. CASE CheckComplete(u)
  BY <1>1, <1>13 DEF CheckComplete, Conclude, Arcs
<1>14. CASE CheckIncomplete(u)
  BY <1>2, <1>14 DEF CheckIncomplete, Arcs
<1>15. CASE SendResponse(u)
  <2>1. /\ pc[u] = "send" /\ pc'[u] = "waitrsp"
        /\ \A v \in Ult : v # u => pc'[v] = pc[v]
                             \/ (v = Rsp(st[u], Home(u)) /\ pc'[v] = "sent")
    BY <1>1, <1>15 DEF SendResponse, Rsp
  <2> QED BY <1>15, <2>1 DEF Arcs, Birth
<1>16. CASE FreeState(u)
  BY <1>2, <1>16 DEF FreeState, Wake, Arcs
<1>17. CASE Signal(u)
  BY <1>2, <1>17 DEF Signal, Wake, Arcs
<1> QED
  BY <1>3, <1>4, <1>5, <1>6, <1>7, <1>8, <1>9, <1>10, <1>11, <1>12, <1>13, <1>14, <1>15,
     <1>16, <1>17 DEF Handle

\* A ULT that is anywhere else afterwards has made the step or is new.
LEMMA Changed ==
  ASSUME Types, Next, NEW v \in Ult, pc'[v] # pc[v]
  PROVE  (Handle(v) /\ Arcs(v)) \/ Birth(v)
<1>1. pc \in [Ult -> Labels]
  BY DEF Types
<1>2. CASE \E r \in Present : Program(r)
  BY <1>2 DEF Program, SetupRemoteTarget, RegisterRpcs, ConnectServers, Finalize, Others
<1>3. CASE Main
  <2>1. CASE MainForward
    BY <1>1, <2>1 DEF MainForward, Birth, Req
  <2> QED BY <1>3, <2>1 DEF Main, Begin, MainAcked, MainWait, MainTakesResult
<1>4. CASE \E u \in Ult : Handle(u)
  BY <1>4, Handling
<1> QED BY <1>2, <1>3, <1>4 DEF Next, Active

\* A new ULT was not there before, and who makes it is known.
LEMMA Born ==
  ASSUME Types, Stages, Requested, Turns, NEW v \in Ult, Birth(v)
  PROVE  /\ pc[v] = "none" /\ v[3] \in Server
         /\ v[1] = "req" =>
              \E i \in 1 .. Count(Parent(v[3])) :
                 /\ v[3] = Child(Parent(v[3]), i)
                 /\ \/ /\ MainForward /\ Parent(v[3]) = Root /\ v[2] = round /\ i = mnext + 1
                    \/ /\ Parent(v[3]) \in Server
                       /\ ForwardRequest(Req(v[2], Parent(v[3])))
                       /\ pc[Req(v[2], Parent(v[3]))] = "forward"
                       /\ i = next[Req(v[2], Parent(v[3]))] + 1
         /\ v[1] = "rsp" =>
              \/ /\ SendResponse(Req(v[2], v[3])) /\ Count(v[3]) = 0
                 /\ pc[Req(v[2], v[3])] = "send"
              \/ \E c \in Kids(v[3]) : SendResponse(Rsp(v[2], c)) /\ pc[Rsp(v[2], c)] = "send"
<1>0. /\ pc \in [Ult -> Labels] /\ next \in [Ult -> 0 .. Degree] /\ mnext \in 0 .. Degree
      /\ Degree = 2
  BY Sized DEF Types
<1>1. \A u \in Ult : pc[u] # "none" => u[2] \in Round /\ u[3] \in Server
  <2> SUFFICES ASSUME NEW u \in Ult, pc[u] # "none" PROVE u[2] \in Round /\ u[3] \in Server
    OBVIOUS
  <2>1. u[2] \in Round /\ u[3] \in Rank \ {Root}
    BY Ults
  <2>2. u[3] \in Present
    BY DEF Stages, Placed
  <2> QED BY <2>1, <2>2 DEF Server
<1>2. CASE MainForward /\ v = Req(round, Child(Root, mnext + 1))
  <2>1. mnext < Count(Root) /\ main = "forward" /\ mnext + 1 \in 1 .. Count(Root)
    BY <1>0, <1>2, CountType, Sized DEF MainForward
  <2>2. Child(Root, mnext + 1) \in Server /\ Parent(Child(Root, mnext + 1)) = Root
    BY <2>1, Sized, ChildOf
  <2>3. round \in Round
    BY <2>1 DEF Turns
  <2>4. v[1] = "req" /\ v[2] = round /\ v[3] = Child(Root, mnext + 1)
    BY <1>2, Ults
  <2>5. pc[v] = "none"
    <3>1. ~ SentTo(round, Root, mnext + 1)
      BY <1>0 DEF SentTo
    <3> QED BY <1>2, <2>1, <2>3, <3>1, Sized DEF Requested
  <2> QED BY <1>2, <2>1, <2>2, <2>4, <2>5
<1>3. ASSUME NEW u \in Ult, ForwardRequest(u), pc[u] = "forward",
             v = Req(u[2], Child(u[3], next[u] + 1))
      PROVE  /\ pc[v] = "none" /\ v[3] \in Server /\ v[1] = "req"
             /\ \E i \in 1 .. Count(Parent(v[3])) :
                   /\ v[3] = Child(Parent(v[3]), i)
                   /\ Parent(v[3]) \in Server
                   /\ ForwardRequest(Req(v[2], Parent(v[3])))
                   /\ pc[Req(v[2], Parent(v[3]))] = "forward"
                   /\ i = next[Req(v[2], Parent(v[3]))] + 1
  <2> DEFINE o == u[2]
             r == u[3]
  <2>1. o \in Round /\ r \in Server /\ r \in Present /\ r # Root
    BY <1>1, <1>3 DEF Server
  <2>2. u = Req(o, r)
    <3>1. pc[Rsp(o, r)] # "forward"
      BY <2>1 DEF Stages, Waiting, Compared
    <3> QED BY <1>3, <3>1, Ults
  <2>3. next[u] < Count(r) /\ next[u] + 1 \in 1 .. Count(r)
    BY <1>0, <1>3, <2>1, CountType DEF ForwardRequest
  <2>4. Child(r, next[u] + 1) \in Server /\ Parent(Child(r, next[u] + 1)) = r
    BY <2>1, <2>3, ChildOf
  <2>5. v[1] = "req" /\ v[2] = o /\ v[3] = Child(r, next[u] + 1)
    BY <1>3, Ults
  <2>6. pc[v] = "none"
    <3>1. ~ SentTo(o, r, next[u] + 1)
      BY <1>0, <2>1, <2>2 DEF SentTo
    <3> QED BY <1>3, <2>1, <2>3, <3>1 DEF Requested
  <2> HIDE DEF o, r
  <2>7. Parent(v[3]) = r
    BY <2>4, <2>5
  <2> QED BY <1>3, <2>1, <2>2, <2>3, <2>4, <2>5, <2>6, <2>7
<1>4. ASSUME NEW u \in Ult, SendResponse(u), pc[u] = "send", v = Rsp(st[u], Home(u))
      PROVE  /\ pc[v] = "none" /\ v[3] \in Server /\ v[1] = "rsp"
             /\ \/ /\ SendResponse(Req(v[2], v[3])) /\ Count(v[3]) = 0
                   /\ pc[Req(v[2], v[3])] = "send"
                \/ \E c \in Kids(v[3]) :
                      SendResponse(Rsp(v[2], c)) /\ pc[Rsp(v[2], c)] = "send"
  <2> DEFINE o == u[2]
             r == u[3]
  <2>1. o \in Round /\ r \in Server /\ r \in Present /\ r # Root
    BY <1>1, <1>4 DEF Server
  <2>2. pc[v] = "none"
    BY <1>4 DEF SendResponse, Rsp
  <2>3. CASE u = Req(o, r)
    <3>1. st[u] = o /\ Count(r) = 0
      BY <1>4, <2>1, <2>3 DEF Stages, Waiting
    <3>2. v[1] = "rsp" /\ v[2] = o /\ v[3] = r
      BY <1>4, <2>3, <3>1, Ults, Homes
    <3> QED BY <1>4, <2>1, <2>2, <2>3, <3>1, <3>2
  <2>4. CASE u = Rsp(o, r)
    <3>1. st[u] = o /\ Parent(r) # Root
      BY <1>4, <2>1, <2>4 DEF Stages, Waiting
    <3>2. v[1] = "rsp" /\ v[2] = o /\ v[3] = Parent(r)
      BY <1>4, <2>4, <3>1, Ults, Homes
    <3>3. Parent(r) \in Server /\ r \in Kids(Parent(r))
      BY <2>1, <3>1, ParentOf DEF Server
    <3> QED BY <1>4, <2>1, <2>2, <2>4, <3>1, <3>2, <3>3
  <2> HIDE DEF o, r
  <2> QED BY <2>3, <2>4, Ults DEF o, r
<1>5. v[1] = "req" => v[1] # "rsp"
  OBVIOUS
<1>6. CASE MainForward /\ v = Req(round, Child(Root, mnext + 1))
  BY <1>2, <1>5, <1>6
<1>7. CASE \E u \in Ult : /\ ForwardRequest(u) /\ pc[u] = "forward"
                          /\ v = Req(u[2], Child(u[3], next[u] + 1))
  BY <1>3, <1>5, <1>7
<1>8. CASE \E u \in Ult : SendResponse(u) /\ pc[u] = "send" /\ v = Rsp(st[u], Home(u))
  BY <1>4, <1>5, <1>8
<1> QED BY <1>6, <1>7, <1>8 DEF Birth

\* ULTs only go on.
LEMMA Onward ==
  ASSUME Types, Stages, Requested, Turns, Next, NEW v \in Ult
  PROVE  /\ pc[v] # "none" => pc'[v] # "none"
         /\ pc[v] \notin Waiting => pc'[v] \notin Waiting
         /\ pc[v] \in Settled => pc'[v] \in Settled
         /\ pc[v] \in Compared => pc'[v] \in Compared
         /\ pc[v] = "done" => pc'[v] = "done"
         /\ HasCounted(v) => HasCounted(v)'
<1>1. CASE pc'[v] = pc[v]
  BY <1>1 DEF HasCounted
<1>2. CASE pc'[v] # pc[v] /\ Arcs(v)
  BY <1>2 DEF Arcs, Waiting, Settled, Compared, HasCounted
<1>3. CASE Birth(v)
  BY <1>3, Born DEF Waiting, Settled, Compared, HasCounted
<1> QED BY <1>1, <1>2, <1>3, Changed

\* The counters of the loops too.
LEMMA Loops ==
  ASSUME Types, Next
  PROVE  /\ glb_ranks' = glb_ranks /\ reply' = reply /\ times' = times
         /\ \A u \in Ult : next'[u] = next[u]
                             \/ (ForwardRequest(u) /\ next'[u] = next[u] + 1)
         /\ \/ round' = round /\ mnext' = mnext
            \/ round' = round /\ MainForward /\ mnext' = mnext + 1
            \/ Begin /\ round' = round + 1 /\ mnext' = 0
<1>1. next \in [Ult -> 0 .. Degree]
  BY DEF Types
<1>2. CASE \E r \in Present : Program(r)
  BY <1>2 DEF Program, SetupRemoteTarget, RegisterRpcs, ConnectServers, Finalize, Others, run
<1>3. CASE Main
  BY <1>3 DEF Main, Begin, MainForward, MainAcked, MainWait, MainTakesResult, run
<1>4. ASSUME NEW u \in Ult, Handle(u)
      PROVE  /\ UNCHANGED <<run, round, mnext>>
             /\ \A v \in Ult : next'[v] = next[v]
                             \/ (ForwardRequest(v) /\ next'[v] = next[v] + 1)
  <2>1. CASE ForwardRequest(u)
    BY <1>1, <2>1 DEF ForwardRequest
  <2> QED
    BY <1>4, <2>1 DEF Handle, Start, AllocState, RequestAcked, LeafConcludes, Forwarded, Conclude,
       LookUp, SetMax, Load, Store, CheckComplete, CheckIncomplete, SendResponse, FreeState,
       Free, Signal
<1> QED BY <1>2, <1>3, <1>4 DEF Next, Active, run

\* The tree does not change.
LEMMA SameTree ==
  ASSUME glb_ranks' = glb_ranks
  PROVE  /\ Present' = Present /\ Server' = Server
         /\ \A r : /\ Count(r)' = Count(r) /\ Parent(r)' = Parent(r)
                   /\ Kids(r)' = Kids(r) /\ Subtree(r)' = Subtree(r)
         /\ \A r, i : Child(r, i)' = Child(r, i)
         /\ \A u : Home(u)' = Home(u)
BY DEF Present, Server, Count, Parent, Kids, Subtree, Child, Home

\* A race that went wrong is noted for good.
LEMMA RacesKept ==
  ASSUME Next
  PROVE  /\ races \subseteq races'
         /\ ConcludedTwice => ConcludedTwice'
<1>1. races \subseteq races'
  <2>1. CASE \E r \in Present : Program(r)
    BY <2>1 DEF Program, SetupRemoteTarget, RegisterRpcs, ConnectServers, Finalize, Others
  <2>2. CASE Main
    BY <2>2 DEF Main, Begin, MainForward, MainAcked, MainWait, MainTakesResult
  <2>3. CASE \E u \in Ult : Handle(u)
    BY <2>3
       DEF Handle, Start, AllocState, ForwardRequest, RequestAcked, LeafConcludes, Forwarded,
           LookUp, SetMax, Load, Store, CheckComplete, CheckIncomplete, SendResponse, FreeState,
           Free, Signal, Note
  <2> QED BY <2>1, <2>2, <2>3 DEF Next, Active
<1> QED BY <1>1 DEF ConcludedTwice

LEMMA RequestedKept ==
  ASSUME Inv, Next
  PROVE  Requested'
<1>0. Types /\ Stages /\ Requested /\ Turns /\ glb_ranks' = glb_ranks
  BY Loops DEF Inv
<1>1. /\ next \in [Ult -> 0 .. Degree] /\ mnext \in 0 .. Degree /\ round \in 0 .. Rounds
      /\ Rounds \in Nat /\ Degree = 2
  BY <1>0, Sized DEF Types
<1> SUFFICES ASSUME NEW o \in Round, NEW r \in Present, NEW i \in 1 .. Count(r),
                    pc'[Req(o, Child(r, i))] # "none"
             PROVE  Allocated(o, r)' /\ SentTo(o, r, i)'
  BY <1>0, SameTree DEF Requested
<1> DEFINE c == Child(r, i)
           v == Req(o, c)
<1>2. c \in Server /\ Parent(c) = r /\ c \in Rank \ {Root} /\ i \in Nat /\ o \in Nat
      /\ \A j \in 1 .. Count(r) : Child(r, i) = Child(r, j) => i = j
  BY <1>0, <1>1, ChildOf, ParentOf DEF Round
<1>3. /\ v \in Ult /\ v[1] = "req" /\ v[2] = o /\ v[3] = c
      /\ r # Root => Req(o, r) \in Ult /\ r \in Server
  BY <1>2, Ults, <1>0, Sized DEF Server
<1>4. CASE pc[v] # "none"
  <2>1. Allocated(o, r) /\ SentTo(o, r, i)
    BY <1>0, <1>4 DEF Requested
  <2>2. CASE r = Root
    BY <1>0, <1>1, <1>2, <2>1, <2>2, Loops DEF Allocated, SentTo
  <2>3. CASE r # Root
    <3>1. pc'[Req(o, r)] \notin Waiting
      BY <1>0, <1>3, <2>1, <2>3, Onward DEF Allocated
    <3>2. i <= next'[Req(o, r)]
      BY <1>0, <1>1, <1>2, <1>3, <2>1, <2>3, Loops DEF SentTo
    <3> QED BY <2>3, <3>1, <3>2 DEF Allocated, SentTo
  <2> QED BY <2>2, <2>3
<1>5. CASE pc[v] = "none"
  <2>0. Birth(v)
    <3>1. pc'[v] # pc[v]
      BY <1>5
    <3>2. ~ Arcs(v)
      BY <1>5 DEF Arcs
    <3> QED BY <1>0, <1>3, <3>1, <3>2, Changed
  <2>1. PICK j \in 1 .. Count(r) :
              /\ c = Child(r, j)
              /\ \/ MainForward /\ r = Root /\ o = round /\ j = mnext + 1
                 \/ /\ r \in Server /\ ForwardRequest(Req(o, r)) /\ pc[Req(o, r)] = "forward"
                    /\ j = next[Req(o, r)] + 1
    BY <1>0, <1>2, <1>3, <2>0, Born
  <2>2. i = j
    BY <1>2, <2>1
  <2>3. CASE MainForward /\ r = Root /\ o = round /\ j = mnext + 1
    <3>1. round' = round /\ mnext' = mnext + 1
      BY <2>3 DEF MainForward
    <3> QED BY <1>1, <1>2, <2>2, <2>3, <3>1 DEF Allocated, SentTo
  <2>4. CASE /\ r \in Server /\ ForwardRequest(Req(o, r)) /\ pc[Req(o, r)] = "forward"
             /\ j = next[Req(o, r)] + 1
    <3>1. r # Root /\ next'[Req(o, r)] = next[Req(o, r)] + 1
      BY <1>1, <1>3, <2>4 DEF ForwardRequest, Server
    <3>2. pc'[Req(o, r)] \notin Waiting
      <4>1. pc[Req(o, r)] \notin Waiting
        BY <2>4 DEF Waiting
      <4> QED BY <1>0, <1>3, <3>1, <4>1, Onward
    <3> QED BY <1>1, <1>2, <1>3, <2>2, <2>4, <3>1, <3>2 DEF Allocated, SentTo
  <2> QED BY <2>1, <2>3, <2>4
<1> QED BY <1>4, <1>5

LEMMA AnsweredKept ==
  ASSUME Inv, Next
  PROVE  Answered'
<1>0. Types /\ Stages /\ Requested /\ Turns /\ Answered /\ LastConcludes /\ glb_ranks' = glb_ranks
  BY Loops DEF Inv
<1> SUFFICES ASSUME NEW o \in Round, NEW r \in Server, pc'[Rsp(o, r)] # "none"
             PROVE  /\ Allocated(o, r)'
                    /\ Count(r) = 0 => pc'[Req(o, r)] \in Settled
                    /\ \A c \in Kids(r) : pc'[Rsp(o, c)] \in Settled
  BY <1>0, SameTree DEF Answered
<1>1. /\ r \in Present /\ r # Root /\ r \in Rank /\ Req(o, r) \in Ult /\ Rsp(o, r) \in Ult
      /\ \A c \in Kids(r) : c \in Server /\ Parent(c) = r /\ Rsp(o, c) \in Ult /\ Req(o, c) \in Ult
  <2>1. r \in Present /\ r # Root /\ r \in Rank
    BY <1>0, Sized DEF Server
  <2>2. \A c \in Kids(r) : c \in Server /\ Parent(c) = r /\ c \in Rank \ {Root}
    BY <1>0, <2>1, KidOf, ParentOf
  <2> QED BY <2>1, <2>2, Ults
<1>2. CASE pc[Rsp(o, r)] # "none"
  <2>1. /\ Allocated(o, r)
        /\ Count(r) = 0 => pc[Req(o, r)] \in Settled
        /\ \A c \in Kids(r) : pc[Rsp(o, c)] \in Settled
    BY <1>0, <1>2 DEF Answered
  <2> QED BY <1>0, <1>1, <2>1, Onward DEF Allocated
<1>3. CASE pc[Rsp(o, r)] = "none"
  <2>1. Birth(Rsp(o, r))
    <3>1. ~ Arcs(Rsp(o, r))
      BY <1>3 DEF Arcs
    <3> QED BY <1>0, <1>1, <1>3, <3>1, Changed
  <2>2. \/ /\ SendResponse(Req(o, r)) /\ Count(r) = 0 /\ pc[Req(o, r)] = "send"
        \/ \E c \in Kids(r) : SendResponse(Rsp(o, c)) /\ pc[Rsp(o, c)] = "send"
    BY <1>0, <1>1, <2>1, Born, Ults
  <2>3. \A u \in Ult : SendResponse(u) => pc'[u] = "waitrsp"
    BY <1>0 DEF SendResponse, Types
  <2>4. CASE SendResponse(Req(o, r)) /\ Count(r) = 0 /\ pc[Req(o, r)] = "send"
    <3>1. Kids(r) = {}
      BY <1>0, <1>1, <2>4, Leaf
    <3>2. pc'[Req(o, r)] \in Settled /\ pc'[Req(o, r)] \notin Waiting
      BY <1>1, <2>3, <2>4 DEF Settled, Waiting
    <3> QED BY <1>1, <3>1, <3>2 DEF Allocated
  <2>5. ASSUME NEW c \in Kids(r), SendResponse(Rsp(o, c)), pc[Rsp(o, c)] = "send"
        PROVE  /\ Allocated(o, r)'
               /\ Count(r) # 0
               /\ \A d \in Kids(r) : pc'[Rsp(o, d)] \in Settled
    <3>1. pc'[Rsp(o, c)] \in Settled
      BY <1>1, <2>3, <2>5 DEF Settled
    <3>2. \A d \in Kids(r) : d # c => pc'[Rsp(o, d)] = "done"
      <4>1. \A d \in Kids(r) : d # c => pc[Rsp(o, d)] = "done"
        BY <1>0, <1>1, <2>5 DEF LastConcludes, Concluding
      <4> QED BY <1>0, <1>1, <4>1, Onward
    <3>3. Allocated(o, r)
      <4>1. pc[Req(o, c)] # "none"
        <5>1. Allocated(o, c)
          BY <1>0, <1>1, <2>5 DEF Answered
        <5> QED BY <1>1, <5>1 DEF Allocated, Server, Waiting
      <4>2. PICK i \in 1 .. Count(r) : c = Child(r, i)
        BY <1>0, <1>1, KidOf
      <4> QED BY <1>0, <1>1, <4>1, <4>2 DEF Requested
    <3>4. Allocated(o, r)'
      BY <1>0, <1>1, <3>3, Onward DEF Allocated
    <3>5. Count(r) # 0
      BY <1>0, <1>1, KidOf
    <3> QED BY <3>1, <3>2, <3>4, <3>5 DEF Settled
  <2> QED BY <2>2, <2>4, <2>5
<1> QED BY <1>2, <1>3
-----------------------------------------------------------------------------
(* Rounds.                                                                 *)

\* The ULTs of a request and of a response, whatever the rank.
LEMMA UltsOf ==
  ASSUME Types, NEW o \in Round, NEW r \in Present
  PROVE  /\ o \in Nat /\ o \in Struct /\ r \in Rank
         /\ r # Root => Req(o, r) \in Ult /\ Rsp(o, r) \in Ult /\ r \in Server
         /\ \A c \in Kids(r) : /\ c \in Server /\ c \in Present /\ c # Root /\ Parent(c) = r
                               /\ Req(o, c) \in Ult /\ Rsp(o, c) \in Ult
<1>1. o \in Nat /\ o \in Struct /\ r \in Rank
  BY Sized DEF Round, Struct
<1>2. r # Root => Req(o, r) \in Ult /\ Rsp(o, r) \in Ult /\ r \in Server
  BY <1>1, Ults DEF Server
<1>3. ASSUME NEW c \in Kids(r)
      PROVE  /\ c \in Server /\ c \in Present /\ c # Root /\ Parent(c) = r
             /\ Req(o, c) \in Ult /\ Rsp(o, c) \in Ult
  <2>1. c \in Server /\ c \in Present /\ Parent(c) = r /\ c \in Rank \ {Root}
    BY KidOf, ParentOf
  <2> QED BY <2>1, Ults
<1> QED BY <1>1, <1>2, <1>3

\* Who has a request has a parent who has the structure; who responds has both.
LEMMA Upward ==
  ASSUME Types, Requested, Answered, NEW o \in Round, NEW r \in Present, NEW c \in Kids(r)
  PROVE  /\ pc[Req(o, c)] # "none" => Allocated(o, r) /\ \E i \in 1 .. Count(r) : c = Child(r, i) /\ SentTo(o, r, i)
         /\ pc[Rsp(o, c)] # "none" => pc[Req(o, c)] # "none" /\ Allocated(o, c) /\ Allocated(o, r)
<1>1. c \in Server /\ c # Root
  BY UltsOf
<1>2. PICK i \in 1 .. Count(r) : c = Child(r, i)
  BY KidOf
<1>3. pc[Req(o, c)] # "none" => Allocated(o, r) /\ SentTo(o, r, i)
  BY <1>2 DEF Requested
<1>4. pc[Rsp(o, c)] # "none" => pc[Req(o, c)] # "none" /\ Allocated(o, c)
  BY <1>1 DEF Answered, Allocated, Waiting
<1> QED BY <1>2, <1>3, <1>4

\* When the responses to the root are handled, so are all.
LEMMA OverIsSettled ==
  ASSUME Types, Answered, Turns, NEW o \in Round,
         o < round \/ (o = round /\ main \in {"idle", "woken"}), NEW c \in Server
  PROVE  pc[Rsp(o, c)] \in Settled
<1> DEFINE S == { r \in Present : r = Root \/ pc[Rsp(o, r)] \in Settled }
<1>1. S \in SUBSET Present /\ Root \in S
  BY Sized
<1>2. ASSUME NEW r \in S PROVE Kids(r) \subseteq S
  <2> SUFFICES ASSUME NEW d \in Kids(r) PROVE d \in Present /\ pc[Rsp(o, d)] \in Settled
    OBVIOUS
  <2>1. d \in Present
    BY UltsOf
  <2>2. CASE r = Root
    BY <2>1, <2>2 DEF Turns, Settled
  <2>3. CASE r # Root
    <3>1. r \in Server /\ pc[Rsp(o, r)] # "none"
      BY <2>3 DEF Settled, Server
    <3> QED BY <2>1, <3>1 DEF Answered
  <2> QED BY <2>2, <2>3
<1> HIDE DEF S
<1>3. S = Present
  BY <1>1, <1>2, Everywhere
<1> QED BY <1>3 DEF S, Server

\* Nothing happens in a round before it has begun.
LEMMA NotBegun ==
  ASSUME Types, Requested, Answered, NEW o \in Round, o > round, NEW c \in Server
  PROVE  pc[Req(o, c)] = "none" /\ pc[Rsp(o, c)] = "none"
<1>0. round \in Nat /\ o \in Nat
  BY Sized, UltsOf DEF Types
<1> DEFINE S == { r \in Present : r = Root \/ (pc[Req(o, r)] = "none" /\ pc[Rsp(o, r)] = "none") }
<1>1. S \in SUBSET Present /\ Root \in S
  BY Sized
<1>2. ASSUME NEW r \in S PROVE Kids(r) \subseteq S
  <2> SUFFICES ASSUME NEW d \in Kids(r)
               PROVE  d \in Present /\ pc[Req(o, d)] = "none" /\ pc[Rsp(o, d)] = "none"
    OBVIOUS
  <2>1. d \in Present
    BY UltsOf
  <2>2. ~ Allocated(o, r)
    BY <1>0 DEF Allocated, Waiting
  <2> QED BY <2>1, <2>2, Upward
<1> HIDE DEF S
<1>3. S = Present
  BY <1>1, <1>2, Everywhere
<1> QED BY <1>3 DEF S, Server

\* A response that is not settled is one of this round.
LEMMA ThisRound ==
  ASSUME Types, Requested, Answered, Turns, NEW o \in Round, NEW c \in Server,
         pc[Rsp(o, c)] # "none", pc[Rsp(o, c)] \notin Settled
  PROVE  o = round /\ main \notin {"idle", "woken"}
<1>1. round \in Nat /\ o \in Nat
  BY Sized, UltsOf DEF Types, Round
<1>2. ~ (o < round \/ (o = round /\ main \in {"idle", "woken"}))
  BY OverIsSettled
<1>3. ~ (o > round)
  BY NotBegun
<1> QED BY <1>1, <1>2, <1>3

\* So is a request that has not been acted upon.
LEMMA ThisRequest ==
  ASSUME Types, Requested, Answered, Turns, NEW o \in Round, NEW r \in Server,
         pc[Req(o, r)] \in {"sent", "acked"}
  PROVE  o = round /\ main \notin {"idle", "woken"}
<1>1. round \in Nat /\ o \in Nat
  BY Sized, UltsOf DEF Types, Round
<1>2. ~ (o < round \/ (o = round /\ main \in {"idle", "woken"}))
  <2>1. pc[Rsp(o, r)] = "none"
    BY DEF Answered, Allocated, Waiting, Server
  <2> QED BY <2>1, OverIsSettled DEF Settled
<1>3. ~ (o > round)
  BY NotBegun
<1> QED BY <1>1, <1>2, <1>3

\* What a response looks up is the structure of its own round.
LEMMA LooksUpOwn ==
  ASSUME Types, Requested, Answered, Turns, Pointing, NEW o \in Round,
         NEW r \in Present, NEW c \in Kids(r), pc[Rsp(o, c)] \in {"sent", "acked"}
  PROVE  glb_st[r] = o
<1>1. c \in Server /\ (r # Root => r \in Server)
  BY UltsOf
<1>2. o = round /\ main \notin {"idle", "woken"}
  BY <1>1, ThisRound DEF Settled
<1>3. Allocated(o, r)
  BY Upward
<1> QED BY <1>1, <1>2, <1>3 DEF Pointing

\* The responses a rank has counted are among those of its children.
LEMMA CountedFinite ==
  ASSUME Types, NEW o \in Round, NEW r \in Present
  PROVE  /\ Counted(o, r) \in SUBSET Kids(r)
         /\ IsFiniteSet(Counted(o, r)) /\ Cardinality(Counted(o, r)) \in Nat
         /\ Cardinality(Counted(o, r)) <= Count(r)
         /\ Count(r) <= Cardinality(Counted(o, r)) => Counted(o, r) = Kids(r)
<1>1. Counted(o, r) \in SUBSET Kids(r)
  BY DEF Counted
<1>2. IsFiniteSet(Kids(r)) /\ Cardinality(Kids(r)) = Count(r) /\ Count(r) \in Nat
  BY KidsFinite, CountType, Sized
<1>3. /\ IsFiniteSet(Counted(o, r)) /\ Cardinality(Counted(o, r)) <= Count(r)
      /\ Cardinality(Counted(o, r)) = Count(r) => Counted(o, r) = Kids(r)
  BY <1>1, <1>2, FS_Subset
<1>4. Cardinality(Counted(o, r)) \in Nat
  BY <1>3, FS_CardinalityType
<1> QED BY <1>1, <1>2, <1>3, <1>4

\* The handler that finds all responses there finds the others at their end,
\* or one of them is about to find the same.
LEMMA LastOfAll ==
  ASSUME Types, Stages, Counting, LastConcludes, ~ ConcludedTwice',
         NEW o \in Round, NEW r \in Present, NEW c \in Kids(r),
         CheckComplete(Rsp(o, c)), pc[Rsp(o, c)] = "check"
  PROVE  \A d \in Kids(r) : d # c => pc[Rsp(o, d)] = "done"
<1>1. \A d \in Kids(r) : /\ d \in Server /\ Rsp(o, d) \in Ult /\ Home(Rsp(o, d)) = r
                         /\ Rsp(o, d)[1] = "rsp"
  BY UltsOf, Homes, Ults
<1>2. st[Rsp(o, c)] = o /\ o \in Struct
  BY <1>1, UltsOf DEF Stages, Waiting
<1>3. num_responses[o][r] = Count(r)
  BY <1>1, <1>2 DEF CheckComplete, Complete
<1>4. Counted(o, r) = Kids(r)
  <2>1. Count(r) <= Cardinality(Counted(o, r))
    BY <1>3 DEF Counting
  <2> QED BY <2>1, CountedFinite
<1> SUFFICES ASSUME NEW d \in Kids(r), d # c PROVE pc[Rsp(o, d)] = "done"
  OBVIOUS
<1>5. pc[Rsp(o, d)] \in {"check", "send", "waitrsp", "lock", "done"}
  BY <1>4 DEF Counted, HasCounted
<1>6. pc[Rsp(o, d)] # "check"
  <2> SUFFICES ASSUME pc[Rsp(o, d)] = "check" PROVE FALSE
    OBVIOUS
  <2>1. st[Rsp(o, d)] = o /\ Rsp(o, d) # Rsp(o, c)
    BY <1>1, Ults DEF Stages, Waiting
  <2>2. Follows(Rsp(o, c), Rsp(o, d))
    BY <1>1, <1>2, <2>1 DEF Follows
  <2>3. <<"complete", o>> \in races'
    BY <1>1, <1>2, <2>2 DEF CheckComplete, Note
  <2> QED BY <1>2, <2>3 DEF ConcludedTwice
<1>7. pc[Rsp(o, d)] \notin {"send", "waitrsp", "lock"}
  BY DEF LastConcludes, Concluding
<1> QED BY <1>5, <1>6, <1>7

LEMMA LastConcludesKept ==
  ASSUME Inv, Next, ~ ConcludedTwice'
  PROVE  LastConcludes'
<1>0. /\ Types /\ Stages /\ Requested /\ Turns /\ Counting /\ LastConcludes
      /\ glb_ranks' = glb_ranks
  BY Loops DEF Inv
<1> SUFFICES ASSUME NEW o \in Round, NEW r \in Present, NEW c \in Kids(r), NEW d \in Kids(r),
                    pc'[Rsp(o, c)] \in Concluding, d # c
             PROVE  pc'[Rsp(o, d)] = "done"
  BY <1>0, SameTree DEF LastConcludes
<1>1. c \in Server /\ Rsp(o, c) \in Ult /\ Rsp(o, d) \in Ult
  BY <1>0, UltsOf
<1>2. pc[Rsp(o, d)] = "done"
  <2>1. CASE pc[Rsp(o, c)] \in Concluding
    BY <1>0, <2>1 DEF LastConcludes
  <2>2. CASE pc[Rsp(o, c)] \notin Concluding
    <3>1. ~ Birth(Rsp(o, c))
      BY DEF Birth, Concluding
    <3>2. Arcs(Rsp(o, c))
      BY <1>0, <1>1, <2>2, <3>1, Changed
    <3>3. pc[Rsp(o, c)] # "forward"
      BY <1>0, <1>1 DEF Stages, Waiting, Compared
    <3>4. CheckComplete(Rsp(o, c)) /\ pc[Rsp(o, c)] = "check"
      BY <2>2, <3>2, <3>3 DEF Arcs, Concluding
    <3> QED BY <1>0, <3>4, LastOfAll
  <2> QED BY <2>1, <2>2
<1> QED BY <1>0, <1>1, <1>2, Onward

-----------------------------------------------------------------------------
(* What a step makes of the structures.                                    *)

\* Who acts, at which rank, on which structure.
LEMMA Actor ==
  ASSUME Types, Stages, NEW u \in Ult, pc[u] # "none"
  PROVE  \E o \in Round, r \in Present :
            /\ \/ r \in Server /\ u = Req(o, r)
               \/ \E c \in Kids(r) : u = Rsp(o, c)
            /\ Home(u) = r
            /\ u[2] = o
            /\ pc[u] \notin Waiting => st[u] = o
<1>1. u[2] \in Round /\ u[3] \in Rank \ {Root} /\ u[3] \in Present /\ u[3] \in Server
  BY Ults DEF Stages, Placed, Server
<1>2. CASE u = Req(u[2], u[3])
  <2>1. Home(u) = u[3]
    BY <1>2, Homes
  <2> QED BY <1>1, <1>2, <2>1 DEF Stages
<1>3. CASE u = Rsp(u[2], u[3])
  <2>1. Home(u) = Parent(u[3]) /\ Parent(u[3]) \in Present /\ u[3] \in Kids(Parent(u[3]))
    BY <1>1, <1>3, Homes, ParentOf
  <2> QED BY <1>1, <1>3, <2>1 DEF Stages
<1> QED BY <1>2, <1>3, Ults

Allocates(o, r) ==
    \/ Begin /\ r = Root /\ o = round + 1
    \/ r \in Server /\ AllocState(Req(o, r))

Takes(o, r) ==      \* its own size into account
    \/ r \in Server /\ LeafConcludes(Req(o, r))
    \/ \E c \in Kids(r) : CheckComplete(Rsp(o, c))

Frees(o, r) ==
    \/ r \in Server /\ FreeState(Req(o, r)) /\ pc[Req(o, r)] = "waitrsp"
    \/ \E c \in Kids(r) : FreeState(Rsp(o, c)) /\ pc[Rsp(o, c)] = "waitrsp"
    \/ r = Root /\ MainTakesResult /\ o = glb_st[Root]

Cell(o, r) == <<alive[o][r], num_responses[o][r], filesize[o][r]>>

HeapStep(o, r) ==
    \/ Cell(o, r)' = Cell(o, r)
    \/ Allocates(o, r) /\ Cell(o, r)' = <<"live", 0, 0>>
    \/ \E c \in Kids(r) : Store(Rsp(o, c))
         /\ Cell(o, r)' = <<alive[o][r], tmp[Rsp(o, c)] + 1, filesize[o][r]>>
    \/ \E c \in Kids(r) : SetMax(Rsp(o, c))
         /\ Cell(o, r)' = <<alive[o][r], num_responses[o][r], value[Rsp(o, c)]>>
    \/ Takes(o, r)
         /\ Cell(o, r)' = <<alive[o][r], num_responses[o][r],
                            IF r > filesize[o][r] THEN r ELSE filesize[o][r]>>
    \/ Frees(o, r) /\ Cell(o, r)' = <<"freed", num_responses[o][r], filesize[o][r]>>

LEMMA HeapChanges ==
  ASSUME Types, Stages, Turns, Next, NEW o \in Round, NEW r \in Present
  PROVE  HeapStep(o, r)
<1>0. /\ alive \in [Struct -> [Rank -> {"none", "live", "freed"}]]
      /\ num_responses \in [Struct -> [Rank -> Nat]]
      /\ filesize \in [Struct -> [Rank -> Rank]]
      /\ glb_st \in [Rank -> Struct]
      /\ o \in Struct /\ r \in Rank /\ Root \in Rank /\ o \in Nat
      /\ round \in Nat
  BY Sized, UltsOf DEF Types
<1>1. CASE \E q \in Present : Program(q)
  <2>1. UNCHANGED heap
    BY <1>1 DEF Program, SetupRemoteTarget, RegisterRpcs, ConnectServers, Finalize, Others
  <2> QED BY <2>1 DEF heap, HeapStep, Cell
<1>2. CASE Main
  <2>1. CASE Begin
    <3>1. round + 1 \in Struct
      BY <1>0, <2>1, Sized DEF Begin, Turns, Struct
    <3>2. /\ alive' = [alive EXCEPT ![round + 1][Root] = "live"]
          /\ num_responses' = [num_responses EXCEPT ![round + 1][Root] = 0]
          /\ filesize' = [filesize EXCEPT ![round + 1][Root] = 0]
      BY <2>1 DEF Begin, Alloc
    <3>3. CASE r = Root /\ o = round + 1
      <4>1. Cell(o, r)' = <<"live", 0, 0>>
        BY <1>0, <3>1, <3>2, <3>3 DEF Cell
      <4> QED BY <2>1, <3>3, <4>1 DEF HeapStep, Allocates
    <3>4. CASE ~ (r = Root /\ o = round + 1)
      <4>1. Cell(o, r)' = Cell(o, r)
        BY <1>0, <3>1, <3>2, <3>4 DEF Cell
      <4> QED BY <4>1 DEF HeapStep
    <3> QED BY <3>3, <3>4
  <2>2. CASE MainForward \/ MainAcked \/ MainWait
    <3>1. UNCHANGED heap
      BY <2>2 DEF MainForward, MainAcked, MainWait
    <3> QED BY <3>1 DEF heap, HeapStep, Cell
  <2>3. CASE MainTakesResult
    <3>1. /\ alive' = [alive EXCEPT ![glb_st[Root]][Root] = "freed"]
          /\ UNCHANGED <<num_responses, filesize>>
      BY <2>3 DEF MainTakesResult
    <3>2. CASE r = Root /\ o = glb_st[Root]
      <4>1. Cell(o, r)' = <<"freed", num_responses[o][r], filesize[o][r]>>
        BY <1>0, <3>1, <3>2 DEF Cell
      <4> QED BY <2>3, <3>2, <4>1 DEF HeapStep, Frees
    <3>3. CASE ~ (r = Root /\ o = glb_st[Root])
      <4>1. Cell(o, r)' = Cell(o, r)
        BY <1>0, <3>1, <3>3 DEF Cell
      <4> QED BY <4>1 DEF HeapStep
    <3> QED BY <3>2, <3>3
  <2> QED BY <1>2, <2>1, <2>2, <2>3 DEF Main
<1>3. ASSUME NEW u \in Ult, Handle(u) PROVE HeapStep(o, r)
  <2>1. Arcs(u)
    BY <1>3, Handling
  <2>2. PICK p \in Round, q \in Present :
            /\ \/ q \in Server /\ u = Req(p, q)
               \/ \E c \in Kids(q) : u = Rsp(p, c)
            /\ Home(u) = q
            /\ u[2] = p
            /\ pc[u] \notin Waiting => st[u] = p
    <3>1. pc[u] # "none"
      BY <2>1 DEF Arcs
    <3> QED BY <3>1, Actor
  <2>3. p \in Struct /\ q \in Rank
    BY UltsOf
  <2>4. CASE UNCHANGED heap
    BY <2>4 DEF heap, HeapStep, Cell
  <2>5. CASE AllocState(u)
    <3>1. q \in Server /\ u = Req(p, q) /\ u[3] = q
      BY <2>2, <2>5, Ults DEF AllocState
    <3>2. /\ alive' = [alive EXCEPT ![p][q] = "live"]
          /\ num_responses' = [num_responses EXCEPT ![p][q] = 0]
          /\ filesize' = [filesize EXCEPT ![p][q] = 0]
      BY <2>2, <2>5, <3>1 DEF AllocState, Alloc
    <3>3. CASE r = q /\ o = p
      <4>1. Cell(o, r)' = <<"live", 0, 0>>
        BY <1>0, <2>3, <3>2, <3>3 DEF Cell
      <4> QED BY <2>5, <3>1, <3>3, <4>1 DEF HeapStep, Allocates
    <3>4. CASE ~ (r = q /\ o = p)
      <4>1. Cell(o, r)' = Cell(o, r)
        BY <1>0, <2>3, <3>2, <3>4 DEF Cell
      <4> QED BY <4>1 DEF HeapStep
    <3> QED BY <3>3, <3>4
  <2>6. CASE LeafConcludes(u) \/ CheckComplete(u)
    <3>1. st[u] = p
      BY <2>2, <2>6 DEF LeafConcludes, CheckComplete, Waiting
    <3>2. /\ filesize' = [filesize EXCEPT ![p][q] = IF q > filesize[p][q] THEN q ELSE filesize[p][q]]
          /\ UNCHANGED <<alive, num_responses>>
      BY <1>0, <2>2, <2>3, <2>6, <3>1 DEF LeafConcludes, CheckComplete, Conclude
    <3>3. Takes(p, q)
      <4>1. CASE q \in Server /\ u = Req(p, q)
        <5>1. pc[u] # "check"
          BY <4>1 DEF Stages, Waiting, Settled
        <5> QED BY <2>6, <4>1, <5>1 DEF Takes, CheckComplete
      <4>2. CASE \E c \in Kids(q) : u = Rsp(p, c)
        <5>1. pc[u] # "forward"
          BY <4>2, UltsOf DEF Stages, Waiting, Compared
        <5> QED BY <2>6, <4>2, <5>1 DEF Takes, LeafConcludes
      <4> QED BY <2>2, <4>1, <4>2
    <3>4. CASE r = q /\ o = p
      <4>1. Cell(o, r)' = <<alive[o][r], num_responses[o][r],
                            IF r > filesize[o][r] THEN r ELSE filesize[o][r]>>
        BY <1>0, <2>3, <3>2, <3>4 DEF Cell
      <4> QED BY <3>3, <3>4, <4>1 DEF HeapStep
    <3>5. CASE ~ (r = q /\ o = p)
      <4>1. Cell(o, r)' = Cell(o, r)
        BY <1>0, <2>3, <3>2, <3>5 DEF Cell
      <4> QED BY <4>1 DEF HeapStep
    <3> QED BY <3>4, <3>5
  <2>7. CASE SetMax(u)
    <3>1. /\ st[u] = p /\ pc[u] = "setmax"
      BY <2>2, <2>7 DEF SetMax, Step, Waiting
    <3>2. PICK c \in Kids(q) : u = Rsp(p, c)
      BY <2>2, <3>1 DEF Stages, Waiting, Settled
    <3>3. /\ filesize' = [filesize EXCEPT ![p][q] = value[u]]
          /\ UNCHANGED <<alive, num_responses>>
      BY <2>2, <2>7, <3>1 DEF SetMax
    <3>4. CASE r = q /\ o = p
      <4>1. Cell(o, r)' = <<alive[o][r], num_responses[o][r], value[Rsp(o, c)]>>
        BY <1>0, <2>3, <3>2, <3>3, <3>4 DEF Cell
      <4> QED BY <2>7, <3>2, <3>4, <4>1 DEF HeapStep
    <3>5. CASE ~ (r = q /\ o = p)
      <4>1. Cell(o, r)' = Cell(o, r)
        BY <1>0, <2>3, <3>3, <3>5 DEF Cell
      <4> QED BY <4>1 DEF HeapStep
    <3> QED BY <3>4, <3>5
  <2>8. CASE Store(u)
    <3>1. /\ st[u] = p /\ pc[u] = "store"
      BY <2>2, <2>8 DEF Store, Step, Waiting
    <3>2. PICK c \in Kids(q) : u = Rsp(p, c)
      BY <2>2, <3>1 DEF Stages, Waiting, Settled
    <3>3. /\ num_responses' = [num_responses EXCEPT ![p][q] = tmp[u] + 1]
          /\ UNCHANGED <<alive, filesize>>
      BY <2>2, <2>8, <3>1 DEF Store
    <3>4. CASE r = q /\ o = p
      <4>1. Cell(o, r)' = <<alive[o][r], tmp[Rsp(o, c)] + 1, filesize[o][r]>>
        BY <1>0, <2>3, <3>2, <3>3, <3>4 DEF Cell
      <4> QED BY <2>8, <3>2, <3>4, <4>1 DEF HeapStep
    <3>5. CASE ~ (r = q /\ o = p)
      <4>1. Cell(o, r)' = Cell(o, r)
        BY <1>0, <2>3, <3>3, <3>5 DEF Cell
      <4> QED BY <4>1 DEF HeapStep
    <3> QED BY <3>4, <3>5
  <2>9. CASE FreeState(u)
    <3>1. pc[u] = "waitrsp"
      BY <2>9 DEF FreeState, Wake, Step
    <3>2. st[u] = p
      BY <2>2, <3>1 DEF Waiting
    <3>3. /\ alive' = [alive EXCEPT ![p][q] = "freed"]
          /\ UNCHANGED <<num_responses, filesize>>
      BY <2>2, <2>9, <3>2 DEF FreeState, Free
    <3>4. Frees(p, q)
      BY <2>2, <2>9, <3>1 DEF Frees
    <3>5. CASE r = q /\ o = p
      <4>1. Cell(o, r)' = <<"freed", num_responses[o][r], filesize[o][r]>>
        BY <1>0, <2>3, <3>3, <3>5 DEF Cell
      <4> QED BY <3>4, <3>5, <4>1 DEF HeapStep
    <3>6. CASE ~ (r = q /\ o = p)
      <4>1. Cell(o, r)' = Cell(o, r)
        BY <1>0, <2>3, <3>3, <3>6 DEF Cell
      <4> QED BY <4>1 DEF HeapStep
    <3> QED BY <3>5, <3>6
  <2> QED
    BY <1>3, <2>4, <2>5, <2>6, <2>7, <2>8, <2>9
       DEF Handle, Start, ForwardRequest, RequestAcked, Forwarded, LookUp, Load,
           CheckIncomplete, SendResponse, Signal
<1> QED BY <1>1, <1>2, <1>3 DEF Next, Active

\* The same field by field.
LEMMA FieldChanges ==
  ASSUME Types, Stages, Turns, Next, NEW o \in Round, NEW r \in Present
  PROVE  /\ \/ alive'[o][r] = alive[o][r]
            \/ Allocates(o, r) /\ alive'[o][r] = "live"
            \/ Frees(o, r)
         /\ \/ num_responses'[o][r] = num_responses[o][r]
            \/ Allocates(o, r) /\ num_responses'[o][r] = 0
            \/ \E c \in Kids(r) : Store(Rsp(o, c))
         /\ \/ filesize'[o][r] = filesize[o][r]
            \/ Allocates(o, r) /\ filesize'[o][r] = 0
            \/ \E c \in Kids(r) : SetMax(Rsp(o, c)) /\ filesize'[o][r] = value[Rsp(o, c)]
            \/ Takes(o, r) /\ filesize'[o][r] = IF r > filesize[o][r] THEN r ELSE filesize[o][r]
BY HeapChanges DEF HeapStep, Cell

\* The structure that is allocated was not.
LEMMA AllocatedOnce ==
  ASSUME Types, NEW o \in Round, NEW r \in Present, Allocates(o, r)
  PROVE  ~ Allocated(o, r)
<1>1. CASE Begin /\ r = Root /\ o = round + 1
  <2>1. round \in Nat
    BY Sized DEF Types
  <2> QED BY <1>1, <2>1 DEF Allocated
<1>2. CASE r \in Server /\ AllocState(Req(o, r))
  BY <1>2 DEF Allocated, AllocState, Ready, Waiting, Server
<1> QED BY <1>1, <1>2 DEF Allocates

\* An allocated structure is not allocated again, and its size only grows,
\* unless a handler overwrites a larger one.
LEMMA HeapKept ==
  ASSUME Inv, Next, NEW o \in Round, NEW r \in Present, Allocated(o, r)
  PROVE  /\ ~ Allocates(o, r)
         /\ filesize[o][r] \in Nat /\ filesize'[o][r] \in Nat
         /\ <<"max", o>> \notin races' => filesize[o][r] <= filesize'[o][r]
<1>0. Types /\ Stages /\ Turns /\ Sizes
  BY DEF Inv
<1>1. ~ Allocates(o, r)
  BY <1>0, AllocatedOnce
<1>2. filesize[o][r] \in Nat /\ r \in Nat
  BY <1>0, Sized DEF Sizes
<1>3. ASSUME NEW c \in Kids(r), SetMax(Rsp(o, c))
      PROVE  /\ value[Rsp(o, c)] \in Nat
             /\ <<"max", o>> \notin races' => filesize[o][r] <= value[Rsp(o, c)]
  <2>1. c \in Server /\ Home(Rsp(o, c)) = r /\ pc[Rsp(o, c)] = "setmax"
    BY <1>0, <1>3, UltsOf, Homes DEF SetMax, Step
  <2>2. st[Rsp(o, c)] = o /\ value[Rsp(o, c)] \in Nat
    BY <1>0, <2>1, Sized DEF Stages, Waiting, Sizes
  <2>3. <<"max", o>> \notin races' => ~ (filesize[o][r] > value[Rsp(o, c)])
    BY <1>3, <2>1, <2>2 DEF SetMax, Note
  <2> QED BY <1>2, <2>2, <2>3
<1>4. HeapStep(o, r)
  BY <1>0, HeapChanges
<1> QED BY <1>1, <1>2, <1>3, <1>4 DEF HeapStep, Cell

\* A counted response is one whose handler has stored the count.
LEMMA CountedChanges ==
  ASSUME Types, Stages, Requested, Turns, Next, NEW o \in Round, NEW r \in Present
  PROVE  Counted(o, r)' = Counted(o, r) \cup { c \in Kids(r) : Store(Rsp(o, c)) }
<1>1. \A c \in Kids(r) : HasCounted(Rsp(o, c))' <=> HasCounted(Rsp(o, c)) \/ Store(Rsp(o, c))
  <2> SUFFICES ASSUME NEW c \in Kids(r)
               PROVE  HasCounted(Rsp(o, c))' <=> HasCounted(Rsp(o, c)) \/ Store(Rsp(o, c))
    OBVIOUS
  <2>1. c \in Server /\ Rsp(o, c) \in Ult /\ Rsp(o, c)[1] = "rsp"
    BY UltsOf, Ults
  <2>2. HasCounted(Rsp(o, c)) => HasCounted(Rsp(o, c))'
    BY <2>1, Onward
  <2>3. Store(Rsp(o, c)) => HasCounted(Rsp(o, c))'
    BY <2>1 DEF Store, Step, HasCounted, Types
  <2>4. ASSUME HasCounted(Rsp(o, c))', ~ HasCounted(Rsp(o, c)) PROVE Store(Rsp(o, c))
    <3>1. pc'[Rsp(o, c)] \in {"check", "send", "waitrsp", "lock", "done"}
      BY <2>4 DEF HasCounted
    <3>2. pc[Rsp(o, c)] \notin {"check", "send", "waitrsp", "lock", "done"}
      BY <2>1, <2>4 DEF HasCounted
    <3>3. Arcs(Rsp(o, c))
      BY <2>1, <3>1, <3>2, Changed DEF Birth
    <3>4. pc[Rsp(o, c)] # "forward"
      BY <2>1 DEF Stages, Waiting, Compared
    <3> QED BY <3>1, <3>2, <3>3, <3>4 DEF Arcs
  <2> QED BY <2>2, <2>3, <2>4
<1>2. glb_ranks' = glb_ranks
  BY Loops
<1> QED BY <1>1, <1>2, SameTree DEF Counted

LEMMA CountedGrows ==
  ASSUME Types, Stages, Requested, Turns, Next, NEW o \in Round, NEW r \in Present
  PROVE  /\ Counted(o, r) \subseteq Counted(o, r)'
         /\ IsFiniteSet(Counted(o, r)')
         /\ Cardinality(Counted(o, r)) \in Nat /\ Cardinality(Counted(o, r)') \in Nat
         /\ Cardinality(Counted(o, r)) <= Cardinality(Counted(o, r)')
         /\ \A c \in Kids(r) : Store(Rsp(o, c)) =>
              Cardinality(Counted(o, r)) + 1 <= Cardinality(Counted(o, r)')
<1> DEFINE S == Counted(o, r)
           T == Counted(o, r)'
<1>1. T = S \cup { c \in Kids(r) : Store(Rsp(o, c)) }
  BY CountedChanges
<1>2. S \in SUBSET Kids(r) /\ IsFiniteSet(S) /\ Cardinality(S) \in Nat
  BY CountedFinite
<1>3. \A c \in Kids(r) : Store(Rsp(o, c)) => c \notin S
  BY DEF Counted, HasCounted, Store, Step
<1> HIDE DEF S, T
<1>4. S \subseteq T /\ T \in SUBSET Kids(r)
  BY <1>1, <1>2
<1>5. IsFiniteSet(T)
  BY <1>4, KidsFinite, FS_Subset
<1>6. Cardinality(S) <= Cardinality(T) /\ Cardinality(T) \in Nat
  BY <1>4, <1>5, FS_Subset, FS_CardinalityType
<1>7. ASSUME NEW c \in Kids(r), Store(Rsp(o, c)) PROVE Cardinality(S) + 1 <= Cardinality(T)
  <2>1. c \in T /\ c \notin S /\ S \cup {c} \in SUBSET T
    BY <1>1, <1>3, <1>4, <1>7
  <2>2. Cardinality(S \cup {c}) = Cardinality(S) + 1
    BY <1>2, <2>1, FS_AddElement
  <2>3. Cardinality(S \cup {c}) <= Cardinality(T)
    BY <1>5, <2>1, FS_Subset
  <2> QED BY <2>2, <2>3
<1> QED BY <1>2, <1>4, <1>5, <1>6, <1>7 DEF S, T

-----------------------------------------------------------------------------
(* What a step makes of a ULT's own variables.                             *)

LEMMA OwnFields ==
  ASSUME Types, Next, NEW v \in Ult
  PROVE  /\ \/ st'[v] = st[v]
            \/ AllocState(v) /\ st'[v] = v[2]
            \/ LookUp(v) /\ st'[v] = glb_st[Home(v)]
         /\ \/ tmp'[v] = tmp[v]
            \/ Load(v) /\ tmp'[v] = num_responses[st[v]][Home(v)]
            \/ Store(v) /\ tmp'[v] = 0
         /\ \/ value'[v] = value[v]
            \/ \E u \in Ult : /\ SendResponse(u) /\ pc[u] = "send" /\ v = Rsp(st[u], Home(u))
                              /\ value'[v] = filesize[st[u]][Home(u)]
<1>0. st \in [Ult -> Struct] /\ tmp \in [Ult -> Nat] /\ value \in [Ult -> Rank]
  BY DEF Types
<1>1. CASE \E r \in Present : Program(r)
  BY <1>1 DEF Program, SetupRemoteTarget, RegisterRpcs, ConnectServers, Finalize, Others
<1>2. CASE Main
  BY <1>2 DEF Main, Begin, MainForward, MainAcked, MainWait, MainTakesResult
<1>3. ASSUME NEW u \in Ult, Handle(u)
      PROVE  /\ \/ st'[v] = st[v]
                \/ AllocState(v) /\ st'[v] = v[2]
                \/ LookUp(v) /\ st'[v] = glb_st[Home(v)]
             /\ \/ tmp'[v] = tmp[v]
                \/ Load(v) /\ tmp'[v] = num_responses[st[v]][Home(v)]
                \/ Store(v) /\ tmp'[v] = 0
             /\ \/ value'[v] = value[v]
                \/ /\ SendResponse(u) /\ pc[u] = "send" /\ v = Rsp(st[u], Home(u))
                   /\ value'[v] = filesize[st[u]][Home(u)]
  <2>1. CASE AllocState(u)
    BY <1>0, <2>1 DEF AllocState
  <2>2. CASE LookUp(u)
    BY <1>0, <2>2 DEF LookUp
  <2>3. CASE Load(u)
    BY <1>0, <2>3 DEF Load
  <2>4. CASE SendResponse(u)
    BY <1>0, <2>4 DEF SendResponse, Rsp
  <2>5. CASE Store(u)
    BY <1>0, <2>5 DEF Store
  <2> QED
    BY <1>3, <2>1, <2>2, <2>3, <2>4, <2>5
       DEF Handle, Start, ForwardRequest, RequestAcked, LeafConcludes, Conclude, Forwarded, SetMax,
           CheckComplete, CheckIncomplete, FreeState, Free, Signal
<1> QED BY <1>1, <1>2, <1>3 DEF Next, Active

LEMMA CountingKept ==
  ASSUME Inv, Next
  PROVE  Counting'
<1>0. /\ Types /\ Stages /\ Requested /\ Turns /\ Counting /\ glb_ranks' = glb_ranks
  BY Loops DEF Inv
<1>1. ASSUME NEW o \in Round, NEW r \in Present
      PROVE  num_responses'[o][r] <= Cardinality(Counted(o, r)')
  <2>1. /\ num_responses[o][r] <= Cardinality(Counted(o, r)) /\ num_responses[o][r] \in Nat
        /\ o \in Struct /\ r \in Rank
    BY <1>0, UltsOf DEF Counting, Types
  <2>2. /\ Cardinality(Counted(o, r)) \in Nat /\ Cardinality(Counted(o, r)') \in Nat
        /\ Cardinality(Counted(o, r)) <= Cardinality(Counted(o, r)')
        /\ \A c \in Kids(r) : Store(Rsp(o, c)) =>
              Cardinality(Counted(o, r)) + 1 <= Cardinality(Counted(o, r)')
    BY <1>0, CountedGrows
  <2>3. ASSUME NEW c \in Kids(r), Store(Rsp(o, c))
        PROVE  num_responses'[o][r] <= Cardinality(Counted(o, r)')
    <3>1. /\ c \in Server /\ Parent(c) = r /\ Rsp(o, c) \in Ult /\ Home(Rsp(o, c)) = r
          /\ pc[Rsp(o, c)] = "store"
      BY <1>0, <2>3, UltsOf, Homes DEF Store, Step
    <3>2. st[Rsp(o, c)] = o
      BY <1>0, <3>1 DEF Stages, Waiting
    <3>3. num_responses'[o][r] = tmp[Rsp(o, c)] + 1 /\ tmp[Rsp(o, c)] \in Nat
      BY <1>0, <2>1, <2>3, <3>1, <3>2 DEF Store, Types
    <3>4. tmp[Rsp(o, c)] <= Cardinality(Counted(o, r))
      BY <1>0, <3>1 DEF Counting
    <3>5. Cardinality(Counted(o, r)) + 1 <= Cardinality(Counted(o, r)')
      BY <2>2, <2>3
    <3> QED BY <2>2, <3>3, <3>4, <3>5
  <2>4. CASE num_responses'[o][r] = num_responses[o][r] \/ num_responses'[o][r] = 0
    BY <2>1, <2>2, <2>4
  <2> QED BY <1>0, <2>3, <2>4, FieldChanges
<1>2. ASSUME NEW o \in Round, NEW r \in Present, NEW c \in Kids(r), pc'[Rsp(o, c)] = "store"
      PROVE  tmp'[Rsp(o, c)] <= Cardinality(Counted(o, r)')
  <2> DEFINE u == Rsp(o, c)
  <2>0. /\ c \in Server /\ Parent(c) = r /\ u \in Ult /\ Home(u) = r /\ o \in Struct /\ r \in Rank
        /\ tmp[u] \in Nat /\ num_responses[o][r] \in Nat
    <3>1. /\ c \in Server /\ Parent(c) = r /\ u \in Ult /\ Home(u) = r
          /\ o \in Struct /\ r \in Rank
      BY <1>0, UltsOf, Homes
    <3> QED BY <1>0, <3>1 DEF Types
  <2>1. /\ Cardinality(Counted(o, r)) \in Nat /\ Cardinality(Counted(o, r)') \in Nat
        /\ Cardinality(Counted(o, r)) <= Cardinality(Counted(o, r)')
    BY <1>0, <2>0, CountedGrows
  <2>2. ~ Store(u)
    BY <1>0, <1>2, <2>0 DEF Store, Step, Types
  <2>3. tmp'[u] <= Cardinality(Counted(o, r))
    <3>1. CASE pc[u] = "store"
      <4>1. tmp'[u] = tmp[u]
        BY <1>0, <2>0, <2>2, <3>1, OwnFields DEF Load, Step
      <4> QED BY <1>0, <2>0, <3>1, <4>1 DEF Counting
    <3>2. CASE pc[u] # "store"
      <4>1. Arcs(u)
        BY <1>0, <1>2, <2>0, <3>2, Changed DEF Birth
      <4>2. Load(u) /\ pc[u] = "load"
        BY <1>2, <3>2, <4>1 DEF Arcs
      <4>3. st[u] = o
        BY <1>0, <2>0, <4>2 DEF Stages, Waiting
      <4>4. tmp'[u] = num_responses[o][r]
        BY <1>0, <2>0, <4>2, <4>3 DEF Load, Types
      <4> QED BY <1>0, <2>0, <4>4 DEF Counting
    <3> QED BY <3>1, <3>2
  <2>4. tmp'[u] \in Nat
    BY <2>0, <1>0, <2>2, OwnFields, <2>3 DEF Load, Step, Stages, Waiting
  <2> QED BY <2>1, <2>3, <2>4
<1>3. ASSUME NEW o \in Round, NEW c \in Server, pc'[Rsp(o, c)] = "store"
      PROVE  tmp'[Rsp(o, c)] <= Cardinality(Counted(o, Parent(c))')
  <2>1. Parent(c) \in Present /\ c \in Kids(Parent(c)) /\ Parent(c)' = Parent(c)
    BY <1>0, ParentOf, SameTree
  <2>2. \A r \in Present : r = Parent(c) => tmp'[Rsp(o, c)] <= Cardinality(Counted(o, r)')
    BY <1>2, <1>3, <2>1
  <2> QED BY <2>1, <2>2
<1> QED BY <1>0, <1>1, <1>3, SameTree DEF Counting

LEMMA StagesKept ==
  ASSUME Inv, Next
  PROVE  Stages'
<1>0. /\ Types /\ Stages /\ Requested /\ Answered /\ Turns /\ Pointing
      /\ glb_ranks' = glb_ranks
  BY Loops DEF Inv
<1>1. ASSUME NEW u \in Ult, pc'[u] # "none"
      PROVE  u[3] \in Present
  <2>1. CASE pc[u] # "none"
    BY <1>0, <2>1 DEF Stages, Placed
  <2>2. CASE pc[u] = "none"
    <3>1. Birth(u)
      BY <1>0, <1>1, <2>2, Changed DEF Arcs
    <3> QED BY <1>0, <3>1, Born DEF Server
  <2> QED BY <2>1, <2>2
<1>2. \A v \in Ult : pc'[v] # pc[v] => Arcs(v) \/ pc'[v] = "sent"
  BY <1>0, Changed DEF Birth
<1>3. ASSUME NEW o \in Round, NEW r \in Server
      PROVE  /\ pc'[Req(o, r)] \in Waiting \cup {"forward", "waitack", "send"} \cup Settled
             /\ pc'[Req(o, r)] \in Waiting => next'[Req(o, r)] = 0
             /\ pc'[Req(o, r)] \notin Waiting => st'[Req(o, r)] = o
             /\ pc'[Req(o, r)] \in {"send", "waitrsp"} => Count(r) = 0
             /\ next'[Req(o, r)] <= Count(r)
  <2> DEFINE u == Req(o, r)
  <2>0. /\ u \in Ult /\ u[1] = "req" /\ u[2] = o /\ u[3] = r /\ Home(u) = r /\ r # Root
        /\ r \in Present /\ Count(r) \in 0 .. 2
    BY <1>0, ParentOf, Ults, Homes, CountType, Sized DEF Server
  <2>1. /\ pc[u] \in Waiting \cup {"forward", "waitack", "send"} \cup Settled
        /\ pc[u] \in Waiting => next[u] = 0
        /\ pc[u] \notin Waiting => st[u] = o
        /\ pc[u] \in {"send", "waitrsp"} => Count(r) = 0
        /\ next[u] <= Count(r) /\ next[u] \in 0 .. 2
    BY <1>0, <2>0, Sized DEF Stages, Types
  <2> HIDE DEF u
  <2>2. CASE pc'[u] = pc[u] \/ pc'[u] = "sent"
    <3>1. pc'[u] \in Waiting => pc[u] \in Waiting
      BY <1>0, <2>0, Onward
    <3>2. /\ pc'[u] \notin Waiting => pc[u] \notin Waiting /\ pc'[u] = pc[u]
          /\ pc'[u] \in Waiting => ~ ForwardRequest(u)
      BY <2>2, <3>1 DEF Waiting, ForwardRequest
    <3>3. st'[u] = st[u] \/ (u[1] = "req" /\ st'[u] = o)
      BY <1>0, <2>0, OwnFields DEF LookUp
    <3>4. next'[u] = next[u] \/ (ForwardRequest(u) /\ next'[u] = next[u] + 1)
      BY <1>0, <2>0, Loops
    <3>5. next'[u] <= Count(r)
      BY <2>0, <2>1, <3>4 DEF ForwardRequest
    <3> QED BY <2>0, <2>1, <2>2, <3>1, <3>2, <3>3, <3>4, <3>5 DEF Waiting, u
  <2>3. CASE Arcs(u)
    <3>1. /\ pc'[u] \in Waiting \cup {"forward", "waitack", "send"} \cup Settled
          /\ pc'[u] \in {"send", "waitrsp"} => Count(r) = 0
          /\ pc'[u] \in Waiting => pc[u] \in Waiting /\ ~ ForwardRequest(u)
          /\ pc'[u] \notin Waiting => pc[u] \notin Waiting \/ AllocState(u)
      BY <2>0, <2>1, <2>3 DEF Arcs, Waiting, Settled, LeafConcludes, ForwardRequest
    <3>2. st'[u] = st[u] \/ (u[1] = "req" /\ st'[u] = o)
      BY <1>0, <2>0, OwnFields DEF LookUp
    <3>3. AllocState(u) => st'[u] = o
      BY <1>0, <2>0 DEF AllocState, Types
    <3>4. next'[u] = next[u] \/ (ForwardRequest(u) /\ next'[u] = next[u] + 1)
      BY <1>0, <2>0, Loops
    <3>5. next'[u] <= Count(r)
      BY <2>0, <2>1, <3>4 DEF ForwardRequest
    <3> QED BY <2>0, <2>1, <3>1, <3>2, <3>3, <3>4, <3>5 DEF u
  <2> QED BY <1>2, <2>0, <2>2, <2>3 DEF u
<1>4. ASSUME NEW o \in Round, NEW r \in Server
      PROVE  /\ pc'[Rsp(o, r)] \in Waiting \cup {"setmax"} \cup Compared
             /\ pc'[Rsp(o, r)] \notin Waiting => st'[Rsp(o, r)] = o
             /\ pc'[Rsp(o, r)] \in {"send", "waitrsp"} => Parent(r) # Root
             /\ pc'[Rsp(o, r)] = "lock" => Parent(r) = Root
  <2> DEFINE u == Rsp(o, r)
  <2>0. /\ u \in Ult /\ u[1] = "rsp" /\ Home(u) = Parent(r)
        /\ Parent(r) \in Present /\ r \in Kids(Parent(r))
    BY <1>0, ParentOf, Ults, Homes
  <2>1. /\ pc[u] \in Waiting \cup {"setmax"} \cup Compared
        /\ pc[u] \notin Waiting => st[u] = o
        /\ pc[u] \in {"send", "waitrsp"} => Parent(r) # Root
        /\ pc[u] = "lock" => Parent(r) = Root
    BY <1>0 DEF Stages
  <2>2. st'[u] = st[u] \/ (LookUp(u) /\ st'[u] = o)
    <3>1. LookUp(u) => glb_st[Parent(r)] = o
      BY <1>0, <2>0, LooksUpOwn DEF LookUp, Ready
    <3> QED BY <1>0, <2>0, <3>1, OwnFields DEF AllocState
  <2>3. LookUp(u) => st'[u] = o
    <3>1. LookUp(u) => glb_st[Parent(r)] = o
      BY <1>0, <2>0, LooksUpOwn DEF LookUp, Ready
    <3> QED BY <1>0, <2>0, <3>1 DEF LookUp, Types
  <2> HIDE DEF u
  <2>4. CASE pc'[u] = pc[u] \/ pc'[u] = "sent"
    BY <2>1, <2>2, <2>4 DEF Waiting, u
  <2>5. CASE Arcs(u)
    <3>1. /\ pc'[u] \in Waiting \cup {"setmax"} \cup Compared
          /\ pc'[u] \in {"send", "waitrsp"} => Parent(r) # Root
          /\ pc'[u] = "lock" => Parent(r) = Root
          /\ pc'[u] \notin Waiting => pc[u] \notin Waiting \/ LookUp(u)
      BY <2>0, <2>1, <2>5 DEF Arcs, Waiting, Compared
    <3> QED BY <2>1, <2>2, <2>3, <3>1 DEF u
  <2> QED BY <1>2, <2>0, <2>4, <2>5 DEF u
<1> QED BY <1>0, <1>1, <1>3, <1>4, SameTree DEF Stages, Placed
-----------------------------------------------------------------------------
(* Sizes.                                                                  *)

LEMMA ValueKept ==
  ASSUME Types, Next, NEW v \in Ult, pc[v] # "none"
  PROVE  value'[v] = value[v]
<1>1. \A u \in Ult : SendResponse(u) => pc[Rsp(st[u], Home(u))] = "none"
  BY DEF SendResponse, Rsp
<1> QED BY <1>1, OwnFields

\* What a response handler's arrival somewhere says of its step.
LEMMA ResponseArcs ==
  ASSUME Types, Stages, Next, NEW o \in Round, NEW r \in Present, NEW c \in Kids(r),
         pc'[Rsp(o, c)] # pc[Rsp(o, c)], pc'[Rsp(o, c)] # "sent"
  PROVE  /\ Arcs(Rsp(o, c)) /\ Handle(Rsp(o, c)) /\ pc[Rsp(o, c)] \notin {"none", "forward"}
         /\ pc[Rsp(o, c)] \notin Waiting => st[Rsp(o, c)] = o
<1>1. Rsp(o, c) \in Ult /\ c \in Server
  BY UltsOf
<1>2. Arcs(Rsp(o, c)) /\ Handle(Rsp(o, c))
  BY <1>1, Changed DEF Birth
<1>3. pc[Rsp(o, c)] # "forward"
  BY <1>1 DEF Stages, Waiting, Compared
<1> QED BY <1>1, <1>2, <1>3 DEF Arcs, Stages

\* A value that is on its way up is the maximum of the subtree it comes from.
LEMMA ValuesKept ==
  ASSUME Inv, Next, NEW o \in Round, NEW c \in Server, pc'[Rsp(o, c)] # "none"
  PROVE  /\ value'[Rsp(o, c)] \in Present
         /\ <<"max", o>> \notin races => Covers(value'[Rsp(o, c)], c)
<1>0. Types /\ Stages /\ Requested /\ Turns /\ Sizes
  BY DEF Inv
<1>1. /\ Parent(c) \in Present /\ c \in Kids(Parent(c)) /\ c \in Present /\ c \in Rank
      /\ Rsp(o, c) \in Ult /\ Req(o, c) \in Ult /\ c # Root /\ o \in Struct
      /\ Home(Req(o, c)) = c
  BY <1>0, ParentOf, UltsOf, Homes DEF Server
<1>2. CASE pc[Rsp(o, c)] # "none"
  BY <1>0, <1>1, <1>2, ValueKept DEF Sizes, Covered
<1>3. CASE pc[Rsp(o, c)] = "none"
  <2>1. Birth(Rsp(o, c))
    BY <1>0, <1>1, <1>3, Changed DEF Arcs
  <2>2. \/ SendResponse(Req(o, c)) /\ pc[Req(o, c)] = "send"
        \/ \E d \in Kids(c) : SendResponse(Rsp(o, d)) /\ pc[Rsp(o, d)] = "send"
    BY <1>0, <1>1, <2>1, Born, Ults
  <2>3. ASSUME NEW u \in Ult, SendResponse(u), st[u] = o, Home(u) = c
        PROVE  value'[Rsp(o, c)] = filesize[o][c]
    BY <1>0, <1>1, <2>3 DEF SendResponse, Types, Rsp
  <2>4. filesize[o][c] \in Present
    BY <1>0, <1>1 DEF Sizes
  <2>5. CASE SendResponse(Req(o, c)) /\ pc[Req(o, c)] = "send"
    <3>1. st[Req(o, c)] = o
      BY <1>0, <2>5 DEF Stages, Waiting
    <3>2. <<"max", o>> \notin races => Covers(filesize[o][c], c)
      BY <1>0, <2>5 DEF Sizes, Covered
    <3> QED BY <1>1, <2>3, <2>4, <2>5, <3>1, <3>2
  <2>6. ASSUME NEW d \in Kids(c), SendResponse(Rsp(o, d)), pc[Rsp(o, d)] = "send"
        PROVE  /\ value'[Rsp(o, c)] = filesize[o][c]
               /\ <<"max", o>> \notin races => Covers(filesize[o][c], c)
    <3>1. d \in Server /\ Rsp(o, d) \in Ult /\ Home(Rsp(o, d)) = c
      BY <1>0, <1>1, UltsOf, Homes
    <3>2. st[Rsp(o, d)] = o
      BY <1>0, <2>6, <3>1 DEF Stages, Waiting
    <3> QED BY <1>0, <1>1, <2>3, <2>6, <3>1, <3>2 DEF Sizes, Covered
  <2> QED BY <2>2, <2>4, <2>5, <2>6
<1> QED BY <1>2, <1>3

\* The structure's size is at least every value that has been compared with it.
LEMMA ComparedKept ==
  ASSUME Inv, Next, NEW o \in Round, <<"max", o>> \notin races',
         NEW r \in Present, NEW c \in Kids(r),
         pc'[Rsp(o, c)] \in Compared
  PROVE  value'[Rsp(o, c)] <= filesize'[o][r]
<1>0. /\ Types /\ Stages /\ Requested /\ Answered /\ Turns /\ Pointing /\ Sizes
  BY DEF Inv
<1>1. /\ c \in Server /\ Rsp(o, c) \in Ult /\ Home(Rsp(o, c)) = r /\ o \in Struct /\ r \in Rank
      /\ value \in [Ult -> Rank] /\ filesize \in [Struct -> [Rank -> Rank]] /\ Rank \subseteq Nat
  <2>1. Rank \subseteq Nat
    BY DEF Rank, Ranks
  <2> QED BY <1>0, <2>1, UltsOf, Homes DEF Types
<1>2. value[Rsp(o, c)] \in Nat /\ filesize[o][r] \in Nat
  BY <1>1
<1>3. CASE pc[Rsp(o, c)] \in Compared
  <2>1. pc[Rsp(o, c)] # "none"
    BY <1>3 DEF Compared
  <2>2. value[Rsp(o, c)] <= filesize[o][r] /\ value'[Rsp(o, c)] = value[Rsp(o, c)]
    BY <1>0, <1>1, <1>3, <2>1, ValueKept, RacesKept DEF Sizes, Covered
  <2>3. filesize'[o][r] \in Nat /\ filesize[o][r] <= filesize'[o][r]
    <3>1. Allocated(o, r)
      BY <1>0, <2>1, Upward
    <3> QED BY <3>1, HeapKept
  <2> QED BY <1>2, <2>2, <2>3
<1>4. CASE pc[Rsp(o, c)] \notin Compared
  <2>1. /\ Arcs(Rsp(o, c)) /\ pc[Rsp(o, c)] \notin {"none", "forward"}
        /\ pc[Rsp(o, c)] \notin Waiting => st[Rsp(o, c)] = o
    BY <1>0, <1>4, ResponseArcs DEF Compared
  <2>2. \/ /\ LookUp(Rsp(o, c))
           /\ ~ (value[Rsp(o, c)] > filesize[st'[Rsp(o, c)]][Home(Rsp(o, c))])
        \/ SetMax(Rsp(o, c)) /\ pc[Rsp(o, c)] = "setmax"
    BY <1>4, <2>1 DEF Arcs, Compared, AllocState, RequestAcked
  <2>3. CASE /\ LookUp(Rsp(o, c))
             /\ ~ (value[Rsp(o, c)] > filesize[st'[Rsp(o, c)]][Home(Rsp(o, c))])
    <3>1. pc[Rsp(o, c)] \in {"sent", "acked"}
      BY <2>3 DEF LookUp, Ready
    <3>2. st'[Rsp(o, c)] = o
      BY <1>0, <1>1, <2>3, <3>1, LooksUpOwn DEF LookUp, Types
    <3>3. value' = value /\ filesize' = filesize
      BY <2>3 DEF LookUp, heap
    <3> QED BY <1>1, <1>2, <2>3, <3>2, <3>3
  <2>4. CASE SetMax(Rsp(o, c)) /\ pc[Rsp(o, c)] = "setmax"
    <3>1. st[Rsp(o, c)] = o
      BY <2>1, <2>4 DEF Waiting
    <3>2. value' = value /\ filesize'[o][r] = value[Rsp(o, c)]
      BY <1>1, <2>4, <3>1 DEF SetMax
    <3> QED BY <1>2, <3>2
  <2> QED BY <2>2, <2>3, <2>4
<1> QED BY <1>3, <1>4

\* The structure of a rank that responds has the maximum of its subtree.
LEMMA ConcludedKept ==
  ASSUME Inv, Next, ~ ConcludedTwice', NEW o \in Round, <<"max", o>> \notin races',
         NEW r \in Present, NEW c \in Kids(r),
         pc'[Rsp(o, c)] \in {"send", "lock"}
  PROVE  Covers(filesize'[o][r], r)
<1>0. /\ Types /\ Stages /\ Requested /\ Answered /\ Turns /\ Sizes
      /\ Counting /\ LastConcludes
  BY DEF Inv
<1>1. /\ c \in Server /\ Rsp(o, c) \in Ult /\ Home(Rsp(o, c)) = r /\ o \in Struct /\ r \in Rank
      /\ r \in Nat /\ filesize[o][r] \in Nat /\ filesize \in [Struct -> [Rank -> Rank]]
      /\ \A x \in Subtree(r) : x \in Nat
      /\ \A x \in Subtree(r) : x = r \/ \E d \in Kids(r) : x \in Subtree(d)
  BY <1>0, UltsOf, Homes, Sized, SubtreeOf DEF Types, Sizes
<1>2. CASE pc[Rsp(o, c)] \in {"send", "lock"}
  <2>1. Covers(filesize[o][r], r)
    BY <1>0, <1>2, RacesKept DEF Sizes, Covered
  <2>2. filesize'[o][r] \in Nat /\ filesize[o][r] <= filesize'[o][r]
    <3>1. Allocated(o, r)
      BY <1>0, <1>2, Upward
    <3> QED BY <3>1, HeapKept
  <2> QED BY <1>1, <2>1, <2>2 DEF Covers
<1>3. CASE pc[Rsp(o, c)] \notin {"send", "lock"}
  <2>1. /\ Arcs(Rsp(o, c)) /\ pc[Rsp(o, c)] # "forward"
        /\ pc[Rsp(o, c)] \notin Waiting => st[Rsp(o, c)] = o
    BY <1>0, <1>3, ResponseArcs
  <2>2. CheckComplete(Rsp(o, c)) /\ pc[Rsp(o, c)] = "check" /\ st[Rsp(o, c)] = o
    BY <1>3, <2>1 DEF Arcs, Waiting
  <2>3. filesize'[o][r] = IF r > filesize[o][r] THEN r ELSE filesize[o][r]
    BY <1>1, <2>2 DEF CheckComplete, Conclude
  <2>4. ASSUME NEW d \in Kids(r)
        PROVE  /\ value[Rsp(o, d)] \in Nat /\ value[Rsp(o, d)] <= filesize[o][r]
               /\ Covers(value[Rsp(o, d)], d)
    <3>1. d # c => pc[Rsp(o, d)] = "done"
      BY <1>0, <2>2, LastOfAll
    <3>2. pc[Rsp(o, d)] \in Compared /\ pc[Rsp(o, d)] # "none"
      BY <2>2, <3>1 DEF Compared
    <3>3. value[Rsp(o, d)] \in Present
      BY <1>0, <3>2, UltsOf DEF Sizes
    <3> QED BY <1>0, <3>2, <3>3, Sized, RacesKept DEF Sizes, Covered
  <2> SUFFICES ASSUME NEW x \in Subtree(r) PROVE x <= filesize'[o][r]
    BY DEF Covers
  <2>5. CASE x = r
    BY <1>1, <2>3, <2>5
  <2>6. ASSUME NEW d \in Kids(r), x \in Subtree(d) PROVE x <= filesize'[o][r]
    <3>1. x <= value[Rsp(o, d)] /\ x \in Nat
      BY <1>1, <2>4, <2>6 DEF Covers
    <3> QED BY <1>1, <2>3, <2>4, <3>1
  <2> QED BY <1>1, <2>5, <2>6
<1> QED BY <1>2, <1>3

LEMMA LeafConcludedKept ==
  ASSUME Inv, Next, NEW o \in Round, <<"max", o>> \notin races',
         NEW r \in Server, pc'[Req(o, r)] = "send"
  PROVE  Covers(filesize'[o][r], r)
<1>0. Types /\ Stages /\ Sizes
  BY DEF Inv
<1>1. /\ r \in Present /\ r # Root /\ Req(o, r) \in Ult /\ Home(Req(o, r)) = r
      /\ o \in Struct /\ r \in Rank /\ filesize \in [Struct -> [Rank -> Rank]]
      /\ r \in Nat /\ filesize[o][r] \in Nat
      /\ \A x \in Subtree(r) : x \in Nat
      /\ \A x \in Subtree(r) : x = r \/ \E d \in Kids(r) : x \in Subtree(d)
  BY <1>0, UltsOf, Homes, Sized, SubtreeOf DEF Types, Sizes, Server
<1>2. CASE pc[Req(o, r)] = "send"
  <2>1. Covers(filesize[o][r], r)
    BY <1>0, <1>2, RacesKept DEF Sizes, Covered
  <2>2. filesize'[o][r] \in Nat /\ filesize[o][r] <= filesize'[o][r]
    <3>1. Allocated(o, r)
      BY <1>1, <1>2 DEF Allocated, Waiting
    <3> QED BY <1>1, <3>1, HeapKept
  <2> QED BY <1>1, <2>1, <2>2 DEF Covers
<1>3. CASE pc[Req(o, r)] # "send"
  <2>1. Arcs(Req(o, r))
    BY <1>0, <1>1, <1>3, Changed DEF Birth
  <2>2. pc[Req(o, r)] # "check"
    BY <1>0 DEF Stages, Waiting, Settled
  <2>3. LeafConcludes(Req(o, r)) /\ pc[Req(o, r)] = "forward"
    BY <1>3, <2>1, <2>2 DEF Arcs
  <2>4. st[Req(o, r)] = o
    BY <1>0, <2>3 DEF Stages, Waiting
  <2>5. Kids(r) = {}
    BY <1>0, <1>1, <2>3, Leaf, Ults DEF LeafConcludes
  <2>6. filesize'[o][r] = IF r > filesize[o][r] THEN r ELSE filesize[o][r]
    BY <1>1, <2>3, <2>4 DEF LeafConcludes, Conclude
  <2> QED BY <1>1, <2>5, <2>6 DEF Covers
<1> QED BY <1>2, <1>3

\* Where the main thread goes.
LEMMA MainArcs ==
  ASSUME Next
  PROVE  \/ main' = main
         \/ Begin /\ main = "idle" /\ main' = "forward"
         \/ main = "forward" /\ main' \in {"waitack", "wait"}
         \/ main = "waitack" /\ main' = "forward"
         \/ MainTakesResult /\ main = "woken" /\ main' = "idle"
         \/ main = "wait" /\ main' = "woken" /\ \E u \in Ult : Signal(u)
<1>1. CASE \E r \in Present : Program(r)
  BY <1>1 DEF Program, SetupRemoteTarget, RegisterRpcs, ConnectServers, Finalize, Others
<1>2. CASE Main
  BY <1>2 DEF Main, Begin, MainForward, MainAcked, MainWait, MainTakesResult
<1>3. CASE \E u \in Ult : Handle(u)
  BY <1>3
     DEF Handle, Start, AllocState, ForwardRequest, RequestAcked, LeafConcludes, Conclude, Forwarded,
         LookUp, SetMax, Load, Store, CheckComplete, CheckIncomplete, SendResponse, FreeState, Free,
         Signal
<1> QED BY <1>1, <1>2, <1>3 DEF Next, Active

\* The handler that signals is the last one of this round.
LEMMA Signals ==
  ASSUME Inv, NEW u \in Ult, Signal(u)
  PROVE  /\ round \in Round
         /\ \E c \in Kids(Root) : /\ u = Rsp(round, c) /\ pc[u] = "lock" /\ pc'[u] = "done"
                                  /\ \A d \in Kids(Root) : d # c => pc[Rsp(round, d)] = "done"
<1>0. Types /\ Stages /\ Requested /\ Answered /\ Turns /\ LastConcludes /\ Root \in Present
  BY Sized DEF Inv
<1>1. pc[u] = "lock" /\ pc'[u] = "done"
  BY <1>0 DEF Signal, Wake, Step, Types
<1>2. PICK o \in Round, r \in Present :
            \/ r \in Server /\ u = Req(o, r)
            \/ \E c \in Kids(r) : u = Rsp(o, c)
  BY <1>0, <1>1, Actor
<1>3. PICK c \in Kids(r) : u = Rsp(o, c)
  BY <1>0, <1>1, <1>2 DEF Stages, Waiting, Settled
<1>4. c \in Server /\ Parent(c) = r /\ r = Root
  BY <1>0, <1>1, <1>3, UltsOf DEF Stages
<1>5. o = round
  BY <1>0, <1>1, <1>3, <1>4, ThisRound DEF Settled
<1> QED BY <1>0, <1>1, <1>2, <1>3, <1>4, <1>5 DEF LastConcludes, Concluding

LEMMA SizesKept ==
  ASSUME Inv, Next, ~ ConcludedTwice'
  PROVE  Sizes'
<1>0. /\ Types /\ Stages /\ Requested /\ Answered /\ Turns /\ Sizes /\ glb_ranks' = glb_ranks
      /\ Root \in Present /\ Present \subseteq Nat
  BY Loops, Sized DEF Inv
<1>1. ASSUME NEW o \in Round, NEW r \in Present PROVE filesize'[o][r] \in Present
  <2>1. \A c \in Kids(r) : SetMax(Rsp(o, c)) => value[Rsp(o, c)] \in Present
    BY <1>0, UltsOf DEF SetMax, Step, Sizes
  <2>2. filesize[o][r] \in Present /\ 0 \in Present
    BY <1>0 DEF Sizes, Root
  <2> QED BY <1>0, <2>1, <2>2, FieldChanges
<1>2. ASSUME NEW o \in Round, <<"max", o>> \notin races', o = round', main' = "woken"
      PROVE  Covers(filesize'[o][Root], Root)
  <2>1. round' = round
    BY <1>0, <1>2, Loops DEF Begin
  <2>2. Covers(filesize[o][Root], Root)
    <3>0. Covered(o)
      BY <1>0, <1>2, RacesKept DEF Sizes
    <3>1. CASE main = "woken"
      BY <1>2, <2>1, <3>0, <3>1 DEF Covered
    <3>2. CASE main # "woken"
      <4>1. PICK u \in Ult : Signal(u)
        BY <1>2, <3>2, MainArcs
      <4>2. \E c \in Kids(Root) : u = Rsp(o, c) /\ pc[u] = "lock"
        BY <1>2, <2>1, <4>1, Signals
      <4> QED BY <1>0, <3>0, <4>2 DEF Covered
    <3> QED BY <3>1, <3>2
  <2>3. /\ filesize[o][Root] \in Nat /\ filesize'[o][Root] \in Nat
        /\ filesize[o][Root] <= filesize'[o][Root]
    <3>1. Allocated(o, Root)
      BY <1>0, <1>2, <2>1 DEF Allocated, Round
    <3> QED BY <1>0, <1>2, <3>1, HeapKept
  <2>4. \A x \in Subtree(Root) : x \in Nat
    BY <1>0, SubtreeOf
  <2> QED BY <2>2, <2>3, <2>4 DEF Covers
<1>3. ASSUME NEW o \in Round, <<"max", o>> \notin races', NEW r \in Present, NEW c \in Kids(r)
      PROVE  /\ pc'[Rsp(o, c)] # "none" => Covers(value'[Rsp(o, c)], c)
             /\ pc'[Rsp(o, c)] \in Compared => value'[Rsp(o, c)] <= filesize'[o][r]
             /\ pc'[Rsp(o, c)] \in {"send", "lock"} => Covers(filesize'[o][r], r)
  <2>1. c \in Server /\ <<"max", o>> \notin races
    BY <1>0, <1>3, UltsOf, RacesKept
  <2> QED BY <1>3, <2>1, ValuesKept, ComparedKept, ConcludedKept
<1>4. ASSUME NEW o \in Round, <<"max", o>> \notin races', NEW r \in Server, pc'[Req(o, r)] = "send"
      PROVE  Covers(filesize'[o][r], r)
  BY <1>4, LeafConcludedKept
<1>5. ASSUME NEW o \in Round, <<"max", o>> \notin races' PROVE Covered(o)'
  BY <1>0, <1>2, <1>3, <1>4, <1>5, SameTree DEF Covered, Covers
<1>6. \A o \in Round, c \in Server :
         pc'[Rsp(o, c)] # "none" => value'[Rsp(o, c)] \in Present
  BY ValuesKept
<1> QED BY <1>0, <1>1, <1>5, <1>6, SameTree DEF Sizes
-----------------------------------------------------------------------------
(* Structures, and the pointer to them.                                    *)

\* The structure that is freed has done its service.
LEMMA FreesLast ==
  ASSUME Inv, Next, NEW o \in Round, NEW r \in Server, Frees(o, r)
  PROVE  AllDone(o, r)'
<1>0. /\ Types /\ Stages /\ Requested /\ Turns /\ LastConcludes /\ glb_ranks' = glb_ranks
      /\ r \in Present /\ r # Root /\ Req(o, r) \in Ult
      /\ \A c \in Kids(r) : Rsp(o, c) \in Ult
  BY Loops, UltsOf DEF Inv, Server
<1>1. \A u \in Ult : FreeState(u) => pc'[u] = "done"
  BY <1>0 DEF FreeState, Wake, Step, Types
<1>2. CASE FreeState(Req(o, r)) /\ pc[Req(o, r)] = "waitrsp"
  <2>1. Count(r) = 0
    BY <1>0, <1>2 DEF Stages
  <2> QED BY <1>0, <1>1, <1>2, <2>1, SameTree DEF AllDone
<1>3. ASSUME NEW c \in Kids(r), FreeState(Rsp(o, c)), pc[Rsp(o, c)] = "waitrsp"
      PROVE  AllDone(o, r)'
  <2>1. \A d \in Kids(r) : d # c => pc[Rsp(o, d)] = "done"
    BY <1>0, <1>3 DEF LastConcludes, Concluding
  <2>2. \A d \in Kids(r) : pc'[Rsp(o, d)] = "done"
    BY <1>0, <1>1, <1>3, <2>1, Onward
  <2>3. Count(r) # 0
    BY <1>0, KidOf
  <2> QED BY <1>0, <2>2, <2>3, SameTree DEF AllDone
<1> QED BY <1>0, <1>2, <1>3 DEF Frees

LEMMA LivingKept ==
  ASSUME Inv, Next
  PROVE  Living'
<1>0. /\ Types /\ Stages /\ Requested /\ Answered /\ Turns /\ Living /\ glb_ranks' = glb_ranks
      /\ Root \in Present /\ Root \in Rank
      /\ alive \in [Struct -> [Rank -> {"none", "live", "freed"}]]
  BY Loops, Sized DEF Inv, Types
<1>1. ASSUME NEW o \in Round, NEW r \in Server, Allocated(o, r)', ~ AllDone(o, r)'
      PROVE  alive'[o][r] = "live"
  <2>0. /\ r \in Present /\ r # Root /\ Req(o, r) \in Ult /\ o \in Struct /\ r \in Rank
        /\ \A c \in Kids(r) : Rsp(o, c) \in Ult
    BY <1>0, UltsOf DEF Server
  <2>1. CASE Allocated(o, r)
    <3>1. ~ AllDone(o, r)
      <4> SUFFICES ASSUME AllDone(o, r) PROVE AllDone(o, r)'
        BY <1>1
      <4> QED BY <1>0, <2>0, Onward, SameTree DEF AllDone
    <3>2. ~ Allocates(o, r) /\ ~ Frees(o, r)
      BY <1>0, <1>1, <2>0, <2>1, AllocatedOnce, FreesLast
    <3> QED BY <1>0, <2>0, <2>1, <3>1, <3>2, FieldChanges DEF Living
  <2>2. CASE ~ Allocated(o, r)
    <3>1. pc[Req(o, r)] \in Waiting /\ pc'[Req(o, r)] \notin Waiting
      BY <1>1, <2>0, <2>2 DEF Allocated
    <3>2. Arcs(Req(o, r))
      BY <1>0, <2>0, <3>1, Changed DEF Birth, Waiting
    <3>3. AllocState(Req(o, r))
      BY <2>0, <3>1, <3>2, Ults DEF Arcs, Waiting, LookUp
    <3> QED BY <1>0, <2>0, <3>3, Ults DEF AllocState, Alloc
  <2> QED BY <2>1, <2>2
<1>2. ASSUME main' # "idle"
      PROVE  alive'[round'][Root] = "live"
  <2>1. CASE Begin
    <3>1. round' = round + 1 /\ round + 1 \in Struct
      BY <1>0, <2>1, Sized DEF Begin, Turns, Struct
    <3> QED BY <1>0, <2>1, <3>1 DEF Begin, Alloc
  <2>2. CASE ~ Begin
    <3>1. main # "idle" /\ round' = round /\ ~ MainTakesResult
      BY <1>0, <1>2, <2>2, MainArcs, Loops DEF MainTakesResult
    <3>2. round \in Round /\ alive[round][Root] = "live"
      BY <1>0, <3>1 DEF Living, Turns
    <3>3. ~ Frees(round, Root)
      <4> SUFFICES ASSUME NEW c \in Kids(Root), pc[Rsp(round, c)] = "waitrsp"
                   PROVE  FALSE
        BY <3>1 DEF Frees, Server
      <4> QED BY <1>0, <3>2, UltsOf DEF Stages
    <3> QED BY <1>0, <3>1, <3>2, <3>3, FieldChanges
  <2> QED BY <2>1, <2>2
<1> QED BY <1>0, <1>1, <1>2, SameTree DEF Living

\* Who moves glb_st.
LEMMA PointerChanges ==
  ASSUME Types, Stages, Turns, Next, NEW r \in Present
  PROVE  \/ glb_st'[r] = glb_st[r]
         \/ r = Root /\ Begin /\ glb_st'[r] = round'
         \/ r = Root /\ MainTakesResult
         \/ r \in Server /\ \E o \in Round : AllocState(Req(o, r)) /\ glb_st'[r] = o
<1>0. glb_st \in [Rank -> Struct] /\ r \in Rank /\ Root \in Rank
  BY Sized DEF Types
<1>1. CASE \E q \in Present : Program(q)
  BY <1>1 DEF Program, SetupRemoteTarget, RegisterRpcs, ConnectServers, Finalize, Others, heap
<1>2. CASE Main
  BY <1>0, <1>2 DEF Main, Begin, Alloc, MainForward, MainAcked, MainWait, MainTakesResult, heap
<1>3. ASSUME NEW u \in Ult, Handle(u), ~ AllocState(u) PROVE glb_st' = glb_st
  BY <1>3
     DEF Handle, Start, ForwardRequest, RequestAcked, LeafConcludes, Conclude, Forwarded,
         LookUp, SetMax, Load, Store, CheckComplete, CheckIncomplete, SendResponse, FreeState, Free,
         Signal, heap
<1>4. ASSUME NEW u \in Ult, AllocState(u)
      PROVE  glb_st'[r] = glb_st[r]
             \/ (r \in Server /\ \E o \in Round : AllocState(Req(o, r)) /\ glb_st'[r] = o)
  <2>1. u[2] \in Round /\ u[3] \in Rank \ {Root} /\ u = Req(u[2], u[3])
    BY <1>4, Ults DEF AllocState
  <2>2. glb_st' = [glb_st EXCEPT ![u[3]] = u[2]]
    BY <1>4 DEF AllocState, Alloc
  <2>3. CASE r = u[3]
    <3>1. glb_st'[r] = u[2] /\ r \in Server /\ AllocState(Req(u[2], r))
      BY <1>0, <1>4, <2>1, <2>2, <2>3 DEF Server
    <3> QED BY <2>1, <3>1
  <2>4. CASE r # u[3]
    BY <1>0, <2>2, <2>4
  <2> QED BY <2>3, <2>4
<1> QED BY <1>1, <1>2, <1>3, <1>4 DEF Next, Active

LEMMA PointingKept ==
  ASSUME Inv, Next
  PROVE  Pointing'
<1>0. /\ Types /\ Stages /\ Requested /\ Answered /\ Turns /\ Pointing /\ glb_ranks' = glb_ranks
      /\ Root \in Present /\ round \in Nat
  BY Loops, Sized DEF Inv, Types
<1>1. ASSUME NEW r \in Server, round' \in Round, pc'[Req(round', r)] \notin Waiting
      PROVE  glb_st'[r] = round'
  <2>0. r \in Present /\ r # Root /\ Req(round', r) \in Ult
    BY <1>0, <1>1, UltsOf DEF Server
  <2>1. CASE Begin
    <3>1. round' > round /\ pc' = pc
      BY <1>0, <2>1 DEF Begin
    <3>2. pc[Req(round', r)] = "none"
      BY <1>0, <1>1, <3>1, NotBegun
    <3> QED BY <1>1, <3>1, <3>2 DEF Waiting
  <2>2. CASE ~ Begin
    <3>1. round' = round
      BY <1>0, <2>2, Loops
    <3>2. \A o \in Round : AllocState(Req(o, r)) => o = round
      BY <1>0, ThisRequest DEF AllocState, Ready
    <3>3. CASE glb_st'[r] = glb_st[r] /\ pc[Req(round, r)] \notin Waiting
      BY <1>0, <1>1, <2>0, <3>1, <3>3 DEF Pointing, Allocated
    <3>4. CASE glb_st'[r] = glb_st[r] /\ pc[Req(round, r)] \in Waiting
      <4>1. Arcs(Req(round, r))
        BY <1>0, <1>1, <2>0, <3>1, <3>4, Changed DEF Birth, Waiting
      <4>2. AllocState(Req(round, r))
        BY <1>1, <2>0, <3>1, <3>4, <4>1, Ults DEF Arcs, Waiting, LookUp
      <4>3. r \in Rank /\ glb_st \in [Rank -> Struct]
        BY <1>0, <2>0, Sized DEF Types
      <4> QED BY <1>0, <3>1, <4>2, <4>3, Ults DEF AllocState, Alloc
    <3>5. CASE \E o \in Round : AllocState(Req(o, r)) /\ glb_st'[r] = o
      BY <3>1, <3>2, <3>5
    <3> QED BY <1>0, <2>0, <2>2, <3>3, <3>4, <3>5, PointerChanges
  <2> QED BY <2>1, <2>2
<1>2. ASSUME main' # "idle"
      PROVE  glb_st'[Root] = round'
  <2>1. CASE Begin
    <3>1. Root \in Rank /\ glb_st \in [Rank -> Struct]
      BY <1>0, Sized DEF Types
    <3> QED BY <2>1, <3>1 DEF Begin, Alloc
  <2>2. CASE ~ Begin
    <3>1. main # "idle" /\ round' = round /\ ~ MainTakesResult
      BY <1>0, <1>2, <2>2, MainArcs, Loops DEF MainTakesResult
    <3>2. glb_st'[Root] = glb_st[Root]
      BY <1>0, <2>2, <3>1, PointerChanges DEF Server
    <3> QED BY <1>0, <3>1, <3>2 DEF Pointing
  <2> QED BY <2>1, <2>2
<1> QED BY <1>0, <1>1, <1>2, SameTree DEF Pointing, Allocated, Server
-----------------------------------------------------------------------------
(* The main threads.                                                       *)

LEMMA TurnsKept ==
  ASSUME Inv, Next
  PROVE  Turns'
<1>0. /\ Types /\ Stages /\ Requested /\ Answered /\ Turns /\ glb_ranks' = glb_ranks
      /\ times' = times /\ Root \in Present /\ Count(Root) \in Nat /\ mnext \in Nat
      /\ round \in Nat /\ times \in 0 .. Rounds /\ Rounds \in Nat
  BY Loops, Sized, CountType DEF Inv, Types
<1>1. round' \in 0 .. times /\ mnext' <= Count(Root)
  BY <1>0, Loops DEF Turns, Begin, MainForward
<1>2. main' # "idle" => round' \in Round
  <2>1. CASE Begin
    BY <1>0, <2>1 DEF Begin, Turns, Round
  <2>2. CASE ~ Begin
    BY <1>0, <2>2, Loops, MainArcs DEF Turns
  <2> QED BY <2>1, <2>2
<1>3. ASSUME NEW o \in Round, o < round' \/ (o = round' /\ main' \in {"idle", "woken"}),
             NEW c \in Kids(Root)
      PROVE  pc'[Rsp(o, c)] = "done"
  <2>0. Rsp(o, c) \in Ult /\ o \in Nat
    BY <1>0, UltsOf
  <2>1. CASE Begin
    <3>1. o < round \/ (o = round /\ main = "idle")
      BY <1>0, <1>3, <2>0, <2>1 DEF Begin
    <3>2. pc[Rsp(o, c)] = "done"
      BY <1>0, <3>1 DEF Turns
    <3> QED BY <1>0, <2>0, <3>2, Onward
  <2>2. CASE ~ Begin
    <3>1. round' = round
      BY <1>0, <2>2, Loops
    <3>2. CASE o < round \/ (o = round /\ main \in {"idle", "woken"})
      <4>1. pc[Rsp(o, c)] = "done"
        BY <1>0, <3>2 DEF Turns
      <4> QED BY <1>0, <2>0, <4>1, Onward
    <3>3. CASE o = round /\ main \notin {"idle", "woken"}
      <4>1. PICK u \in Ult : Signal(u)
        BY <1>3, <2>0, <3>1, <3>3, MainArcs
      <4>2. PICK d \in Kids(Root) : /\ u = Rsp(round, d) /\ pc'[u] = "done"
                                    /\ \A e \in Kids(Root) : e # d => pc[Rsp(round, e)] = "done"
        BY <4>1, Signals
      <4> QED BY <1>0, <2>0, <3>3, <4>2, Onward
    <3> QED BY <1>3, <3>1, <3>2, <3>3
  <2> QED BY <2>1, <2>2
<1> QED BY <1>0, <1>1, <1>2, <1>3, SameTree DEF Turns

LEMMA PhasesKept ==
  ASSUME Inv, Next
  PROVE  Phases'
<1>0. /\ Types /\ Turns /\ Phases /\ glb_ranks' = glb_ranks /\ times' = times
      /\ Present \subseteq Rank /\ round \in Nat
      /\ phase \in [Rank -> {"setup", "allgather", "registered", "connected", "finalized"}]
  BY Loops, Sized DEF Inv, Types
<1>1. CASE phase' = phase
  <2>1. ReductionsOver => ReductionsOver'
    BY <1>0, MainArcs, Loops DEF ReductionsOver, Begin, Turns
  <2>2. round' > 0 => round > 0 \/ \A r \in Present : phase[r] = "connected"
    BY <1>0, Loops DEF Begin
  <2> QED BY <1>0, <1>1, <2>1, <2>2, SameTree DEF Phases
<1>2. ASSUME NEW q \in Present, Program(q) PROVE Phases'
  <2>1. /\ round' = round /\ main' = main
        /\ \/ phase[q] \in {"setup", "allgather", "registered"}
              /\ \E to \in {"allgather", "registered", "connected"} :
                    phase' = [phase EXCEPT ![q] = to]
           \/ ReductionsOver /\ phase' = [phase EXCEPT ![q] = "finalized"]
    BY <1>2 DEF Program, SetupRemoteTarget, RegisterRpcs, ConnectServers, Finalize, Others, Advance
  <2>2. ReductionsOver' = ReductionsOver
    BY <1>0, <2>1 DEF ReductionsOver
  <2>3. CASE /\ phase[q] \in {"setup", "allgather", "registered"}
             /\ \E to \in {"allgather", "registered", "connected"} :
                   phase' = [phase EXCEPT ![q] = to]
    <3>1. \A r \in Present : phase'[r] = "finalized" => phase[r] = "finalized"
      BY <1>0, <2>3
    <3>2. ~ (round > 0)
      BY <1>0, <2>3 DEF Phases
    <3> QED BY <1>0, <2>1, <2>2, <3>1, <3>2, SameTree DEF Phases
  <2>4. CASE ReductionsOver /\ phase' = [phase EXCEPT ![q] = "finalized"]
    <3>1. \A r \in Present : phase'[r] = phase[r] \/ phase'[r] = "finalized"
      BY <1>0, <2>4
    <3> QED BY <1>0, <2>1, <2>2, <2>4, <3>1, SameTree DEF Phases
  <2> QED BY <2>1, <2>3, <2>4
<1>3. CASE Main
  <2>1. phase' = phase
    BY <1>3 DEF Main, Begin, MainForward, MainAcked, MainWait, MainTakesResult, run
  <2> QED BY <1>1, <2>1
<1>4. CASE \E u \in Ult : Handle(u)
  <2>1. phase' = phase
    BY <1>4
       DEF Handle, Start, AllocState, ForwardRequest, RequestAcked, LeafConcludes, Conclude,
           Forwarded, LookUp, SetMax, Load, Store, CheckComplete, CheckIncomplete, SendResponse,
           FreeState, Free, Signal, run
  <2> QED BY <1>1, <2>1
<1> QED BY <1>2, <1>3, <1>4 DEF Next, Active
-----------------------------------------------------------------------------
(* Types.                                                                  *)

LEMMA ProgramTypes ==
  ASSUME Types, NEW r \in Present, Program(r)
  PROVE  Types'
BY DEF Types, Program, SetupRemoteTarget, RegisterRpcs, ConnectServers, Finalize, Others, Advance, heap

LEMMA MainTypes ==
  ASSUME Types, Main
  PROVE  Types'
<1>0. /\ Types /\ Root \in Rank /\ Root \in Present /\ Count(Root) \in 0 .. Degree
      /\ 0 \in Struct /\ Degree = 2 /\ times \in 0 .. Rounds
      /\ Rounds \in Nat /\ mnext \in Nat /\ round \in 0 .. Rounds
  <2>1. Root \in Rank /\ Root \in Present /\ Degree = 2 /\ times \in 0 .. Rounds /\ Rounds \in Nat
    BY Sized
  <2>2. 0 \in Struct /\ mnext \in Nat /\ round \in 0 .. Rounds
    BY <2>1 DEF Struct, Types
  <2> QED BY <2>1, <2>2, CountType
<1>1. round' \in 0 .. Rounds /\ round' \in Struct
  BY <1>0 DEF Main, Begin, MainForward, MainAcked, MainWait, MainTakesResult, Struct
<1>2. CASE Begin
  <2>1. 0 \in 0 .. Degree /\ 0 \in Rank
    BY <1>0 DEF Root
  <2>2. <<glb_ranks, reply, times>>' \in Runs
    BY <1>0, <1>2 DEF Begin, run, Types
  <2> QED BY <1>0, <1>1, <1>2, <2>1, <2>2 DEF Types, Begin, Alloc, run
<1>3. CASE MainForward
  <2>1. mnext + 1 \in 0 .. Degree
    BY <1>0, <1>3 DEF MainForward
  <2> QED BY <1>0, <1>1, <1>3, <2>1 DEF Types, MainForward, run, heap, Labels, OffStream
<1>4. CASE MainAcked \/ MainWait
  BY <1>0, <1>1, <1>4 DEF Types, MainAcked, MainWait, run, heap
<1>5. CASE MainTakesResult
  BY <1>0, <1>1, <1>5 DEF Types, MainTakesResult, run
<1> QED BY <1>2, <1>3, <1>4, <1>5 DEF Main

LEMMA TwoMoves ==
  ASSUME NEW f \in [Ult -> Labels], NEW x, NEW y, NEW a \in Labels, NEW b \in Labels
  PROVE  [f EXCEPT ![x] = a, ![y] = b] \in [Ult -> Labels]
<1>1. [f EXCEPT ![x] = a] \in [Ult -> Labels]
  OBVIOUS
<1> QED BY <1>1

LEMMA HandleTypes ==
  ASSUME Types, Placed, NEW u \in Ult, Handle(u)
  PROVE  Types'
<1>0. Types /\ Arcs(u) /\ Degree = 2 /\ 0 \in Rank
  BY Handling, Sized DEF Root
<1>1. pc[u] # "none"
  BY <1>0 DEF Arcs
<1>2. u[2] \in Struct /\ u[3] \in Rank /\ u[3] \in Present /\ Count(u[3]) \in 0 .. 2
  <2>1. u[2] \in Round /\ u[3] \in Rank /\ u[3] \in Present
    BY <1>1, Ults DEF Placed
  <2> QED BY <1>0, <2>1, CountType, UltsOf
<1>3. Home(u) \in Rank /\ st[u] \in Struct
  <2>1. u[3] \in Server
    BY <1>2, Ults DEF Server
  <2>2. Home(u) \in Present
    BY <1>2, <2>1, ParentOf DEF Home
  <2> QED BY <2>2, Sized DEF Types
<1>4. CASE Start(u)
  BY <1>0, <1>4 DEF Start, Wake, Step, Types, run, heap, Labels, OffStream
<1>5. CASE AllocState(u)
  BY <1>0, <1>2, <1>3, <1>5 DEF AllocState, Alloc, Types, run, Labels, OffStream
<1>6. CASE ForwardRequest(u)
  <2>1. next[u] + 1 \in 0 .. Degree
    <3>1. next[u] \in 0 .. 2 /\ next[u] < Count(u[3])
      BY <1>0, <1>6 DEF ForwardRequest, Types
    <3> QED BY <1>0, <1>2, <1>3, <3>1
  <2>2. pc' \in [Ult -> Labels]
    <3>1. "sent" \in Labels /\ "waitack" \in Labels
      BY DEF Labels, OffStream
    <3>2. pc' = [pc EXCEPT ![<<"req", u[2], Child(u[3], next[u] + 1)>>] = "sent",
                           ![u] = "waitack"]
      BY <1>6 DEF ForwardRequest
    <3>3. pc \in [Ult -> Labels]
      BY <1>0 DEF Types
    <3> QED BY <3>1, <3>2, <3>3, TwoMoves
  <2>3. next' \in [Ult -> 0 .. Degree]
    BY <1>0, <1>6, <2>1 DEF ForwardRequest, Types
  <2> QED BY <1>0, <1>6, <2>2, <2>3 DEF ForwardRequest, Types, run, heap
<1>7. CASE RequestAcked(u)
  BY <1>0, <1>7 DEF RequestAcked, Wake, Step, Types, run, heap, Labels, OffStream
<1>8. CASE LeafConcludes(u) \/ CheckComplete(u)
  <2>0. Conclude(u) /\ races' \subseteq {"max", "count", "complete"} \X Struct
    BY <1>0, <1>3, <1>8 DEF LeafConcludes, CheckComplete, Note, Types
  <2>1. pc' \in [Ult -> Labels]
    BY <1>0, <2>0 DEF Conclude, Types, Labels, OffStream
  <2>2. filesize' \in [Struct -> [Rank -> Rank]]
    BY <1>0, <1>2, <1>3, <2>0 DEF Conclude, Types
  <2> QED BY <1>0, <2>0, <2>1, <2>2 DEF Conclude, Types, run
<1>9. CASE Forwarded(u)
  BY <1>0, <1>9 DEF Forwarded, Step, Types, run, heap, Labels, OffStream
<1>10. CASE LookUp(u)
  <2>1. st' \in [Ult -> Struct]
    BY <1>0, <1>2, <1>3, <1>10 DEF LookUp, Types
  <2>2. pc' \in [Ult -> Labels]
    BY <1>0, <1>10 DEF LookUp, Types, Labels, OffStream
  <2> QED BY <1>0, <1>10, <2>1, <2>2 DEF LookUp, Types, run, heap
<1>11. CASE SetMax(u)
  <2>1. filesize' \in [Struct -> [Rank -> Rank]]
    BY <1>0, <1>2, <1>3, <1>11 DEF SetMax, Types
  <2>2. races' \subseteq {"max", "count", "complete"} \X Struct
    BY <1>0, <1>3, <1>11 DEF SetMax, Note, Types
  <2> QED BY <1>0, <1>11, <2>1, <2>2 DEF SetMax, Step, Types, run, Labels, OffStream
<1>12. CASE Load(u)
  <2>1. tmp' \in [Ult -> Nat]
    BY <1>0, <1>2, <1>3, <1>12 DEF Load, Types
  <2> QED BY <1>0, <1>12, <2>1 DEF Load, Step, Types, run, heap, Labels, OffStream
<1>13. CASE Store(u)
  <2>1. num_responses' \in [Struct -> [Rank -> Nat]] /\ tmp' \in [Ult -> Nat]
    <3>1. tmp[u] + 1 \in Nat /\ 0 \in Nat
      BY <1>0 DEF Types
    <3> QED BY <1>0, <1>3, <1>13, <3>1 DEF Store, Types
  <2>2. races' \subseteq {"max", "count", "complete"} \X Struct
    BY <1>0, <1>3, <1>13 DEF Store, Note, Types
  <2> QED BY <1>0, <1>13, <2>1, <2>2 DEF Store, Step, Types, run, Labels, OffStream
<1>14. CASE CheckIncomplete(u)
  BY <1>0, <1>14 DEF CheckIncomplete, Step, Types, run, heap, Labels, OffStream
<1>15. CASE SendResponse(u)
  <2>1. pc' \in [Ult -> Labels]
    <3>1. "sent" \in Labels /\ "waitrsp" \in Labels
      BY DEF Labels, OffStream
    <3>2. pc' = [pc EXCEPT ![<<"rsp", st[u], Home(u)>>] = "sent",
                           ![u] = "waitrsp"]
      BY <1>15 DEF SendResponse
    <3>3. pc \in [Ult -> Labels]
      BY <1>0 DEF Types
    <3> QED BY <3>1, <3>2, <3>3, TwoMoves
  <2>2. value' \in [Ult -> Rank]
    <3>1. value' = [value EXCEPT ![<<"rsp", st[u], Home(u)>>] = filesize[st[u]][Home(u)]]
      BY <1>15 DEF SendResponse
    <3>2. filesize[st[u]][Home(u)] \in Rank /\ value \in [Ult -> Rank]
      BY <1>0, <1>2, <1>3 DEF Types
    <3> QED BY <3>1, <3>2
  <2> QED BY <1>0, <1>15, <2>1, <2>2 DEF SendResponse, Types, run, heap
<1>16. CASE FreeState(u)
  <2>1. alive' \in [Struct -> [Rank -> {"none", "live", "freed"}]]
    BY <1>0, <1>2, <1>3, <1>16 DEF FreeState, Free, Types
  <2>2. pc' \in [Ult -> Labels]
    BY <1>0, <1>16 DEF FreeState, Wake, Step, Types, Labels, OffStream
  <2> QED BY <1>0, <1>16, <2>1, <2>2 DEF FreeState, Free, Types, run
<1>17. CASE Signal(u)
  BY <1>0, <1>17 DEF Signal, Wake, Step, Types, run, heap, Labels, OffStream
<1> QED
  BY <1>4, <1>5, <1>6, <1>7, <1>8, <1>9, <1>10, <1>11, <1>12, <1>13, <1>14, <1>15, <1>16, <1>17
     DEF Handle

LEMMA TypesKept ==
  ASSUME Types, Placed, Next
  PROVE  Types'
BY ProgramTypes, MainTypes, HandleTypes DEF Next, Active

\* Requests go to children, responses come from ranks that are there.
LEMMA PlacedKept ==
  ASSUME Types, Placed, Next
  PROVE  Placed'
<1>0. /\ pc \in [Ult -> Labels] /\ next \in [Ult -> 0 .. Degree] /\ mnext \in 0 .. Degree
      /\ Degree = 2 /\ Present' = Present /\ Root \in Present
  BY Sized, Loops, SameTree DEF Types
<1>1. \A u \in Ult : pc[u] # "none" => u[3] \in Present /\ Home(u) \in Present
  <2> SUFFICES ASSUME NEW u \in Ult, pc[u] # "none" PROVE u[3] \in Present /\ Home(u) \in Present
    OBVIOUS
  <2>1. u[3] \in Server
    BY Ults DEF Placed, Server
  <2> QED BY <2>1, ParentOf DEF Home, Server
<1> SUFFICES ASSUME NEW v \in Ult, pc'[v] # "none", pc[v] = "none" PROVE v[3] \in Present
  BY <1>0, <1>1 DEF Placed
<1>2. Birth(v)
  BY Changed DEF Arcs
<1>3. CASE MainForward /\ v = Req(round, Child(Root, mnext + 1))
  <2>1. mnext + 1 \in 1 .. Count(Root)
    BY <1>0, <1>3, CountType DEF MainForward
  <2> QED BY <1>0, <1>3, <2>1, ChildOf, Ults DEF Server
<1>4. ASSUME NEW u \in Ult, ForwardRequest(u), pc[u] = "forward",
             v = Req(u[2], Child(u[3], next[u] + 1))
      PROVE  v[3] \in Present
  <2>1. u[3] \in Present
    BY <1>1, <1>4
  <2>2. next[u] + 1 \in 1 .. Count(u[3])
    BY <1>0, <1>4, <2>1, CountType DEF ForwardRequest
  <2> QED BY <1>4, <2>1, <2>2, ChildOf, Ults DEF Server
<1>5. ASSUME NEW u \in Ult, pc[u] = "send", v = Rsp(st[u], Home(u))
      PROVE  v[3] \in Present
  BY <1>1, <1>5, Ults
<1> QED BY <1>2, <1>3, <1>4, <1>5 DEF Birth
-----------------------------------------------------------------------------
(* The invariant.                                                          *)

LEMMA InitInv ==
  ASSUME Init
  PROVE  IInv
<1>1. Types
  <2>1. <<glb_ranks, reply, times>> \in Runs
    <3>1. PICK x \in Runs : glb_ranks = x[1] /\ reply = x[2] /\ times = x[3]
      BY DEF Init
    <3>2. x \in (2 .. MaxRanks) \X BOOLEAN \X (0 .. Rounds)
      BY FilesizeAssumption
    <3>3. x = <<x[1], x[2], x[3]>>
      BY <3>2
    <3> QED BY <3>1, <3>3
  <2>2. 0 \in 0 .. Rounds /\ 0 \in Struct /\ 0 \in Rank /\ 0 \in 0 .. Degree /\ "none" \in Labels
    <3>1. MaxRanks \in Nat \ {0} /\ Rounds \in Nat
      BY <2>1, FilesizeAssumption
    <3> QED BY <3>1 DEF Struct, Rank, Ranks, Degree, Labels, OffStream
  <2> QED BY <2>1, <2>2 DEF Init, Types
<1>2. /\ \A u \in Ult : pc[u] = "none" /\ next[u] = 0
      /\ round = 0 /\ main = "idle" /\ mnext = 0
      /\ \A o \in Round : o > 0
      /\ \A r \in Present : phase[r] = "setup" /\ r \in Rank
      /\ \A o \in Round, r \in Present : num_responses[o][r] = 0 /\ filesize[o][r] = 0
  <2>1. \A o \in Round : o > 0 /\ o \in Struct
    BY <1>1, Sized DEF Round, Struct
  <2>2. \A r \in Present : r \in Rank
    BY <1>1, Sized
  <2> QED BY <2>1, <2>2 DEF Init
<1>3. /\ \A o \in Round, r \in Server : /\ Req(o, r) \in Ult /\ Rsp(o, r) \in Ult
                                        /\ r # Root /\ Count(r) \in 0 .. 2
      /\ \A o \in Round, r \in Present : \A c \in Kids(r) : Rsp(o, c) \in Ult /\ c \in Server
      /\ \A o \in Round, r \in Present : \A i \in 1 .. Count(r) : Req(o, Child(r, i)) \in Ult
      /\ Count(Root) \in 0 .. 2
      /\ Root \in Present /\ 0 \in Present /\ times \in 0 .. Rounds
  <2>1. ASSUME NEW o \in Round, NEW r \in Present
        PROVE  \A i \in 1 .. Count(r) : Req(o, Child(r, i)) \in Ult
    BY <1>1, ChildOf, UltsOf
  <2> QED BY <1>1, <2>1, UltsOf, CountType, Sized DEF Server, Root
<1>4. Stages
  BY <1>2, <1>3 DEF Stages, Placed, Waiting
<1>6. Requested /\ Answered /\ LastConcludes
  BY <1>2, <1>3 DEF Requested, Answered, LastConcludes, Concluding
<1>7. Counting
  <2>1. \A o \in Round, r \in Present : Counted(o, r) = {}
    BY <1>2, <1>3 DEF Counted, HasCounted
  <2>2. Cardinality({}) = 0
    BY FS_EmptySet
  <2> QED BY <1>2, <1>3, <2>1, <2>2 DEF Counting
<1>8. Sizes
  BY <1>2, <1>3, UltsOf, <1>1 DEF Sizes, Covered, Compared
<1>9. Living /\ Pointing
  BY <1>2, <1>3 DEF Living, Pointing, Allocated, Waiting
<1>10. Turns
  <2>1. \A o \in Round : ~ (o < 0) /\ o # 0
    BY <1>2 DEF Round
  <2>2. 0 \in 0 .. times
    BY <1>3
  <2> QED BY <1>2, <1>3, <2>1, <2>2 DEF Turns
<1>11. Phases
  BY <1>2 DEF Phases
<1> QED BY <1>1, <1>4, <1>6, <1>7, <1>8, <1>9, <1>10, <1>11 DEF Inv, IInv, Stages

LEMMA Stutter ==
  ASSUME IInv, UNCHANGED vars
  PROVE  IInv'
<1>0. /\ UNCHANGED <<glb_ranks, reply, times, phase, round, main, glb_st, alive, num_responses>>
      /\ UNCHANGED <<filesize, pc, next, mnext, st, tmp, value, races>>
  BY DEF vars, run, heap
<1>1. /\ \A u : Home(u)' = Home(u) /\ HasCounted(u)' = HasCounted(u)
      /\ \A o, r : Allocated(o, r)' = Allocated(o, r) /\ AllDone(o, r)' = AllDone(o, r)
      /\ \A o, r : Counted(o, r)' = Counted(o, r)
      /\ \A o, r, i : SentTo(o, r, i)' = SentTo(o, r, i)
      /\ ReductionsOver' = ReductionsOver
  <2>1. \A u : Home(u)' = Home(u) /\ HasCounted(u)' = HasCounted(u)
    BY <1>0, SameTree DEF HasCounted
  <2>2. \A o, r : Allocated(o, r)' = Allocated(o, r)
    BY <1>0 DEF Allocated
  <2>3. \A o, r : AllDone(o, r)' = AllDone(o, r)
    <3> SUFFICES ASSUME NEW o, NEW r PROVE AllDone(o, r)' = AllDone(o, r)
      OBVIOUS
    <3>1. Count(r)' = Count(r) /\ Kids(r)' = Kids(r) /\ pc' = pc
      BY <1>0, SameTree
    <3> QED BY <3>1 DEF AllDone
  <2>4. \A o, r : Counted(o, r)' = Counted(o, r)
    BY <1>0, <2>1, SameTree DEF Counted
  <2>5. \A o, r, i : SentTo(o, r, i)' = SentTo(o, r, i)
    BY <1>0 DEF SentTo
  <2> QED BY <1>0, <2>1, <2>2, <2>3, <2>4, <2>5 DEF ReductionsOver
<1>2. Types' /\ Placed' /\ ConcludedTwice' = ConcludedTwice
  BY <1>0, SameTree DEF IInv, Types, Placed, ConcludedTwice
<1> SUFFICES ASSUME Inv PROVE Inv'
  BY <1>2 DEF IInv
<1>3. Stages'
  BY <1>0, <1>1, <1>2, SameTree DEF Inv, Stages
<1>4. Requested' /\ Answered' /\ LastConcludes'
  BY <1>0, <1>1, SameTree DEF Inv, Requested, Answered, LastConcludes
<1>5. Counting'
  BY <1>0, <1>1, SameTree DEF Inv, Counting
<1>6. Sizes'
  <2>1. \A o : Covered(o)' = Covered(o)
    BY <1>0, SameTree DEF Covered, Covers
  <2> QED BY <1>0, <2>1, SameTree DEF Inv, Sizes
<1>7. Living' /\ Pointing'
  BY <1>0, <1>1, SameTree DEF Inv, Living, Pointing, Allocated
<1>8. Turns' /\ Phases'
  BY <1>0, <1>1, SameTree DEF Inv, Turns, Phases
<1> QED BY <1>2, <1>3, <1>4, <1>5, <1>6, <1>7, <1>8 DEF Inv

(***************************************************************************)
(* The invariant, for any number of streams: types, and what holds of the  *)
(* ULTs and the structures until two handlers conclude one reduction.      *)
(***************************************************************************)
THEOREM Invariance == Spec => []IInv
<1>1. Init => IInv
  BY InitInv
<1>2. IInv /\ [Next]_vars => IInv'
  <2>1. ASSUME IInv, Next PROVE IInv'
    <3>1. Types /\ Placed /\ Types' /\ Placed'
      BY <2>1, TypesKept, PlacedKept DEF IInv
    <3>2. CASE ConcludedTwice \/ ConcludedTwice'
      BY <2>1, <3>1, <3>2, RacesKept DEF IInv
    <3>3. CASE Inv /\ ~ ConcludedTwice'
      BY <2>1, <3>1, <3>3, StagesKept, RequestedKept, AnsweredKept, LastConcludesKept,
         CountingKept, SizesKept, LivingKept, PointingKept, TurnsKept, PhasesKept
         DEF Inv, IInv
    <3> QED BY <2>1, <3>2, <3>3 DEF IInv
  <2> QED BY <2>1, Stutter
<1> QED BY <1>1, <1>2, PTL DEF Spec
-----------------------------------------------------------------------------
(* The properties.                                                         *)

(***************************************************************************)
(* Every variable keeps its type: the loops of main and of                 *)
(* filesize_request_rpc stop at the number of children, sizes are sizes of *)
(* ranks; and whatever increments of num_responses are lost, it never      *)
(* exceeds the number of children before a reduction is concluded twice.   *)
(***************************************************************************)
THEOREM TypeCorrect == Spec => []TypeOK
<1>1. ASSUME Inv, NEW o \in Round, NEW r \in Present PROVE num_responses[o][r] <= Count(r)
  <2>1. Types /\ num_responses[o][r] <= Cardinality(Counted(o, r))
    BY <1>1 DEF Inv, Counting
  <2>2. num_responses[o][r] \in Nat /\ Count(r) \in Nat
    BY <2>1, UltsOf, CountType, Sized DEF Types
  <2> QED BY <2>1, <2>2, CountedFinite
<1>2. IInv => TypeOK
  BY <1>1 DEF IInv, TypeOK
<1> QED BY <1>2, Invariance, PTL

(***************************************************************************)
(* Rank 0 reads the maximum of all sizes when it is woken (main after      *)
(* ABT_cond_wait), unless in this reduction a handler of some rank has     *)
(* overwritten a larger size, or two have concluded a reduction.           *)
(***************************************************************************)
THEOREM ResultIsRight == Spec => []ResultIsMax
<1>1. ASSUME Inv, main = "woken", <<"max", round>> \notin races
      PROVE  filesize[round][Root] = glb_ranks - 1
  <2>1. Types /\ Sizes /\ Turns
    BY <1>1 DEF Inv
  <2>2. filesize[round][Root] \in Present /\ Covers(filesize[round][Root], Root)
    BY <1>1, <2>1, Sized DEF Sizes, Covered, Turns
  <2>3. glb_ranks - 1 \in Present /\ Subtree(Root) = Present
    BY <2>1, Sized, SubtreeOf DEF Ranks
  <2>4. glb_ranks - 1 <= filesize[round][Root]
    BY <2>2, <2>3 DEF Covers
  <2> QED BY <2>1, <2>2, <2>4, Sized DEF Ranks
<1>2. IInv => ResultIsMax
  BY <1>1 DEF IInv, ResultIsMax
<1> QED BY <1>2, Invariance, PTL

\* Whose children have all responded has forwarded to all of them.
LEMMA AllForwarded ==
  ASSUME Inv, NEW o \in Round, NEW r \in Server, Count(r) > 0,
         \A c \in Kids(r) : pc[Rsp(o, c)] # "none"
  PROVE  next[Req(o, r)] = Count(r)
<1>0. Types /\ Stages /\ Requested /\ Answered
  BY DEF Inv
<1>1. r \in Present /\ r # Root /\ Req(o, r) \in Ult
  BY <1>0, UltsOf DEF Server
<1>2. Count(r) \in 1 .. Count(r) /\ Count(r) \in 0 .. 2 /\ next[Req(o, r)] \in 0 .. 2
  <2>1. Count(r) \in 0 .. 2 /\ Degree = 2
    BY <1>0, <1>1, CountType, Sized
  <2>2. next[Req(o, r)] \in 0 .. Degree
    BY <1>0, <1>1 DEF Types
  <2> QED BY <2>1, <2>2
<1>3. Child(r, Count(r)) \in Kids(r)
  BY <1>0, <1>1, <1>2, ChildOf
<1>4. pc[Req(o, Child(r, Count(r)))] # "none"
  BY <1>0, <1>1, <1>3, Upward
<1>5. Count(r) <= next[Req(o, r)]
  BY <1>0, <1>1, <1>2, <1>4 DEF Requested, SentTo
<1>6. next[Req(o, r)] <= Count(r)
  BY <1>0 DEF Stages
<1> QED BY <1>2, <1>5, <1>6

(***************************************************************************)
(* No ULT works on a structure that has been freed or was not allocated    *)
(* (state_filesize_free in filesize_response_forward), though glb_st moves *)
(* on to the next reduction while responses still wait for their ack,      *)
(* until two handlers conclude one reduction.                              *)
(***************************************************************************)
THEOREM StructuresLive == Spec => []NoUseAfterFree
<1>1. ASSUME Inv, NEW u \in Ult,
             \/ pc[u] \in {"setmax", "load", "store", "check", "send", "waitrsp"}
             \/ u[1] = "req" /\ pc[u] \in {"forward", "waitack"} /\ next[u] < Count(u[3])
      PROVE  st[u] # 0 /\ alive[st[u]][Home(u)] = "live"
  <2>0. Types /\ Stages /\ Requested /\ Answered /\ Turns /\ Living
    BY <1>1 DEF Inv
  <2>1. pc[u] \notin Waiting /\ pc[u] # "done"
    BY <1>1 DEF Waiting
  <2>2. PICK o \in Round, r \in Present :
              /\ \/ r \in Server /\ u = Req(o, r)
                 \/ \E c \in Kids(r) : u = Rsp(o, c)
              /\ Home(u) = r
              /\ st[u] = o
    BY <2>0, <2>1, Actor DEF Waiting
  <2>3. o # 0
    BY DEF Round
  <2>4. CASE r \in Server /\ u = Req(o, r)
    <3>1. Allocated(o, r) /\ u[1] = "req" /\ u[3] = r
      BY <2>1, <2>4, Ults DEF Allocated, Server
    <3>2. ~ AllDone(o, r)
      <4>1. CASE Count(r) = 0
        BY <2>1, <2>4, <4>1 DEF AllDone
      <4>2. CASE Count(r) # 0
        <5>1. pc[u] \notin {"setmax", "load", "store", "check", "send", "waitrsp"}
          BY <2>0, <2>4, <4>2 DEF Stages, Waiting, Settled
        <5>2. next[u] < Count(r) /\ Count(r) \in 0 .. 2 /\ next[u] \in 0 .. 2
          BY <1>1, <2>0, <3>1, <5>1, CountType, Sized DEF Types
        <5>3. (\A c \in Kids(r) : pc[Rsp(o, c)] # "none") => next[u] = Count(r)
          BY <1>1, <2>4, <4>2, <5>2, AllForwarded
        <5> QED BY <4>2, <5>2, <5>3 DEF AllDone
      <4> QED BY <4>1, <4>2
    <3> QED BY <2>0, <2>2, <2>3, <2>4, <3>1, <3>2 DEF Living
  <2>5. ASSUME NEW c \in Kids(r), u = Rsp(o, c)
        PROVE  alive[o][r] = "live"
    <3>1. c \in Server /\ Parent(c) = r /\ Allocated(o, r) /\ Count(r) # 0
      BY <2>0, <2>1, <2>5, UltsOf, KidOf, Upward DEF Waiting
    <3>2. CASE r = Root
      <4>1. pc[u] \notin {"send", "waitrsp"}
        BY <2>0, <2>5, <3>1, <3>2 DEF Stages
      <4>2. o = round /\ main # "idle"
        BY <2>0, <2>1, <2>5, <3>1, <4>1, ThisRound DEF Settled, Waiting
      <4> QED BY <2>0, <3>2, <4>2 DEF Living
    <3>3. CASE r # Root
      <4>1. r \in Server /\ ~ AllDone(o, r)
        BY <2>1, <2>5, <3>1, <3>3 DEF Server, AllDone
      <4> QED BY <2>0, <3>1, <4>1 DEF Living
    <3> QED BY <3>2, <3>3
  <2> QED BY <2>2, <2>3, <2>4, <2>5
<1>2. IInv => NoUseAfterFree
  BY <1>1 DEF IInv, NoUseAfterFree
<1> QED BY <1>2, Invariance, PTL

(***************************************************************************)
(* A rank sends a size to its parent once per reduction                    *)
(* (filesize_response_forward), whatever increments and sizes its handlers *)
(* lose, until two of them conclude one reduction.                         *)
(***************************************************************************)
THEOREM OneResponse == Spec => []ForwardsOnce
<1>1. ASSUME Inv, NEW u \in Ult, pc[u] = "send"
      PROVE  pc[Rsp(st[u], Home(u))] = "none"
  <2>0. Types /\ Stages /\ Answered
    BY <1>1 DEF Inv
  <2>1. PICK o \in Round, r \in Present :
              /\ \/ r \in Server /\ u = Req(o, r)
                 \/ \E c \in Kids(r) : u = Rsp(o, c)
              /\ Home(u) = r
              /\ st[u] = o
    BY <1>1, <2>0, Actor DEF Waiting
  <2>2. CASE r \in Server /\ u = Req(o, r)
    <3>1. Count(r) = 0
      BY <1>1, <2>0, <2>2 DEF Stages
    <3> QED BY <1>1, <2>0, <2>1, <2>2, <3>1 DEF Answered, Settled
  <2>3. ASSUME NEW c \in Kids(r), u = Rsp(o, c) PROVE pc[Rsp(o, r)] = "none"
    <3>1. c \in Server /\ Parent(c) = r
      BY <2>0, UltsOf
    <3>2. r \in Server
      BY <1>1, <2>0, <2>3, <3>1 DEF Stages, Server
    <3> QED BY <1>1, <2>0, <2>3, <3>2 DEF Answered, Settled
  <2> QED BY <2>1, <2>2, <2>3
<1>2. IInv => ForwardsOnce
  BY <1>1 DEF IInv, ForwardsOnce, Rsp
<1> QED BY <1>2, Invariance, PTL

(***************************************************************************)
(* A server that leaves the last barrier and finalises Margo (main) has    *)
(* nothing left to do for a reduction, though only rank 0 knows that they  *)
(* are over; what is under way reaches servers that are still there; until *)
(* two handlers conclude one reduction.                                    *)
(***************************************************************************)
THEOREM EndIsQuiet == Spec => []NothingLeftAtTheEnd
<1>1. ASSUME Inv, NEW u \in Ult, pc[u] = "sent"
      PROVE  phase[Home(u)] = "connected"
  <2>0. Types /\ Stages /\ Requested /\ Answered /\ Turns /\ Phases
    BY <1>1 DEF Inv
  <2>1. u[2] \in Round /\ u[3] \in Server /\ Home(u) \in Present
    <3>1. u[2] \in Round /\ u[3] \in Rank \ {Root} /\ u[3] \in Present
      BY <1>1, <2>0, Ults DEF Stages, Placed
    <3> QED BY <1>1, <2>0, <3>1, Actor DEF Server
  <2>2. main # "idle"
    <3>1. CASE u = Req(u[2], u[3])
      BY <1>1, <2>0, <2>1, <3>1, ThisRequest
    <3>2. CASE u = Rsp(u[2], u[3])
      BY <1>1, <2>0, <2>1, <3>2, ThisRound DEF Settled
    <3> QED BY <3>1, <3>2, Ults
  <2>3. round > 0
    BY <2>0, <2>2, Sized DEF Turns, Round
  <2> QED BY <2>0, <2>1, <2>2, <2>3 DEF Phases, ReductionsOver
<1>2. ASSUME Inv, NEW u \in Ult, u[2] <= times, u[3] < glb_ranks, phase[Home(u)] = "finalized"
      PROVE  \/ pc[u] \in {"done", "waitrsp"}
             \/ pc[u] \in {"forward", "waitack"} /\ next[u] = Count(u[3]) /\ next[u] > 0
  <2>0. Types /\ Stages /\ Requested /\ Answered /\ Turns /\ Phases
    BY <1>2 DEF Inv
  <2> DEFINE o == u[2]
             r == u[3]
  <2>1. o \in Round /\ r \in Server /\ r \in Present
    <3>1. o \in Round /\ r \in Rank \ {Root}
      BY Ults
    <3>2. r \in Present
      BY <1>2, <2>0, <3>1, Sized, FilesizeAssumption DEF Rank, Ranks
    <3> QED BY <3>1, <3>2 DEF Server
  <2>2. Home(u) \in Present
    BY <2>0, <2>1, ParentOf DEF Home
  <2>3. main = "idle" /\ round = times
    BY <1>2, <2>0, <2>2 DEF Phases, ReductionsOver
  <2> HIDE DEF o, r
  <2>4. \A c \in Server : pc[Rsp(o, c)] \in Settled
    <3>1. o < round \/ o = round
      BY <1>2, <2>0, <2>1, <2>3, Sized DEF o, Round
    <3> QED BY <2>0, <2>1, <2>3, <3>1, OverIsSettled
  <2>5. CASE u = Rsp(o, r)
    BY <2>1, <2>4, <2>5 DEF Settled
  <2>6. CASE u = Req(o, r)
    <3>1. pc[Rsp(o, r)] # "none"
      BY <2>1, <2>4 DEF Settled
    <3>2. /\ pc[u] \notin Waiting
          /\ Count(r) = 0 => pc[u] \in Settled
      BY <2>0, <2>1, <2>6, <3>1 DEF Answered, Allocated, Server
    <3>3. /\ pc[u] \in {"forward", "waitack", "send"} \cup Settled
          /\ pc[u] = "send" => Count(r) = 0
      BY <2>0, <2>1, <2>6, <3>2 DEF Stages
    <3>4. CASE Count(r) = 0
      BY <3>2, <3>4 DEF Settled
    <3>5. CASE Count(r) # 0
      <4>1. Count(r) > 0
        BY <2>0, <2>1, <3>5, CountType, Sized
      <4>2. \A c \in Kids(r) : pc[Rsp(o, c)] # "none"
        BY <2>0, <2>1, <2>4, UltsOf DEF Settled
      <4>3. next[u] = Count(r)
        BY <1>2, <2>1, <2>6, <4>1, <4>2, AllForwarded
      <4> QED BY <3>3, <3>5, <4>1, <4>3 DEF Settled, r
    <3> QED BY <3>4, <3>5
  <2> QED BY <2>5, <2>6, Ults DEF o, r
<1>3. IInv => NothingLeftAtTheEnd
  BY <1>1, <1>2 DEF IInv, NothingLeftAtTheEnd
<1> QED BY <1>3, Invariance, PTL
=============================================================================
