------------------------------ MODULE Filesize ------------------------------
(***************************************************************************)
(* The maximum-of-file-sizes reduction of server/src/margotree.c.          *)
(*                                                                         *)
(* Rank 0 runs one reduction after the other.  A request goes down the     *)
(* tree; a leaf sends its size up at once, every other rank when it has    *)
(* the responses of all its children.  Unlike the sum of SumBroadcast,     *)
(* request and response are separate RPCs, acknowledged (reply = 1) before *)
(* they are acted upon, and what a rank knows of a reduction is kept in a  *)
(* heap structure that the global glb_st points to.  The responses of the  *)
(* children are handled by ULTs of their own; on the four execution        *)
(* streams the code asks for they run at the same time and update the      *)
(* structure without any lock.  Three races follow: a larger size is       *)
(* overwritten ("max"), an increment is lost ("count"), two handlers find  *)
(* all responses there ("complete").  The history variable `races' notes   *)
(* where one went wrong, and the properties say what holds while none did: *)
(* nothing else is needed for a right result.                              *)
(*                                                                         *)
(* The size of rank r is r * 100 in the code, r here.  A structure is      *)
(* named by the reduction and the rank it was allocated for.               *)
(***************************************************************************)
EXTENDS RpcTree

CONSTANTS
    MaxRanks, \* bound on the number of ranks
    Rounds,   \* bound on the number of reductions (101 in the code)
    Streams,  \* execution streams per server
    Runs      \* number of ranks, value of `reply' and number of reductions of a run

ASSUME FilesizeAssumption ==
    /\ MaxRanks \in Nat /\ Rounds \in Nat /\ Streams \in Nat \ {0}
    /\ Runs \subseteq (2 .. MaxRanks) \X BOOLEAN \X (0 .. Rounds)

Degree == 2
Root   == 0     \* int root = 0 in main
Rank   == Ranks(MaxRanks)
Round  == 1 .. Rounds
Struct == 0 .. Rounds   \* 0 is the null pointer

\* tree_t of each rank, by the number of ranks
Tree == [n \in 2 .. MaxRanks |-> [r \in Ranks(n) |->
            [parent_rank |-> ParentRank(r, n, Root, Degree),
             child_count |-> ChildCount(r, n, Root, Degree),
             child_ranks |-> [i \in 1 .. ChildCount(r, n, Root, Degree) |->
                                 ChildRank(r, n, Root, Degree, i)]]]]

\* <<"req", o, r>> handles the request of round o at rank r, <<"rsp", o, r>>
\* the response of rank r at its parent.
Ult == {"req", "rsp"} \X Round \X (Rank \ {Root})

VARIABLES
    glb_ranks, \* number of ranks of this run
    reply,   \* st->reply: whether RPCs are acknowledged
    times,   \* reductions of this run
    phase,   \* phase[r]: how far the main thread of rank r has come in main
    round,   \* the reduction the main thread of rank 0 is at
    main,    \* where the main thread is
    glb_st,  \* glb_st[r]: the round of the structure it points to, 0 for none
    alive,   \* alive[o][r]: "none", "live" or "freed"
    num_responses, filesize,    \* fields of the structure
    pc,      \* where each ULT is
    next,    \* next[u]: children a request ULT has forwarded to;
    mnext,   \*   the same for the main thread
    st,      \* st[u]: the structure u works on, by its round
    tmp,     \* tmp[u]: num_responses as u has loaded it to increment it, then 0
    value,   \* value[u]: in.filesize of the response u handles
    races    \* history variable: the races that went wrong, with the round

run  == <<glb_ranks, reply, times, phase>>
heap == <<glb_st, alive, num_responses, filesize>>
vars == <<run, round, main, heap, pc, next, mnext, st, tmp, value, races>>

Count(r)    == Tree[glb_ranks][r].child_count
Child(r, i) == Tree[glb_ranks][r].child_ranks[i]
Parent(r)   == Tree[glb_ranks][r].parent_rank
Present     == Ranks(glb_ranks)

Home(u) == IF u[1] = "req" THEN u[3] ELSE Parent(u[3])

OffStream == {"none", "sent", "acked", "waitack", "waitrsp", "lock", "done"}

\* A ULT takes an ES to start or to go on after it has waited.
FreeStream(r) == Cardinality({ u \in Ult : pc[u] \notin OffStream /\ Home(u) = r }) < Streams

Init ==
    /\ \E x \in Runs : glb_ranks = x[1] /\ reply = x[2] /\ times = x[3]
    /\ phase = [r \in Rank |-> "setup"]
    /\ round = 0 /\ main = "idle" /\ mnext = 0
    /\ glb_st = [r \in Rank |-> 0]
    /\ alive = [o \in Struct |-> [r \in Rank |-> "none"]]
    /\ num_responses = [o \in Struct |-> [r \in Rank |-> 0]]
    /\ filesize = [o \in Struct |-> [r \in Rank |-> 0]]
    /\ pc = [u \in Ult |-> "none"]
    /\ next = [u \in Ult |-> 0]
    /\ st = [u \in Ult |-> 0]
    /\ tmp = [u \in Ult |-> 0]
    /\ value = [u \in Ult |-> 0]
    /\ races = {}

\* Mutant: keeps the structure of the round before, its counter and its size.
AllocReuses(o, r) ==
    /\ glb_st' = [glb_st EXCEPT ![r] = o]
    /\ alive' = [alive EXCEPT ![o][r] = "live"]
    /\ num_responses' = [num_responses EXCEPT ![o][r] = IF o > 1 THEN num_responses[o - 1][r] ELSE 0]
    /\ filesize' = [filesize EXCEPT ![o][r] = IF o > 1 THEN filesize[o - 1][r] ELSE 0]

\* state_filesize_alloc, its result assigned to glb_st
Alloc(o, r) ==
    /\ glb_st' = [glb_st EXCEPT ![r] = o]
    /\ alive' = [alive EXCEPT ![o][r] = "live"]
    /\ num_responses' = [num_responses EXCEPT ![o][r] = 0]
    /\ filesize' = [filesize EXCEPT ![o][r] = 0]

-----------------------------------------------------------------------------
(* The main threads before the first and after the last reduction.         *)

Advance(r, from, to) == phase[r] = from /\ phase' = [phase EXCEPT ![r] = to]

Others == <<glb_ranks, reply, times, round, main, heap, pc, next, mnext, st, tmp, value, races>>

\* setup_remote_target: the server has its address and enters MPI_Allgather.
SetupRemoteTarget(r) ==
    /\ Advance(r, "setup", "allgather")
    /\ UNCHANGED Others

\* Everybody's address is there: the RPCs are registered, then a barrier.
RegisterRpcs(r) ==
    /\ \A q \in Present : phase[q] # "setup"
    /\ Advance(r, "allgather", "registered")
    /\ UNCHANGED Others

\* margo_connect_servers between its two barriers
ConnectServers(r) ==
    /\ \A q \in Present : phase[q] \notin {"setup", "allgather"}
    /\ Advance(r, "registered", "connected")
    /\ UNCHANGED Others

\* Mutant: rank 0 comes to the last barrier without its last reduction.
ReductionsOverEarly == main = "wait" /\ round = times

\* Rank 0 enters the last barrier after its last reduction, where the others,
\* who take no other part in main's loops, have been waiting.
ReductionsOver == main = "idle" /\ round = times

\* margo_finalize.  What it does with ULTs that still wait for an ack is
\* Margo's; here they go on.
Finalize(r) ==
    /\ ReductionsOver
    /\ Advance(r, "connected", "finalized")
    /\ UNCHANGED Others

Program(r) == SetupRemoteTarget(r) \/ RegisterRpcs(r) \/ ConnectServers(r) \/ Finalize(r)
-----------------------------------------------------------------------------
(* The main thread of rank 0.                                              *)

\* Mutant: the mutex is not locked before the requests go out.
HoldsNoMutex == FALSE

\* The main thread holds st->mutex from before the first request until it
\* waits on st->cond.
HoldsMutex == main \in {"forward", "waitack"}

Begin ==
    /\ main = "idle" /\ round < times
    /\ \A r \in Present : phase[r] = "connected"
    /\ round' = round + 1
    /\ Alloc(round', Root)
    /\ main' = "forward" /\ mnext' = 0
    /\ UNCHANGED <<run, pc, next, st, tmp, value, races>>

\* rpc_invoke_filesize_request: margo_forward waits for the ack with reply, and
\* for the request to be sent without.
MainForward ==
    /\ main = "forward" /\ mnext < Count(Root)
    /\ pc' = [pc EXCEPT ![<<"req", round, Child(Root, mnext + 1)>>] = "sent"]
    /\ mnext' = mnext + 1
    /\ main' = "waitack"
    /\ UNCHANGED <<run, round, heap, next, st, tmp, value, races>>

MainAcked ==
    /\ main = "waitack"
    /\ reply => pc[<<"req", round, Child(Root, mnext)>>] # "sent"
    /\ main' = "forward"
    /\ UNCHANGED <<run, round, heap, pc, next, mnext, st, tmp, value, races>>

\* ABT_cond_wait, which releases the mutex
MainWait ==
    /\ main = "forward" /\ mnext = Count(Root)
    /\ main' = "wait"
    /\ UNCHANGED <<run, round, heap, pc, next, mnext, st, tmp, value, races>>

\* Awake: the result is read, and state_filesize_free(&glb_st) resets glb_st.
MainTakesResult ==
    /\ main = "woken"
    /\ main' = "idle"
    /\ alive' = [alive EXCEPT ![glb_st[Root]][Root] = "freed"]
    /\ glb_st' = [glb_st EXCEPT ![Root] = 0]
    /\ UNCHANGED <<run, round, num_responses, filesize, pc, next, mnext, st, tmp, value, races>>

Main == Begin \/ MainForward \/ MainAcked \/ MainWait \/ MainTakesResult
-----------------------------------------------------------------------------
(* ULTs.                                                                   *)

\* A race is noted when it goes wrong.
Note(race, u, wrong) ==
    races' = IF wrong THEN races \cup {<<race, st[u]>>} ELSE races

Step(u, from, to) == pc[u] = from /\ pc' = [pc EXCEPT ![u] = to]

\* A ULT that is off its ES takes one to start, or to go on after a wait.
Wake(u, from, to) == Step(u, from, to) /\ FreeStream(Home(u))

\* With reply, margo_respond comes before everything else and waits until the
\* ack is out.
Start(u) ==
    /\ reply
    /\ Wake(u, "sent", "acked")
    /\ UNCHANGED <<run, round, main, heap, next, mnext, st, tmp, value, races>>

Ready(u) == pc[u] = (IF reply THEN "acked" ELSE "sent") /\ FreeStream(Home(u))

\* filesize_request_rpc after the ack
AllocState(u) ==
    /\ u[1] = "req" /\ Ready(u)
    /\ pc' = [pc EXCEPT ![u] = "forward"]
    /\ Alloc(u[2], u[3])
    /\ st' = [st EXCEPT ![u] = u[2]]
    /\ UNCHANGED <<run, round, main, next, mnext, tmp, value, races>>

ForwardRequest(u) ==
    /\ pc[u] = "forward" /\ next[u] < Count(u[3])
    /\ pc' = [pc EXCEPT ![<<"req", u[2], Child(u[3], next[u] + 1)>>] = "sent",
                        ![u] = "waitack"]
    /\ next' = [next EXCEPT ![u] = @ + 1]
    /\ UNCHANGED <<run, round, main, heap, mnext, st, tmp, value, races>>

RequestAcked(u) ==
    /\ Wake(u, "waitack", "forward")
    /\ reply => pc[<<"req", u[2], Child(u[3], next[u])>>] # "sent"
    /\ UNCHANGED <<run, round, main, heap, next, mnext, st, tmp, value, races>>

\* The rank takes its own size into account; then its response goes up, or the
\* root wakes the main thread.
Conclude(u) ==
    LET r == Home(u)
    IN  /\ pc' = [pc EXCEPT ![u] = IF r = Root THEN "lock" ELSE "send"]
        /\ filesize' = [filesize EXCEPT ![st[u]][r] = IF r > @ THEN r ELSE @]
        /\ UNCHANGED <<run, round, main, glb_st, alive, num_responses, next, mnext, st, tmp, value>>

\* A leaf goes on with filesize_response_forward, whatever it is used for.
LeafConcludes(u) ==
    /\ pc[u] = "forward" /\ Count(u[3]) = 0
    /\ Conclude(u)
    /\ UNCHANGED races

Forwarded(u) ==
    /\ Step(u, "forward", "done")
    /\ next[u] = Count(u[3]) /\ Count(u[3]) > 0
    /\ UNCHANGED <<run, round, main, heap, next, mnext, st, tmp, value, races>>

\* Mutant: takes the smaller value.
LookUpMin(u) ==
    /\ u[1] = "rsp" /\ Ready(u)
    /\ st' = [st EXCEPT ![u] = glb_st[Home(u)]]
    /\ pc' = [pc EXCEPT ![u] =
                 IF value[u] < filesize[st'[u]][Home(u)] THEN "setmax" ELSE "load"]
    /\ UNCHANGED <<run, round, main, heap, next, mnext, tmp, value, races>>

\* filesize_response_rpc after the ack: the structure of the moment is looked
\* up, and its size compared.
LookUp(u) ==
    /\ u[1] = "rsp" /\ Ready(u)
    /\ st' = [st EXCEPT ![u] = glb_st[Home(u)]]
    /\ pc' = [pc EXCEPT ![u] =
                 IF value[u] > filesize[st'[u]][Home(u)] THEN "setmax" ELSE "load"]
    /\ UNCHANGED <<run, round, main, heap, next, mnext, tmp, value, races>>

\* Another handler may have stored a larger size since the comparison.
SetMax(u) ==
    /\ Step(u, "setmax", "load")
    /\ filesize' = [filesize EXCEPT ![st[u]][Home(u)] = value[u]]
    /\ Note("max", u, filesize[st[u]][Home(u)] > value[u])
    /\ UNCHANGED <<run, round, main, glb_st, alive, num_responses, next, mnext, st, tmp, value>>

\* st->num_responses++
Load(u) ==
    /\ Step(u, "load", "store")
    /\ tmp' = [tmp EXCEPT ![u] = num_responses[st[u]][Home(u)]]
    /\ UNCHANGED <<run, round, main, heap, next, mnext, st, value, races>>

\* Another handler may have stored its increment since the load.
Store(u) ==
    /\ Step(u, "store", "check")
    /\ num_responses' = [num_responses EXCEPT ![st[u]][Home(u)] = tmp[u] + 1]
    /\ tmp' = [tmp EXCEPT ![u] = 0]
    /\ Note("count", u, num_responses[st[u]][Home(u)] # tmp[u])
    /\ UNCHANGED <<run, round, main, glb_st, alive, filesize, next, mnext, st, value>>

\* Mutant: forwards on every response.
CompleteAny(u) == num_responses[st[u]][Home(u)] >= 1

\* `if (st->num_responses == child_count)' in filesize_response_forward
Complete(u) == num_responses[st[u]][Home(u)] = Count(Home(u))

\* Another handler that is about to check.
Follows(u, v) ==
    v # u /\ v[1] = "rsp" /\ pc[v] = "check" /\ Home(v) = Home(u) /\ st[v] = st[u]

\* A handler that is still to check will find all responses too.
CheckComplete(u) ==
    /\ pc[u] = "check" /\ Complete(u)
    /\ Conclude(u)
    /\ Note("complete", u, \E v \in Ult : Follows(u, v))

CheckIncomplete(u) ==
    /\ Step(u, "check", "done")
    /\ ~ Complete(u)
    /\ UNCHANGED <<run, round, main, heap, next, mnext, st, tmp, value, races>>

\* rpc_invoke_filesize_response to the parent.  A second one for the same round
\* is not followed: it comes only after ConcludedTwice.
SendResponse(u) ==
    LET r == Home(u)
        m == <<"rsp", st[u], r>>
    IN  /\ pc[u] = "send" /\ pc[m] = "none"
        /\ pc' = [pc EXCEPT ![m] = "sent", ![u] = "waitrsp"]
        /\ value' = [value EXCEPT ![m] = filesize[st[u]][r]]
        /\ UNCHANGED <<run, round, main, heap, next, mnext, st, tmp, races>>

Free(r, o) ==
    /\ alive' = [alive EXCEPT ![o][r] = "freed"]
    /\ UNCHANGED <<run, round, main, glb_st, num_responses, filesize, next, mnext, st, tmp, value, races>>

\* Mutant: frees what glb_st points to by then.
FreeGlobal(u) ==
    /\ Wake(u, "waitrsp", "done")
    /\ reply => pc[<<"rsp", st[u], Home(u)>>] # "sent"
    /\ Free(Home(u), glb_st[Home(u)])

\* margo_forward returns, and the structure that st points to is freed; glb_st
\* keeps the pointer.
FreeState(u) ==
    /\ Wake(u, "waitrsp", "done")
    /\ reply => pc[<<"rsp", st[u], Home(u)>>] # "sent"
    /\ Free(Home(u), st[u])

\* At the root: lock, signal, unlock.  A signal nobody waits for is lost.
Signal(u) ==
    /\ ~ HoldsMutex
    /\ Wake(u, "lock", "done")
    /\ main' = IF main = "wait" THEN "woken" ELSE main
    /\ UNCHANGED <<run, round, heap, next, mnext, st, tmp, value, races>>

Handle(u) ==
    \/ Start(u)
    \/ AllocState(u) \/ ForwardRequest(u) \/ RequestAcked(u) \/ LeafConcludes(u) \/ Forwarded(u)
    \/ LookUp(u) \/ SetMax(u) \/ Load(u) \/ Store(u) \/ CheckComplete(u) \/ CheckIncomplete(u)
    \/ SendResponse(u) \/ FreeState(u) \/ Signal(u)

Active == { u \in Ult : pc[u] \notin {"none", "done"} }

Next == (\E r \in Present : Program(r)) \/ Main \/ \E u \in Active : Handle(u)

\* The main thread and the ESs always run.
Spec == Init /\ [][Next]_vars /\ WF_vars(Next)
-----------------------------------------------------------------------------
Labels == OffStream \cup {"forward", "setmax", "load", "store", "check", "send"}

\* Two handlers of one structure have found all responses there.
ConcludedTwice == \E o \in Struct : <<"complete", o>> \in races

Types ==
    /\ <<glb_ranks, reply, times>> \in Runs
    /\ phase \in [Rank -> {"setup", "allgather", "registered", "connected", "finalized"}]
    /\ round \in 0 .. Rounds
    /\ main \in {"idle", "forward", "waitack", "wait", "woken"}
    /\ glb_st \in [Rank -> Struct]
    /\ alive \in [Struct -> [Rank -> {"none", "live", "freed"}]]
    /\ num_responses \in [Struct -> [Rank -> Nat]]
    /\ filesize \in [Struct -> [Rank -> Rank]]
    /\ pc \in [Ult -> Labels]
    /\ next \in [Ult -> 0 .. Degree] /\ mnext \in 0 .. Degree
    /\ st \in [Ult -> Struct]
    /\ tmp \in [Ult -> Nat]
    /\ value \in [Ult -> Rank]
    /\ races \subseteq {"max", "count", "complete"} \X Struct

\* The types; and no structure counts more responses than its rank has children,
\* however many handlers overwrite each other's increments.
TypeOK ==
    /\ Types
    /\ ConcludedTwice \/ \A o \in Round, r \in Present : num_responses[o][r] <= Count(r)

\* u has incremented the num_responses of a structure.
HasCounted(u) ==
    u[1] = "rsp" /\ pc[u] \in {"check", "send", "waitrsp", "lock", "done"}

(***************************************************************************)
(* num_responses is "number of replies we have received from children"     *)
(* (margotree.c:190): it equals the number of response handlers that have  *)
(* counted theirs.  Two ESs lose an increment, and then no handler ever    *)
(* sees all responses.                                                     *)
(***************************************************************************)
CountsResponses ==
    \A o \in Round, r \in Rank :
        num_responses[o][r] =
            Cardinality({ u \in Ult : HasCounted(u) /\ Home(u) = r /\ st[u] = o })

(***************************************************************************)
(* A rank forwards the maximum of its subtree once per reduction, on any   *)
(* number of ESs, unless two of its handlers have counted before either    *)
(* looks at num_responses: no other order of loads, stores and checks, and *)
(* no lost increment or size, makes a rank answer twice.                   *)
(***************************************************************************)
ForwardsOnce ==
    ConcludedTwice \/
    \A u \in Ult : pc[u] = "send" => pc[<<"rsp", st[u], Home(u)>>] = "none"

(***************************************************************************)
(* Unless two handlers concluded one reduction, a request or a response    *)
(* that is under way reaches a server that has registered the RPCs and has *)
(* not finalised Margo, though only rank 0 knows when the reductions are   *)
(* over; and a server that finalises has nothing left to do for one: its   *)
(* ULTs have ended or have at most an ack to wait for and a structure to   *)
(* free.                                                                   *)
(***************************************************************************)
NothingLeftAtTheEnd ==
    ConcludedTwice \/
    \A u \in { v \in Ult : v[2] <= times /\ v[3] < glb_ranks } :
        /\ pc[u] = "sent" => phase[Home(u)] = "connected"
        /\ phase[Home(u)] = "finalized" =>
              \/ pc[u] \in {"done", "waitrsp"}
              \/ pc[u] \in {"forward", "waitack"} /\ next[u] = Count(u[3]) /\ next[u] > 0

(***************************************************************************)
(* What rank 0 reads when it is woken is the maximum over all ranks,       *)
(* unless in this very reduction some rank overwrote a larger size, or a   *)
(* second handler has concluded one: the signal comes only after every     *)
(* size has come up the tree, and belongs to the reduction it waits for.   *)
(***************************************************************************)
ResultIsMax ==
    main = "woken" /\ <<"max", round>> \notin races /\ ~ ConcludedTwice
        => filesize[round][Root] = glb_ranks - 1

(***************************************************************************)
(* Unless two handlers concluded one reduction, no ULT works on a          *)
(* structure that has been freed, or was not allocated, though glb_st is   *)
(* overwritten by the next reduction's request while ULTs of the one       *)
(* before are still waiting for the ack of their response.                 *)
(***************************************************************************)
NoUseAfterFree ==
    ConcludedTwice \/
    \A u \in Ult :
        \/ pc[u] \in {"setmax", "load", "store", "check", "send", "waitrsp"}
        \/ u[1] = "req" /\ pc[u] \in {"forward", "waitack"} /\ next[u] < Count(u[3])
        => st[u] # 0 /\ alive[st[u]][Home(u)] = "live"

(***************************************************************************)
(* Every reduction completes, so no wakeup of rank 0 is lost, every        *)
(* structure allocated for it is freed, and every rank comes to the end.   *)
(* Only a lost increment, or a second handler that concludes, prevents it. *)
(***************************************************************************)
RoundsComplete ==
    <>[](\/ ConcludedTwice \/ \E o \in Struct : <<"count", o>> \in races
         \/ /\ main = "idle" /\ round = times
            /\ \A r \in Present : phase[r] = "finalized"
            /\ \A o \in 1 .. times, r \in Present : alive[o][r] = "freed")
=============================================================================
