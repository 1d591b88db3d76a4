----------------------------- MODULE SumClient -----------------------------
(***************************************************************************)
(* The benchmark examples/src/sum.c: MPI processes that call the           *)
(* collective sum through their local listener, all at once, `limited' at  *)
(* a time, or from rank 0 alone, in rounds held together by MPI barriers.  *)
(*                                                                         *)
(* A call of metasim_invoke_sum is a state of the calling process here     *)
(* (SumBroadcast is about what happens meanwhile), and it returns.         *)
(* MPI_Barrier returns when every process has entered it; MPI_Gather       *)
(* returns at rank 0 when every process has entered it, elsewhere at once. *)
(***************************************************************************)
EXTENDS Integers, FiniteSets

CONSTANTS
    N,       \* nranks
    Repeats  \* the values of -r

ASSUME SumClientAssumption == N \in Nat \ {0} /\ Repeats \subseteq Nat

Rank == 0 .. N - 1

VARIABLES
    serial, limited, repeat, warmup,  \* the options, the same at every rank
    pc,       \* pc[r]: where rank r is
    i, j,     \* i[r], j[r]: counters of the loops
    calls,    \* calls[r]: sums that have returned to r, without the warmup
    barriers, \* barriers[r]: MPI_Barrier calls r has entered
    gathers   \* gathers[r]: MPI_Gather calls r has entered

options == <<serial, limited, repeat, warmup>>
vars    == <<options, pc, i, j, calls, barriers, gathers>>

Init ==
    /\ serial \in BOOLEAN /\ warmup \in BOOLEAN
    /\ limited \in 0 .. N + 1 /\ repeat \in Repeats
    /\ pc = [r \in Rank |-> "start"]
    /\ i = [r \in Rank |-> 0]
    /\ j = [r \in Rank |-> 0]
    /\ calls = [r \in Rank |-> 0]
    /\ barriers = [r \in Rank |-> 0]
    /\ gathers = [r \in Rank |-> 0]

\* Mutant: a remainder is not a round of its own.
RoundsRoundedDown == IF limited \in 1 .. N - 1 THEN N \div limited ELSE 1

\* do_sum_limited; without a limit do_sum_parallel, one round for everybody.
Rounds ==
    IF limited \in 1 .. N - 1
    THEN N \div limited + (IF N % limited = 0 THEN 0 ELSE 1)
    ELSE 1

Goto(r, label) == pc' = [pc EXCEPT ![r] = label]

\* Mutant: does not wait for the slower processes.
BarrierOpenAlways(r) == TRUE

\* Everybody has entered the barrier that r is in.
BarrierOpen(r) == \A q \in Rank : barriers[q] >= barriers[r]

EnterBarrier(r, label) ==
    /\ Goto(r, label)
    /\ barriers' = [barriers EXCEPT ![r] = @ + 1]

\* The warm up run is before the first barrier.
Start(r) ==
    /\ pc[r] = "start"
    /\ Goto(r, IF warmup /\ (serial => r = 0) THEN "warmup" ELSE "loop")
    /\ UNCHANGED <<options, i, j, calls, barriers, gathers>>

WarmedUp(r) ==
    /\ pc[r] = "warmup"
    /\ Goto(r, "loop")
    /\ UNCHANGED <<options, i, j, calls, barriers, gathers>>

SumReturns(r) ==
    /\ pc[r] = "sum"
    /\ calls' = [calls EXCEPT ![r] = @ + 1]
    /\ IF serial
       THEN /\ Goto(r, "loop")
            /\ i' = [i EXCEPT ![r] = @ + 1]
            /\ UNCHANGED barriers
       ELSE EnterBarrier(r, "after") /\ UNCHANGED i
    /\ UNCHANGED <<options, j, gathers>>
-----------------------------------------------------------------------------
(* do_sum_serial                                                           *)

\* Mutant: `i <= repeat'.
SerialCallOneMore(r) ==
    /\ serial /\ r = 0 /\ pc[r] = "loop" /\ i[r] <= repeat
    /\ Goto(r, "sum")
    /\ UNCHANGED <<options, i, j, calls, barriers, gathers>>

SerialCall(r) ==
    /\ serial /\ r = 0 /\ pc[r] = "loop" /\ i[r] < repeat
    /\ Goto(r, "sum")
    /\ UNCHANGED <<options, i, j, calls, barriers, gathers>>

\* Mutant: rank 0 returns without the barrier the others wait in.
SerialWaitOthers(r) ==
    /\ serial /\ pc[r] = "loop"
    /\ r = 0 => i[r] = repeat
    /\ IF r = 0 THEN Goto(r, "exit") /\ UNCHANGED barriers ELSE EnterBarrier(r, "last")
    /\ UNCHANGED <<options, i, j, calls, gathers>>

SerialWait(r) ==
    /\ serial /\ pc[r] = "loop"
    /\ r = 0 => i[r] = repeat
    /\ EnterBarrier(r, "last")
    /\ UNCHANGED <<options, i, j, calls, gathers>>

SerialEnds(r) ==
    /\ pc[r] = "last" /\ BarrierOpen(r)
    /\ Goto(r, "exit")
    /\ UNCHANGED <<options, i, j, calls, barriers, gathers>>
-----------------------------------------------------------------------------
(* do_sum_limited and do_sum_parallel                                      *)

EnterRound(r) ==
    /\ ~ serial /\ pc[r] = "loop" /\ i[r] < repeat /\ j[r] < Rounds
    /\ EnterBarrier(r, "before")
    /\ UNCHANGED <<options, i, j, calls, gathers>>

Turn(r) ==
    /\ pc[r] = "before" /\ BarrierOpen(r)
    /\ IF r % Rounds = j[r]
       THEN Goto(r, "sum") /\ UNCHANGED barriers
       ELSE EnterBarrier(r, "after")
    /\ UNCHANGED <<options, i, j, calls, gathers>>

LeaveRound(r) ==
    /\ pc[r] = "after" /\ BarrierOpen(r)
    /\ Goto(r, "loop")
    /\ j' = [j EXCEPT ![r] = @ + 1]
    /\ UNCHANGED <<options, i, calls, barriers, gathers>>

EnterGather(r) ==
    /\ ~ serial /\ pc[r] = "loop" /\ i[r] < repeat /\ j[r] = Rounds
    /\ Goto(r, "gather")
    /\ gathers' = [gathers EXCEPT ![r] = @ + 1]
    /\ UNCHANGED <<options, i, j, calls, barriers>>

\* Mutant: j is not reset.
LeaveGatherKeepsRound(r) ==
    /\ pc[r] = "gather"
    /\ r = 0 => \A q \in Rank : gathers[q] >= gathers[r]
    /\ Goto(r, "loop")
    /\ i' = [i EXCEPT ![r] = @ + 1]
    /\ UNCHANGED <<options, j, calls, barriers, gathers>>

LeaveGather(r) ==
    /\ pc[r] = "gather"
    /\ r = 0 => \A q \in Rank : gathers[q] >= gathers[r]
    /\ Goto(r, "loop")
    /\ i' = [i EXCEPT ![r] = @ + 1]
    /\ j' = [j EXCEPT ![r] = 0]
    /\ UNCHANGED <<options, calls, barriers, gathers>>

Exit(r) ==
    /\ ~ serial /\ pc[r] = "loop" /\ i[r] = repeat
    /\ Goto(r, "exit")
    /\ UNCHANGED <<options, i, j, calls, barriers, gathers>>

Process(r) ==
    \/ Start(r) \/ WarmedUp(r) \/ SumReturns(r)
    \/ SerialCall(r) \/ SerialWait(r) \/ SerialEnds(r)
    \/ EnterRound(r) \/ Turn(r) \/ LeaveRound(r)
    \/ EnterGather(r) \/ LeaveGather(r) \/ Exit(r)

Next == \E r \in Rank : Process(r)

\* Every process is an OS process that keeps running, and sums return.
Spec == Init /\ [][Next]_vars /\ \A r \in Rank : WF_vars(Process(r))
-----------------------------------------------------------------------------
TypeOK ==
    /\ serial \in BOOLEAN /\ warmup \in BOOLEAN
    /\ limited \in 0 .. N + 1 /\ repeat \in Repeats
    /\ pc \in [Rank -> {"start", "warmup", "loop", "before", "sum", "after",
                        "gather", "last", "exit"}]
    /\ i \in [Rank -> Nat] /\ j \in [Rank -> 0 .. N]
    /\ calls \in [Rank -> Nat] /\ barriers \in [Rank -> Nat] /\ gathers \in [Rank -> Nat]
    /\ \A r \in Rank : i[r] <= repeat

(***************************************************************************)
(* "at most <N> sum operations are executed in parallel" (sum.c:242), for  *)
(* the measured operations: in no round are more ranks calling than -l     *)
(* allows, whichever ranks the barrier lets go first.                      *)
(***************************************************************************)
MeasuredWithinLimit ==
    ~ serial /\ limited > 0 => Cardinality({ r \in Rank : pc[r] = "sum" }) <= limited

(***************************************************************************)
(* The same of all operations.  The warm up runs of -w are not in rounds.  *)
(***************************************************************************)
AllWithinLimit ==
    ~ serial /\ limited > 0 =>
        Cardinality({ r \in Rank : pc[r] \in {"sum", "warmup"} }) <= limited

(***************************************************************************)
(* Rounds do not overlap: ranks that call at the same time are in the same *)
(* round of the same repetition, and no warm up run disturbs it.           *)
(***************************************************************************)
RoundsDontOverlap ==
    ~ serial =>
        \A r, q \in Rank : pc[r] = "sum" =>
            /\ pc[q] \notin {"start", "warmup"}
            /\ pc[q] = "sum" => i[q] = i[r] /\ j[q] = j[r]

(***************************************************************************)
(* When the program ends each rank, or only rank 0 with -s, has called     *)
(* `repeat' times, whatever the remainder of nranks by -l.                 *)
(***************************************************************************)
EveryRankRepeats ==
    \A r \in Rank : pc[r] = "exit" => calls[r] = IF serial /\ r # 0 THEN 0 ELSE repeat

(***************************************************************************)
(* The processes agree on the number of barriers, so that all of them end. *)
(***************************************************************************)
AllExit == <>(\A r \in Rank : pc[r] = "exit")
=============================================================================
