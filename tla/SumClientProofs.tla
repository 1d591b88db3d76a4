-------------------------- MODULE SumClientProofs --------------------------
(***************************************************************************)
(* Theorems about SumClient, for every number of processes, every limit    *)
(* and every number of repetitions.                                        *)
(***************************************************************************)
EXTENDS SumClient, FiniteSetTheorems, TLAPS

\* The round in which r calls.
TurnOf(r) == r % Rounds

(***************************************************************************)
(* Where a process is in its loops is what its barriers and calls count:   *)
(* two barriers in every round it has been through, one call in every      *)
(* repetition once its turn has come.                                      *)
(***************************************************************************)
Entered(label) == IF label \in {"before", "sum"} THEN 1 ELSE IF label = "after" THEN 2 ELSE 0

InLoops(r, label, ir, jr, cr, br) ==
    /\ label # "last"
    /\ jr <= Rounds
    /\ label \in {"start", "warmup"} => ir = 0 /\ jr = 0
    /\ label \in {"before", "sum", "after"} => jr < Rounds /\ ir < repeat
    /\ label = "gather" => jr = Rounds /\ ir < repeat
    /\ label = "exit" => ir = repeat
    /\ ir = repeat => jr = 0
    /\ label = "sum" => TurnOf(r) = jr
    /\ br = 2 * (ir * Rounds + jr) + Entered(label)
    /\ cr = ir + IF TurnOf(r) < jr \/ (TurnOf(r) = jr /\ label = "after") THEN 1 ELSE 0

\* With -s only rank 0 calls.
InSerialLoop(r, label, ir, jr, cr) ==
    /\ label \in {"start", "warmup", "loop", "sum", "last", "exit"}
    /\ jr = 0 /\ cr = ir
    /\ r # 0 => ir = 0 /\ label # "sum"
    /\ label = "sum" => ir < repeat
    /\ r = 0 /\ label \in {"last", "exit"} => ir = repeat

Counted ==
    \A r \in Rank :
        /\ ~ serial => InLoops(r, pc[r], i[r], j[r], calls[r], barriers[r])
        /\ serial   => InSerialLoop(r, pc[r], i[r], j[r], calls[r])

\* Barriers that a process has passed which has entered n.
Passed(label, n) == IF label \in {"before", "after"} THEN n - 1 ELSE n

(***************************************************************************)
(* Nobody has passed a barrier that another process has not entered.       *)
(***************************************************************************)
InStep == ~ serial => \A r, q \in Rank : Passed(pc[r], barriers[r]) <= barriers[q]

Inv == TypeOK /\ Counted /\ InStep
-----------------------------------------------------------------------------
Labels == {"start", "warmup", "loop", "before", "sum", "after", "gather", "last", "exit"}

\* Quotients and remainders, where the divisor is positive.
LEMMA Division ==
  ASSUME NEW a \in Nat, NEW b \in Nat \ {0}
  PROVE  /\ a \div b \in Nat /\ a % b \in 0 .. b - 1
         /\ a = (b * (a \div b)) + (a % b)
OBVIOUS

\* There are between one and N rounds.
LEMMA RoundsType ==
  ASSUME limited \in 0 .. N + 1
  PROVE  Rounds \in 1 .. N
<1>0. N \in Nat \ {0}
  BY SumClientAssumption
<1>1. CASE limited \in 1 .. N - 1
  <2> DEFINE d == N \div limited
             m == N % limited
  <2>1. d \in Nat /\ m \in 0 .. limited - 1 /\ N = limited * d + m
    <3>1. N \in Nat /\ limited \in Nat \ {0}
      BY <1>0, <1>1
    <3> QED BY <3>1, Division
  <2>2. Rounds = d + IF m = 0 THEN 0 ELSE 1
    BY <1>1 DEF Rounds
  <2> HIDE DEF d, m
  <2>3. limited \in Nat /\ 1 <= limited /\ limited <= N - 1
    BY <1>1
  <2>4. d >= 1
    <3> SUFFICES ASSUME d = 0 PROVE FALSE
      BY <2>1
    <3>1. limited * d = 0
      BY <2>3
    <3> QED BY <1>0, <2>1, <2>3, <3>1
  <2>5. limited * d >= d
    BY <2>1, <2>3
  <2>6. m = 0 => d <= N
    BY <1>0, <2>1, <2>5
  <2>7. m # 0 => d + 1 <= N
    BY <1>0, <2>1, <2>3, <2>5
  <2> QED BY <1>0, <2>1, <2>2, <2>4, <2>6, <2>7
<1>2. CASE limited \notin 1 .. N - 1
  BY <1>0, <1>2 DEF Rounds
<1> QED BY <1>1, <1>2

\* Every process has a turn in each repetition.
LEMMA TurnType ==
  ASSUME limited \in 0 .. N + 1, NEW r \in Rank
  PROVE  TurnOf(r) \in 0 .. Rounds - 1
<1>1. Rounds \in Nat \ {0} /\ r \in Nat
  BY RoundsType, SumClientAssumption DEF Rank
<1> HIDE DEF Rounds
<1> QED BY <1>1, Division DEF TurnOf

\* A number of a round tells the repetition and the round in it.
LEMMA RoundUnique ==
  ASSUME NEW R \in Nat \ {0}, NEW a \in Nat, NEW b \in Nat,
         NEW c \in 0 .. R - 1, NEW d \in 0 .. R - 1, a * R + c = b * R + d
  PROVE  a = b /\ c = d
<1>1. ASSUME NEW x \in Nat, NEW y \in Nat, x < y PROVE x * R + R <= y * R
  <2>1. PICK k \in Nat : y = x + 1 + k
    <3>1. y - x - 1 \in Nat /\ y = x + 1 + (y - x - 1)
      BY <1>1
    <3> QED BY <3>1
  <2>2. y * R = x * R + R + k * R
    BY <2>1
  <2>3. k * R >= 0 /\ k * R \in Int /\ x * R \in Int
    OBVIOUS
  <2> QED BY <2>2, <2>3
<1>2. a * R \in Int /\ b * R \in Int
  OBVIOUS
<1>3. ~ (a < b)
  BY <1>1, <1>2
<1>4. ~ (b < a)
  BY <1>1, <1>2
<1>5. a = b
  BY <1>3, <1>4
<1> QED BY <1>2, <1>5
-----------------------------------------------------------------------------
\* The invariant holds initially.
LEMMA InitInv == Init => Inv
<1> SUFFICES ASSUME Init PROVE Inv
  OBVIOUS
<1>1. Rounds \in 1 .. N /\ \A r \in Rank : TurnOf(r) \in 0 .. Rounds - 1
  BY RoundsType, TurnType DEF Init
<1>2. repeat \in Nat /\ N \in Nat
  BY SumClientAssumption DEF Init
<1> HIDE DEF Rounds, TurnOf
<1>3. TypeOK
  BY <1>2 DEF Init, TypeOK
<1>4. Counted
  BY <1>1, <1>2 DEF Init, Counted, InLoops, InSerialLoop, Entered
<1>5. InStep
  BY DEF Init, InStep, Passed
<1> QED BY <1>3, <1>4, <1>5 DEF Inv

(***************************************************************************)
(* A step of one process keeps the invariant when what it reaches is right *)
(* for itself, and when it passes no barrier that is not open.             *)
(***************************************************************************)
LEMMA StepOfOne ==
  ASSUME Inv, UNCHANGED options, NEW r \in Rank,
         NEW label \in Labels, NEW ir \in 0 .. repeat, NEW jr \in 0 .. N,
         NEW cr \in Nat, NEW br \in Nat,
         pc' = [pc EXCEPT ![r] = label], i' = [i EXCEPT ![r] = ir],
         j' = [j EXCEPT ![r] = jr], calls' = [calls EXCEPT ![r] = cr],
         barriers' = [barriers EXCEPT ![r] = br], gathers' \in [Rank -> Nat],
         ~ serial => InLoops(r, label, ir, jr, cr, br),
         serial => InSerialLoop(r, label, ir, jr, cr),
         br >= barriers[r],
         ~ serial => \A q \in Rank : Passed(label, br) <= barriers[q]
  PROVE  Inv'
<1>1. /\ pc \in [Rank -> Labels] /\ i \in [Rank -> Nat] /\ j \in [Rank -> 0 .. N]
      /\ calls \in [Rank -> Nat] /\ barriers \in [Rank -> Nat]
      /\ \A q \in Rank : i[q] <= repeat
      /\ repeat \in Nat
  BY SumClientAssumption DEF Inv, TypeOK, Labels
<1>2. Counted /\ InStep
  BY DEF Inv
<1>3. ir \in Nat /\ ir <= repeat
  BY <1>1
<1>4. TypeOK'
  <2>1. /\ pc' \in [Rank -> Labels] /\ i' \in [Rank -> Nat] /\ j' \in [Rank -> 0 .. N]
        /\ calls' \in [Rank -> Nat] /\ barriers' \in [Rank -> Nat]
    BY <1>1, <1>3
  <2>2. \A q \in Rank : i'[q] <= repeat'
    BY <1>1, <1>3 DEF options
  <2> QED BY <2>1, <2>2 DEF Inv, TypeOK, Labels, options
<1>5. Counted'
  <2>1. UNCHANGED <<serial, repeat, Rounds>>
    BY DEF options, Rounds
  <2> SUFFICES ASSUME NEW q \in Rank
               PROVE  /\ ~ serial => InLoops(q, pc'[q], i'[q], j'[q], calls'[q], barriers'[q])
                      /\ serial   => InSerialLoop(q, pc'[q], i'[q], j'[q], calls'[q])
    BY <2>1 DEF Counted, InLoops, InSerialLoop, TurnOf
  <2>2. CASE q = r
    BY <1>1, <2>2
  <2>3. CASE q # r
    BY <1>1, <1>2, <2>3 DEF Counted
  <2> QED BY <2>2, <2>3
<1>6. InStep'
  <2> SUFFICES ASSUME ~ serial, NEW p \in Rank, NEW q \in Rank
               PROVE  Passed(pc'[p], barriers'[p]) <= barriers'[q]
    BY DEF InStep, Passed, options
  <2>1. Passed(pc'[p], barriers'[p]) <= barriers[q]
    <3>1. CASE p = r
      BY <1>1, <3>1
    <3>2. CASE p # r
      BY <1>1, <1>2, <3>2 DEF InStep
    <3> QED BY <3>1, <3>2
  <2>2. barriers[q] <= barriers'[q] /\ barriers[q] \in Nat /\ barriers'[q] \in Nat
    BY <1>1
  <2>3. Passed(pc'[p], barriers'[p]) \in Int
    BY <1>1 DEF Passed
  <2> HIDE DEF Passed
  <2> QED BY <2>1, <2>2, <2>3
<1> QED BY <1>4, <1>5, <1>6 DEF Inv
-----------------------------------------------------------------------------
\* What the proofs about the actions start from.
LEMMA Facts ==
  ASSUME Inv
  PROVE  /\ pc \in [Rank -> Labels] /\ i \in [Rank -> Nat] /\ j \in [Rank -> 0 .. N]
         /\ calls \in [Rank -> Nat] /\ barriers \in [Rank -> Nat] /\ gathers \in [Rank -> Nat]
         /\ \A r \in Rank : i[r] \in 0 .. repeat
         /\ repeat \in Nat /\ Rounds \in 1 .. N /\ N \in Nat
         /\ \A r \in Rank : TurnOf(r) \in 0 .. Rounds - 1
         /\ \A r \in Rank : ~ serial => InLoops(r, pc[r], i[r], j[r], calls[r], barriers[r])
         /\ \A r \in Rank : serial => InSerialLoop(r, pc[r], i[r], j[r], calls[r])
         /\ \A r, q \in Rank : ~ serial => Passed(pc[r], barriers[r]) <= barriers[q]
<1>1. TypeOK /\ Counted /\ InStep
  BY DEF Inv
<1>2. Rounds \in 1 .. N /\ \A r \in Rank : TurnOf(r) \in 0 .. Rounds - 1
  BY <1>1, RoundsType, TurnType DEF TypeOK
<1>3. repeat \in Nat /\ N \in Nat
  BY <1>1, SumClientAssumption DEF TypeOK
<1>4. \A r \in Rank : i[r] \in 0 .. repeat
  BY <1>1, <1>3 DEF TypeOK
<1> QED BY <1>1, <1>2, <1>3, <1>4 DEF TypeOK, Labels, Counted, InStep

\* A process that enters or passes no barrier, and counts no call.
LEMMA SameCounts ==
  ASSUME Inv, UNCHANGED <<options, calls, barriers>>, gathers' \in [Rank -> Nat],
         NEW r \in Rank, NEW label \in Labels, NEW ir \in 0 .. repeat, NEW jr \in 0 .. N,
         pc' = [pc EXCEPT ![r] = label], i' = [i EXCEPT ![r] = ir], j' = [j EXCEPT ![r] = jr],
         ~ serial => InLoops(r, label, ir, jr, calls[r], barriers[r]),
         serial => InSerialLoop(r, label, ir, jr, calls[r]),
         ~ serial => \A q \in Rank : Passed(label, barriers[r]) <= barriers[q]
  PROVE  Inv'
<1>1. calls' = [calls EXCEPT ![r] = calls[r]] /\ barriers' = [barriers EXCEPT ![r] = barriers[r]]
  BY Facts
<1>2. calls[r] \in Nat /\ barriers[r] \in Nat /\ barriers[r] >= barriers[r]
  BY Facts
<1>3. UNCHANGED options
  OBVIOUS
<1> QED BY <1>1, <1>2, <1>3, StepOfOne

\* A process that waits for no barrier has passed all it has entered.
LEMMA OutsideBarrier ==
  ASSUME Inv, ~ serial, NEW r \in Rank, pc[r] \notin {"before", "after"} \/ BarrierOpen(r)
  PROVE  \A q \in Rank : barriers[r] <= barriers[q]
<1>1. CASE pc[r] \notin {"before", "after"}
  <2>1. Passed(pc[r], barriers[r]) = barriers[r]
    BY <1>1 DEF Passed
  <2> QED BY <2>1, Facts
<1>2. CASE BarrierOpen(r)
  BY <1>2, Facts DEF BarrierOpen
<1> QED BY <1>1, <1>2

LEMMA StartInv == ASSUME Inv, NEW r \in Rank, Start(r) \/ WarmedUp(r) PROVE Inv'
<1>1. PICK label \in {"warmup", "loop"} : pc' = [pc EXCEPT ![r] = label]
  BY DEF Start, WarmedUp, Goto
<1>2. UNCHANGED <<options, i, j, calls, barriers, gathers>> /\ pc[r] \in {"start", "warmup"}
  BY DEF Start, WarmedUp
<1>3. i' = [i EXCEPT ![r] = i[r]] /\ j' = [j EXCEPT ![r] = j[r]] /\ gathers' \in [Rank -> Nat]
  BY <1>2, Facts
<1>4. ~ serial => InLoops(r, label, i[r], j[r], calls[r], barriers[r])
  BY <1>1, <1>2, Facts DEF InLoops, Entered
<1>5. serial => InSerialLoop(r, label, i[r], j[r], calls[r])
  BY <1>1, <1>2, Facts DEF InSerialLoop
<1>6. ~ serial => \A q \in Rank : Passed(label, barriers[r]) <= barriers[q]
  BY <1>1, <1>2, OutsideBarrier DEF Passed
<1>7. label \in Labels /\ i[r] \in 0 .. repeat /\ j[r] \in 0 .. N
  BY <1>1, Facts DEF Labels
<1>8. UNCHANGED <<options, calls, barriers>>
  BY <1>2
<1> QED BY <1>1, <1>3, <1>4, <1>5, <1>6, <1>7, <1>8, SameCounts
\* A process that enters a barrier having passed all before it.
LEMMA Enters ==
  ASSUME Inv, UNCHANGED options, gathers' \in [Rank -> Nat],
         NEW r \in Rank, NEW label \in {"before", "after", "last"},
         EnterBarrier(r, label), UNCHANGED <<i, j>>,
         NEW cr \in Nat, calls' = [calls EXCEPT ![r] = cr],
         ~ serial => /\ pc[r] \notin {"before", "after"} \/ BarrierOpen(r)
                     /\ label # "last"
                     /\ InLoops(r, label, i[r], j[r], cr, barriers[r] + 1),
         serial => InSerialLoop(r, label, i[r], j[r], cr)
  PROVE  Inv'
<1> DEFINE br == barriers[r] + 1
<1>1. /\ pc' = [pc EXCEPT ![r] = label] /\ barriers' = [barriers EXCEPT ![r] = br]
      /\ i' = [i EXCEPT ![r] = i[r]] /\ j' = [j EXCEPT ![r] = j[r]]
  BY Facts DEF EnterBarrier, Goto
<1>2. /\ br \in Nat /\ br >= barriers[r] /\ br - 1 = barriers[r]
      /\ i[r] \in 0 .. repeat /\ j[r] \in 0 .. N
  BY Facts
<1>3. label \in Labels
  BY DEF Labels
<1>4. ~ serial => \A q \in Rank : Passed(label, br) <= barriers[q]
  BY <1>2, OutsideBarrier DEF Passed
<1> HIDE DEF br
<1>5. ~ serial => InLoops(r, label, i[r], j[r], cr, br)
  BY DEF br
<1> QED BY <1>1, <1>2, <1>3, <1>4, <1>5, StepOfOne

LEMMA SumReturnsInv == ASSUME Inv, NEW r \in Rank, SumReturns(r) PROVE Inv'
<1> DEFINE cr == calls[r] + 1
           ir == i[r] + 1
<1>1. /\ pc[r] = "sum" /\ UNCHANGED options /\ calls' = [calls EXCEPT ![r] = cr]
      /\ UNCHANGED <<j, gathers>>
  BY DEF SumReturns
<1>2. cr \in Nat /\ gathers' \in [Rank -> Nat]
  BY <1>1, Facts
<1>3. CASE serial
  <2>1. /\ pc' = [pc EXCEPT ![r] = "loop"] /\ i' = [i EXCEPT ![r] = ir]
        /\ barriers' = [barriers EXCEPT ![r] = barriers[r]]
        /\ j' = [j EXCEPT ![r] = j[r]]
    BY <1>1, <1>3, Facts DEF SumReturns, Goto
  <2>2. InSerialLoop(r, "loop", ir, j[r], cr) /\ ir \in 0 .. repeat /\ j[r] \in 0 .. N
    BY <1>1, <1>3, Facts DEF InSerialLoop
  <2>3. "loop" \in Labels /\ barriers[r] \in Nat /\ barriers[r] >= barriers[r]
    BY Facts DEF Labels
  <2> HIDE DEF cr, ir
  <2> QED BY <1>1, <1>2, <1>3, <2>1, <2>2, <2>3, StepOfOne
<1>4. CASE ~ serial
  <2>1. EnterBarrier(r, "after") /\ UNCHANGED <<i, j>>
    BY <1>1, <1>4 DEF SumReturns
  <2>2. pc[r] \notin {"before", "after"}
    BY <1>1
  <2>3. InLoops(r, "after", i[r], j[r], cr, barriers[r] + 1)
    <3>1. InLoops(r, "sum", i[r], j[r], calls[r], barriers[r])
      BY <1>1, <1>4, Facts
    <3>2. calls[r] \in Nat /\ barriers[r] \in Nat /\ i[r] \in Nat /\ j[r] \in Nat
      BY Facts
    <3>3. i[r] * Rounds \in Nat
      BY <3>2, Facts
    <3> QED BY <3>1, <3>2, <3>3 DEF InLoops, Entered
  <2> HIDE DEF cr
  <2> QED BY <1>1, <1>2, <1>4, <2>1, <2>2, <2>3, Enters
<1> QED BY <1>3, <1>4

LEMMA SerialCallInv == ASSUME Inv, NEW r \in Rank, SerialCall(r) PROVE Inv'
<1>1. /\ pc' = [pc EXCEPT ![r] = "sum"] /\ UNCHANGED <<options, calls, barriers>>
      /\ serial /\ r = 0 /\ pc[r] = "loop"
  BY DEF SerialCall, Goto
<1>2. i' = [i EXCEPT ![r] = i[r]] /\ j' = [j EXCEPT ![r] = j[r]] /\ gathers' \in [Rank -> Nat]
  BY Facts DEF SerialCall
<1>3. InSerialLoop(r, "sum", i[r], j[r], calls[r])
  BY <1>1, Facts DEF InSerialLoop, SerialCall
<1>4. "sum" \in Labels /\ i[r] \in 0 .. repeat /\ j[r] \in 0 .. N
  BY Facts DEF Labels
<1> QED BY <1>1, <1>2, <1>3, <1>4, SameCounts

LEMMA SerialWaitInv == ASSUME Inv, NEW r \in Rank, SerialWait(r) PROVE Inv'
<1>1. /\ EnterBarrier(r, "last") /\ UNCHANGED <<i, j>> /\ UNCHANGED options
      /\ serial /\ pc[r] = "loop"
  BY DEF SerialWait
<1>2. calls' = [calls EXCEPT ![r] = calls[r]] /\ calls[r] \in Nat /\ gathers' \in [Rank -> Nat]
  BY Facts DEF SerialWait
<1>3. InSerialLoop(r, "last", i[r], j[r], calls[r])
  BY <1>1, Facts DEF InSerialLoop, SerialWait
<1> QED BY <1>1, <1>2, <1>3, Enters

LEMMA SerialEndsInv == ASSUME Inv, NEW r \in Rank, SerialEnds(r) PROVE Inv'
<1>1. /\ pc' = [pc EXCEPT ![r] = "exit"] /\ UNCHANGED <<options, calls, barriers>>
      /\ pc[r] = "last"
  BY DEF SerialEnds, Goto
<1>2. i' = [i EXCEPT ![r] = i[r]] /\ j' = [j EXCEPT ![r] = j[r]] /\ gathers' \in [Rank -> Nat]
  BY Facts DEF SerialEnds
<1>3. serial /\ InSerialLoop(r, "exit", i[r], j[r], calls[r])
  BY <1>1, Facts DEF InLoops, InSerialLoop
<1>4. "exit" \in Labels /\ i[r] \in 0 .. repeat /\ j[r] \in 0 .. N
  BY Facts DEF Labels
<1> QED BY <1>1, <1>2, <1>3, <1>4, SameCounts

LEMMA EnterRoundInv == ASSUME Inv, NEW r \in Rank, EnterRound(r) PROVE Inv'
<1>1. /\ EnterBarrier(r, "before") /\ UNCHANGED <<i, j>> /\ UNCHANGED options
      /\ ~ serial /\ pc[r] = "loop" /\ i[r] < repeat /\ j[r] < Rounds
  BY DEF EnterRound
<1>2. calls' = [calls EXCEPT ![r] = calls[r]] /\ calls[r] \in Nat /\ gathers' \in [Rank -> Nat]
  BY Facts DEF EnterRound
<1>3. InLoops(r, "before", i[r], j[r], calls[r], barriers[r] + 1)
  <2>1. InLoops(r, "loop", i[r], j[r], calls[r], barriers[r])
    BY <1>1, Facts
  <2>2. i[r] \in Nat /\ j[r] \in Nat /\ i[r] * Rounds \in Nat
    BY Facts
  <2> QED BY <1>1, <2>1, <2>2 DEF InLoops, Entered
<1> QED BY <1>1, <1>2, <1>3, Enters

LEMMA TurnInv == ASSUME Inv, NEW r \in Rank, Turn(r) PROVE Inv'
<1>1. /\ pc[r] = "before" /\ BarrierOpen(r) /\ UNCHANGED <<options, calls>> /\ UNCHANGED <<i, j>>
      /\ UNCHANGED gathers
  BY DEF Turn
<1>2. /\ calls' = [calls EXCEPT ![r] = calls[r]] /\ calls[r] \in Nat /\ gathers' \in [Rank -> Nat]
      /\ i' = [i EXCEPT ![r] = i[r]] /\ j' = [j EXCEPT ![r] = j[r]]
      /\ i[r] \in 0 .. repeat /\ j[r] \in 0 .. N
  BY <1>1, Facts
<1>3. ~ serial /\ InLoops(r, "before", i[r], j[r], calls[r], barriers[r])
  BY <1>1, Facts DEF InSerialLoop
<1>4. CASE r % Rounds = j[r]
  <2>1. pc' = [pc EXCEPT ![r] = "sum"] /\ UNCHANGED <<options, calls, barriers>>
    BY <1>1, <1>4 DEF Turn, Goto
  <2>2. InLoops(r, "sum", i[r], j[r], calls[r], barriers[r])
    BY <1>3, <1>4 DEF InLoops, Entered, TurnOf
  <2>3. \A q \in Rank : Passed("sum", barriers[r]) <= barriers[q]
    BY <1>1, <1>3, OutsideBarrier DEF Passed
  <2>4. "sum" \in Labels
    BY DEF Labels
  <2> QED BY <1>2, <1>3, <2>1, <2>2, <2>3, <2>4, SameCounts
<1>5. CASE r % Rounds # j[r]
  <2>1. EnterBarrier(r, "after") /\ UNCHANGED options
    BY <1>1, <1>5 DEF Turn
  <2>2. InLoops(r, "after", i[r], j[r], calls[r], barriers[r] + 1)
    <3>1. TurnOf(r) # j[r]
      BY <1>5 DEF TurnOf
    <3>2. i[r] \in Nat /\ j[r] \in Nat /\ i[r] * Rounds \in Nat
      BY Facts
    <3> QED BY <1>3, <3>1, <3>2 DEF InLoops, Entered
  <2> QED BY <1>1, <1>2, <1>3, <2>1, <2>2, Enters
<1> QED BY <1>4, <1>5

LEMMA LeaveRoundInv == ASSUME Inv, NEW r \in Rank, LeaveRound(r) PROVE Inv'
<1> DEFINE jr == j[r] + 1
<1>1. /\ pc[r] = "after" /\ BarrierOpen(r) /\ UNCHANGED <<options, calls, barriers>>
      /\ pc' = [pc EXCEPT ![r] = "loop"] /\ j' = [j EXCEPT ![r] = jr]
  BY DEF LeaveRound, Goto
<1>2. i' = [i EXCEPT ![r] = i[r]] /\ i[r] \in 0 .. repeat /\ gathers' \in [Rank -> Nat]
  BY Facts DEF LeaveRound
<1>3. ~ serial /\ InLoops(r, "after", i[r], j[r], calls[r], barriers[r])
  BY <1>1, Facts DEF InSerialLoop
<1>4. i[r] \in Nat /\ j[r] \in Nat /\ i[r] * Rounds \in Nat /\ Rounds \in 1 .. N /\ N \in Nat
  BY Facts
<1>5. jr \in 0 .. N
  BY <1>3, <1>4 DEF InLoops
<1>6. InLoops(r, "loop", i[r], jr, calls[r], barriers[r])
  <2>1. TurnOf(r) \in 0 .. Rounds - 1 /\ repeat \in Nat /\ calls[r] \in Nat
    BY Facts
  <2>2. barriers[r] = 2 * ((i[r] * Rounds) + jr) + Entered("loop")
    BY <1>3, <1>4 DEF InLoops, Entered
  <2>3. calls[r] = i[r] + IF TurnOf(r) < jr \/ (TurnOf(r) = jr /\ "loop" = "after") THEN 1 ELSE 0
    BY <1>3, <1>4, <2>1 DEF InLoops
  <2>4. jr <= Rounds /\ i[r] < repeat
    BY <1>3, <1>4 DEF InLoops
  <2> QED BY <1>4, <2>1, <2>2, <2>3, <2>4 DEF InLoops
<1>7. \A q \in Rank : Passed("loop", barriers[r]) <= barriers[q]
  BY <1>1, <1>3, OutsideBarrier DEF Passed
<1>8. "loop" \in Labels
  BY DEF Labels
<1> HIDE DEF jr
<1> QED BY <1>1, <1>2, <1>3, <1>5, <1>6, <1>7, <1>8, SameCounts

LEMMA EnterGatherInv == ASSUME Inv, NEW r \in Rank, EnterGather(r) PROVE Inv'
<1>1. /\ ~ serial /\ pc[r] = "loop" /\ i[r] < repeat /\ j[r] = Rounds
      /\ pc' = [pc EXCEPT ![r] = "gather"] /\ UNCHANGED <<options, calls, barriers>>
  BY DEF EnterGather, Goto
<1>2. /\ i' = [i EXCEPT ![r] = i[r]] /\ j' = [j EXCEPT ![r] = j[r]]
      /\ i[r] \in 0 .. repeat /\ j[r] \in 0 .. N
  BY Facts DEF EnterGather
<1>3. gathers' \in [Rank -> Nat]
  <2>1. gathers' = [gathers EXCEPT ![r] = gathers[r] + 1]
    BY DEF EnterGather
  <2>2. gathers \in [Rank -> Nat]
    BY Facts
  <2> QED BY <2>1, <2>2
<1>4. InLoops(r, "gather", i[r], j[r], calls[r], barriers[r])
  BY <1>1, Facts DEF InLoops, Entered
<1>5. \A q \in Rank : Passed("gather", barriers[r]) <= barriers[q]
  BY <1>1, OutsideBarrier DEF Passed
<1>6. "gather" \in Labels
  BY DEF Labels
<1> QED BY <1>1, <1>2, <1>3, <1>4, <1>5, <1>6, SameCounts

LEMMA LeaveGatherInv == ASSUME Inv, NEW r \in Rank, LeaveGather(r) PROVE Inv'
<1> DEFINE ir == i[r] + 1
<1>1. /\ pc[r] = "gather" /\ UNCHANGED <<options, calls, barriers>>
      /\ pc' = [pc EXCEPT ![r] = "loop"] /\ i' = [i EXCEPT ![r] = ir]
      /\ j' = [j EXCEPT ![r] = 0]
  BY DEF LeaveGather, Goto
<1>2. gathers' \in [Rank -> Nat]
  BY Facts DEF LeaveGather
<1>3. ~ serial /\ InLoops(r, "gather", i[r], j[r], calls[r], barriers[r])
  BY <1>1, Facts DEF InSerialLoop
<1>4. /\ i[r] \in Nat /\ i[r] * Rounds \in Nat /\ Rounds \in 1 .. N /\ N \in Nat /\ repeat \in Nat
      /\ TurnOf(r) \in 0 .. Rounds - 1
  BY Facts
<1>5. ir \in 0 .. repeat /\ 0 \in 0 .. N
  BY <1>3, <1>4 DEF InLoops
<1>6. InLoops(r, "loop", ir, 0, calls[r], barriers[r])
  <2>1. ir * Rounds = (i[r] * Rounds) + Rounds
    BY <1>4
  <2>2. ir * Rounds \in Nat
    BY <1>4, <2>1
  <2>3. barriers[r] = 2 * ((ir * Rounds) + 0) + Entered("loop")
    BY <1>3, <1>4, <2>1, <2>2 DEF InLoops, Entered
  <2>4. calls[r] = ir + IF TurnOf(r) < 0 \/ (TurnOf(r) = 0 /\ "loop" = "after") THEN 1 ELSE 0
    BY <1>3, <1>4 DEF InLoops
  <2> QED BY <1>4, <2>3, <2>4 DEF InLoops
<1>7. \A q \in Rank : Passed("loop", barriers[r]) <= barriers[q]
  BY <1>1, <1>3, OutsideBarrier DEF Passed
<1>8. "loop" \in Labels
  BY DEF Labels
<1> HIDE DEF ir
<1> QED BY <1>1, <1>2, <1>3, <1>5, <1>6, <1>7, <1>8, SameCounts

LEMMA ExitInv == ASSUME Inv, NEW r \in Rank, Exit(r) PROVE Inv'
<1>1. /\ ~ serial /\ pc[r] = "loop" /\ i[r] = repeat
      /\ pc' = [pc EXCEPT ![r] = "exit"] /\ UNCHANGED <<options, calls, barriers>>
  BY DEF Exit, Goto
<1>2. /\ i' = [i EXCEPT ![r] = i[r]] /\ j' = [j EXCEPT ![r] = j[r]]
      /\ i[r] \in 0 .. repeat /\ j[r] \in 0 .. N /\ gathers' \in [Rank -> Nat]
  BY Facts DEF Exit
<1>3. InLoops(r, "exit", i[r], j[r], calls[r], barriers[r])
  BY <1>1, Facts DEF InLoops, Entered
<1>4. \A q \in Rank : Passed("exit", barriers[r]) <= barriers[q]
  BY <1>1, OutsideBarrier DEF Passed
<1>5. "exit" \in Labels
  BY DEF Labels
<1> QED BY <1>1, <1>2, <1>3, <1>4, <1>5, SameCounts

\* The inductive invariant.
LEMMA Invariance == Spec => []Inv
<1>1. Init => Inv
  BY InitInv
<1>2. Inv /\ [Next]_vars => Inv'
  <2> SUFFICES ASSUME Inv, [Next]_vars PROVE Inv'
    OBVIOUS
  <2>1. ASSUME NEW r \in Rank, Process(r) PROVE Inv'
    BY <2>1, StartInv, SumReturnsInv, SerialCallInv, SerialWaitInv, SerialEndsInv,
       EnterRoundInv, TurnInv, LeaveRoundInv, EnterGatherInv, LeaveGatherInv, ExitInv
    DEF Process
  <2>2. CASE UNCHANGED vars
    <3>1. UNCHANGED Rounds
      BY <2>2 DEF vars, options, Rounds
    <3> QED BY <2>2, <3>1 DEF vars, options, Inv, TypeOK, Counted, InLoops, InSerialLoop, TurnOf,
                          InStep, Passed
  <2> QED BY <2>1, <2>2 DEF Next
<1> QED BY <1>1, <1>2, PTL DEF Spec
-----------------------------------------------------------------------------
(***************************************************************************)
(* Every variable keeps its type: no rank goes through more rounds than    *)
(* there are ranks, or repeats more often than -r says.                    *)
(***************************************************************************)
THEOREM TypeCorrect == Spec => []TypeOK
BY Invariance, PTL DEF Inv

(***************************************************************************)
(* Each rank has called `repeat' times when it exits, whatever the         *)
(* remainder of nranks by -l: a turn comes in every repetition.            *)
(***************************************************************************)
THEOREM CallsCounted == Spec => []EveryRankRepeats
<1>1. Inv => EveryRankRepeats
  <2> SUFFICES ASSUME Inv, NEW r \in Rank, pc[r] = "exit"
               PROVE  calls[r] = IF serial /\ r # 0 THEN 0 ELSE repeat
    BY DEF EveryRankRepeats
  <2>1. CASE serial
    BY <2>1, Facts DEF InSerialLoop
  <2>2. CASE ~ serial
    <3>1. InLoops(r, "exit", i[r], j[r], calls[r], barriers[r])
      BY <2>2, Facts
    <3>2. i[r] = repeat /\ j[r] = 0 /\ TurnOf(r) \in Nat /\ repeat \in Nat
      BY <3>1, Facts DEF InLoops
    <3> QED BY <2>2, <3>1, <3>2 DEF InLoops
  <2> QED BY <2>1, <2>2
<1> QED BY <1>1, Invariance, PTL

\* Ranks that call at the same time have been through the same rounds.
LEMMA SameRound ==
  ASSUME Inv, ~ serial, NEW r \in Rank, NEW q \in Rank, pc[r] = "sum", pc[q] = "sum"
  PROVE  i[q] = i[r] /\ j[q] = j[r]
<1> DEFINE R == Rounds
<1>1. /\ barriers[r] \in Nat /\ barriers[q] \in Nat /\ i[r] \in Nat /\ i[q] \in Nat
      /\ j[r] \in Nat /\ j[q] \in Nat /\ R \in Nat \ {0}
  BY Facts
<1>2. barriers[r] = barriers[q]
  <2>1. barriers[r] <= barriers[q] /\ barriers[q] <= barriers[r]
    BY OutsideBarrier
  <2> QED BY <1>1, <2>1
<1>3. /\ j[r] < R /\ barriers[r] = 2 * (i[r] * R + j[r]) + 1
      /\ j[q] < R /\ barriers[q] = 2 * (i[q] * R + j[q]) + 1
  BY Facts DEF InLoops, Entered
<1> HIDE DEF R
<1>4. i[r] * R \in Int /\ i[q] * R \in Int
  BY <1>1
<1>5. i[q] * R + j[q] = i[r] * R + j[r]
  <2> DEFINE x == i[q] * R + j[q]
             y == i[r] * R + j[r]
  <2>1. x \in Int /\ y \in Int
    BY <1>1, <1>4
  <2>2. (2 * x) + 1 = (2 * y) + 1
    BY <1>2, <1>3
  <2> HIDE DEF x, y
  <2>3. x = y
    BY <2>1, <2>2
  <2> QED BY <2>3 DEF x, y
<1>6. j[r] \in 0 .. R - 1 /\ j[q] \in 0 .. R - 1
  BY <1>1, <1>3
<1> QED BY <1>1, <1>5, <1>6, RoundUnique

(***************************************************************************)
(* Rounds do not overlap: the barriers hold every rank in the round that   *)
(* the callers are in, and all have finished their warm up runs.           *)
(***************************************************************************)
THEOREM RoundsAreApart == Spec => []RoundsDontOverlap
<1>1. Inv => RoundsDontOverlap
  <2> SUFFICES ASSUME Inv, ~ serial, NEW r \in Rank, NEW q \in Rank, pc[r] = "sum"
               PROVE  /\ pc[q] \notin {"start", "warmup"}
                      /\ pc[q] = "sum" => i[q] = i[r] /\ j[q] = j[r]
    BY DEF RoundsDontOverlap
  <2>1. ASSUME pc[q] \in {"start", "warmup"} PROVE FALSE
    <3>1. barriers[r] <= barriers[q]
      BY OutsideBarrier
    <3>2. i[r] \in Nat /\ j[r] \in Nat /\ Rounds \in Nat /\ i[r] * Rounds \in Nat
      BY Facts
    <3>3. barriers[r] >= 1
      BY <3>2, Facts DEF InLoops, Entered
    <3>4. barriers[q] = 0
      <4>1. i[q] = 0 /\ j[q] = 0 /\ Entered(pc[q]) = 0
        BY <2>1, Facts DEF InLoops, Entered
      <4>2. barriers[q] = 2 * (i[q] * Rounds + j[q]) + Entered(pc[q])
        BY Facts DEF InLoops
      <4>3. 0 * Rounds = 0
        BY <3>2
      <4> QED BY <4>1, <4>2, <4>3
    <3>5. barriers[r] \in Nat /\ barriers[q] \in Nat
      BY Facts
    <3> QED BY <3>1, <3>3, <3>4, <3>5
  <2> QED BY <2>1, SameRound
<1> QED BY <1>1, Invariance, PTL
-----------------------------------------------------------------------------
\* As many rounds as it takes when each takes `limited' ranks.
LEMMA EnoughRounds ==
  ASSUME limited \in 1 .. N - 1
  PROVE  N <= limited * Rounds
<1> DEFINE d == N \div limited
           m == N % limited
<1>1. N \in Nat /\ limited \in Nat \ {0}
  BY SumClientAssumption
<1>2. d \in Nat /\ m \in 0 .. limited - 1 /\ N = limited * d + m
  BY <1>1, Division
<1>3. Rounds = d + IF m = 0 THEN 0 ELSE 1
  BY DEF Rounds
<1> HIDE DEF d, m
<1>4. limited * (d + 1) = (limited * d) + limited /\ limited * d \in Int
  BY <1>1, <1>2
<1>5. CASE m = 0
  <2>1. Rounds = d
    BY <1>2, <1>3, <1>5
  <2> QED BY <1>1, <1>2, <1>5, <2>1, <1>4
<1>6. CASE m # 0
  <2>1. Rounds = d + 1
    BY <1>3, <1>6
  <2> QED BY <1>1, <1>2, <2>1, <1>4
<1> QED BY <1>5, <1>6

\* At most `limited' ranks have their turn in the same round.
LEMMA TurnsWithinLimit ==
  ASSUME limited \in 1 .. N - 1, NEW k \in 0 .. Rounds - 1,
         NEW S \in SUBSET { r \in Rank : TurnOf(r) = k }
  PROVE  IsFiniteSet(S) /\ Cardinality(S) <= limited
<1> DEFINE R == Rounds
           f == [r \in S |-> r \div R]
<1>1. N \in Nat /\ limited \in Nat \ {0} /\ R \in Nat \ {0} /\ k \in Nat /\ N <= limited * R
  BY SumClientAssumption, RoundsType, EnoughRounds
<1>2. \A r \in S : r \in 0 .. N - 1 /\ r % R = k
  BY DEF Rank, TurnOf
<1> HIDE DEF R
<1>3. \A r \in S : r \div R \in Nat /\ r = (R * (r \div R)) + k
  <2> SUFFICES ASSUME NEW r \in S PROVE r \div R \in Nat /\ r = (R * (r \div R)) + k
    OBVIOUS
  <2>1. r \in Nat
    BY <1>1, <1>2
  <2> QED BY <1>1, <1>2, <2>1, Division
<1>4. \A r \in S : r \div R \in 0 .. limited - 1
  <2> SUFFICES ASSUME NEW r \in S PROVE r \div R < limited
    BY <1>1, <1>3
  <2> DEFINE x == r \div R
  <2>1. x \in Nat /\ r = (R * x) + k /\ r < N
    BY <1>1, <1>2, <1>3
  <2> HIDE DEF x
  <2>2. ASSUME limited <= x PROVE FALSE
    <3>1. PICK y \in Nat : x = limited + y
      <4>1. x - limited \in Nat /\ x = limited + (x - limited)
        BY <1>1, <2>1, <2>2
      <4> QED BY <4>1
    <3>2. R * x = (limited * R) + (R * y)
      BY <1>1, <3>1
    <3>3. R * y \in Nat /\ limited * R \in Nat /\ R * x \in Nat
      BY <1>1, <2>1, <3>1
    <3> QED BY <1>1, <2>1, <3>2, <3>3
  <2>3. x < limited
    BY <1>1, <2>1, <2>2
  <2> QED BY <2>3 DEF x
<1>5. f \in Injection(S, 0 .. limited - 1)
  <2>1. f \in [S -> 0 .. limited - 1]
    BY <1>4
  <2>2. ASSUME NEW a \in S, NEW b \in S, f[a] = f[b] PROVE a = b
    BY <1>3, <2>2
  <2> QED BY <2>1, <2>2 DEF Injection, IsInjective
<1>6. /\ IsFiniteSet(0 .. limited - 1) /\ Cardinality(0 .. limited - 1) = limited
  BY <1>1, FS_Interval
<1> QED BY <1>5, <1>6, FS_Injection

(***************************************************************************)
(* The limit holds for the measured operations: callers are in the same    *)
(* round, and a round has at most `limited' turns.                         *)
(***************************************************************************)
THEOREM LimitHolds == Spec => []MeasuredWithinLimit
<1>1. Inv => MeasuredWithinLimit
  <2> DEFINE S == { r \in Rank : pc[r] = "sum" }
  <2> SUFFICES ASSUME Inv, ~ serial, limited > 0 PROVE Cardinality(S) <= limited
    BY DEF MeasuredWithinLimit
  <2>1. N \in Nat /\ limited \in 0 .. N + 1
    BY SumClientAssumption DEF Inv, TypeOK
  <2>2. CASE limited \in 1 .. N - 1 /\ S # {}
    <3>1. PICK s \in Rank : pc[s] = "sum"
      BY <2>2
    <3>2. \A r \in S : TurnOf(r) = j[s]
      BY <3>1, SameRound, Facts DEF InLoops
    <3>3. j[s] \in 0 .. Rounds - 1
      <4>1. j[s] = TurnOf(s)
        BY <3>1, <3>2
      <4> QED BY <2>1, <4>1, TurnType
    <3>4. S \in SUBSET { r \in Rank : TurnOf(r) = j[s] }
      BY <3>2
    <3> HIDE DEF S
    <3> QED BY <2>2, <3>3, <3>4, TurnsWithinLimit
  <2>3. CASE S = {}
    <3> HIDE DEF S
    <3> QED BY <2>1, <2>3, FS_EmptySet
  <2>4. CASE limited \notin 1 .. N - 1
    <3>1. IsFiniteSet(Rank) /\ Cardinality(Rank) = N
      BY <2>1, SumClientAssumption, FS_Interval DEF Rank
    <3>2. S \subseteq Rank
      OBVIOUS
    <3>3. N <= limited
      BY <2>1, <2>4
    <3> HIDE DEF S
    <3>4. Cardinality(S) <= N /\ Cardinality(S) \in Nat
      BY <3>1, <3>2, FS_Subset, FS_CardinalityType
    <3> QED BY <2>1, <3>3, <3>4
  <2> QED BY <2>2, <2>3, <2>4
<1> QED BY <1>1, Invariance, PTL
=============================================================================
