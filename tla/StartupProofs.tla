--------------------------- MODULE StartupProofs ---------------------------
(***************************************************************************)
(* Theorems about Startup, for every number of servers and every placement *)
(* of clients, whether or not margo_init may fail.                         *)
(***************************************************************************)
EXTENDS Startup, TLAPS

Late == {"listener_init", "fopen", "fclose", "listener_mid", "wait_for_finalize"}

Barriers == {"reading peer addresses", "created log symlinks", "all peers are initialized",
             "ping from 0", "ping from all", "sum from 0", "sum from all"}

(***************************************************************************)
(* The phase a server is in tells how many barriers it has entered.        *)
(* Nobody aborts: every address file is there when it is read.             *)
(***************************************************************************)
Entered(r, label, n) ==
    /\ label # "aborted"
    /\ label \in {"margo_init", "finalize"} => n = 0
    /\ label = "reading peer addresses"    => n = 1
    /\ label = "created log symlinks"      => n = 2
    /\ label = "all peers are initialized" => n = 3
    /\ label \in {"ping test", "ping from 0", "ping from all",
                   "sum test", "sum from 0", "sum from all"} => selftest
    /\ label = "ping test"     => n = 4 \/ (n = 3 /\ r = 0)
    /\ label = "ping from 0"   => n = 4
    /\ label = "ping from all" => n = 5
    /\ label = "sum test"      => n = 6 \/ (n = 5 /\ r = 0)
    /\ label = "sum from 0"    => n = 6
    /\ label = "sum from all"  => n = 7
    /\ label \in Late          => n = IF selftest THEN 7 ELSE 3

Progress == \A r \in Rank : Entered(r, pc[r], fences[r])

\* Barriers that a server has passed which has entered n.
Passed(label, n) == IF label \in Barriers THEN n - 1 ELSE n

(***************************************************************************)
(* What a barrier is for: nobody has passed one that another server has    *)
(* not entered.                                                            *)
(***************************************************************************)
InStep == \A r, q \in Rank : Passed(pc[r], fences[r]) <= fences[q]

(***************************************************************************)
(* What a server has done when it enters a barrier.                        *)
(***************************************************************************)
Prepared ==
    \A r \in Rank :
        /\ fences[r] >= 1 => addr_file[r] = "new"
        /\ fences[r] >= 2 => \A q \in Rank : peer_addrs[r][q] = "new"
        /\ fences[r] >= 3 => registered[r]
        /\ listening[r]   => pc[r] \in Late

AnsweredByListener ==
    \A c \in Clients : client[c] = "answered" => listening[NodeOf[c]]

Inv == TypeOK /\ Progress /\ InStep /\ Prepared /\ AnsweredByListener
-----------------------------------------------------------------------------
\* The barriers by their number.
LEMMA Fences ==
  /\ Len(Fence) = 7
  /\ Fence[1] = "reading peer addresses"
  /\ Fence[2] = "created log symlinks"
  /\ Fence[3] = "all peers are initialized"
  /\ Fence[4] = "ping from 0"
  /\ Fence[5] = "ping from all"
  /\ Fence[6] = "sum from 0"
  /\ Fence[7] = "sum from all"
BY DEF Fence

LEMMA PhasesAre ==
  Phases = {"reading peer addresses", "created log symlinks", "all peers are initialized",
            "ping from 0", "ping from all", "sum from 0", "sum from all",
            "margo_init", "finalize", "aborted", "ping test", "sum test", "listener_init",
            "fopen", "fclose", "listener_mid", "wait_for_finalize"}
<1>1. 1 .. Len(Fence) = {1, 2, 3, 4, 5, 6, 7}
  <2>1. \A k : k \in 1 .. 7 <=> k \in {1, 2, 3, 4, 5, 6, 7}
    OBVIOUS
  <2>2. 1 .. 7 = {1, 2, 3, 4, 5, 6, 7}
    BY <2>1, Zenon
  <2> QED BY <2>2, Fences
<1>2. { Fence[k] : k \in 1 .. Len(Fence) } =
        {Fence[1], Fence[2], Fence[3], Fence[4], Fence[5], Fence[6], Fence[7]}
  BY <1>1, Zenon
<1> QED BY <1>2, Fences, Zenon DEF Phases

\* What a counter of barriers may be.
LEMMA FencesType == [Rank -> 0 .. Len(Fence)] = [Rank -> 0 .. 7]
<1>1. Len(Fence) = 7
  BY Fences
<1> QED BY <1>1, Zenon

\* What a number of barriers says about the phase, and the other way round.
LEMMA EnteredSays ==
  ASSUME NEW r, NEW label \in Phases, NEW n \in 0 .. 7, Entered(r, label, n)
  PROVE  /\ label = "ping test" => n = 3 \/ n = 4
         /\ label = "sum test"  => n = 5 \/ n = 6
         /\ label \in Late      => n = 3 \/ n = 7
         /\ label \in Barriers /\ n <= 1 => label = "reading peer addresses"
         /\ label \notin Barriers /\ n = 0 => label \in {"margo_init", "finalize"}
<1>1. label = "ping test" => n = 3 \/ n = 4
  BY DEF Entered
<1>2. label = "sum test" => n = 5 \/ n = 6
  BY DEF Entered
<1>3. label \in Late => n = 3 \/ n = 7
  <2>1. CASE selftest
    BY <2>1 DEF Entered
  <2>2. CASE ~ selftest
    BY <2>2 DEF Entered
  <2> QED BY <2>1, <2>2
<1>4. label \in Barriers /\ n <= 1 => label = "reading peer addresses"
  <2> SUFFICES ASSUME label \in Barriers, n <= 1 PROVE label = "reading peer addresses"
    OBVIOUS
  <2>1. n # 2 /\ n # 3 /\ n # 4 /\ n # 5 /\ n # 6 /\ n # 7
    OBVIOUS
  <2> QED BY <2>1, Zenon DEF Entered, Barriers
<1>5. label \notin Barriers /\ n = 0 => label \in {"margo_init", "finalize"}
  <2> SUFFICES ASSUME label \notin Barriers, n = 0 PROVE label \in {"margo_init", "finalize"}
    OBVIOUS
  <2>1. label \in {"margo_init", "finalize", "ping test", "sum test"} \cup Late
    BY PhasesAre DEF Barriers, Late, Entered
  <2>2. n # 3 /\ n # 4 /\ n # 5 /\ n # 6 /\ n # 7
    OBVIOUS
  <2> QED BY <1>1, <1>2, <1>3, <2>1, <2>2, Zenon
<1> QED BY <1>1, <1>2, <1>3, <1>4, <1>5

\* The invariant holds initially.
LEMMA InitInv == Init => Inv
<1> SUFFICES ASSUME Init PROVE Inv
  OBVIOUS
<1>1. N \in Nat \ {0} /\ NodeOf \in [Clients -> Rank]
  BY StartupAssumption DEF Rank
<1>2. TypeOK
  <2>1. fences \in [Rank -> 0 .. Len(Fence)]
    <3>1. fences \in [Rank -> 0 .. 7]
      BY DEF Init
    <3> QED BY <3>1, FencesType, Zenon
  <2>2. pc \in [Rank -> Phases]
    BY PhasesAre DEF Init
  <2> QED BY <1>1, <2>1, <2>2 DEF Init, TypeOK, Content
<1>3. Progress /\ InStep
  BY DEF Init, Progress, Entered, InStep, Passed, Barriers, Late
<1>4. Prepared /\ AnsweredByListener
  BY <1>1 DEF Init, Prepared, AnsweredByListener
<1> QED BY <1>2, <1>3, <1>4 DEF Inv

\* A server that moves to another phase, having passed no barrier before the
\* others have entered it.
LEMMA Move ==
  ASSUME Inv, NEW r \in Rank, NEW label, NEW n \in {fences[r], fences[r] + 1},
         pc' = [pc EXCEPT ![r] = label], fences' = [fences EXCEPT ![r] = n],
         selftest' = selftest,
         label \in Phases, n <= 7, Entered(r, label, n),
         \A q \in Rank : Passed(label, n) <= fences[q]
  PROVE  /\ pc' \in [Rank -> Phases] /\ fences' \in [Rank -> 0 .. Len(Fence)]
         /\ Progress' /\ InStep'
         /\ \A q \in Rank : fences'[q] >= fences[q]
<1>0. /\ pc \in [Rank -> Phases] /\ fences \in [Rank -> 0 .. 7] /\ n \in 0 .. 7
      /\ Progress /\ InStep
  <2>1. pc \in [Rank -> Phases] /\ Progress /\ InStep
    BY DEF Inv, TypeOK
  <2>2. fences \in [Rank -> 0 .. 7]
    BY FencesType, Zenon DEF Inv, TypeOK
  <2> QED BY <2>1, <2>2
<1>1. pc' \in [Rank -> Phases] /\ fences' \in [Rank -> 0 .. Len(Fence)]
  <2>1. pc' \in [Rank -> Phases] /\ fences' \in [Rank -> 0 .. 7]
    BY <1>0
  <2> QED BY <2>1, FencesType, Zenon
<1>2. Progress'
  <2> SUFFICES ASSUME NEW q \in Rank PROVE Entered(q, pc[q], fences[q])'
    BY DEF Progress
  <2>1. CASE q = r
    BY <1>0, <2>1 DEF Entered
  <2>2. CASE q # r
    BY <1>0, <2>2 DEF Progress, Entered
  <2> QED BY <2>1, <2>2
<1>3. \A q \in Rank : fences'[q] >= fences[q]
  BY <1>0
<1>4. \A q \in Rank : Passed(pc[q], fences[q]) \in Int /\ Passed(label, n) \in Int
  BY <1>0 DEF Passed
<1>5. \A q \in Rank : Passed(pc'[q], fences'[q]) = IF q = r THEN Passed(label, n)
                                                      ELSE Passed(pc[q], fences[q])
  BY <1>0
<1>6. InStep'
  <2> SUFFICES ASSUME NEW p \in Rank, NEW q \in Rank
               PROVE  Passed(pc'[p], fences'[p]) <= fences'[q]
    BY DEF InStep, Passed
  <2>1. Passed(pc'[p], fences'[p]) <= fences[q]
    BY <1>0, <1>5 DEF InStep
  <2>2. fences[q] \in Int /\ fences'[q] \in Int /\ Passed(pc'[p], fences'[p]) \in Int
    BY <1>0, <1>4, <1>5
  <2> HIDE DEF Passed
  <2> QED BY <2>1, <2>2, <1>3
<1> QED BY <1>1, <1>2, <1>3, <1>6

\* A server that enters its next barrier, all servers being at least as far.
LEMMA Enter ==
  ASSUME Inv, NEW r \in Rank, NEW k \in 1 .. 7, fences[r] = k - 1,
         EnterFence(r), selftest' = selftest, FenceOpen(r), k >= 4 => selftest
  PROVE  /\ pc' \in [Rank -> Phases] /\ fences' \in [Rank -> 0 .. Len(Fence)]
         /\ Progress' /\ InStep'
         /\ fences' = [fences EXCEPT ![r] = k] /\ pc' = [pc EXCEPT ![r] = Fence[k]]
         /\ Fence[k] \in Barriers
<1>1. fences' = [fences EXCEPT ![r] = k] /\ pc' = [pc EXCEPT ![r] = Fence[k]]
  <2>1. fences[r] + 1 = k
    OBVIOUS
  <2> QED BY <2>1 DEF EnterFence, Goto
<1>3. Fence[k] \in Barriers /\ Fence[k] \in Phases /\ Entered(r, Fence[k], k)
  <2>1. CASE k <= 3
    <3>1. k = 1 \/ k = 2 \/ k = 3
      BY <2>1
    <3> QED BY <3>1, Fences, PhasesAre DEF Barriers, Entered, Late
  <2>2. CASE selftest /\ k >= 4
    <3>1. k = 4 \/ k = 5 \/ k = 6 \/ k = 7
      BY <2>2
    <3> QED BY <2>2, <3>1, Fences, PhasesAre DEF Barriers, Entered, Late
  <2> QED BY <2>1, <2>2
<1>4. \A q \in Rank : Passed(Fence[k], k) <= fences[q]
  BY <1>3 DEF Passed, FenceOpen
<1>5. k \in {fences[r], fences[r] + 1} /\ k <= 7
  OBVIOUS
<1> QED BY <1>1, <1>3, <1>4, <1>5, Move

\* A server that goes on to a phase without a barrier.
LEMMA GoOn ==
  ASSUME Inv, NEW r \in Rank, NEW label,
         Goto(r, label), UNCHANGED <<selftest, fences>>, FenceOpen(r),
         label \in Phases \ Barriers, Entered(r, label, fences[r])
  PROVE  /\ pc' \in [Rank -> Phases] /\ fences' \in [Rank -> 0 .. Len(Fence)]
         /\ Progress' /\ InStep'
<1>1. pc' = [pc EXCEPT ![r] = label] /\ fences' = [fences EXCEPT ![r] = fences[r]]
  BY DEF Goto, Inv, TypeOK
<1>2. fences[r] <= 7
  <2>1. fences \in [Rank -> 0 .. 7]
    BY FencesType, Zenon DEF Inv, TypeOK
  <2> QED BY <2>1
<1>3. \A q \in Rank : Passed(label, fences[r]) <= fences[q]
  BY DEF Passed, FenceOpen
<1> QED BY <1>1, <1>2, <1>3, Move

\* Outside of the barriers a server has passed all it has entered.
LEMMA OutsideFence ==
  ASSUME Inv, NEW r \in Rank, pc[r] \notin Barriers
  PROVE  FenceOpen(r)
<1>1. fences \in [Rank -> 0 .. 7]
  BY FencesType, Zenon DEF Inv, TypeOK
<1> QED BY <1>1 DEF Inv, InStep, Passed, FenceOpen
-----------------------------------------------------------------------------
\* What a step of the protocol leaves as it was, when it only moves server r.
Moved ==
    /\ pc' \in [Rank -> Phases] /\ fences' \in [Rank -> 0 .. Len(Fence)]
    /\ Progress' /\ InStep'

\* A step that takes no server to one of the first barriers or out of the last
\* phases.
Kept ==
    \A q \in Rank :
        /\ fences'[q] = fences[q] \/ fences[q] >= 3
        /\ pc[q] \in Late => pc'[q] \in Late

\* Such a step needs no preparation.
LEMMA OnlyMoves ==
  ASSUME Inv, Moved, Kept, target' \in [Rank -> 0 .. N],
         UNCHANGED <<selftest, addr_file, peer_addrs, registered, listen, client, address>>
  PROVE  Inv'
<1>1. TypeOK'
  BY DEF Inv, TypeOK, Moved, listen
<1>2. fences \in [Rank -> 0 .. 7] /\ fences' \in [Rank -> 0 .. 7]
  BY FencesType, Zenon DEF Inv, TypeOK, Moved
<1>3. Prepared'
  BY <1>2 DEF Inv, Prepared, Kept, listen
<1>4. AnsweredByListener'
  BY DEF Inv, AnsweredByListener, listen
<1> QED BY <1>1, <1>3, <1>4 DEF Inv, Moved

\* A server enters one of the later barriers.
LEMMA KeptEntering ==
  ASSUME Inv, NEW r \in Rank, NEW k \in 4 .. 7, fences[r] = k - 1, pc[r] \notin Late,
         fences' = [fences EXCEPT ![r] = k], NEW label, pc' = [pc EXCEPT ![r] = label]
  PROVE  Kept
<1>1. pc \in [Rank -> Phases] /\ fences \in [Rank -> 0 .. 7]
  BY FencesType, Zenon DEF Inv, TypeOK
<1> QED BY <1>1 DEF Kept

\* A server goes on without a barrier.
LEMMA KeptGoing ==
  ASSUME Inv, NEW r \in Rank, NEW label, Goto(r, label), UNCHANGED fences,
         pc[r] \in Late => label \in Late
  PROVE  Kept
BY DEF Inv, TypeOK, Kept, Goto

\* A server enters one of the barriers of the tests.
LEMMA EnterLater ==
  ASSUME Inv, NEW r \in Rank, NEW k \in 4 .. 7, fences[r] = k - 1, pc[r] \notin Late,
         EnterFence(r), selftest, FenceOpen(r), target' \in [Rank -> 0 .. N],
         UNCHANGED <<selftest, addr_file, peer_addrs, registered, listen, client, address>>
  PROVE  Inv'
<1>1. k \in 1 .. 7
  OBVIOUS
<1>2. /\ Moved
      /\ fences' = [fences EXCEPT ![r] = k] /\ pc' = [pc EXCEPT ![r] = Fence[k]]
  BY <1>1, Enter DEF Moved
<1>3. Kept
  BY <1>2, KeptEntering
<1> QED BY <1>2, <1>3, OnlyMoves

\* A server goes on to a phase without a barrier and prepares nothing.
LEMMA GoOnInv ==
  ASSUME Inv, NEW r \in Rank, NEW label, Goto(r, label), UNCHANGED fences, FenceOpen(r),
         label \in Phases \ Barriers, Entered(r, label, fences[r]),
         pc[r] \in Late => label \in Late, target' \in [Rank -> 0 .. N],
         UNCHANGED <<selftest, addr_file, peer_addrs, registered, listen, client, address>>
  PROVE  Inv'
<1>1. Moved
  BY GoOn DEF Moved
<1>2. Kept
  BY KeptGoing
<1> QED BY <1>1, <1>2, OnlyMoves

\* Every step of a server keeps the invariant.
LEMMA ServerInv ==
  ASSUME Inv, NEW r \in Rank, ServerStep(r) \/ ServerFails(r)
  PROVE  Inv'
<1>0. /\ TypeOK /\ Progress /\ InStep /\ Prepared /\ AnsweredByListener
      /\ pc \in [Rank -> Phases] /\ fences \in [Rank -> 0 .. 7]
  BY FencesType, Zenon DEF Inv, TypeOK
<1>1. N \in Nat \ {0} /\ NodeOf \in [Clients -> Rank]
  BY StartupAssumption DEF Rank
<1>2. Entered(r, pc[r], fences[r])
  BY <1>0 DEF Progress
<1>3. pc[r] \notin Barriers => FenceOpen(r)
  BY OutsideFence
<1>4. FenceOpen(r) => \A q \in Rank : fences[q] >= fences[r]
  BY DEF FenceOpen
<1>10. CASE Publish(r)
  <2>1. fences[r] = 1 - 1 /\ FenceOpen(r) /\ EnterFence(r) /\ selftest' = selftest
    BY <1>2, <1>3, <1>10 DEF Publish, Entered, Barriers
  <2>2. /\ Moved
        /\ fences' = [fences EXCEPT ![r] = 1] /\ pc' = [pc EXCEPT ![r] = Fence[1]]
    BY <2>1, Enter DEF Moved
  <2>3. /\ addr_file' = [addr_file EXCEPT ![r] = "new"] /\ pc[r] \notin Late
        /\ UNCHANGED <<selftest, peer_addrs, registered, target, listen, client, address>>
    BY <1>10 DEF Publish, Late
  <2>4. TypeOK'
    BY <1>0, <2>2, <2>3 DEF TypeOK, Moved, listen
  <2>5. Prepared'
    BY <1>0, <2>2, <2>3 DEF TypeOK, Prepared, listen
  <2>6. AnsweredByListener'
    BY <1>0, <2>3 DEF AnsweredByListener, listen
  <2> QED BY <2>2, <2>4, <2>5, <2>6 DEF Inv, Moved
<1>11. CASE ReadAddrs(r)
  <2>0. fences[r] = 2 - 1
    <3>1. pc[r] = "reading peer addresses"
      BY <1>11 DEF ReadAddrs, Passes
    <3>2. fences[r] = 1
      BY <1>2, <3>1 DEF Entered
    <3> QED BY <3>2
  <2>1. FenceOpen(r) /\ selftest' = selftest
    BY <1>11 DEF ReadAddrs, Passes
  <2>2. \A q \in Rank : addr_file[q] = "new"
    BY <1>0, <1>4, <2>0, <2>1 DEF Prepared
  <2>3. EnterFence(r)
    BY <2>2, <1>11 DEF ReadAddrs
  <2>4. /\ Moved
        /\ fences' = [fences EXCEPT ![r] = 2] /\ pc' = [pc EXCEPT ![r] = Fence[2]]
    BY <2>0, <2>1, <2>3, Enter DEF Moved
  <2>5. /\ peer_addrs' = [peer_addrs EXCEPT ![r] = addr_file] /\ pc[r] \notin Late
        /\ UNCHANGED <<selftest, addr_file, registered, target, listen, client, address>>
    BY <1>11 DEF ReadAddrs, Passes, Late
  <2>6. TypeOK'
    BY <1>0, <2>4, <2>5 DEF TypeOK, Moved, listen
  <2>7. Prepared'
    BY <1>0, <2>2, <2>4, <2>5 DEF TypeOK, Prepared, listen
  <2>8. AnsweredByListener'
    BY <1>0, <2>5 DEF AnsweredByListener, listen
  <2> QED BY <2>4, <2>6, <2>7, <2>8 DEF Inv, Moved
<1>12. CASE Register(r)
  <2>0. fences[r] = 3 - 1
    <3>1. pc[r] = "created log symlinks"
      BY <1>12 DEF Register, Passes
    <3>2. fences[r] = 2
      BY <1>2, <3>1 DEF Entered
    <3> QED BY <3>2
  <2>1. FenceOpen(r) /\ EnterFence(r) /\ selftest' = selftest
    BY <1>12 DEF Register, Passes
  <2>2. /\ Moved
        /\ fences' = [fences EXCEPT ![r] = 3] /\ pc' = [pc EXCEPT ![r] = Fence[3]]
    BY <2>0, <2>1, Enter DEF Moved
  <2>3. /\ registered' = [registered EXCEPT ![r] = TRUE] /\ pc[r] \notin Late
        /\ UNCHANGED <<selftest, addr_file, peer_addrs, target, listen, client, address>>
    BY <1>12 DEF Register, Passes, Late
  <2>4. TypeOK'
    BY <1>0, <2>2, <2>3 DEF TypeOK, Moved, listen
  <2>5. Prepared'
    <3>1. registered \in [Rank -> BOOLEAN]
      BY <1>0 DEF TypeOK
    <3> QED BY <1>0, <2>0, <2>2, <2>3, <3>1 DEF Prepared, listen
  <2>6. AnsweredByListener'
    BY <1>0, <2>3 DEF AnsweredByListener, listen
  <2> QED BY <2>2, <2>4, <2>5, <2>6 DEF Inv, Moved
<1>13. CASE Initialized(r)
  <2>1. /\ fences[r] = 3 /\ FenceOpen(r) /\ pc[r] \notin Late
        /\ UNCHANGED <<selftest, addr_file, peer_addrs, registered, listen, client, address>>
    BY <1>2, <1>13 DEF Initialized, Passes, Entered, Late
  <2>2. target' \in [Rank -> 0 .. N]
    BY <1>0, <1>13 DEF Initialized, TypeOK
  <2>3. CASE selftest /\ r # 0
    <3>1. EnterFence(r)
      BY <2>3, <1>13 DEF Initialized
    <3>2. 4 \in 4 .. 7 /\ fences[r] = 4 - 1
      BY <2>1
    <3> QED BY <2>1, <2>2, <2>3, <3>1, <3>2, EnterLater
  <2>4. CASE selftest /\ r = 0
    <3>1. Goto(r, "ping test") /\ UNCHANGED fences
      BY <2>4, <1>13 DEF Initialized
    <3>2. "ping test" \in Phases \ Barriers /\ Entered(r, "ping test", fences[r])
      BY <2>1, <2>4, PhasesAre DEF Entered, Late, Barriers
    <3> QED BY <2>1, <2>2, <3>1, <3>2, GoOnInv
  <2>5. CASE ~ selftest
    <3>1. Goto(r, "listener_init") /\ UNCHANGED fences
      BY <2>5, <1>13 DEF Initialized
    <3>2. "listener_init" \in Phases \ Barriers /\ Entered(r, "listener_init", fences[r])
      BY <2>1, <2>5, PhasesAre DEF Entered, Late, Barriers
    <3> QED BY <2>1, <2>2, <3>1, <3>2, GoOnInv
  <2> QED BY <1>0, <2>3, <2>4, <2>5
<1>14. CASE Ping(r)
  <2>1. /\ UNCHANGED <<pc, fences>>
        /\ UNCHANGED <<selftest, addr_file, peer_addrs, registered, listen, client, address>>
    BY <1>14 DEF Ping
  <2>2. target' \in [Rank -> 0 .. N]
    <3>1. target' = [target EXCEPT ![r] = target[r] + 1] /\ target[r] < N
      BY <1>14 DEF Ping
    <3>2. target \in [Rank -> 0 .. N]
      BY <1>0 DEF TypeOK
    <3>3. target[r] + 1 \in 0 .. N
      BY <1>1, <3>1, <3>2
    <3> QED BY <3>1, <3>2, <3>3
  <2>3. Moved
    BY <1>0, <2>1 DEF TypeOK, Moved, Progress, Entered, InStep, Passed
  <2>4. Kept
    BY <2>1 DEF Kept
  <2> QED BY <2>1, <2>2, <2>3, <2>4, OnlyMoves
<1>15. CASE PingTestEnds(r)
  <2>1. EnterFence(r) /\ selftest
        /\ UNCHANGED <<selftest, addr_file, peer_addrs, registered, listen, client, address>>
    BY <1>2, <1>15 DEF PingTestEnds, Entered
  <2>2. FenceOpen(r) /\ pc[r] \notin Late
    BY <1>3, <1>15 DEF PingTestEnds, Barriers, Late
  <2>3. fences[r] = 3 \/ fences[r] = 4
    BY <1>2, <1>15 DEF PingTestEnds, Entered
  <2>4. target' \in [Rank -> 0 .. N]
    <3>1. target' = [target EXCEPT ![r] = 0]
      BY <1>15 DEF PingTestEnds
    <3>2. 0 \in 0 .. N
      BY <1>1
    <3> QED BY <1>0, <3>1, <3>2 DEF TypeOK
  <2>5. CASE fences[r] = 3
    <3>1. 4 \in 4 .. 7 /\ fences[r] = 4 - 1
      BY <2>5
    <3> QED BY <2>1, <2>2, <2>4, <3>1, EnterLater
  <2>6. CASE fences[r] = 4
    <3>1. 5 \in 4 .. 7 /\ fences[r] = 5 - 1
      BY <2>6
    <3> QED BY <2>1, <2>2, <2>4, <3>1, EnterLater
  <2> QED BY <2>3, <2>5, <2>6
<1>16. CASE PingFromAll(r)
  <2>1. Goto(r, "ping test") /\ UNCHANGED <<fences, target>>
        /\ UNCHANGED <<selftest, addr_file, peer_addrs, registered, listen, client, address>>
    BY <1>16 DEF PingFromAll, Passes
  <2>2. FenceOpen(r)
    BY <1>3, <1>16 DEF PingFromAll, Passes, Barriers
  <2>3. Entered(r, "ping test", fences[r])
    BY <1>0, <1>2, <1>16 DEF PingFromAll, Passes, Entered, Late
  <2>4. "ping test" \in Phases \ Barriers /\ (pc[r] \in Late => "ping test" \in Late)
    BY <1>16, PhasesAre DEF PingFromAll, Passes, Barriers, Late
  <2>5. target' \in [Rank -> 0 .. N]
    BY <1>0, <2>1 DEF TypeOK
  <2> QED BY <2>1, <2>2, <2>3, <2>4, <2>5, GoOnInv
<1>17. CASE SumFrom0(r)
  <2>1. /\ fences[r] = 5 /\ FenceOpen(r) /\ pc[r] \notin Late /\ selftest
        /\ UNCHANGED <<selftest, addr_file, peer_addrs, registered, listen, client, address>>
    BY <1>2, <1>17 DEF SumFrom0, Passes, Entered, Late
  <2>2. target' \in [Rank -> 0 .. N]
    BY <1>0, <1>17 DEF SumFrom0, TypeOK
  <2>3. CASE r # 0
    <3>1. EnterFence(r)
      BY <2>3, <1>17 DEF SumFrom0
    <3>2. 6 \in 4 .. 7 /\ fences[r] = 6 - 1
      BY <2>1
    <3> QED BY <2>1, <2>2, <3>1, <3>2, EnterLater
  <2>4. CASE r = 0
    <3>1. Goto(r, "sum test") /\ UNCHANGED fences
      BY <2>4, <1>17 DEF SumFrom0
    <3>2. "sum test" \in Phases \ Barriers /\ Entered(r, "sum test", fences[r])
      BY <2>1, <2>4, PhasesAre DEF Entered, Late, Barriers
    <3> QED BY <2>1, <2>2, <3>1, <3>2, GoOnInv
  <2> QED BY <2>3, <2>4
<1>18. CASE SumTestEnds(r)
  <2>1. EnterFence(r) /\ selftest
        /\ UNCHANGED <<selftest, addr_file, peer_addrs, registered, listen, client, address>>
    BY <1>2, <1>18 DEF SumTestEnds, Entered
  <2>2. FenceOpen(r) /\ pc[r] \notin Late
    BY <1>3, <1>18 DEF SumTestEnds, Barriers, Late
  <2>3. fences[r] = 5 \/ fences[r] = 6
    BY <1>2, <1>18 DEF SumTestEnds, Entered
  <2>4. target' \in [Rank -> 0 .. N]
    BY <1>0, <1>18 DEF SumTestEnds, TypeOK
  <2>5. CASE fences[r] = 5
    <3>1. 6 \in 4 .. 7 /\ fences[r] = 6 - 1
      BY <2>5
    <3> QED BY <2>1, <2>2, <2>4, <3>1, EnterLater
  <2>6. CASE fences[r] = 6
    <3>1. 7 \in 4 .. 7 /\ fences[r] = 7 - 1
      BY <2>6
    <3> QED BY <2>1, <2>2, <2>4, <3>1, EnterLater
  <2> QED BY <2>3, <2>5, <2>6
<1>19. CASE SumFromAll(r)
  <2>1. Goto(r, "sum test") /\ UNCHANGED <<fences, target>>
        /\ UNCHANGED <<selftest, addr_file, peer_addrs, registered, listen, client, address>>
    BY <1>19 DEF SumFromAll, Passes
  <2>2. FenceOpen(r)
    BY <1>3, <1>19 DEF SumFromAll, Passes, Barriers
  <2>3. Entered(r, "sum test", fences[r])
    BY <1>0, <1>2, <1>19 DEF SumFromAll, Passes, Entered, Late
  <2>4. "sum test" \in Phases \ Barriers /\ (pc[r] \in Late => "sum test" \in Late)
    BY <1>19, PhasesAre DEF SumFromAll, Passes, Barriers, Late
  <2>5. target' \in [Rank -> 0 .. N]
    BY <1>0, <2>1 DEF TypeOK
  <2> QED BY <2>1, <2>2, <2>3, <2>4, <2>5, GoOnInv
<1>20. CASE Tested(r)
  <2>1. Goto(r, "listener_init") /\ UNCHANGED <<fences, target>>
        /\ UNCHANGED <<selftest, addr_file, peer_addrs, registered, listen, client, address>>
    BY <1>20 DEF Tested, Passes
  <2>2. FenceOpen(r)
    BY <1>3, <1>20 DEF Tested, Passes, Barriers
  <2>3. Entered(r, "listener_init", fences[r])
    BY <1>0, <1>2, <1>20 DEF Tested, Passes, Entered, Late
  <2>4. "listener_init" \in Phases \ Barriers /\ (pc[r] \in Late => "listener_init" \in Late)
    BY <1>20, PhasesAre DEF Tested, Passes, Barriers, Late
  <2>5. target' \in [Rank -> 0 .. N]
    BY <1>0, <2>1 DEF TypeOK
  <2> QED BY <2>1, <2>2, <2>3, <2>4, <2>5, GoOnInv
<1>21. CASE Listen(r)
  <2>1. /\ FenceOpen(r) /\ Goto(r, "fopen") /\ UNCHANGED fences
        /\ "fopen" \in Phases \ Barriers /\ Entered(r, "fopen", fences[r])
        /\ UNCHANGED <<selftest, addr_file, peer_addrs, registered, target, client, address>>
        /\ listening' = [listening EXCEPT ![r] = TRUE] /\ UNCHANGED <<listener_file, listener_mid>>
    BY <1>2, <1>3, <1>21, PhasesAre DEF Listen, Entered, Late, Barriers
  <2>2. Moved
    BY <2>1, GoOn DEF Moved
  <2>3. TypeOK'
    BY <1>0, <2>1, <2>2 DEF TypeOK, Moved, Content
  <2>4. Prepared'
    BY <1>0, <2>1 DEF TypeOK, Prepared, Goto, Late
  <2>5. AnsweredByListener'
    BY <1>0, <1>1, <2>1 DEF TypeOK, AnsweredByListener
  <2> QED BY <2>2, <2>3, <2>4, <2>5 DEF Inv, Moved
<1>22. CASE OpenListenerFile(r)
  <2>1. /\ FenceOpen(r) /\ Goto(r, "fclose") /\ UNCHANGED fences
        /\ "fclose" \in Phases \ Barriers /\ Entered(r, "fclose", fences[r])
        /\ UNCHANGED <<selftest, addr_file, peer_addrs, registered, target, client, address>>
        /\ listener_file' = [listener_file EXCEPT ![r] = "empty"]
        /\ UNCHANGED <<listening, listener_mid>>
    BY <1>2, <1>3, <1>22, PhasesAre DEF OpenListenerFile, Entered, Late, Barriers
  <2>2. Moved
    BY <2>1, GoOn DEF Moved
  <2>3. TypeOK'
    BY <1>0, <2>1, <2>2 DEF TypeOK, Moved, Content
  <2>4. Prepared'
    BY <1>0, <2>1 DEF TypeOK, Prepared, Goto, Late
  <2>5. AnsweredByListener'
    BY <1>0, <1>1, <2>1 DEF TypeOK, AnsweredByListener
  <2> QED BY <2>2, <2>3, <2>4, <2>5 DEF Inv, Moved
<1>23. CASE CloseListenerFile(r)
  <2>1. /\ FenceOpen(r) /\ Goto(r, "listener_mid") /\ UNCHANGED fences
        /\ "listener_mid" \in Phases \ Barriers /\ Entered(r, "listener_mid", fences[r])
        /\ UNCHANGED <<selftest, addr_file, peer_addrs, registered, target, client, address>>
        /\ listener_file' = [listener_file EXCEPT ![r] = "new"]
        /\ UNCHANGED <<listening, listener_mid>>
    BY <1>2, <1>3, <1>23, PhasesAre DEF CloseListenerFile, Entered, Late, Barriers
  <2>2. Moved
    BY <2>1, GoOn DEF Moved
  <2>3. TypeOK'
    BY <1>0, <2>1, <2>2 DEF TypeOK, Moved, Content
  <2>4. Prepared'
    BY <1>0, <2>1 DEF TypeOK, Prepared, Goto, Late
  <2>5. AnsweredByListener'
    BY <1>0, <1>1, <2>1 DEF TypeOK, AnsweredByListener
  <2> QED BY <2>2, <2>3, <2>4, <2>5 DEF Inv, Moved
<1>24. CASE AssignListenerMid(r)
  <2>1. /\ FenceOpen(r) /\ Goto(r, "wait_for_finalize") /\ UNCHANGED fences
        /\ "wait_for_finalize" \in Phases \ Barriers /\ Entered(r, "wait_for_finalize", fences[r])
        /\ UNCHANGED <<selftest, addr_file, peer_addrs, registered, target, client, address>>
        /\ listener_mid' = [listener_mid EXCEPT ![r] = TRUE]
        /\ UNCHANGED <<listening, listener_file>>
    BY <1>2, <1>3, <1>24, PhasesAre DEF AssignListenerMid, Entered, Late, Barriers
  <2>2. Moved
    BY <2>1, GoOn DEF Moved
  <2>3. TypeOK'
    BY <1>0, <2>1, <2>2 DEF TypeOK, Moved, Content
  <2>4. Prepared'
    BY <1>0, <2>1 DEF TypeOK, Prepared, Goto, Late
  <2>5. AnsweredByListener'
    BY <1>0, <1>1, <2>1 DEF TypeOK, AnsweredByListener
  <2> QED BY <2>2, <2>3, <2>4, <2>5 DEF Inv, Moved
<1>25. CASE MargoInitFails(r)
  <2>1. Goto(r, "finalize") /\ UNCHANGED <<fences, target>>
        /\ UNCHANGED <<selftest, addr_file, peer_addrs, registered, listen, client, address>>
    BY <1>25 DEF MargoInitFails, Passes
  <2>2. FenceOpen(r)
    BY <1>3, <1>25 DEF MargoInitFails, Passes, Barriers
  <2>3. Entered(r, "finalize", fences[r])
    BY <1>0, <1>2, <1>25 DEF MargoInitFails, Passes, Entered, Late
  <2>4. "finalize" \in Phases \ Barriers /\ (pc[r] \in Late => "finalize" \in Late)
    BY <1>25, PhasesAre DEF MargoInitFails, Passes, Barriers, Late
  <2>5. target' \in [Rank -> 0 .. N]
    BY <1>0, <2>1 DEF TypeOK
  <2> QED BY <2>1, <2>2, <2>3, <2>4, <2>5, GoOnInv
<1>26. CASE ListenerInitFails(r)
  <2>1. Goto(r, "wait_for_finalize") /\ UNCHANGED <<fences, target>>
        /\ UNCHANGED <<selftest, addr_file, peer_addrs, registered, listen, client, address>>
    BY <1>26 DEF ListenerInitFails, Passes
  <2>2. FenceOpen(r)
    BY <1>3, <1>26 DEF ListenerInitFails, Passes, Barriers
  <2>3. Entered(r, "wait_for_finalize", fences[r])
    BY <1>0, <1>2, <1>26 DEF ListenerInitFails, Passes, Entered, Late
  <2>4. "wait_for_finalize" \in Phases \ Barriers
        /\ (pc[r] \in Late => "wait_for_finalize" \in Late)
    BY <1>26, PhasesAre DEF ListenerInitFails, Passes, Barriers, Late
  <2>5. target' \in [Rank -> 0 .. N]
    BY <1>0, <2>1 DEF TypeOK
  <2> QED BY <2>1, <2>2, <2>3, <2>4, <2>5, GoOnInv
<1> QED
  BY <1>10, <1>11, <1>12, <1>13, <1>14, <1>15,
     <1>16, <1>17, <1>18, <1>19, <1>20, <1>21, <1>22, <1>23, <1>24, <1>25, <1>26
  DEF ServerStep, ServerFails

\* Every step of a client keeps the invariant.
LEMMA ClientInv ==
  ASSUME Inv, NEW c \in Clients, ClientStep(c)
  PROVE  Inv'
<1>0. TypeOK /\ Progress /\ InStep /\ Prepared /\ AnsweredByListener
  BY DEF Inv
<1>1. NodeOf \in [Clients -> Rank]
  BY StartupAssumption DEF Rank
<1>2. UNCHANGED <<server, listen>>
  BY DEF ClientStep, FileAccessible, ReadListenerFile, Answer
<1>3. Progress' /\ InStep' /\ Prepared'
  BY <1>0, <1>2 DEF Progress, Entered, InStep, Passed, Prepared, server, listen
<1>4. TypeOK'
  <2>1. client' \in [Clients -> {"start", "read", "call", "answered", "failed"}]
    <3>1. \/ client' = [client EXCEPT ![c] = "read"]
          \/ client' = [client EXCEPT ![c] = "failed"]
          \/ client' = [client EXCEPT ![c] = "call"]
          \/ client' = [client EXCEPT ![c] = "answered"]
      BY DEF ClientStep, FileAccessible, ReadListenerFile, Answer, Client
    <3> QED BY <1>0, <3>1 DEF TypeOK
  <2>2. address' \in [Clients -> Content]
    BY <1>0, <1>1 DEF TypeOK, ClientStep, FileAccessible, ReadListenerFile, Answer
  <2> QED BY <1>0, <1>2, <2>1, <2>2 DEF TypeOK, server, listen
<1>5. AnsweredByListener'
  <2> SUFFICES ASSUME NEW d \in Clients, client'[d] = "answered"
               PROVE  listening[NodeOf[d]]
    BY <1>2 DEF AnsweredByListener, listen
  <2>1. CASE client[d] = "answered"
    BY <1>0, <2>1 DEF AnsweredByListener
  <2>2. CASE client[d] # "answered"
    <3>1. d = c
      BY <1>0, <2>2 DEF TypeOK, ClientStep, FileAccessible, ReadListenerFile, Answer, Client
    <3>2. Answer(c)
      BY <1>0, <3>1 DEF TypeOK, ClientStep, FileAccessible, ReadListenerFile, Client
    <3> QED BY <3>1, <3>2 DEF Answer
  <2> QED BY <2>1, <2>2
<1> QED BY <1>3, <1>4, <1>5 DEF Inv

\* The inductive invariant.
LEMMA Invariance == Spec => []Inv
<1>1. Init => Inv
  BY InitInv
<1>2. Inv /\ [Next]_vars => Inv'
  <2> SUFFICES ASSUME Inv, [Next]_vars PROVE Inv'
    OBVIOUS
  <2>1. CASE Next
    BY <2>1, ServerInv, ClientInv DEF Next
  <2>2. CASE UNCHANGED vars
    BY <2>2 DEF vars, server, listen, Inv, TypeOK, Progress, Entered, InStep, Passed, Prepared,
                AnsweredByListener
  <2> QED BY <2>1, <2>2
<1> QED BY <1>1, <1>2, PTL DEF Spec
-----------------------------------------------------------------------------
(***************************************************************************)
(* Every variable keeps its type; no server aborts, and no counter goes    *)
(* past the number of barriers or of servers.                              *)
(***************************************************************************)
THEOREM TypeCorrect == Spec => []TypeOK
BY Invariance, PTL DEF Inv

\* A server that tests, or listens, has passed the barrier behind which all
\* have registered their RPCs.
LEMMA TestingOrListening ==
  ASSUME Inv, NEW r \in Rank, Testing(r) \/ listening[r]
  PROVE  /\ fences[r] >= 3
         /\ \A q \in Rank : fences[q] >= 3
<1>1. pc \in [Rank -> Phases] /\ fences \in [Rank -> 0 .. 7]
  BY FencesType, Zenon DEF Inv, TypeOK
<1>2. Entered(r, pc[r], fences[r])
  BY DEF Inv, Progress
<1>3. pc[r] \in {"ping test", "sum test"} \/ pc[r] \in Late
  BY DEF Testing, Inv, Prepared
<1>4. fences[r] >= 3
  <2>1. \/ fences[r] = 3 \/ fences[r] = 4 \/ fences[r] = 5 \/ fences[r] = 6
        \/ fences[r] = 7
    BY <1>1, <1>2, <1>3, EnteredSays
  <2> QED BY <2>1
<1>5. FenceOpen(r)
  <2>1. pc[r] \notin Barriers
    BY <1>3 DEF Barriers, Late
  <2> QED BY <2>1, OutsideFence
<1>6. \A q \in Rank : fences[q] \in 0 .. 7 /\ fences[q] >= fences[r]
  BY <1>1, <1>5 DEF FenceOpen
<1> QED BY <1>1, <1>4, <1>6

(***************************************************************************)
(* Calls go to servers of this run: the barrier after the addresses are    *)
(* written is enough, whatever lay in the directory before.                *)
(***************************************************************************)
THEOREM AddressesAreOfThisRun == Spec => []CallsThisRun
<1>1. Inv => CallsThisRun
  <2> SUFFICES ASSUME Inv, NEW r \in Rank, Testing(r) \/ listening[r]
               PROVE  \A q \in Rank : peer_addrs[r][q] = "new"
    BY DEF CallsThisRun
  <2>1. fences[r] \in Int
    <3>1. fences \in [Rank -> 0 .. 7]
      BY FencesType, Zenon DEF Inv, TypeOK
    <3> QED BY <3>1
  <2>2. fences[r] >= 2
    BY <2>1, TestingOrListening
  <2> QED BY <2>2 DEF Inv, Prepared
<1> QED BY <1>1, Invariance, PTL

(***************************************************************************)
(* Whoever calls finds the RPCs registered, in a test and for the first    *)
(* client that is answered on any node.                                    *)
(***************************************************************************)
THEOREM RegisteredBeforeCalls == Spec => []CallsAreRegistered
<1>1. Inv => CallsAreRegistered
  <2> SUFFICES ASSUME Inv, NEW r \in Rank,
                      Testing(r) \/ \E c \in Clients : NodeOf[c] = r /\ client[c] = "answered"
               PROVE  \A q \in Rank : registered[q]
    BY DEF CallsAreRegistered
  <2>1. Testing(r) \/ listening[r]
    BY DEF Inv, AnsweredByListener
  <2>2. \A q \in Rank : fences[q] >= 3
    BY <2>1, TestingOrListening
  <2> QED BY <2>2 DEF Inv, Prepared
<1> QED BY <1>1, Invariance, PTL

(***************************************************************************)
(* Tests do not overlap: two servers that test have entered the same       *)
(* barriers, for neither has passed one that the other has not entered.    *)
(***************************************************************************)
THEOREM OneTestAtATime == Spec => []TestsDontOverlap
<1>1. Inv => TestsDontOverlap
  <2> SUFFICES ASSUME Inv, NEW r \in Rank, NEW q \in Rank, Testing(r), Testing(q)
               PROVE  fences[r] = fences[q] /\ pc[r] = pc[q]
    BY DEF TestsDontOverlap
  <2>1. fences \in [Rank -> 0 .. 7]
    BY FencesType, Zenon DEF Inv, TypeOK
  <2>2. Entered(r, pc[r], fences[r]) /\ Entered(q, pc[q], fences[q])
    BY DEF Inv, Progress
  <2>3. FenceOpen(r) /\ FenceOpen(q)
    BY OutsideFence DEF Testing, Barriers
  <2>4. fences[r] = fences[q]
    BY <2>1, <2>3 DEF FenceOpen
  <2>5. pc[r] = pc[q]
    <3>1. /\ pc[r] = "ping test" => fences[r] = 3 \/ fences[r] = 4
          /\ pc[r] = "sum test"  => fences[r] = 5 \/ fences[r] = 6
          /\ pc[q] = "ping test" => fences[q] = 3 \/ fences[q] = 4
          /\ pc[q] = "sum test"  => fences[q] = 5 \/ fences[q] = 6
      BY <2>1, <2>2, EnteredSays DEF Inv, TypeOK
    <3>2. CASE fences[r] = 3 \/ fences[r] = 4
      <4>1. fences[q] # 5 /\ fences[q] # 6 /\ fences[r] # 5 /\ fences[r] # 6
        BY <2>4, <3>2
      <4> QED BY <3>1, <4>1, Zenon DEF Testing
    <3>3. CASE fences[r] = 5 \/ fences[r] = 6
      <4>1. fences[q] # 3 /\ fences[q] # 4 /\ fences[r] # 3 /\ fences[r] # 4
        BY <2>4, <3>3
      <4> QED BY <3>1, <4>1, Zenon DEF Testing
    <3> QED BY <3>1, <3>2, <3>3 DEF Testing
  <2> QED BY <2>4, <2>5
<1> QED BY <1>1, Invariance, PTL

(***************************************************************************)
(* A server whose margo_init fails stops all: it never enters the first    *)
(* barrier, so nobody ever passes it.                                      *)
(***************************************************************************)
THEOREM FailedInitStopsAll == Spec => []FailureStopsAll
<1>1. Inv => FailureStopsAll
  <2> SUFFICES ASSUME Inv, NEW r \in Rank, pc[r] = "finalize"
               PROVE  /\ \A q \in Rank : pc[q] \in {"margo_init", "finalize", Fence[1]}
                      /\ \A c \in Clients : client[c] # "answered"
    BY DEF FailureStopsAll
  <2>1. fences \in [Rank -> 0 .. 7] /\ pc \in [Rank -> Phases]
    BY FencesType, Zenon DEF Inv, TypeOK
  <2>2. fences[r] = 0
    BY DEF Inv, Progress, Entered
  <2>3. ASSUME NEW q \in Rank
        PROVE  pc[q] \in {"margo_init", "finalize", Fence[1]}
    <3>1. Passed(pc[q], fences[q]) <= 0
      BY <2>2 DEF Inv, InStep
    <3>2. Entered(q, pc[q], fences[q])
      BY DEF Inv, Progress
    <3>3. CASE pc[q] \in Barriers
      <4>1. fences[q] \in 0 .. 7 /\ fences[q] <= 1
        BY <2>1, <3>1, <3>3 DEF Passed
      <4>2. pc[q] = "reading peer addresses"
        BY <2>1, <3>2, <3>3, <4>1, EnteredSays
      <4> QED BY <4>2, Fences
    <3>4. CASE pc[q] \notin Barriers
      <4>1. fences[q] \in 0 .. 7 /\ fences[q] = 0
        BY <2>1, <3>1, <3>4 DEF Passed
      <4> QED BY <2>1, <3>2, <3>4, <4>1, EnteredSays
    <3> QED BY <3>3, <3>4
  <2>4. ASSUME NEW c \in Clients, client[c] = "answered" PROVE FALSE
    <3>1. NodeOf[c] \in Rank
      BY StartupAssumption DEF Rank
    <3>2. listening[NodeOf[c]]
      BY <2>4 DEF Inv, AnsweredByListener
    <3>3. fences[r] >= 3
      BY <3>1, <3>2, TestingOrListening
    <3> QED BY <2>2, <3>3
  <2> QED BY <2>3, <2>4
<1> QED BY <1>1, Invariance, PTL
=============================================================================
