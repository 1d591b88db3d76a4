--------------------------- MODULE ListenerProofs ---------------------------
(***************************************************************************)
(* Theorems about Listener, for every number of servers and clients, every *)
(* choice of their programs and options, and every bound on the failures.  *)
(***************************************************************************)
EXTENDS Listener, TLAPS

(***************************************************************************)
(* Types, with those of the calls of the collective sum.                   *)

MaxNumber == MaxCount + N + 1

Requests ==
    [op : {"none", "init", "ping", "echo", "sum", "sumrepeat"}, target : Nat,
     num : 0 .. MaxNumber]

Outputs == [ret : {"ok", "error"}, val : Values]

SumAnswers == {Sum!Failure, Garbage} \cup { Sum!Counted(S) : S \in SUBSET Rank }

Calling == {"none", "sent", "running", "waiting", "respond", "done", "stuck"}

Places == {"start", "barrier", "loop", "exit", "killed"}

Types ==
    /\ program \in Workloads /\ count \in 0 .. MaxCount /\ repeat \in 0 .. MaxRepeat
    /\ at \in [Clients -> Places] /\ call \in [Clients -> Calling]
    /\ i \in [Clients -> Nat] /\ nservers \in [Clients -> 0 .. N + 1]
    /\ in \in [Clients -> Requests] /\ out \in [Clients -> Outputs]
    /\ pong \in [Clients -> {"none", "sent", "replied", "silent"}]
    /\ sums \in [Clients -> 0 .. MaxRepeat + 1] /\ timed \in [Clients -> 0 .. MaxTimed]
    /\ hung \subseteq SumOps
    /\ failed \in [Clients -> BOOLEAN] /\ faults \in 0 .. MaxFaults
    /\ caller \in [SumOps -> Rank \cup {NoRank}]
    /\ answer \in [SumOps -> SumAnswers \cup {Sum!NoAnswer}]

(***************************************************************************)
(* The inductive invariant, for each client.                               *)

\* In main, where no call is, and where there is only that of init.
InMain(c) ==
    /\ at[c] \in {"barrier", "exit"} => call[c] = "none"
    /\ at[c] = "start" /\ call[c] # "none" => in[c].op = "init"
    /\ in[c].op = "init" /\ call[c] \in {"respond", "done"} =>
         out[c].val \in {Garbage, Number(N)}

\* What a handler waits for; a ping to another server is that of such a call.
Waiting(c) ==
    /\ call[c] = "waiting" => in[c].op \in {"ping", "sum", "sumrepeat"}
    /\ pong[c] # "none" => call[c] = "waiting" /\ in[c].op = "ping"

\* A ping or an echo: its output starts as a number, and gets the client's own
\* unless a failure of this call makes it undefined.
Echoing(c) ==
    in[c].op \in {"ping", "echo"} =>
        /\ call[c] \in {"running", "waiting", "respond", "done"} =>
             out[c].ret = "ok" /\ out[c].val # MinusOne
        /\ call[c] \in {"respond", "done"} /\ ~ failed[c] =>
             out[c].val = Number(in[c].num)

\* The sums of a sumrepeat, after the first s of them.
Failed(c, s) == \E k \in 1 .. s - 1 : SumAnswer(c, k) = Sum!Failure

Answered(c, s) == \A k \in 0 .. s - 1 : SumAnswer(c, k) # Sum!NoAnswer

\* The handler's loop waits for one more sum as long as there is one.
Counting(c) ==
    in[c].op \in {"sum", "sumrepeat"} /\ call[c] \in {"running", "waiting"} =>
        /\ timed[c] <= sums[c] /\ sums[c] <= Calls(c)
        /\ call[c] = "waiting" => sums[c] < Calls(c)

\* What the loop of a sumrepeat has after `sums' sums.
Repeating(c) ==
    in[c].op = "sumrepeat" /\ call[c] \in {"running", "waiting"} =>
        /\ timed[c] = IF sums[c] = 0 THEN 0 ELSE sums[c] - 1
        /\ Answered(c, sums[c])
        /\ out[c].ret = "error" <=> Failed(c, sums[c])
        /\ out[c].ret = "ok" /\ sums[c] > 1 => out[c].val = SumAnswer(c, sums[c] - 1)

\* What it replies after all of them.
Repeated(c) ==
    in[c].op = "sumrepeat" /\ call[c] \in {"respond", "done"} /\ ~ failed[c] =>
        /\ timed[c] = repeat
        /\ Answered(c, repeat + 1)
        /\ out[c].ret = "error" <=> Failed(c, repeat + 1)
        /\ out[c].ret = "error" => out[c].val = MinusOne
        /\ out[c].ret = "ok" /\ repeat > 0 => out[c].val = SumAnswer(c, repeat)

Good(c) ==
    InMain(c) /\ Waiting(c) /\ Counting(c) /\ Echoing(c) /\ Repeating(c) /\ Repeated(c)

AllGood == \A c \in Clients : Good(c)
-----------------------------------------------------------------------------
(* Values.                                                                 *)

\* The assumption on the constants, and ranks as SumService counts them.
LEMMA Constants ==
  /\ N \in Nat \ {0} /\ Clients \subseteq Nat /\ NodeOf \in [Clients -> Rank]
  /\ MaxCount \in Nat /\ MaxRepeat \in Nat /\ MaxNumber \in Nat
  /\ NoRank \notin Rank
  /\ \A w \in Workloads, c \in Clients : w[c] \in {"ping", "echo", "sum", "sumrepeat"}
BY ListenerAssumption DEF Rank, Ranks, NoRank, MaxNumber

\* Numbers, sums and undefined values are told apart by their kinds.
LEMMA KindsDiffer ==
  /\ \A n : Number(n) # Garbage
  /\ \A m, n : Number(m) = Number(n) => m = n
  /\ \A a \in SumAnswers : a # Sum!NoAnswer /\ \A n : a # Number(n)
  /\ Sum!Failure # Garbage /\ Sum!NoAnswer # Sum!Failure
<1>1. \A n : Number(n).kind = "number" /\ Number(n).n = n
  BY DEF Number
<1>2. Garbage.kind = "garbage" /\ Sum!Failure.kind = "failure" /\ Sum!NoAnswer.kind = "none"
  BY DEF Garbage, Sum!Garbage, Sum!Failure, Sum!NoAnswer
<1>3. \A S : Sum!Counted(S).kind = "sum"
  BY DEF Sum!Counted
<1>4. \A a \in SumAnswers : a.kind \in {"failure", "garbage", "sum"}
  BY <1>2, <1>3 DEF SumAnswers
<1> HIDE DEF Number, Garbage
<1> QED BY <1>1, <1>2, <1>4

\* What may be in an output.
LEMMA ValuesHold ==
  /\ Garbage \in Values
  /\ \A n \in -1 .. MaxNumber : Number(n) \in Values
  /\ \A a \in SumAnswers : a # Sum!Failure => a \in Values
<1>1. Garbage \in Values /\ \A n \in -1 .. MaxNumber : Number(n) \in Values
  BY DEF Values, MaxNumber
<1>2. \A S \in SUBSET Rank : Sum!Counted(S) \in Values
  BY DEF Values
<1> QED BY <1>1, <1>2 DEF SumAnswers

\* An answer of SumService is one of SumAnswers.
LEMMA AnswersHold ==
  ASSUME NEW r
  PROVE  Sum!Answers(r) \subseteq SumAnswers
<1>1. Sum!Ranks(N) = Rank
  BY DEF Sum!Ranks, Rank, Ranks
<1>2. Sum!Complete \in SumAnswers
  BY <1>1 DEF Sum!Complete, SumAnswers
<1>3. ASSUME NEW S \in {T \in SUBSET Sum!Ranks(N) : r \in T}
      PROVE  Sum!Counted(S) \in SumAnswers
  BY <1>1 DEF SumAnswers
<1>4. Sum!Failure \in SumAnswers /\ Sum!Garbage \in SumAnswers
  BY DEF SumAnswers, Garbage
<1> QED BY <1>2, <1>3, <1>4 DEF Sum!Answers

-----------------------------------------------------------------------------
(* Initially.                                                              *)

LEMMA InitTypes == Init => Types
<1> SUFFICES ASSUME Init PROVE Types
  OBVIOUS
<1>1. NoCall \in Requests /\ NoOutput \in Outputs
  BY ValuesHold, Constants DEF NoCall, NoOutput, Requests, Outputs
<1>2. /\ caller \in [SumOps -> Rank \cup {NoRank}]
      /\ answer \in [SumOps -> SumAnswers \cup {Sum!NoAnswer}]
  BY DEF Init, Sum!Init, Sum!NoRank, NoRank
<1>3. count \in 0 .. MaxCount /\ repeat \in 0 .. MaxRepeat /\ faults \in 0 .. MaxFaults
  BY Constants, ListenerAssumption DEF Init
<1>4. 0 \in 0 .. MaxTimed
  BY Constants DEF MaxTimed
<1> QED BY <1>1, <1>2, <1>3, <1>4, Constants DEF Init, Types, Calling, Places

\* The types include those that the runs check.
LEMMA TypesOK == Types => TypeOK
<1> SUFFICES ASSUME Types PROVE TypeOK
  OBVIOUS
<1>1. \A c \in Clients :
        /\ in[c].op \in {"none", "init", "ping", "echo", "sum", "sumrepeat"}
        /\ in[c].target \in Nat /\ in[c].num \in Nat
        /\ out[c].ret \in {"ok", "error"} /\ out[c].val \in Values
  BY Constants DEF Types, Requests, Outputs
<1> QED BY <1>1 DEF Types, TypeOK, Calling, Places

-----------------------------------------------------------------------------
(* Every step keeps the types.                                             *)

\* A failing library call counts.
LEMMA FaultType ==
  ASSUME Types, NEW c \in Clients, Fault(c)
  PROVE  failed' \in [Clients -> BOOLEAN] /\ faults' \in 0 .. MaxFaults
BY ListenerAssumption DEF Types, Fault

\* A call goes from one place to another.
LEMMA CallType ==
  ASSUME Types, NEW c \in Clients, NEW to \in Calling, call' = [call EXCEPT ![c] = to]
  PROVE  call' \in [Clients -> Calling]
BY DEF Types

\* An output is set.
LEMMA OutputType ==
  ASSUME Types, NEW c \in Clients, NEW o \in Outputs, out' = [out EXCEPT ![c] = o]
  PROVE  out' \in [Clients -> Outputs]
BY DEF Types

\* An output with a number in it.
LEMMA NumberOutput ==
  ASSUME NEW n \in -1 .. MaxNumber, NEW r \in {"ok", "error"}
  PROVE  [ret |-> r, val |-> Number(n)] \in Outputs /\ [ret |-> r, val |-> Garbage] \in Outputs
BY ValuesHold DEF Outputs

\* What a step of main makes of the types.
LEMMA MainTypes ==
  ASSUME Types, AllGood, NEW c \in Clients, Main(c)
  PROVE  Types'
<1>1. ASSUME NEW r \in Requests, Invoke(c, r) PROVE Types'
  <2>1. call' \in [Clients -> Calling]
    BY <1>1, CallType DEF Invoke, Calling
  <2>2. in' \in [Clients -> Requests] /\ failed' \in [Clients -> BOOLEAN]
    BY <1>1 DEF Invoke, Types
  <2> QED BY <1>1, <2>1, <2>2 DEF Invoke, Types, client, service
<1>2. CASE InvokeInit(c)
  <2>1. [op |-> "init", target |-> 0, num |-> 0] \in Requests
    BY Constants DEF Requests
  <2> QED BY <1>1, <1>2, <2>1 DEF InvokeInit
<1>3. program[c] \in {"ping", "echo", "sum", "sumrepeat"}
  BY Constants DEF Types
<1>4. CASE InvokeInLoop(c)
  <2> DEFINE t == IF program[c] = "ping" THEN i[c] % nservers[c] ELSE 0
             r == [op |-> program[c], num |-> i[c], target |-> t]
  <2>1. i[c] \in Nat /\ nservers[c] \in 0 .. N + 1 /\ count \in 0 .. MaxCount
    BY DEF Types
  <2>2. LoopCount(c) \in 0 .. MaxNumber
    BY <2>1, Constants DEF LoopCount, MaxNumber
  <2>3. i[c] \in 0 .. MaxNumber
    <3>1. i[c] < LoopCount(c)
      BY <1>4 DEF InvokeInLoop
    <3> QED BY <2>1, <2>2, <3>1, Constants
  <2>4. t \in Nat
    <3>1. nservers[c] \in Nat /\ (program[c] = "ping" => nservers[c] # 0)
      BY <1>4, <2>1, Constants DEF InvokeInLoop, Divides
    <3> QED BY <2>1, <3>1
  <2>5. r \in Requests
    <3> HIDE DEF t
    <3> QED BY <1>3, <2>3, <2>4 DEF Requests
  <2>6. Invoke(c, r)
    BY <1>4 DEF InvokeInLoop
  <2> QED BY <1>1, <2>5, <2>6
<1>5. CASE DivisionByZero(c)
  <2>1. at' \in [Clients -> Places]
    BY <1>5 DEF DivisionByZero, Kill, Types, Places
  <2> QED BY <1>5, <2>1 DEF DivisionByZero, Types, service
<1>6. ASSUME Return(c), at' \in [Clients -> Places], i' \in [Clients -> Nat],
             nservers' \in [Clients -> 0 .. N + 1]
      PROVE  Types'
  <2>1. call' \in [Clients -> Calling]
    BY <1>6, CallType DEF Return, Calling
  <2>2. NoCall \in Requests /\ NoOutput \in Outputs
    BY ValuesHold, Constants DEF NoCall, NoOutput, Requests, Outputs
  <2>3. in' \in [Clients -> Requests] /\ out' \in [Clients -> Outputs]
    BY <1>6, <2>2 DEF Return, Types
  <2> QED BY <1>6, <2>1, <2>3 DEF Return, Types, service
<1>7. CASE InitReturns(c)
  <2>1. AfterInit(c) \in Places
    BY <1>3 DEF AfterInit, Places
  <2>2. at' \in [Clients -> Places]
    BY <1>7, <2>1 DEF InitReturns, Types
  <2>3. out[c].val \in {Garbage, Number(N)}
    BY <1>7 DEF InitReturns, Return, AllGood, Good, InMain
  <2>4. out[c].val # Garbage => out[c].val.n = N
    BY <2>3 DEF Number
  <2>5. PICK n \in 0 .. N + 1 : nservers' = [nservers EXCEPT ![c] = n]
    <3>1. PICK n \in IF out[c].val = Garbage THEN 0 .. N + 1 ELSE {out[c].val.n} :
            nservers' = [nservers EXCEPT ![c] = n]
      BY <1>7 DEF InitReturns
    <3>2. n \in 0 .. N + 1
      BY <2>4, <3>1, Constants
    <3> QED BY <3>1, <3>2
  <2>6. nservers' \in [Clients -> 0 .. N + 1]
    BY <2>5 DEF Types
  <2> QED BY <1>6, <1>7, <2>2, <2>6 DEF InitReturns, Types
<1>8. CASE CallReturns(c)
  <2>1. i' \in [Clients -> Nat]
    BY <1>8 DEF CallReturns, Types
  <2> QED BY <1>6, <1>8, <2>1 DEF CallReturns, Types
<1>9. CASE LoopEnds(c) \/ PassBarrier(c)
  <2>1. at' \in [Clients -> Places]
    BY <1>9 DEF LoopEnds, PassBarrier, Types, Places
  <2> QED BY <1>9, <2>1 DEF LoopEnds, PassBarrier, Types, service
<1> QED BY <1>2, <1>4, <1>5, <1>7, <1>8, <1>9 DEF Main

\* A handler that waits for a sum waits for one of those that it asks for.
LEMMA NextSum ==
  ASSUME Types, AllGood, NEW c \in Clients, call[c] = "waiting", in[c].op # "ping"
  PROVE  /\ in[c].op \in {"sum", "sumrepeat"} /\ sums[c] < Calls(c)
         /\ sums[c] \in 0 .. MaxRepeat /\ timed[c] \in 0 .. MaxRepeat
         /\ <<c, sums[c]>> \in SumOps
         /\ in[c].op = "sum" \/ sums[c] # 0 => timed[c] + 1 \in 0 .. MaxTimed
<1>1. in[c].op \in {"sum", "sumrepeat"}
  BY DEF AllGood, Good, Waiting
<1>2. timed[c] <= sums[c] /\ sums[c] < Calls(c)
  BY <1>1 DEF AllGood, Good, Counting
<1>3. sums[c] \in Nat /\ timed[c] \in Nat /\ repeat \in 0 .. MaxRepeat
  BY Constants DEF Types
<1>4. Calls(c) \in 1 .. MaxRepeat + 1
  BY <1>3, Constants DEF Calls
<1>5. sums[c] \in 0 .. MaxRepeat /\ timed[c] \in 0 .. MaxRepeat
  BY <1>2, <1>3, <1>4, Constants
<1>6. CASE in[c].op = "sum"
  <2>1. timed[c] = 0
    BY <1>2, <1>3, <1>6 DEF Calls
  <2> QED BY <1>1, <1>2, <1>5, <1>6, <2>1, Constants DEF SumOps, MaxTimed
<1>7. CASE in[c].op = "sumrepeat"
  <2>1. timed[c] = IF sums[c] = 0 THEN 0 ELSE sums[c] - 1
    BY <1>7 DEF AllGood, Good, Repeating
  <2>2. sums[c] # 0 => timed[c] + 1 \in 0 .. MaxTimed
    BY <2>1, <1>5, Constants DEF MaxTimed
  <2> QED BY <1>1, <1>2, <1>5, <1>7, <2>2 DEF SumOps
<1> QED BY <1>1, <1>6, <1>7

\* What a step of the listener, or of the server that is pinged, makes of them.
LEMMA HandleTypes ==
  ASSUME Types, AllGood, NEW c \in Clients, Handle(c)
  PROVE  Types'
<1>1. CASE Start(c)
  <2>1. call' \in [Clients -> Calling]
    BY <1>1, CallType DEF Start, Step, Calling
  <2>2. out' \in [Clients -> Outputs]
    <3>1. 0 \in -1 .. MaxNumber
      BY Constants
    <3> QED BY <1>1, <3>1, OutputType, NumberOutput DEF Start, Output
  <2>3. /\ sums' \in [Clients -> 0 .. MaxRepeat + 1]
        /\ timed' \in [Clients -> 0 .. MaxTimed]
    BY <1>1, Constants DEF Start, Types, MaxTimed
  <2> QED BY <1>1, <2>1, <2>2, <2>3 DEF Start, Types, client, service, NoFault
<1>2. CASE HandleInit(c)
  <2>1. call' \in [Clients -> Calling]
    BY <1>2, CallType DEF HandleInit, Step, Calling
  <2>2. N \in -1 .. MaxNumber
    BY Constants DEF MaxNumber
  <2>3. out' \in [Clients -> Outputs]
    BY <1>2, <2>2, OutputType, NumberOutput DEF HandleInit, Output
  <2> QED BY <1>2, <2>1, <2>3 DEF HandleInit, Types, client, service, NoFault
<1>3. in[c].num \in -1 .. MaxNumber
  <2>1. in[c].num \in 0 .. MaxNumber
    BY DEF Types, Requests
  <2> QED BY <2>1, Constants
<1>4. CASE HandleEcho(c)
  <2>1. call' \in [Clients -> Calling]
    BY <1>4, CallType DEF HandleEcho, Step, Calling
  <2>2. out' \in [Clients -> Outputs]
    BY <1>4, <1>3, OutputType, NumberOutput DEF HandleEcho, Output
  <2> QED BY <1>4, <2>1, <2>2 DEF HandleEcho, Types, client, service, NoFault
<1>5. CASE Respond(c)
  <2>1. call' \in [Clients -> Calling]
    BY <1>5, CallType DEF Respond, Step, Calling
  <2> QED BY <1>5, <2>1 DEF Respond, Types, client, service, NoFault
<1>6. CASE HandlePing(c)
  <2>1. call' \in [Clients -> Calling]
    BY <1>6, CallType DEF HandlePing, Step, Calling
  <2>2. out' \in [Clients -> Outputs]
    <3>1. -1 \in -1 .. MaxNumber
      BY Constants
    <3>2. [ret |-> "ok", val |-> MinusOne] \in Outputs
      BY <3>1, NumberOutput DEF MinusOne
    <3> QED BY <1>6, <3>2, OutputType DEF HandlePing, Output, Types
  <2>3. pong' \in [Clients -> {"none", "sent", "replied", "silent"}]
    BY <1>6 DEF HandlePing, Types
  <2> QED BY <1>6, <2>1, <2>2, <2>3 DEF HandlePing, Types, client, service, NoFault
<1>7. CASE RemotePing(c)
  <2>1. pong' \in [Clients -> {"none", "sent", "replied", "silent"}]
    BY <1>7 DEF RemotePing, Types
  <2> QED BY <1>7, <2>1 DEF RemotePing, Types, client, service, NoFault
<1>8. CASE PingReturns(c)
  <2>1. call' \in [Clients -> Calling]
    BY <1>8, CallType DEF PingReturns, Step, Calling
  <2>2. out' \in [Clients -> Outputs]
    BY <1>8, <1>3, OutputType, NumberOutput DEF PingReturns, Output
  <2>3. pong' \in [Clients -> {"none", "sent", "replied", "silent"}]
    BY <1>8 DEF PingReturns, Types
  <2> QED BY <1>8, <2>1, <2>2, <2>3 DEF PingReturns, Types, client, service, NoFault
<1>9. CASE InvokeSum(c)
  <2>1. call' \in [Clients -> Calling]
    BY <1>9, CallType DEF InvokeSum, Step, Calling
  <2>2. NodeOf[c] \in Rank
    BY Constants
  <2>3. caller' \in [SumOps -> Rank \cup {NoRank}]
    BY <1>9, <2>2 DEF InvokeSum, Sum!Call, Types
  <2>4. answer' = answer
    BY <1>9 DEF InvokeSum, Sum!Call
  <2> QED BY <1>9, <2>1, <2>3, <2>4 DEF InvokeSum, Types, client, NoFault
<1>10. CASE SumIsAnswered(c)
  <2>1. PICK a \in SumAnswers : answer' = [answer EXCEPT ![<<c, sums[c]>>] = a]
    BY <1>10, AnswersHold DEF SumIsAnswered, Sum!Answer
  <2>2. answer' \in [SumOps -> SumAnswers \cup {Sum!NoAnswer}]
    BY <2>1 DEF Types
  <2>3. caller' = caller
    BY <1>10 DEF SumIsAnswered, Sum!Answer
  <2> QED BY <1>10, <2>2, <2>3 DEF SumIsAnswered, Types, client, NoFault
<1>11. CASE SumReturns(c)
  <2>1. call' \in [Clients -> Calling]
    BY <1>11, CallType DEF SumReturns, Step, Calling
  <2>2. out[c] \in Outputs
    BY DEF Types
  <2>3. in[c].op # "ping" /\ call[c] = "waiting"
    BY <1>11 DEF SumReturns, Step
  <2>4. sums[c] \in 0 .. MaxRepeat /\ timed[c] \in 0 .. MaxRepeat /\ <<c, sums[c]>> \in SumOps
    BY <2>3, NextSum
  <2>5. /\ sums[c] + 1 \in 0 .. MaxRepeat + 1
        /\ ~ (in[c].op = "sumrepeat" /\ sums[c] = 0) => timed[c] + 1 \in 0 .. MaxTimed
    BY <2>3, <2>4, NextSum, Constants
  <2>6. /\ sums' \in [Clients -> 0 .. MaxRepeat + 1]
        /\ timed' \in [Clients -> 0 .. MaxTimed]
    <3>1. 0 \in 0 .. MaxTimed
      BY Constants DEF MaxTimed
    <3> QED BY <1>11, <2>5, <3>1 DEF SumReturns, Types
  <2>8. answer[<<c, sums[c]>>] \in SumAnswers
    BY <1>11, <2>4 DEF SumReturns, Types
  <2>9. Returned(c) \in Outputs
    BY <2>2, <2>8, ValuesHold DEF Returned, Outputs
  <2>10. OrMinusOne(Returned(c)) \in Outputs
    <3>1. -1 \in -1 .. MaxNumber
      BY Constants
    <3>2. MinusOne \in Values
      BY <3>1, ValuesHold DEF MinusOne
    <3> QED BY <2>9, <3>2 DEF OrMinusOne, Outputs
  <2>11. [OrMinusOne(Returned(c)) EXCEPT !.ret = "ok"] \in Outputs
    BY <2>10 DEF Outputs
  <2>12. out' \in [Clients -> Outputs]
    BY <1>11, <2>9, <2>11 DEF SumReturns, Types
  <2> QED BY <1>11, <2>1, <2>6, <2>12 DEF SumReturns, Types, client, service, NoFault
<1>12. CASE SumsDone(c)
  <2>1. call' \in [Clients -> Calling]
    BY <1>12, CallType DEF SumsDone, Step, Calling
  <2>2. OrMinusOne(out[c]) \in Outputs
    <3>1. -1 \in -1 .. MaxNumber
      BY Constants
    <3>2. MinusOne \in Values
      BY <3>1, ValuesHold DEF MinusOne
    <3> QED BY <3>2 DEF OrMinusOne, Outputs, Types
  <2>3. out' \in [Clients -> Outputs]
    BY <1>12, <2>2 DEF SumsDone, Types
  <2> QED BY <1>12, <2>1, <2>3 DEF SumsDone, Types, client, service, NoFault
<1> QED
  BY <1>1, <1>2, <1>4, <1>5, <1>6, <1>7, <1>8, <1>9, <1>10, <1>11, <1>12 DEF Handle

\* What a failing library call makes of them.
LEMMA FailTypes ==
  ASSUME Types, AllGood, NEW c \in Clients, Fail(c)
  PROVE  Types'
<1>1. CASE CreateFails(c)
  <2>1. call' \in [Clients -> Calling]
    BY <1>1, CallType DEF CreateFails, Calling
  <2>2. at' \in [Clients -> Places]
    BY <1>1 DEF CreateFails, Kill, Types, Places
  <2>3. failed' \in [Clients -> BOOLEAN] /\ faults' \in 0 .. MaxFaults
    BY <1>1, FaultType DEF CreateFails
  <2> QED BY <1>1, <2>1, <2>2, <2>3 DEF CreateFails, Types, service
<1>2. CASE LibraryFails(c)
  <2>1. call' \in [Clients -> Calling]
    BY <1>2, CallType DEF LibraryFails, Calling
  <2>2. PICK r \in {"ok", "error"} :
          out' = [out EXCEPT ![c] = [ret |-> r, val |-> Garbage]]
    BY <1>2 DEF LibraryFails
  <2>3. out' \in [Clients -> Outputs]
    BY <2>2, OutputType, ValuesHold DEF Outputs
  <2>4. failed' \in [Clients -> BOOLEAN] /\ faults' \in 0 .. MaxFaults
    BY <1>2, FaultType DEF LibraryFails
  <2> QED BY <1>2, <2>1, <2>3, <2>4 DEF LibraryFails, Types, client, service
<1>3. CASE RespondFails(c)
  <2>1. call' \in [Clients -> Calling]
    BY <1>3, CallType DEF RespondFails, Step, Calling
  <2>2. failed' \in [Clients -> BOOLEAN] /\ faults' \in 0 .. MaxFaults
    BY <1>3, FaultType DEF RespondFails
  <2> QED BY <1>3, <2>1, <2>2 DEF RespondFails, Types, client, service
<1>4. CASE RemotePingFails(c)
  <2>1. pong' \in [Clients -> {"none", "sent", "replied", "silent"}]
    BY <1>4 DEF RemotePingFails, Types
  <2>2. failed' \in [Clients -> BOOLEAN] /\ faults' \in 0 .. MaxFaults
    BY <1>4, FaultType DEF RemotePingFails
  <2> QED BY <1>4, <2>1, <2>2 DEF RemotePingFails, Types, client, service
<1>5. CASE PingFails(c)
  <2>1. call' \in [Clients -> Calling]
    BY <1>5, CallType DEF PingFails, Step, Calling
  <2>2. out' \in [Clients -> Outputs]
    BY <1>5, OutputType, ValuesHold DEF PingFails, Output, Outputs
  <2>3. pong' \in [Clients -> {"none", "sent", "replied", "silent"}]
    BY <1>5 DEF PingFails, Types
  <2>4. failed' \in [Clients -> BOOLEAN] /\ faults' \in 0 .. MaxFaults
    BY <1>5, FaultType DEF PingFails
  <2> QED BY <1>5, <2>1, <2>2, <2>3, <2>4 DEF PingFails, Types, client, service
<1>6. CASE SumHangs(c)
  <2>1. <<c, sums[c]>> \in SumOps
    BY <1>6, NextSum DEF SumHangs
  <2>2. hung' \subseteq SumOps
    BY <1>6, <2>1 DEF SumHangs, Types
  <2>3. failed' \in [Clients -> BOOLEAN] /\ faults' \in 0 .. MaxFaults
    BY <1>6, FaultType DEF SumHangs
  <2> QED BY <1>6, <2>2, <2>3 DEF SumHangs, Types, client
<1> QED BY <1>1, <1>2, <1>3, <1>4, <1>5, <1>6 DEF Fail
-----------------------------------------------------------------------------
(* Every step keeps what is good.                                          *)

\* What leaves a client, its call and the answers to it as they are, up to the
\* death of the process, the reply, the end of a ping and a failure.
Kept(c) ==
    /\ repeat' = repeat
    /\ at'[c] \in {at[c], "killed"}
    /\ call'[c] = call[c] \/ (call[c] = "respond" /\ call'[c] = "done")
    /\ in'[c] = in[c] /\ out'[c] = out[c]
    /\ pong[c] = "none" => pong'[c] = "none"
    /\ sums'[c] = sums[c] /\ timed'[c] = timed[c]
    /\ failed[c] => failed'[c]
    /\ \A k \in 0 .. MaxRepeat :
         SumAnswer(c, k) # Sum!NoAnswer => SumAnswer(c, k)' = SumAnswer(c, k)

\* Sums that have been answered have failed or not for good.
LEMMA AnsweredKept ==
  ASSUME NEW c, NEW s \in 0 .. MaxRepeat + 1, MaxRepeat \in Nat, Answered(c, s),
         \A k \in 0 .. MaxRepeat :
           SumAnswer(c, k) # Sum!NoAnswer => SumAnswer(c, k)' = SumAnswer(c, k)
  PROVE  /\ \A k \in 0 .. s - 1 : SumAnswer(c, k)' = SumAnswer(c, k)
         /\ \A k \in 0 .. s - 1 : SumAnswer(c, k)' # Sum!NoAnswer
         /\ (\E k \in 1 .. s - 1 : SumAnswer(c, k)' = Sum!Failure) <=> Failed(c, s)
<1>1. \A k \in 0 .. s - 1 : k \in 0 .. MaxRepeat
  OBVIOUS
<1>2. \A k \in 1 .. s - 1 : k \in 0 .. s - 1
  OBVIOUS
<1> HIDE DEF SumAnswer
<1>3. \A k \in 0 .. s - 1 : SumAnswer(c, k)' = SumAnswer(c, k)
  BY <1>1 DEF Answered
<1> QED BY <1>2, <1>3 DEF Answered, Failed

LEMMA KeptGood ==
  ASSUME Types, NEW c \in Clients, Good(c), Kept(c)
  PROVE  Good(c)'
<1>1. InMain(c)'
  BY DEF Good, InMain, Kept
<1>2. Waiting(c)'
  BY DEF Good, Waiting, Kept
<1>3. Counting(c)'
  BY DEF Good, Counting, Kept, Calls
<1>4. Echoing(c)'
  BY DEF Good, Echoing, Kept
<1>5. repeat \in 0 .. MaxRepeat /\ sums[c] \in 0 .. MaxRepeat + 1 /\ MaxRepeat \in Nat
  BY Constants DEF Types
<1>6. Repeating(c)'
  <2> SUFFICES ASSUME in'[c].op = "sumrepeat", call'[c] \in {"running", "waiting"}
               PROVE  Repeating(c)'
    BY DEF Repeating
  <2>1. /\ in[c].op = "sumrepeat" /\ call[c] \in {"running", "waiting"}
        /\ sums'[c] = sums[c] /\ timed'[c] = timed[c] /\ out'[c] = out[c]
    BY DEF Kept
  <2>2. /\ timed[c] = IF sums[c] = 0 THEN 0 ELSE sums[c] - 1
        /\ Answered(c, sums[c])
        /\ out[c].ret = "error" <=> Failed(c, sums[c])
        /\ out[c].ret = "ok" /\ sums[c] > 1 => out[c].val = SumAnswer(c, sums[c] - 1)
    BY <2>1 DEF Good, Repeating
  <2>3. /\ \A k \in 0 .. sums[c] - 1 : SumAnswer(c, k)' = SumAnswer(c, k)
        /\ \A k \in 0 .. sums[c] - 1 : SumAnswer(c, k)' # Sum!NoAnswer
        /\ (\E k \in 1 .. sums[c] - 1 : SumAnswer(c, k)' = Sum!Failure)
             <=> Failed(c, sums[c])
    BY <1>5, <2>2, AnsweredKept DEF Kept
  <2>4. sums[c] > 1 => sums[c] - 1 \in 0 .. sums[c] - 1
    BY <1>5
  <2> HIDE DEF SumAnswer
  <2>5. Answered(c, sums[c])' /\ (Failed(c, sums[c])' <=> Failed(c, sums[c]))
    BY <2>1, <2>3 DEF Answered, Failed
  <2>6. sums[c] > 1 => SumAnswer(c, sums[c] - 1)' = SumAnswer(c, sums[c] - 1)
    BY <2>1, <2>3, <2>4 DEF SumAnswer
  <2> QED BY <2>1, <2>2, <2>5, <2>6 DEF Repeating
<1>7. Repeated(c)'
  <2> SUFFICES ASSUME in'[c].op = "sumrepeat", call'[c] \in {"respond", "done"},
                      ~ failed'[c]
               PROVE  Repeated(c)'
    BY DEF Repeated
  <2>1. /\ in[c].op = "sumrepeat" /\ call[c] \in {"respond", "done"} /\ ~ failed[c]
        /\ timed'[c] = timed[c] /\ out'[c] = out[c] /\ repeat' = repeat
    BY DEF Kept
  <2>2. /\ timed[c] = repeat
        /\ Answered(c, repeat + 1)
        /\ out[c].ret = "error" <=> Failed(c, repeat + 1)
        /\ out[c].ret = "error" => out[c].val = MinusOne
        /\ out[c].ret = "ok" /\ repeat > 0 => out[c].val = SumAnswer(c, repeat)
    BY <2>1 DEF Good, Repeated
  <2>3. repeat + 1 \in 0 .. MaxRepeat + 1 /\ repeat \in 0 .. (repeat + 1) - 1
    BY <1>5
  <2>4. /\ \A k \in 0 .. (repeat + 1) - 1 : SumAnswer(c, k)' = SumAnswer(c, k)
        /\ \A k \in 0 .. (repeat + 1) - 1 : SumAnswer(c, k)' # Sum!NoAnswer
        /\ (\E k \in 1 .. (repeat + 1) - 1 : SumAnswer(c, k)' = Sum!Failure)
             <=> Failed(c, repeat + 1)
    BY <1>5, <2>2, <2>3, AnsweredKept DEF Kept
  <2> HIDE DEF SumAnswer
  <2>5. Answered(c, repeat + 1)' /\ (Failed(c, repeat + 1)' <=> Failed(c, repeat + 1))
    BY <2>1, <2>4 DEF Answered, Failed
  <2>6. SumAnswer(c, repeat)' = SumAnswer(c, repeat)
    BY <2>1, <2>3, <2>4 DEF SumAnswer
  <2> QED BY <2>1, <2>2, <2>5, <2>6 DEF Repeated
<1> QED BY <1>1, <1>2, <1>3, <1>4, <1>6, <1>7 DEF Good

\* A client without a call, or with one that nobody has handled yet or will
\* ever answer.
LEMMA IdleGood ==
  ASSUME NEW c \in Clients, call'[c] \in {"none", "sent", "stuck"}, pong'[c] = "none",
         at'[c] \in {"barrier", "exit"} => call'[c] = "none",
         at'[c] = "start" /\ call'[c] # "none" => in'[c].op = "init"
  PROVE  Good(c)'
BY DEF Good, InMain, Waiting, Counting, Echoing, Repeating, Repeated

\* Initially all is good.
LEMMA InitGood == Init => AllGood
BY DEF Init, AllGood, Good, InMain, Waiting, Counting, Echoing, Repeating, Repeated

\* An answer is given to no other sum than the one that c waits for.
LEMMA AnswersKept ==
  ASSUME Types, NEW c \in Clients, SumIsAnswered(c)
  PROVE  \A d \in Clients : \A k \in 0 .. MaxRepeat :
           SumAnswer(d, k) # Sum!NoAnswer => SumAnswer(d, k)' = SumAnswer(d, k)
<1> SUFFICES ASSUME NEW d \in Clients, NEW k \in 0 .. MaxRepeat,
                    answer[<<d, k>>] # Sum!NoAnswer
             PROVE  answer'[<<d, k>>] = answer[<<d, k>>]
  BY DEF SumAnswer
<1>1. answer[<<c, sums[c]>>] = Sum!NoAnswer
  BY DEF SumIsAnswered, Sum!Answer
<1>2. PICK a : answer' = [answer EXCEPT ![<<c, sums[c]>>] = a]
  BY DEF SumIsAnswered, Sum!Answer
<1>3. <<d, k>> # <<c, sums[c]>>
  BY <1>1, Zenon
<1>4. <<d, k>> \in DOMAIN answer
  BY DEF Types, SumOps
<1> QED BY <1>2, <1>3, <1>4

\* A step of one client, of its call, or against it, keeps that of another.
LEMMA OthersKept ==
  ASSUME Types, NEW c \in Clients, NEW d \in Clients, d # c, Main(c) \/ Handle(c) \/ Fail(c)
  PROVE  Kept(d)
<1> DEFINE SameAnswers ==
      \A k \in 0 .. MaxRepeat :
        SumAnswer(d, k) # Sum!NoAnswer => SumAnswer(d, k)' = SumAnswer(d, k)
    Same == /\ repeat' = repeat
            /\ call'[d] = call[d] /\ in'[d] = in[d] /\ out'[d] = out[d] /\ pong'[d] = pong[d]
            /\ sums'[d] = sums[d] /\ timed'[d] = timed[d] /\ failed'[d] = failed[d]
<1>1. answer' = answer => SameAnswers
  BY DEF SumAnswer
<1>2. Same /\ at'[d] \in {at[d], "killed"} /\ SameAnswers => Kept(d)
  BY DEF Kept
<1> HIDE DEF SameAnswers
<1>3. CASE Main(c)
  <2>1. ASSUME Return(c) PROVE Same /\ answer' = answer
    BY <2>1 DEF Return, Types, service
  <2>2. CASE InvokeInit(c) \/ InvokeInLoop(c)
    <3>1. PICK r : Invoke(c, r)
      BY <2>2 DEF InvokeInit, InvokeInLoop
    <3> QED BY <3>1, <1>1, <1>2 DEF Invoke, Types, client, service
  <2>3. CASE InitReturns(c) \/ CallReturns(c)
    <3>1. at'[d] = at[d] /\ Return(c)
      BY <2>3 DEF InitReturns, CallReturns, Types
    <3> QED BY <2>1, <3>1, <1>1, <1>2
  <2>4. CASE LoopEnds(c) \/ PassBarrier(c) \/ DivisionByZero(c)
    <3>1. at'[d] \in {at[d], "killed"}
      BY <2>4 DEF LoopEnds, PassBarrier, DivisionByZero, Kill, Types
    <3>2. Same /\ answer' = answer
      BY <2>4 DEF LoopEnds, PassBarrier, DivisionByZero, service
    <3> QED BY <3>1, <3>2, <1>1, <1>2
  <2> QED BY <1>3, <2>2, <2>3, <2>4 DEF Main
<1>4. CASE Handle(c)
  <2>1. at'[d] = at[d]
    BY <1>4 DEF Handle, Start, HandleInit, HandleEcho, Respond, HandlePing, RemotePing,
                PingReturns, InvokeSum, SumIsAnswered, SumReturns, SumsDone, client
  <2>2. SameAnswers
    <3>1. CASE SumIsAnswered(c)
      BY <3>1, AnswersKept DEF SameAnswers
    <3>2. CASE ~ SumIsAnswered(c)
      <4>1. answer' = answer
        BY <1>4, <3>2 DEF Handle, Start, HandleInit, HandleEcho, Respond, HandlePing,
             RemotePing, PingReturns, InvokeSum, Sum!Call, SumReturns, SumsDone, service
      <4> QED BY <4>1, <1>1
    <3> QED BY <3>1, <3>2
  <2>3. Same
    <3>1. CASE Start(c) \/ HandleInit(c) \/ HandleEcho(c) \/ Respond(c)
      BY <3>1 DEF Start, HandleInit, HandleEcho, Respond, Step, Output, NoFault, client, Types
    <3>2. CASE HandlePing(c) \/ RemotePing(c) \/ PingReturns(c)
      BY <3>2 DEF HandlePing, RemotePing, PingReturns, Step, Output, NoFault, client, Types
    <3>3. CASE InvokeSum(c) \/ SumIsAnswered(c)
      BY <3>3 DEF InvokeSum, SumIsAnswered, Step, NoFault, client, Types
    <3>4. CASE SumReturns(c)
      BY <3>4 DEF SumReturns, Step, NoFault, client, Types
    <3>5. CASE SumsDone(c)
      BY <3>5 DEF SumsDone, Step, NoFault, client, Types
    <3> QED BY <1>4, <3>1, <3>2, <3>3, <3>4, <3>5 DEF Handle
  <2> QED BY <2>1, <2>2, <2>3, <1>2
<1>5. CASE Fail(c)
  <2>1. at'[d] \in {at[d], "killed"}
    BY <1>5 DEF Fail, CreateFails, LibraryFails, RespondFails, RemotePingFails, PingFails,
                SumHangs, Kill, Types, client
  <2>2. answer' = answer
    BY <1>5 DEF Fail, CreateFails, LibraryFails, RespondFails, RemotePingFails, PingFails,
                SumHangs, service
  <2>3. Same
    <3>1. failed'[d] = failed[d]
      BY <1>5 DEF Fail, CreateFails, LibraryFails, RespondFails, RemotePingFails, PingFails,
                  SumHangs, Fault, Types
    <3>2. CASE CreateFails(c) \/ RespondFails(c) \/ RemotePingFails(c) \/ SumHangs(c)
      BY <3>1, <3>2 DEF CreateFails, RespondFails, RemotePingFails, SumHangs, Step, client,
                        Types
    <3>3. CASE LibraryFails(c)
      BY <3>1, <3>3 DEF LibraryFails, client, Types
    <3>4. CASE PingFails(c)
      BY <3>1, <3>4 DEF PingFails, Step, Output, client, Types
    <3> QED BY <1>5, <3>2, <3>3, <3>4 DEF Fail
  <2> QED BY <2>1, <2>2, <2>3, <1>1, <1>2
<1> QED BY <1>3, <1>4, <1>5

\* What a step of main makes of its own client.
LEMMA MainGood ==
  ASSUME Types, NEW c \in Clients, Good(c), Main(c)
  PROVE  Good(c)'
<1>1. call[c] # "waiting" => pong[c] = "none"
  BY DEF Good, Waiting, Types
<1>2. ASSUME NEW r, Invoke(c, r), at[c] = "start" => r.op = "init",
             at[c] \in {"start", "loop"}
      PROVE  Good(c)'
  <2>1. call'[c] = "sent" /\ pong'[c] = "none" /\ at'[c] = at[c] /\ in'[c] = r
    BY <1>1, <1>2 DEF Invoke, Types, client
  <2> QED BY <1>2, <2>1, IdleGood
<1>3. CASE InvokeInit(c)
  BY <1>2, <1>3 DEF InvokeInit
<1>4. CASE InvokeInLoop(c)
  BY <1>2, <1>4 DEF InvokeInLoop
<1>5. CASE InitReturns(c) \/ CallReturns(c)
  <2>1. call'[c] = "none" /\ pong'[c] = "none"
    BY <1>1, <1>5 DEF InitReturns, CallReturns, Return, Types
  <2> QED BY <2>1, IdleGood
<1>6. CASE LoopEnds(c) \/ PassBarrier(c)
  <2>1. call[c] = "none"
    BY <1>6 DEF LoopEnds, PassBarrier, Good, InMain
  <2>2. call'[c] = "none" /\ pong'[c] = "none"
    BY <1>1, <1>6, <2>1 DEF LoopEnds, PassBarrier
  <2> QED BY <2>2, IdleGood
<1>7. CASE DivisionByZero(c)
  <2>1. at'[c] = "killed"
    BY <1>7 DEF DivisionByZero, Kill, Job, Types
  <2>2. Kept(c)
    BY <1>7, <2>1 DEF DivisionByZero, Kept, service, SumAnswer
  <2> QED BY <2>2, KeptGood
<1> QED BY <1>3, <1>4, <1>5, <1>6, <1>7, <1>2 DEF Main

\* What failing library calls make of it.
LEMMA FailGood ==
  ASSUME Types, NEW c \in Clients, Good(c), Fail(c)
  PROVE  Good(c)'
<1>1. call[c] # "waiting" => pong[c] = "none"
  BY DEF Good, Waiting, Types
<1>2. CASE CreateFails(c)
  <2>1. call'[c] = "none" /\ pong'[c] = "none"
    BY <1>1, <1>2 DEF CreateFails, Types
  <2> QED BY <2>1, IdleGood
<1>3. CASE RespondFails(c)
  <2>1. call'[c] = "stuck" /\ pong'[c] = "none" /\ at'[c] = at[c] /\ in'[c] = in[c]
    BY <1>1, <1>3 DEF RespondFails, Step, Types, client
  <2>2. call[c] # "none"
    BY <1>3 DEF RespondFails, Step
  <2>3. at[c] \notin {"barrier", "exit"} /\ (at[c] = "start" => in[c].op = "init")
    BY <2>2 DEF Good, InMain
  <2> QED BY <2>1, <2>3, IdleGood
<1>4. CASE RemotePingFails(c) \/ SumHangs(c)
  <2>1. pong[c] = "none" => pong'[c] = "none"
    BY <1>4 DEF RemotePingFails, SumHangs
  <2>2. failed'[c] /\ at' = at /\ repeat' = repeat /\ answer' = answer
    BY <1>4 DEF RemotePingFails, SumHangs, Fault, Types, client, service
  <2>3. Kept(c)
    BY <1>4, <2>1, <2>2 DEF Kept, RemotePingFails, SumHangs, SumAnswer
  <2> QED BY <2>3, KeptGood
<1>5. CASE LibraryFails(c) \/ PingFails(c)
  <2>1. PICK r \in {"ok", "error"} :
          /\ out'[c] = [ret |-> r, val |-> Garbage]
          /\ in[c].op \in {"ping", "echo"} => r = "ok"
    <3>1. CASE LibraryFails(c)
      BY <3>1 DEF LibraryFails, Types
    <3>2. CASE PingFails(c)
      BY <3>2 DEF PingFails, Output, Types
    <3> QED BY <1>5, <3>1, <3>2
  <2>2. failed'[c] /\ at'[c] = at[c] /\ in'[c] = in[c]
    BY <1>5 DEF LibraryFails, PingFails, Fault, Types, client
  <2>3. call[c] # "none" /\ call'[c] \in {"respond", "done"}
    BY <1>5 DEF LibraryFails, PingFails, Step, Types
  <2>4. pong'[c] = "none"
    BY <1>1, <1>5 DEF LibraryFails, PingFails, Types
  <2>5. InMain(c)'
    BY <2>1, <2>2, <2>3 DEF Good, InMain
  <2>6. Echoing(c)'
    <3>1. Garbage # MinusOne
      BY KindsDiffer DEF MinusOne
    <3>2. Garbage' = Garbage /\ MinusOne' = MinusOne
      BY DEF Garbage, Sum!Garbage, MinusOne, Number
    <3> HIDE DEF Garbage, MinusOne
    <3> QED BY <2>1, <2>2, <3>1, <3>2 DEF Echoing
  <2> QED BY <2>2, <2>3, <2>4, <2>5, <2>6 DEF Good, Waiting, Counting, Repeating, Repeated
<1> QED BY <1>2, <1>3, <1>4, <1>5 DEF Fail

\* metasim_listener_handle_ping makes a rank that exists of any target.
LEMMA TargetExists ==
  ASSUME Types, NEW c \in Clients
  PROVE  TargetOf(c) \in Rank
<1>1. in[c].target \in Nat /\ N \in Nat \ {0}
  BY Constants DEF Types, Requests
<1> DEFINE t == in[c].target
<1> HIDE DEF t
<1>2. t \in Nat /\ N \in Nat /\ N > 0
  BY <1>1 DEF t
<1>3. t % N \in 0 .. N - 1 /\ (~ (t >= N) => t \in 0 .. N - 1)
  BY <1>2
<1> QED BY <1>3 DEF TargetOf, t, Rank, Ranks

\* The handler of a sumrepeat has got one more sum.
LEMMA OneMoreSum ==
  ASSUME Types, AllGood, NEW c \in Clients, SumReturns(c)
  PROVE  Good(c)'
<1> DEFINE s == sums[c]
           a == answer[<<c, s>>]
<1>1. /\ call[c] = "waiting" /\ in[c].op \in {"sum", "sumrepeat"} /\ a # Sum!NoAnswer
      /\ call'[c] = "running" /\ in'[c] = in[c] /\ at'[c] = at[c] /\ pong'[c] = pong[c]
      /\ answer' = answer /\ repeat' = repeat
  BY DEF SumReturns, Step, Types, client, service
<1>2. s \in 0 .. MaxRepeat /\ timed[c] \in 0 .. MaxRepeat /\ <<c, s>> \in SumOps /\ s < Calls(c)
  BY <1>1, NextSum
<1>3. sums'[c] = s + 1 /\ (in[c].op = "sum" \/ s # 0 => timed'[c] = timed[c] + 1)
      /\ (in[c].op = "sumrepeat" /\ s = 0 => timed'[c] = 0)
  BY DEF SumReturns, Types
<1>4. a \in SumAnswers
  BY <1>1, <1>2 DEF Types
<1>5. InMain(c)' /\ Waiting(c)'
  <2>1. InMain(c) /\ Waiting(c)
    BY DEF AllGood, Good
  <2> QED BY <1>1, <2>1 DEF InMain, Waiting
<1>6. Counting(c)'
  <2>1. timed[c] <= s
    BY <1>1 DEF AllGood, Good, Counting
  <2>2. timed'[c] <= sums'[c]
    <3>1. CASE timed'[c] = 0
      BY <1>2, <1>3, <3>1, Constants
    <3>2. CASE timed'[c] = timed[c] + 1
      BY <1>2, <1>3, <2>1, <3>2, Constants
    <3> QED BY <1>1, <1>3, <3>1, <3>2
  <2>3. Calls(c)' = Calls(c) /\ Calls(c) \in Nat
    BY <1>1, Constants DEF Calls, Types
  <2>4. sums'[c] <= Calls(c)
    BY <1>2, <1>3, <2>3, Constants
  <2> QED BY <1>1, <2>2, <2>3, <2>4 DEF Counting
<1>7. Echoing(c)' /\ Repeated(c)'
  BY <1>1 DEF Echoing, Repeated
<1>8. Repeating(c)'
  <2> SUFFICES ASSUME in[c].op = "sumrepeat" PROVE Repeating(c)'
    BY <1>1 DEF Repeating
  <2>1. /\ timed[c] = IF s = 0 THEN 0 ELSE s - 1
        /\ Answered(c, s)
        /\ out[c].ret = "error" <=> Failed(c, s)
    BY <1>1 DEF AllGood, Good, Repeating
  <2>2. out'[c] = IF s = 0 THEN [OrMinusOne(Returned(c)) EXCEPT !.ret = "ok"] ELSE Returned(c)
    BY DEF SumReturns, Types
  <2>3. out[c] \in Outputs /\ Returned(c) = IF a = Sum!Failure
                              THEN [ret |-> "error", val |-> out[c].val]
                              ELSE [ret |-> out[c].ret, val |-> a]
    BY DEF Types, Returned
  <2>4. timed'[c] = IF sums'[c] = 0 THEN 0 ELSE sums'[c] - 1
    <3>1. CASE s = 0
      BY <1>3, <3>1
    <3>2. CASE s # 0
      BY <1>2, <1>3, <2>1, <3>2, Constants
    <3> QED BY <3>1, <3>2
  <2>5. Answered(c, sums[c])'
    <3>1. \A k \in 0 .. (s + 1) - 1 : k = s \/ k \in 0 .. s - 1
      BY <1>2
    <3>2. \A k \in 0 .. (s + 1) - 1 : answer[<<c, k>>] # Sum!NoAnswer
      BY <1>1, <2>1, <3>1 DEF Answered, SumAnswer
    <3>3. \A k \in 0 .. sums'[c] - 1 : answer'[<<c, k>>] # Sum!NoAnswer
      BY <1>1, <1>3, <3>2
    <3> QED BY <3>3 DEF Answered, SumAnswer, Sum!NoAnswer
  <2>6. out'[c].ret = "error" <=> \E k \in 1 .. s : answer[<<c, k>>] = Sum!Failure
    <3>1. CASE s = 0
      <4>1. Returned(c) = [ret |-> Returned(c).ret, val |-> Returned(c).val]
        BY <2>3
      <4>2. OrMinusOne(Returned(c)) = [ret |-> OrMinusOne(Returned(c)).ret,
                                       val |-> OrMinusOne(Returned(c)).val]
        BY <4>1 DEF OrMinusOne
      <4>3. out'[c].ret = "ok"
        BY <2>2, <3>1, <4>2
      <4> QED BY <3>1, <4>3
    <3>2. CASE s # 0
      <4>1. out'[c].ret = "error" <=> (a = Sum!Failure \/ Failed(c, s))
        BY <2>1, <2>2, <2>3, <3>2
      <4>2. \A k : k \in 1 .. s <=> k \in 1 .. s - 1 \/ k = s
        BY <1>2, <3>2
      <4> QED BY <4>1, <4>2 DEF Failed, SumAnswer
    <3> QED BY <3>1, <3>2
  <2>7. Failed(c, sums[c])' <=> \E k \in 1 .. s : answer[<<c, k>>] = Sum!Failure
    <3>1. sums'[c] - 1 = s
      BY <1>2, <1>3
    <3> QED BY <1>1, <3>1 DEF Failed, SumAnswer, Sum!Failure
  <2>8. out'[c].ret = "ok" /\ sums'[c] > 1 => out'[c].val = SumAnswer(c, sums[c] - 1)'
    <3>1. sums'[c] - 1 = s /\ (sums'[c] > 1 => s # 0)
      BY <1>2, <1>3
    <3>2. s # 0 /\ out'[c].ret = "ok" => out'[c].val = a
      BY <2>2, <2>3
    <3> QED BY <1>1, <3>1, <3>2 DEF SumAnswer
  <2> QED BY <2>4, <2>5, <2>6, <2>7, <2>8 DEF Repeating
<1> QED BY <1>5, <1>6, <1>7, <1>8 DEF Good

\* What a step of its handlers makes of a client's call.
LEMMA HandleGood ==
  ASSUME Types, AllGood, NEW c \in Clients, Handle(c)
  PROVE  Good(c)'
<1>1. call[c] # "waiting" => pong[c] = "none"
  BY DEF AllGood, Good, Waiting, Types
<1>2. Number(0) # MinusOne /\ Garbage # MinusOne /\ \A n \in Nat : Number(n) # MinusOne
  BY KindsDiffer DEF MinusOne
<1>3. Garbage' = Garbage /\ MinusOne' = MinusOne /\ \A n : Number(n)' = Number(n)
  BY DEF Garbage, Sum!Garbage, MinusOne, Number
<1> HIDE DEF Garbage, MinusOne, Number
<1>4. Good(c) /\ (call[c] # "none" => at[c] \notin {"barrier", "exit"})
      /\ (at[c] = "start" /\ call[c] # "none" => in[c].op = "init")
  BY DEF AllGood, Good, InMain
<1>5. CASE Start(c)
  <2>1. /\ call[c] = "sent" /\ call'[c] = "running" /\ in'[c] = in[c] /\ at'[c] = at[c]
        /\ pong'[c] = "none" /\ out'[c] = [ret |-> "ok", val |-> Number(0)]
        /\ sums'[c] = 0 /\ timed'[c] = 0 /\ repeat' = repeat
    BY <1>1, <1>5 DEF Start, Step, Output, Types, client
  <2>2. InMain(c)' /\ Waiting(c)' /\ Echoing(c)' /\ Repeated(c)'
    BY <1>2, <1>3, <1>4, <2>1 DEF InMain, Waiting, Echoing, Repeated
  <2>3. Counting(c)'
    <3>1. Calls(c)' \in Nat
      BY <2>1, Constants DEF Calls, Types
    <3> QED BY <2>1, <3>1 DEF Counting
  <2>4. Repeating(c)'
    <3>1. ~ Failed(c, sums[c])' /\ Answered(c, sums[c])'
      BY <2>1 DEF Failed, Answered
    <3> QED BY <2>1, <3>1 DEF Repeating
  <2> QED BY <2>2, <2>3, <2>4 DEF Good
<1>6. CASE HandleInit(c)
  <2>1. /\ call[c] = "running" /\ call'[c] = "respond" /\ in'[c] = in[c] /\ at'[c] = at[c]
        /\ pong'[c] = "none" /\ out'[c] = [ret |-> "ok", val |-> Number(N)]
        /\ in[c].op = "init"
    BY <1>1, <1>6 DEF HandleInit, Step, Output, Types, client
  <2> QED BY <1>3, <1>4, <2>1
          DEF Good, InMain, Waiting, Counting, Echoing, Repeating, Repeated
<1>7. CASE HandleEcho(c) \/ PingReturns(c)
  <2>1. in[c].num \in Nat
    BY Constants DEF Types, Requests
  <2>2. /\ call[c] # "none" /\ call'[c] = "respond" /\ in'[c] = in[c] /\ at'[c] = at[c]
        /\ pong'[c] = "none" /\ out'[c] = [ret |-> "ok", val |-> Number(in[c].num)]
    <3>1. CASE HandleEcho(c)
      BY <1>1, <3>1 DEF HandleEcho, Step, Output, Types, client
    <3>2. CASE PingReturns(c)
      BY <3>2 DEF PingReturns, Step, Output, Types, client
    <3> QED BY <1>7, <3>1, <3>2
  <2>3. in[c].op \in {"ping", "echo"}
    <3>1. CASE HandleEcho(c)
      BY <3>1 DEF HandleEcho
    <3>2. CASE PingReturns(c)
      BY <1>4, <3>2 DEF PingReturns, Good, Waiting
    <3> QED BY <1>7, <3>1, <3>2
  <2>4. Echoing(c)'
    BY <1>2, <1>3, <2>1, <2>2 DEF Echoing
  <2> QED BY <1>4, <2>2, <2>3, <2>4 DEF Good, InMain, Waiting, Counting, Repeating, Repeated
<1>8. CASE Respond(c)
  <2>1. Kept(c)
    BY <1>8 DEF Respond, Kept, Step, Types, client, service, NoFault, SumAnswer
  <2> QED BY <1>4, <2>1, KeptGood
<1>9. CASE HandlePing(c)
  <2>1. ~ (TargetOf(c) > N - 1)
    BY TargetExists, Constants DEF Rank, Ranks
  <2>2. /\ call[c] = "running" /\ call'[c] = "waiting" /\ in'[c] = in[c] /\ at'[c] = at[c]
        /\ in[c].op = "ping" /\ out'[c] = out[c]
    BY <1>9, <2>1 DEF HandlePing, Step, Types, client
  <2>3. Echoing(c)'
    BY <1>3, <1>4, <2>2 DEF Good, Echoing
  <2> QED BY <1>4, <2>2, <2>3 DEF Good, InMain, Waiting, Counting, Repeating, Repeated
<1>10. CASE RemotePing(c)
  <2>1. Kept(c)
    BY <1>10 DEF RemotePing, Kept, client, service, NoFault, SumAnswer
  <2> QED BY <1>4, <2>1, KeptGood
<1>11. CASE InvokeSum(c)
  <2>1. /\ call[c] = "running" /\ call'[c] = "waiting" /\ in'[c] = in[c] /\ at'[c] = at[c]
        /\ pong'[c] = "none" /\ out'[c] = out[c] /\ sums' = sums /\ timed' = timed
        /\ in[c].op \in {"sum", "sumrepeat"} /\ sums[c] < Calls(c)
        /\ answer' = answer /\ repeat' = repeat
    BY <1>1, <1>11 DEF InvokeSum, Step, Sum!Call, Types, client
  <2>2. InMain(c)' /\ Waiting(c)' /\ Echoing(c)' /\ Repeated(c)'
    BY <1>4, <2>1 DEF InMain, Waiting, Echoing, Repeated
  <2>3. Counting(c)'
    BY <1>4, <2>1 DEF Good, Counting, Calls
  <2>4. Repeating(c)'
    <3>1. /\ Answered(c, sums[c])' <=> Answered(c, sums[c])
          /\ Failed(c, sums[c])' <=> Failed(c, sums[c])
          /\ SumAnswer(c, sums[c] - 1)' = SumAnswer(c, sums[c] - 1)
      BY <2>1 DEF Answered, Failed, SumAnswer
    <3> QED BY <1>4, <2>1, <3>1 DEF Good, Repeating
  <2> QED BY <2>2, <2>3, <2>4 DEF Good
<1>12. CASE SumIsAnswered(c)
  <2>1. Kept(c)
    BY <1>12, AnswersKept DEF SumIsAnswered, Kept, client, NoFault
  <2> QED BY <1>4, <2>1, KeptGood
<1>13. CASE SumReturns(c)
  BY <1>13, OneMoreSum
<1>14. CASE SumsDone(c)
  <2>1. /\ call[c] = "running" /\ call'[c] = "respond" /\ in'[c] = in[c] /\ at'[c] = at[c]
        /\ pong'[c] = "none" /\ out'[c] = OrMinusOne(out[c]) /\ timed' = timed
        /\ in[c].op \in {"sum", "sumrepeat"} /\ sums[c] = Calls(c)
        /\ answer' = answer /\ repeat' = repeat
    BY <1>1, <1>14 DEF SumsDone, Step, Types, client, service
  <2>2. InMain(c)' /\ Waiting(c)' /\ Counting(c)' /\ Echoing(c)' /\ Repeating(c)'
    BY <1>4, <2>1 DEF InMain, Waiting, Counting, Echoing, Repeating
  <2>3. Repeated(c)'
    <3> SUFFICES ASSUME in[c].op = "sumrepeat" PROVE Repeated(c)'
      BY <2>1 DEF Repeated
    <3>1. sums[c] = repeat + 1 /\ repeat \in Nat
      BY <2>1, Constants DEF Calls, Types
    <3>2. /\ timed[c] = IF sums[c] = 0 THEN 0 ELSE sums[c] - 1
          /\ Answered(c, sums[c])
          /\ out[c].ret = "error" <=> Failed(c, sums[c])
          /\ out[c].ret = "ok" /\ sums[c] > 1 => out[c].val = SumAnswer(c, sums[c] - 1)
      BY <1>4, <2>1 DEF Good, Repeating
    <3>3. timed[c] = repeat /\ (repeat > 0 => sums[c] > 1) /\ sums[c] - 1 = repeat
      BY <3>1, <3>2
    <3>4. out[c] \in Outputs
      BY DEF Types
    <3>5. /\ OrMinusOne(out[c]).ret = out[c].ret
          /\ out[c].ret = "error" => OrMinusOne(out[c]).val = MinusOne
          /\ out[c].ret = "ok" => OrMinusOne(out[c]).val = out[c].val
      BY <3>4 DEF OrMinusOne, Outputs
    <3>6. Answered(c, repeat + 1) /\ (out[c].ret = "error" <=> Failed(c, repeat + 1))
      BY <3>1, <3>2
    <3>7. out[c].ret = "ok" /\ repeat > 0 => out[c].val = SumAnswer(c, repeat)
      BY <3>2, <3>3
    <3>8. /\ Answered(c, repeat + 1)' <=> Answered(c, repeat + 1)
          /\ Failed(c, repeat + 1)' <=> Failed(c, repeat + 1)
          /\ SumAnswer(c, repeat)' = SumAnswer(c, repeat)
      BY <2>1 DEF Answered, Failed, SumAnswer
    <3> QED BY <1>3, <2>1, <3>3, <3>5, <3>6, <3>7, <3>8 DEF Repeated
  <2> QED BY <2>2, <2>3 DEF Good
<1> QED
  BY <1>5, <1>6, <1>7, <1>8, <1>9, <1>10, <1>11, <1>12, <1>13, <1>14 DEF Handle

\* The inductive invariant.
LEMMA Invariance == Spec => [](Types /\ AllGood)
<1>1. Init => Types /\ AllGood
  BY InitTypes, InitGood
<1>2. Types /\ AllGood /\ [Next]_vars => (Types /\ AllGood)'
  <2> SUFFICES ASSUME Types, AllGood, [Next]_vars PROVE Types' /\ AllGood'
    OBVIOUS
  <2>1. CASE UNCHANGED vars
    <3>1. Types'
      BY <2>1 DEF Types, vars, client, service
    <3>2. ASSUME NEW c \in Clients PROVE Kept(c)
      BY <2>1 DEF Kept, vars, client, service, SumAnswer
    <3>3. ASSUME NEW c \in Clients PROVE Good(c)'
      BY <3>2, KeptGood DEF AllGood
    <3> QED BY <3>1, <3>3 DEF AllGood
  <2>2. CASE Next
    <3>1. PICK c \in Clients : Main(c) \/ Handle(c) \/ Fail(c)
      BY <2>2 DEF Next
    <3>2. Types'
      BY <3>1, MainTypes, HandleTypes, FailTypes
    <3>3. Good(c)'
      BY <3>1, MainGood, HandleGood, FailGood DEF AllGood
    <3>4. ASSUME NEW d \in Clients, d # c PROVE Good(d)'
      BY <3>1, <3>4, OthersKept, KeptGood DEF AllGood
    <3> QED BY <3>2, <3>3, <3>4 DEF AllGood
  <2> QED BY <2>1, <2>2
<1> QED BY <1>1, <1>2, PTL DEF Spec

(***************************************************************************)
(* Clients, calls and handlers keep their types: a handler asks for no     *)
(* more sums than its loop has, and the rank counts are of the size that   *)
(* metasim_listener_handle_init and a failure of it leave.                 *)
(***************************************************************************)
THEOREM TypeCorrect == Spec => []TypeOK
<1>1. Types /\ AllGood => TypeOK
  BY TypesOK
<1> QED BY <1>1, Invariance, PTL

(***************************************************************************)
(* The listener's ping and echo, through the library, for every number of  *)
(* servers, clients and execution streams: a client gets its own number    *)
(* back unless a library call failed during this call, and never the -1 of *)
(* metasim_listener_handle_ping.                                           *)
(***************************************************************************)
THEOREM PingsEchoed == Spec => []PingsAreEchoed
<1>1. Types /\ AllGood => PingsAreEchoed
  BY DEF AllGood, Good, Echoing, PingsAreEchoed
<1> QED BY <1>1, Invariance, PTL

(***************************************************************************)
(* metasim_listener_handle_sumrepeat reports the failures of the measured  *)
(* sums and no others, the last sum, and the time of `repeat' sums, for    *)
(* every number of repetitions.                                            *)
(***************************************************************************)
THEOREM RepeatsReported == Spec => []SumrepeatReports
<1>1. Types /\ AllGood => SumrepeatReports
  <2> SUFFICES ASSUME Types, AllGood, NEW c \in Clients, call[c] = "done",
                      in[c].op = "sumrepeat", ~ failed[c]
               PROVE
                 LET error == \E k \in 1 .. repeat : SumAnswer(c, k) = Sum!Failure
                 IN  /\ out[c].ret = "error" <=> error
                     /\ error => out[c].val = MinusOne
                     /\ ~ error /\ repeat > 0 => out[c].val = SumAnswer(c, repeat)
                     /\ timed[c] = repeat
                     /\ \A k \in 0 .. repeat : SumAnswer(c, k) # Sum!NoAnswer
    BY DEF SumrepeatReports
  <2>1. /\ timed[c] = repeat
        /\ Answered(c, repeat + 1)
        /\ out[c].ret = "error" <=> Failed(c, repeat + 1)
        /\ out[c].ret = "error" => out[c].val = MinusOne
        /\ out[c].ret = "ok" /\ repeat > 0 => out[c].val = SumAnswer(c, repeat)
    BY DEF AllGood, Good, Repeated
  <2>2. (repeat + 1) - 1 = repeat
    BY Constants DEF Types
  <2>3. out[c].ret \in {"ok", "error"}
    BY DEF Types, Outputs
  <2>4. Failed(c, repeat + 1) <=> \E k \in 1 .. repeat : SumAnswer(c, k) = Sum!Failure
    BY <2>2 DEF Failed
  <2>5. \A k \in 0 .. repeat : SumAnswer(c, k) # Sum!NoAnswer
    BY <2>1, <2>2 DEF Answered
  <2> QED BY <2>1, <2>3, <2>4, <2>5
<1> QED BY <1>1, Invariance, PTL
=============================================================================
