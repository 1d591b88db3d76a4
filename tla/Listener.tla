------------------------------ MODULE Listener ------------------------------
(***************************************************************************)
(* The clients of the servers and what answers them: the programs ping.c,  *)
(* echo.c and sumrepeat.c of examples/src and a single call of sum.c       *)
(* (SumClient has its rounds), the client library                          *)
(* libmetasim/src/metasim.c, the handlers of                               *)
(* server/src/metasim-listener.c and the ping of server/src/metasim-rpc.c. *)
(* The collective sums that the handlers ask for are those of SumService.  *)
(*                                                                         *)
(* A client has one call at a time.  A ULT of the listener's pool at its   *)
(* node handles it, on an execution stream that it gives away while it     *)
(* waits for another server.  No call has a timeout, and the library does  *)
(* not look at what Margo returns: when an RPC of its own fails it hands   *)
(* out the fields of an output that was never filled in.                   *)
(***************************************************************************)
EXTENDS RpcTree

CONSTANTS
    N,         \* metasim->nranks
    Clients,   \* client processes, numbered as their MPI ranks
    NodeOf,    \* NodeOf[c]: the server of client c's node
    Workloads, \* the programs that the clients may run, as functions of Clients
    MaxCount,  \* bound on the option of ping.c and echo.c
    MaxRepeat, \* bound on the option of sumrepeat.c
    Streams,   \* execution streams of a listener (4 in the code)
    MaxFaults  \* bound on the failing library calls

ASSUME ListenerAssumption ==
    /\ N \in Nat \ {0} /\ Clients \subseteq Nat /\ NodeOf \in [Clients -> Ranks(N)]
    /\ Workloads \subseteq [Clients -> {"ping", "echo", "sum", "sumrepeat"}]
    /\ MaxCount \in Nat /\ MaxRepeat \in Nat
    /\ Streams \in Nat \ {0} /\ MaxFaults \in Nat

Rank == Ranks(N)

VARIABLES
    program, count, repeat, \* the program of each client, the options
    at,        \* at[c]: where client c is in main
    i,         \* i[c]: its loop counter
    nservers,  \* nservers[c]: server_nranks, as metasim_invoke_init returned it
    call,      \* call[c]: where its call is
    in,        \* in[c]: operation and input of the call
    out,       \* out[c]: what the library returns of it, ret and a value
    pong,      \* pong[c]: what has become of a ping to another server
    sums,      \* sums[c]: how many sums the handler has got an answer to,
    timed,     \*   and how many of them since it last started the clock
    caller, answer, \* SumService: the calls of metasim_rpc_invoke_sum
    hung,      \* those of them that a silent server keeps from an answer
    failed,    \* failed[c]: a library call failed during the call of c
    faults     \* library calls that have failed so far

client  == <<program, count, repeat, at, i, nservers>>
service == <<caller, answer, hung>>
vars    == <<client, call, in, out, pong, sums, timed, service, failed, faults>>

\* <<c, k>> is the k-th sum (from 0) of the sum or sumrepeat call of client c.
SumOps == Clients \X (0 .. MaxRepeat)

Sum == INSTANCE SumService WITH Ops <- SumOps, Reliable <- (MaxFaults = 0)

Number(n) == [kind |-> "number", n |-> n]
MinusOne  == Number(-1)
Garbage   == Sum!Garbage
NoCall    == [op |-> "none", target |-> 0, num |-> 0]
NoOutput  == [ret |-> "ok", val |-> Garbage]

Runs(P) == \E c \in Clients : program[c] \in P

Init ==
    /\ program \in Workloads
    /\ count \in IF Runs({"ping", "echo"}) THEN 0 .. MaxCount ELSE {0}
    /\ repeat \in IF Runs({"sumrepeat"}) THEN 0 .. MaxRepeat ELSE {0}
    /\ at       = [c \in Clients |-> "start"]
    /\ i        = [c \in Clients |-> 0]
    /\ nservers = [c \in Clients |-> 0]
    /\ call     = [c \in Clients |-> "none"]
    /\ in       = [c \in Clients |-> NoCall]
    /\ out      = [c \in Clients |-> NoOutput]
    /\ pong     = [c \in Clients |-> "none"]
    /\ sums     = [c \in Clients |-> 0]
    /\ timed    = [c \in Clients |-> 0]
    /\ Sum!Init /\ hung = {}
    /\ failed   = [c \in Clients |-> FALSE] /\ faults = 0

Fault(c) ==
    /\ faults < MaxFaults
    /\ faults' = faults + 1
    /\ failed' = [failed EXCEPT ![c] = TRUE]

NoFault == UNCHANGED <<failed, faults>>
-----------------------------------------------------------------------------
(* Clients.  A call is made by a step of main, and main goes on when the   *)
(* library returns.                                                        *)

Job(c)    == { d \in Clients : program[d] = program[c] }
Leader(c) == \A d \in Job(c) : c <= d       \* rank 0 of the MPI job

\* The library's create and forward: the request goes to the local listener.
Invoke(c, request) ==
    /\ call[c] = "none"
    /\ call' = [call EXCEPT ![c] = "sent"]
    /\ in' = [in EXCEPT ![c] = request]
    /\ failed' = [failed EXCEPT ![c] = FALSE]
    /\ UNCHANGED <<client, out, pong, sums, timed, service, faults>>

InvokeInit(c) ==
    /\ at[c] = "start"
    /\ Invoke(c, [op |-> "init", target |-> 0, num |-> 0])

\* The loops of ping.c and echo.c, one call of sum.c and sumrepeat.c.
LoopCount(c) ==
    IF program[c] \in {"sum", "sumrepeat"} THEN 1
    ELSE IF count = 0 THEN nservers[c] ELSE count

\* `i % server_nranks' is only evaluated by ping.c.
Divides(c) == program[c] = "ping" => nservers[c] # 0

InvokeInLoop(c) ==
    /\ at[c] = "loop" /\ i[c] < LoopCount(c) /\ Divides(c)
    /\ Invoke(c, [op |-> program[c], num |-> i[c],
                  target |-> IF program[c] = "ping" THEN i[c] % nservers[c] ELSE 0])

\* A signal kills the process; MPI's launcher ends its job.
Kill(c) == at' = [d \in Clients |-> IF d \in Job(c) THEN "killed" ELSE at[d]]

DivisionByZero(c) ==
    /\ at[c] = "loop" /\ i[c] < LoopCount(c) /\ ~ Divides(c)
    /\ Kill(c)
    /\ UNCHANGED <<program, count, repeat, i, nservers, call, in, out, pong,
                   sums, timed, service, failed, faults>>

\* What follows init: ping.c and echo.c have a barrier there, sumrepeat.c lets
\* only rank 0 make its call and has its barrier at the end.
AfterInit(c) ==
    CASE program[c] \in {"ping", "echo"}            -> "barrier"
      [] program[c] = "sumrepeat" /\ ~ Leader(c)    -> "barrier"
      [] OTHER                                      -> "loop"

\* The library returns, and its frame is gone.
Return(c) ==
    /\ call[c] = "done"
    /\ call' = [call EXCEPT ![c] = "none"]
    /\ in'  = [in EXCEPT ![c] = NoCall]
    /\ out' = [out EXCEPT ![c] = NoOutput]
    /\ UNCHANGED <<program, count, repeat, pong, sums, timed, service, failed, faults>>

\* metasim_invoke_init returns 0 whatever happened, and server_nranks.
InitReturns(c) ==
    /\ at[c] = "start" /\ Return(c)
    /\ at' = [at EXCEPT ![c] = AfterInit(c)]
    /\ \E n \in IF out[c].val = Garbage THEN 0 .. N + 1 ELSE {out[c].val.n} :
          nservers' = [nservers EXCEPT ![c] = n]
    /\ UNCHANGED i

\* main prints what it got and goes on, with ret zero or not.
CallReturns(c) ==
    /\ at[c] = "loop" /\ Return(c)
    /\ i' = [i EXCEPT ![c] = @ + 1]
    /\ UNCHANGED <<at, nservers>>

LoopEnds(c) ==
    /\ at[c] = "loop" /\ call[c] = "none" /\ i[c] >= LoopCount(c)
    /\ at' = [at EXCEPT ![c] = IF program[c] = "sumrepeat" THEN "barrier" ELSE "exit"]
    /\ UNCHANGED <<program, count, repeat, i, nservers, call, in, out, pong,
                   sums, timed, service, failed, faults>>

\* MPI_Barrier of the job
PassBarrier(c) ==
    /\ at[c] = "barrier"
    /\ \A d \in Job(c) : at[d] # "start" /\ (program[c] = "sumrepeat" => at[d] # "loop")
    /\ at' = [at EXCEPT ![c] = IF program[c] = "sumrepeat" THEN "exit" ELSE "loop"]
    /\ UNCHANGED <<program, count, repeat, i, nservers, call, in, out, pong,
                   sums, timed, service, failed, faults>>

Main(c) ==
    \/ InvokeInit(c) \/ InitReturns(c)
    \/ InvokeInLoop(c) \/ CallReturns(c) \/ LoopEnds(c)
    \/ PassBarrier(c) \/ DivisionByZero(c)

\* margo_create fails and leaves the handle unset, which the library goes on to
\* use: the process may be killed, or fare as in LibraryFails.
CreateFails(c) ==
    /\ call[c] = "sent" /\ at[c] # "killed"
    /\ call' = [call EXCEPT ![c] = "none"]
    /\ Kill(c)
    /\ Fault(c)
    /\ UNCHANGED <<program, count, repeat, i, nservers, in, out, pong, sums, timed, service>>

\* Forward or get_output fails, which the library does not look at: the caller
\* gets uninitialised values.  Only sum and sumrepeat have a ret of their own in
\* the output; it is as arbitrary as the rest.
LibraryFails(c) ==
    /\ call[c] \in {"sent", "done"} /\ ~ failed[c]
    /\ call' = [call EXCEPT ![c] = "done"]
    /\ \E r \in IF in[c].op \in {"sum", "sumrepeat"} THEN {"ok", "error"} ELSE {"ok"} :
          out' = [out EXCEPT ![c] = [ret |-> r, val |-> Garbage]]
    /\ Fault(c)
    /\ UNCHANGED <<client, in, pong, sums, timed, service>>
-----------------------------------------------------------------------------
(* Handlers.  `out' is the handler's output until the client has it.       *)

Step(c, from, to) == call[c] = from /\ call' = [call EXCEPT ![c] = to]

\* Mutant: a handler keeps its stream while it waits for another server.
HoldersOfAll(r) ==
    { c \in Clients : NodeOf[c] = r /\ call[c] \in {"running", "waiting", "respond"} }

Holders(r) == { c \in Clients : NodeOf[c] = r /\ call[c] \in {"running", "respond"} }

FreeStream(c) == Cardinality(Holders(NodeOf[c])) < Streams

Output(c, ret, val) == out' = [out EXCEPT ![c] = [ret |-> ret, val |-> val]]

Start(c) ==
    /\ Step(c, "sent", "running") /\ FreeStream(c)
    /\ Output(c, "ok", Number(0))
    /\ sums' = [sums EXCEPT ![c] = 0] /\ timed' = [timed EXCEPT ![c] = 0]
    /\ NoFault /\ UNCHANGED <<client, in, pong, service>>

HandleInit(c) ==
    /\ in[c].op = "init"
    /\ Step(c, "running", "respond")
    /\ Output(c, "ok", Number(N))
    /\ NoFault /\ UNCHANGED <<client, in, pong, sums, timed, service>>

HandleEcho(c) ==
    /\ in[c].op = "echo"
    /\ Step(c, "running", "respond")
    /\ Output(c, "ok", Number(in[c].num))
    /\ NoFault /\ UNCHANGED <<client, in, pong, sums, timed, service>>

Respond(c) ==
    /\ Step(c, "respond", "done")
    /\ NoFault /\ UNCHANGED <<client, in, out, pong, sums, timed, service>>

\* No handler looks at the result of margo_respond.
RespondFails(c) ==
    /\ Step(c, "respond", "stuck")
    /\ Fault(c) /\ UNCHANGED <<client, in, out, pong, sums, timed, service>>
-----------------------------------------------------------------------------
(* metasim_listener_handle_ping and the ping between servers.              *)

\* Mutant: without the modulo.
TargetAsSent(c) == in[c].target

TargetOf(c) == IF in[c].target >= N THEN in[c].target % N ELSE in[c].target

\* metasim_rpc_invoke_ping refuses a rank that does not exist, and the handler
\* answers -1 then; otherwise it forwards and waits.
HandlePing(c) ==
    /\ in[c].op = "ping"
    /\ IF TargetOf(c) > N - 1
       THEN /\ Step(c, "running", "respond") /\ Output(c, "ok", MinusOne)
            /\ UNCHANGED pong
       ELSE /\ Step(c, "running", "waiting") /\ UNCHANGED out
            /\ pong' = [pong EXCEPT ![c] = "sent"]
    /\ NoFault /\ UNCHANGED <<client, in, sums, timed, service>>

\* metasim_rpc_handle_ping at the target
RemotePing(c) ==
    /\ pong[c] = "sent"
    /\ pong' = [pong EXCEPT ![c] = "replied"]
    /\ NoFault /\ UNCHANGED <<client, call, in, out, sums, timed, service>>

\* Its input cannot be decoded, or its reply not sent: no reply comes.
RemotePingFails(c) ==
    /\ pong[c] = "sent"
    /\ pong' = [pong EXCEPT ![c] = "silent"]
    /\ Fault(c) /\ UNCHANGED <<client, call, in, out, sums, timed, service>>

PingReturns(c) ==
    /\ pong[c] = "replied" /\ FreeStream(c)
    /\ Step(c, "waiting", "respond")
    /\ Output(c, "ok", Number(in[c].num))
    /\ pong' = [pong EXCEPT ![c] = "none"]
    /\ NoFault /\ UNCHANGED <<client, in, sums, timed, service>>

\* Create, forward or get_output fails: metasim_rpc_invoke_ping returns 0 all
\* the same, and a pong that was never set.
PingFails(c) ==
    /\ in[c].op = "ping"
    /\ \/ Step(c, "running", "respond")
       \/ Step(c, "waiting", "respond") /\ pong[c] # "silent" /\ FreeStream(c)
    /\ Output(c, "ok", Garbage)
    /\ pong' = [pong EXCEPT ![c] = "none"]
    /\ Fault(c) /\ UNCHANGED <<client, in, sums, timed, service>>
-----------------------------------------------------------------------------
(* metasim_listener_handle_sum and _sumrepeat.                             *)

Calls(c) == IF in[c].op = "sumrepeat" THEN repeat + 1 ELSE 1

InvokeSum(c) ==
    /\ in[c].op \in {"sum", "sumrepeat"} /\ sums[c] < Calls(c)
    /\ Step(c, "running", "waiting")
    /\ Sum!Call(<<c, sums[c]>>, NodeOf[c])
    /\ NoFault /\ UNCHANGED <<client, in, out, pong, sums, timed, hung>>

SumIsAnswered(c) ==
    /\ call[c] = "waiting" /\ in[c].op # "ping" /\ <<c, sums[c]>> \notin hung
    /\ Sum!Answer(<<c, sums[c]>>)
    /\ NoFault /\ UNCHANGED <<client, call, in, out, pong, sums, timed, hung>>

SumHangs(c) ==
    /\ call[c] = "waiting" /\ in[c].op # "ping"
    /\ answer[<<c, sums[c]>>] = Sum!NoAnswer /\ <<c, sums[c]>> \notin hung
    /\ hung' = hung \cup {<<c, sums[c]>>}
    /\ Fault(c)
    /\ UNCHANGED <<client, call, in, out, pong, sums, timed, caller, answer>>

\* Mutant: `ret = ' in place of `ret |= '.
ReturnedLast(c) ==
    LET a == answer[<<c, sums[c]>>]
    IN  IF a = Sum!Failure THEN [ret |-> "error", val |-> out[c].val]
                           ELSE [ret |-> "ok", val |-> a]

\* metasim_rpc_invoke_sum has returned: it sets the sum unless it failed.
Returned(c) ==
    LET a == answer[<<c, sums[c]>>]
    IN  IF a = Sum!Failure THEN [ret |-> "error", val |-> out[c].val]
                           ELSE [ret |-> out[c].ret, val |-> a]

OrMinusOne(r) == IF r.ret = "error" THEN [r EXCEPT !.val = MinusOne] ELSE r

\* Mutant: the clock goes on after the first sum.
SumReturnsTimed(c) ==
    LET first == in[c].op = "sumrepeat" /\ sums[c] = 0
    IN  /\ in[c].op \in {"sum", "sumrepeat"}
        /\ Step(c, "waiting", "running") /\ FreeStream(c)
        /\ answer[<<c, sums[c]>>] # Sum!NoAnswer
        /\ out' = [out EXCEPT ![c] =
                      IF first THEN [OrMinusOne(Returned(c)) EXCEPT !.ret = "ok"]
                               ELSE Returned(c)]
        /\ timed' = [timed EXCEPT ![c] = @ + 1]
        /\ sums' = [sums EXCEPT ![c] = @ + 1]
        /\ NoFault /\ UNCHANGED <<client, in, pong, service>>

\* The first sum of a sumrepeat is for warming up: `ret = 0' forgets its error,
\* and the clock starts again.
SumReturns(c) ==
    LET first == in[c].op = "sumrepeat" /\ sums[c] = 0
    IN  /\ in[c].op \in {"sum", "sumrepeat"}
        /\ Step(c, "waiting", "running") /\ FreeStream(c)
        /\ answer[<<c, sums[c]>>] # Sum!NoAnswer
        /\ out' = [out EXCEPT ![c] =
                      IF first THEN [OrMinusOne(Returned(c)) EXCEPT !.ret = "ok"]
                               ELSE Returned(c)]
        /\ timed' = [timed EXCEPT ![c] = IF first THEN 0 ELSE @ + 1]
        /\ sums' = [sums EXCEPT ![c] = @ + 1]
        /\ NoFault /\ UNCHANGED <<client, in, pong, service>>

SumsDone(c) ==
    /\ in[c].op \in {"sum", "sumrepeat"} /\ sums[c] = Calls(c)
    /\ Step(c, "running", "respond")
    /\ out' = [out EXCEPT ![c] = OrMinusOne(@)]
    /\ NoFault /\ UNCHANGED <<client, in, pong, sums, timed, service>>
-----------------------------------------------------------------------------
Handle(c) ==
    \/ Start(c) \/ HandleInit(c) \/ HandleEcho(c) \/ Respond(c)
    \/ HandlePing(c) \/ RemotePing(c) \/ PingReturns(c)
    \/ InvokeSum(c) \/ SumIsAnswered(c) \/ SumReturns(c) \/ SumsDone(c)

Fail(c) ==
    \/ CreateFails(c) \/ LibraryFails(c) \/ RespondFails(c)
    \/ RemotePingFails(c) \/ PingFails(c) \/ SumHangs(c)

Next == \E c \in Clients : Main(c) \/ Handle(c) \/ Fail(c)

\* As long as some process or ULT can go on, one does; behaviours are finite.
\* That sums are answered is EveryCallReturns of SumBroadcast.
Spec == Init /\ [][Next]_vars /\ WF_vars(\E c \in Clients : Main(c) \/ Handle(c))
-----------------------------------------------------------------------------
Values ==
    {Garbage, Sum!Complete} \cup { Number(n) : n \in -1 .. MaxCount + N + 1 }
    \cup { Sum!Counted(S) : S \in SUBSET Rank }

\* A sum is timed alone, a sumrepeat without its first.
MaxTimed == IF MaxRepeat = 0 THEN 1 ELSE MaxRepeat

TypeOK ==
    /\ program \in Workloads
    /\ count \in 0 .. MaxCount /\ repeat \in 0 .. MaxRepeat
    /\ at \in [Clients -> {"start", "barrier", "loop", "exit", "killed"}]
    /\ i \in [Clients -> Nat] /\ nservers \in [Clients -> 0 .. N + 1]
    /\ call \in [Clients -> {"none", "sent", "running", "waiting", "respond", "done", "stuck"}]
    /\ \A c \in Clients :
         /\ in[c].op \in {"none", "init", "ping", "echo", "sum", "sumrepeat"}
         /\ in[c].target \in Nat /\ in[c].num \in Nat
         /\ out[c].ret \in {"ok", "error"} /\ out[c].val \in Values
    /\ pong \in [Clients -> {"none", "sent", "replied", "silent"}]
    /\ sums \in [Clients -> 0 .. MaxRepeat + 1] /\ timed \in [Clients -> 0 .. MaxTimed]
    /\ hung \subseteq SumOps
    /\ failed \in [Clients -> BOOLEAN] /\ faults \in 0 .. MaxFaults

(***************************************************************************)
(* A client that pings or asks for an echo gets its own number back, from  *)
(* a rank that exists, however many servers it believes there are, unless  *)
(* a library call of this very call failed; and no failure reaches it as   *)
(* the -1 that the handler has for it, since metasim_rpc_invoke_ping       *)
(* reports none.                                                           *)
(***************************************************************************)
PingsAreEchoed ==
    \A c \in Clients : call[c] = "done" /\ in[c].op \in {"ping", "echo"} =>
        /\ out[c].ret = "ok" /\ out[c].val # MinusOne
        /\ ~ failed[c] => out[c].val = Number(in[c].num)

SumAnswer(c, k) == answer[<<c, k>>]

(***************************************************************************)
(* What a sumrepeat says when its own RPC did not fail: ret is an error,   *)
(* and the sum -1, exactly when one of the `repeat' sums after the first   *)
(* failed, whichever; otherwise the sum is that of the last one; and the   *)
(* time, which the client divides by `repeat', is that of `repeat' sums.   *)
(***************************************************************************)
SumrepeatReports ==
    \A c \in Clients : call[c] = "done" /\ in[c].op = "sumrepeat" /\ ~ failed[c] =>
        LET error == \E k \in 1 .. repeat : SumAnswer(c, k) = Sum!Failure
        IN  /\ out[c].ret = "error" <=> error
            /\ error => out[c].val = MinusOne
            /\ ~ error /\ repeat > 0 => out[c].val = SumAnswer(c, repeat)
            /\ timed[c] = repeat
            /\ \A k \in 0 .. repeat : SumAnswer(c, k) # Sum!NoAnswer

(***************************************************************************)
(* What the handlers log when metasim_rpc_invoke_sum has failed:           *)
(* "failed, will return -1" (metasim-listener.c:172 and 221).              *)
(***************************************************************************)
FailureReturnsMinusOne ==
    \A c \in Clients :
        /\ call[c] = "done" /\ in[c].op \in {"sum", "sumrepeat"} /\ ~ failed[c]
        /\ \E k \in 0 .. MaxRepeat : SumAnswer(c, k) = Sum!Failure
        => out[c].val = MinusOne

\* A server has failed to reply to c, or to the sum of c.
Unanswered(c) ==
    call[c] = "stuck" \/ pong[c] = "silent" \/ \E k \in 0 .. MaxRepeat : <<c, k>> \in hung

(***************************************************************************)
(* Every client comes to its end, but for those of a job of which some     *)
(* process waits for a reply that never comes: a handler that is stuck     *)
(* keeps neither its stream nor the clients of other jobs from theirs.     *)
(***************************************************************************)
ClientsEnd ==
    \A c \in Clients :
        <>(at[c] \in {"exit", "killed"} \/ \E d \in Job(c) : Unanswered(d))
=============================================================================
