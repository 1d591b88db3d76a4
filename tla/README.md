# TLA+ models and proofs of metasim

metasim is the skeleton of a distributed service: one MPI process per node (a
*server*), clients that talk to the server of their node through shared memory,
and servers that talk to each other with Margo RPCs. Its central operation is a
*collective sum*: a request runs down a tree of all servers, and each answers
its parent with the sum of `rank + seed` over the servers below it.

This directory holds TLA+ modules of the program, configurations that check them
with TLC on small instances, and proofs that TLAPS checks for every size.

## The system

| part | state | operations | talks to |
|---|---|---|---|
| tree (`server/src/metasim-rpc-tree.c`) | parent, child count and child list per rank | `metasim_rpc_tree_init`, `_free` | nothing: each rank computes its neighbours alone |
| collective sum (`server/src/metasim-rpc.c`) | locals of one ULT per call and server, `bcast_tree` | `metasim_rpc_invoke_sum`, `metasim_rpc_handle_sum`, `sum_forward`, `metasim_rpc_register` | the same code at other servers by RPC |
| ping (same file) | none | `metasim_rpc_invoke_ping`, `_handle_ping` | one other server |
| start-up (`server/src/metasim-server.c`) | address files, `metasim` context, MPI barriers | `comm_init`, tests, `main` | other servers by files and barriers |
| listener (`server/src/metasim-listener.c`) | listener address file, `listener_mid` | `metasim_listener_init`, handlers of `init`, `terminate`, `echo`, `ping`, `sum`, `sumrepeat` | clients; the two parts above |
| client library (`libmetasim/src/metasim.c`) | context with Margo instance and listener address | `metasim_init`, `metasim_exit`, six `metasim_invoke_*` | the listener |
| examples (`examples/src`) | loop counters, MPI barriers | `sum` (the benchmark), `sumrepeat`, `ping`, `echo`, `mpisum` | client library, each other by MPI |
| file size reduction (`server/src/margotree.c`) | a heap structure per reduction, `glb_st` | requests down, responses up, as separate RPCs | the same program at other ranks |
| echo test (`test/src`) | `nrpcs` | a server that ends itself after a number of RPCs, a client | each other |

What is hard in it:

* The ranks agree on a tree that none of them ever sees as a whole.
* Calls run as user-level threads (ULTs) on four execution streams (ES) per
  pool, and handlers wait for handlers of other servers, which wait in turn.
* There are no timeouts, so every lost reply is a hang; most results of library
  calls are ignored, so a failure shows, if at all, as a wrong number.
* Start-up rests on barriers and on files that earlier runs leave behind.
* In `margotree.c` the handlers of one reduction share a structure without a
  lock, while the next reduction may already replace the pointer to it.

What makes each part correct:

* tree: from any root every rank is reached exactly once, by the rank that it
  takes for its parent, in as few hops as the degree allows;
* sum: every server once and nobody twice, a call always returns, and the
  meaning of an answer after a failure is limited in a known way;
* start-up: nobody calls a stale address or an unregistered RPC, phases do not
  overlap, servers come up together or not at all; late clients are answered;
* listener and client library: a caller gets its own answer, an error is
  reported as one, every client ends unless a server stays silent;
* benchmark: the limit on parallel calls, the separation of rounds, termination;
* reduction: the right maximum, no lost wakeup, no use of freed memory, nothing
  under way when a rank finalises;
* echo test: the server ends after its limit of requests and not before.

## Modules

`RpcTree` has the arithmetic of `metasim_rpc_tree_init` as constant operators:
a rank's *position* is its rank with the root rotated to 0, and parent and
children are computed on positions and rotated back. `ChildCount`, `ChildRank`
and `ParentRank` are the fields of the C structure (`child_count`,
`child_ranks[i-1]`, `parent_rank`). The copy of the function in `margotree.c`
is the same algorithm and uses the same module.

`TreeRelay` delivers a request down the tree, for every size, root and degree of
a bounded range, without anything else of the system. It is the cheap check of
`RpcTree`, and what a user of the tree other than the sum relies on.

`SumService` is the abstract service: a client calls a server, and the call is
answered once, with the exact sum when nothing can fail and otherwise with a sum
that counts nobody twice, a garbage value or an error. `SumBroadcast` implements
it, `Listener` uses it in place of the servers.

`SumBroadcast` is `metasim-rpc.c`. Each call `o` has a ULT at each rank; `pc`
says where it is in `sum_forward`, and `child_count`, `sent`, `got`, `sum` and
`ret` are its locals. One action per step that others can see: `InvokeSum`,
`HandleSum` (the handler starts), `ForwardRequest` (one `margo_iforward`),
`Block` (the wait finds no reply and the ES is given away), `Collect` (a wait
returns), `Finish` (the code at `out:`), `Respond`, `Return`; and one action for
each library call that may fail, doing what the code then does, including doing
nothing about it. A sum is a count per server, so that a missing, doubled or
foreign contribution shows, whatever the ranks and the seed; `garbage` tells
that an uninitialised number went in. Pools: the handlers of a server share the
streams of `metasim->mid`, the callers those of the listener's instance. The
constant `Callers` says at which ranks calls may start.

`SumBroadcast` implements `SumService`: the answer of a call is what the ULT at
the caller's rank returns. TLC checks this refinement with and without failures.

`Startup` composes `metasim-server.c`, `metasim_listener_init` and
`metasim_init`. A server's `pc` is the barrier it waits in or the phase between
two barriers; `fences` counts the barriers entered. Files hold nothing, an old
address, nothing yet (between `fopen` and `fclose`) or the new address.

`SumClient` is `examples/src/sum.c`. The options are chosen in `Init`. The
parallel run is the limited run with one round, which is how the two functions
of the program agree. A negative `-l` (`atoi` lets one in) is left out.

`Listener` is the way from a client's `main` through the library to the handlers
of the listener and back. `at`, `i` and `nservers` are the client's (`ping.c`,
`echo.c`, `sumrepeat.c`, and one call of `sum.c`), `call` is where its call is,
`out` what the handler, and later the library, has to say of it. A sum is a call
of `SumService`, and `hung` marks one that a silent server keeps from an answer.
The failing library calls do what the code then does: the client library hands
out uninitialised fields, `metasim_rpc_invoke_ping` returns 0 and a pong it never
got, the handlers of `sum` and `sumrepeat` combine results with `ret |=`. A
garbage number of servers is anything from 0 to `N + 1`; 0 kills `ping.c`, which
divides by it.

`Filesize` is `margotree.c`: the main threads from the exchange of addresses to
`margo_finalize` (`phase`), the reductions of rank 0, and a ULT per request
and per response. Accesses of the shared structure are separate actions
(`LookUp`, `SetMax`, `Load`, `Store`, `CheckComplete`), since nothing locks them on
the four streams that `margotree.c:647` asks for. Three races follow, and the
history variable `races` notes where one went wrong: a handler overwrites a larger
size (`max`), overwrites an increment it has not seen (`count`), or finds all
responses counted while another that will find the same has yet to check
(`complete`, then `ConcludedTwice` holds). With the first the result may be too
small, with the second the reduction may never end, and with the third a rank
answers twice and the structure is used after it is freed. The properties say
that nothing else can make a reduction wrong, on any number of streams, and each
names the races it excepts: a lost increment, say, excuses no wrong result.
The constant `Runs` has the numbers of ranks, whether RPCs are acknowledged
(`st->reply`, as in the program's main loop) and how many reductions there are.

`EchoTest` is `test/src`: main of the server up to its wait, one ULT per request
with the load and the store of `nrpcs++` apart, and the clients. What Margo does
between a `margo_finalize` from a handler and its end is external: it may
take a request or refuse it, and goes down when no handler is running.

The theorems are in `RpcTreeProofs`, `TreeRelayProofs`, `SumBroadcastProofs`
(with the refinement of `SumService`), `StartupProofs`, `SumClientProofs`,
`ListenerProofs`, `FilesizeProofs` and `EchoTestProofs`, each beside the module it
is about. `MCStartup`,
`MCFilesize` and `MCListener` have the functions and sets that a cfg cannot
write. Definitions whose comment begins with "Mutant:" are faulty variants of a
definition that follows; each property is violated when one of them takes
that definition's place.

## Runs

| run | instance | shows |
|---|---|---|
| `tree_relay` | all trees of up to 7 ranks, degrees 1 to 3, all roots | one tree that reaches everybody once, as flat as can be |
| `sum_live` | 4 servers, 2 calls from any rank, 1 stream | exact sums of crossing calls; `SumService` with its liveness |
| `sum_faults` | 5 servers, 1 call, up to 2 failures anywhere | what results and errors still mean; `SumService` with failures; a call hangs only when some server stays silent |
| `startup` | 3 servers, 2 clients on different nodes, failures of `margo_init` | the start-up properties, safety and liveness |
| `startup_early` | the same without failures | violation: an early client fails |
| `sum_client` | 4 processes, all options, 0 or 2 repetitions | limit, rounds, calls per rank, termination |
| `sum_client_warmup` | 4 processes | violation: `-w` runs ignore `-l` |
| `filesize` | 3 to 5 ranks, acknowledged or not, up to 2 reductions, 4 streams | right, complete, no freed structure used, nothing left at the end, unless a race went wrong that accounts for it |
| `filesize_race` | 3 ranks, 1 reduction, 2 streams | violation: lost increment |
| `listener` | 2 clients at one server of 2, 9 pairs of programs, 1 stream, 1 failure | what pings, echoes and repeated sums report; every client ends |
| `listener_minus_one` | the same | violation: a failed `sumrepeat` returns no -1 |
| `echo` | 2 clients, 1 or 2 calls each, limits -1 to 5, 2 streams | the server ends in time and not early |

Why the bounds are enough. Seven ranks with degree 2 have three levels, full and
partly filled last levels, and ranks with no, one and two children; degrees 1
and 3 have chains and wide trees. Four servers are the least with a rank between
root and leaf and a root with two children for every root; five add an inner
rank with two children. Two calls with one stream per pool compete for every
stream: two calls that start at different ranks have each rank as an ancestor
in one tree and a descendant in the other. More streams only allow more.
`sum_faults` starts its call at rank 0 or 3: another root only rotates the
positions, and 3 is one where the rotation wraps around. Two failures show a
second failure that hides or moves the first. Two reductions let
the end of one overlap the beginning of the next, and the code never has three
at once at one rank, as a reduction begins only after the root has all the
responses of the one before; the run of five ranks has an inner rank that waits
for two responses while its own parent does. A rank has at most two responses
and a request of one reduction and a request of the one before to handle, so
that four streams never make one wait for another; fewer only allow fewer
interleavings. `CONSTRAINT Followed` ends a behaviour where a reduction was
concluded twice, of which no property says more, and in the largest run (4 ranks,
2 reductions; `MaxRaced`) where any race went wrong; the others, 5 ranks with one
reduction and 3 with two among them, go on with lost increments and sizes. Three servers and two
nodes with clients give start-up a slow, a fast and a middle server. Two clients
with one stream compete for it with every pair of handlers of interest (of the
ten pairs only `echo` with `sum` is left out, which `echo` with `sumrepeat`
contains); the same program twice is one MPI job with its barriers. With one
client's call failing, the other shows what the failure does to bystanders;
two servers give a ping a target here and there, and the benchmark a modulo
that matters. One repetition and two tell the last sum from the others. Limits
up to 5 in `echo` are below, at and above the most requests there can be, 4.
Every bound is a constant in a cfg or an MC module.

`CHECK_DEADLOCK FALSE`: servers idle when all calls have been answered, and
hang, as the code does, when a server failed to reply; the other programs
end. Where the system must not stop, a liveness property says so.

## Fairness

* `SumBroadcast`: some ULT that can go on does (`WF` of all steps together).
  Execution streams are OS threads and the progress loop has a thread of its
  own (`margo_init(..., 1, 4)`). It is weaker than fairness per ULT and is
  enough, since each call has finitely many steps. Failures need not happen.
* `Startup`, `SumClient`: each process keeps running, so there is weak fairness
  of each process. A client's sum returns (`sum_live` is the reason).
* `Listener`: some client or handler that can go on does, failures excepted. A
  sum is answered unless a failure hangs it, which are `ServiceSpec` (calls that
  cross) and `EveryCallReturns` (one with failures) of `SumBroadcast`.
* `TreeRelay`, `Filesize`, `EchoTest`: some enabled step happens; behaviours are
  finite.

## Findings

* `margotree.c:553`: the responses of two children are counted without a lock on
  up to four streams; a lost increment stops the reduction for good
  (`filesize_race`). The same unlocked update may overwrite a larger size, and
  lets two handlers find the count full, both respond and both free the
  structure. That these three are all that goes wrong is what `filesize` and, for
  every size and number of streams, `FilesizeProofs` show.
* `metasim.c:253`: a client that opens the address file in the moment between its
  creation and its writing fails instead of waiting (`startup_early`).
* `sum.c:135`: warm up calls are not held to the limit that the usage text
  promises (`sum_client_warmup`).
* `metasim-listener.c:230`: the handler of `sumrepeat` forgets the failure of its
  first sum, of which it has logged that it "will return -1"
  (`listener_minus_one`).
* Also seen, not a run: `sum.c:263` sets `limited` to 1, so that without options
  ranks call one after the other where the usage text says they run in parallel.
* Also seen: `metasim_rpc_invoke_ping` returns 0 whatever fails
  (`metasim-rpc.c:99`), so the listener's -1 for a failed ping never comes. In
  the echo test two handlers may both find the limit reached and both free the
  address and finalise, after which main finalises again (`echo-server.c:45`); a
  client that calls between the writing of the address file and the
  registration of the RPC is stopped by its assertion; and a lost increment of
  `nrpcs` makes the server wait for more requests than it was told.

The repository keeps the output of a run with 512 servers and 1024 clients that
did not end (`logs/sum.n512ppn2.fail`). In `sum_live` two calls that cross on one
stream per server both return (`ServiceSpec`): waiting for a child gives the
stream away, and pools and network hold any number of requests. As far as two
calls of four servers tell, the tree and the waiting do not explain that hang; a
limit that the model does not have (memory for ULTs, posted receives, flow
control below Margo) may be part of it.

## Proofs

All proofs are checked by `tlapm`. They rest on the assumptions of the modules
and nothing else:

| module | assumptions |
|---|---|
| `RpcTree` | none; its lemmas are about a size and a degree of at least 1 and any root |
| `TreeRelay` | the bounds of size and degree are positive |
| `SumBroadcast`, `SumService` | `N` and `Streams` are positive, `MaxFaults` is natural, `Callers` is a set of ranks |
| `Startup` | `N` is positive, `NodeOf` gives each client a rank, `Faults` is a Boolean |
| `SumClient` | `N` is positive, `Repeats` are natural numbers |
| `Listener` | `N` and `Streams` are positive, `MaxCount`, `MaxRepeat` and `MaxFaults` natural, `Clients` natural numbers, `NodeOf` and `Workloads` give servers and programs to clients |
| `Filesize` | `MaxRanks` and `Rounds` are natural, `Streams` is positive, `Runs` are within them |
| `EchoTest` | `Streams` and `MaxCount` are positive, `MaxLimit` is natural, there are finitely many clients |

`RpcTreeProofs`, for every size, root and degree: a listed child is a rank that
computes its lister as its parent (`ChildKnowsParent`); every rank but the root
is listed (`ParentListsChild`), and nobody twice (`ChildrenDistinct`); a set of
ranks that holds the root and the children of its members is all ranks
(`Coverage`, by a least position that is missing); subtrees of siblings are
disjoint and a subtree is its top with those of the top's children
(`SiblingsDisjoint`, `BelowIsChildren`, `BelowRoot`). `Below` is the least set
that is closed under child lists, so that no recursion is needed.

`TreeRelayProofs`: `TypeCorrect`, `OnlyOnce` (`DeliveredOnce`) and `DepthIsLeast`
(`LevelsAreFull`: a rank that is `h` hops away is in a tree of more ranks than
the `h` levels above can hold). The invariant adds `FromParent` (a rank has been
handed the request once when it is the root or the rank that it takes for its
parent has relayed, and otherwise never) and `HopsFit` (the position of a rank is at least `LevelStart[hops]`, since
each hop multiplies it by the degree). `LevelStart` is a recursive function;
that it exists, and so has its equation, is proved by a least number up to which
it does not (`UpToExists`, `UpToUnique`, `LevelStartIs`), without an induction
rule.

`SumBroadcastProofs`, for any number of servers, calls, streams and failures:

* `TypeCorrect` (`TypeOK`), `OneHandlerPerRank` (`OneRequestPerRank`),
  `NobodyTwice` (`CountedAtMostOnce`) and `SumIsExact` (`ExactSum`).
* The inductive invariant is `Ind == TypeOK /\ Bookkeeping /\ Asked`.
  `TypeOK` alone is not inductive, since the counters of a loop stay within
  `Degree` only because they stay within the child list (`Bookkeeping`).
  `OneRequestPerRank` needs `Asked`: a request comes from a loop that has sent
  it, and only the parent's loop sends to a rank (`ChildKnowsParent`), each child
  once (`ChildrenDistinct`).
* `Sums` strengthens the last two properties: what a ULT has in its sum is
  `Due`, the union of the subtrees of the children it has collected, and itself
  after `out:`. A collected subtree is disjoint from the rest
  (`SiblingsDisjoint`), so nobody counts twice; without failures it is complete
  (`BelowIsChildren`), and at the root it is everybody (`BelowRoot`).

In its second part, about calls that fail:

* `RepliesInOrder` (`RepliesAfterChildren`), `ErrorsAreLocal` (`ErrorIsLocal`),
  `LossesAreExplained` (`LossIsExplained`) and `SilenceHangs`
  (`SilenceHangsTheCall`).
* `AllSound` says of each ULT what its locals owe to the failures so far: where
  its child count comes from (`Built`), which failures its `ret` reports
  (`Reported`), that what it collected were replies and, without a failure of
  its own, all of them (`Waited`), where a garbage value comes from (`Decoded`),
  that it is in its own sum unless it reports an error (`AddedItself`), and that
  each server whose share is due but not in its sum has lost it by its own
  `calloc` or lies below a rank at which a call failed (`Accounted`). The last is
  the subtle one: collecting an answer passes the excuse one level up. TLC
  finds no violation of `AllSound` on the instance of `sum_faults`.
* `SilenceHangs` follows a call that has returned down the tree: each loop has
  ended, so each child has answered (`StartedChild`), and by `Coverage` every
  server has (`StartedAbove`).
* `ServiceImplemented`: `SumBroadcast` implements the safety part of
  `SumService`, `Spec => ServiceSafeSpec`. A step of a ULT at the caller's rank
  that returns is the abstract answer (`AnswersAllowed` shows that the answer is
  one that `SumService` allows, `FaultsBounded` that failures are counted the
  same), an invocation is the abstract call, and every other step stutters.

`StartupProofs`, for any number of servers and clients: `TypeCorrect`,
`AddressesAreOfThisRun` (`CallsThisRun`), `RegisteredBeforeCalls`
(`CallsAreRegistered`), `OneTestAtATime` (`TestsDontOverlap`) and
`FailedInitStopsAll` (`FailureStopsAll`). The invariant says how many barriers a
server at each phase has entered (`Progress`), that two servers are never more
than one barrier apart (`InStep`), and what a server before a barrier has left
for those after it (`Prepared`, `AnsweredByListener`).

`SumClientProofs`, for any number of processes: `TypeCorrect`, `CallsCounted`
(`EveryRankRepeats`), `RoundsAreApart` (`RoundsDontOverlap`) and `LimitHolds`
(`MeasuredWithinLimit`). `InStep` is again that nobody is a barrier ahead of a
process that has not entered it; `Counted` relates the counters of a process to
the calls it has made. The limit holds because the ranks of a round agree
modulo the number of rounds, so that their quotients are different numbers below
the limit (`TurnsWithinLimit`, with `FiniteSetTheorems`).

`ListenerProofs`, for any number of clients, servers, streams and failures:
`TypeCorrect`, `PingsEchoed` (`PingsAreEchoed`) and `RepeatsReported`
(`SumrepeatReports`). The invariant is one statement per client (`Good`): which
calls its program makes (`InMain`), what its handler holds at each point
(`Waiting`, `Counting`), and what the failures so far allow its answer to be
(`Echoing`, `Repeating`, `Repeated`). Steps of other clients touch only the pool,
the failures and their own part.

`FilesizeProofs`, for any number of ranks, reductions and streams, with
acknowledgements and without:

* `TypeCorrect` (`TypeOK`, with the bound of `num_responses`), `ResultIsRight`
  (`ResultIsMax`), `StructuresLive` (`NoUseAfterFree`), `OneResponse`
  (`ForwardsOnce`) and `EndIsQuiet` (`NothingLeftAtTheEnd`). Nothing is supposed
  of the number of streams: no proof uses `FreeStream`.
* The inductive invariant is `IInv == Types /\ Placed /\ (ConcludedTwice \/ Inv)`.
  `races` only grows (`RacesKept`), so that what a property excepts in a state was
  not there before either. `Inv` has a part per concern. `Requested` and
  `Answered` say that a request or a response comes from a rank that was ready to
  send it; so the ULTs of a reduction follow the tree, and by `Coverage` there are
  none before it begins (`NotBegun`) and none but acknowledgements once the
  responses to the root are handled (`OverIsSettled`). This keeps overlapping
  reductions apart: a request or response that is not yet acted upon is one of
  the present reduction (`ThisRequest`, `ThisRound`), and `glb_st` points to its
  structure (`Pointing`, `LooksUpOwn`).
* `Counting` is what survives lost increments: `num_responses`, and a count that
  has been loaded and not yet stored, is at most the number of handlers that have
  stored theirs. So a handler that reads the full count knows that all have
  stored (`LastOfAll`). None has concluded before it (`LastConcludes`), and one
  that is still to check would be noted; the others are at their end. From it
  follow one response per rank, that the structure it frees is nobody's any more
  (`Living`, `FreesLast`) and one signal per reduction (`Turns`, `Signals`).
* `Sizes` follows the maximum up the tree for the reductions in which no larger
  size was overwritten (`Covered`): a value on its way covers the subtree it comes
  from, and a structure covers the values that have been compared with it, though
  the comparison and the assignment are two steps.
* TLC finds no violation of `IInv` for five ranks with one reduction, three
  with two, and four without acknowledgements, on four streams, races and all.

`EchoTestProofs`, for any limit, number of clients and streams: `TypeCorrect` and
`LimitIsKept` (`AnsweredWithinLimit`). The invariant is that a count is never
above the number of handlers that have stored one (`NoneInvented`), which lost
increments only make smaller, that requests not sent have no handler
(`NotSent`), and that the server goes down only for its limit
(`ClosedByLimit`).

What the proofs found. The `CASE` that gave the answer of a call in
`SumBroadcast` had two guards that overlap, where TLC takes the first and TLA+
leaves the choice open; it is an `IF` now. The type of `timed` in `Listener` was
too small for `MaxRepeat = 0`, since a program `sum` times its only call. The
bound on counts in `EchoTest` was chosen from a set that need not have a largest
element; it is a constant. `LevelsAreFull` used a power, of which the provers
know nothing; it says the same by the first position of each level.

Only model-checked:

* All liveness (`EveryCallReturns`, `RoundsComplete` and the rest), and with it
  the part of `ServiceSpec` that is fairness: liveness and `ENABLED` are beyond
  the prover.
* That a lost increment breaks `CountsResponses`, which is a finding, and that
  without one every reduction ends.
* What the mutants and the runs that expect a violation show.

## Not modelled

* The handler of `terminate`, which answers 0, and `metasim_invoke_terminate`,
  which no program calls; `metasim_exit`, which frees what nobody uses after it.
* An input the listener cannot decode: no handler looks at the result of
  `margo_get_input`, and the modelled failures of the same call at the client
  already give every value of the output.
* An unset handle after a failing `margo_create` does more than kill the process
  or yield garbage; a garbage number of servers above `N + 1` or below 0, which
  makes the client's loop longer or empty.
* Failing library calls of `margotree.c`, which the program prints and then
  ignores, and a failing `fopen` of the echo server.
* Memory that is freed twice, or by a call whose result nobody looks at.
* `mpisum.c`, which only measures `MPI_Reduce`; logging, printing of pool
  information, times, build files, the recorded outputs.
* Margo, Mercury, Argobots and MPI are as their use in the code requires: an RPC
  arrives once or its failure is an action, barriers separate, mutexes exclude.
* 32-bit overflow of a sum: a sum is a count per server.

## Plan

1. Done: `RpcTree`, `TreeRelay`, `SumService`, `SumBroadcast`, `Startup`,
   `SumClient`, `Listener`, `Filesize`, `EchoTest`.
2. Done: proofs of every safety property that a run checks, and of the safety
   refinement of `SumService`.
3. A bound on what the network and the pools hold, to look for the recorded hang.
