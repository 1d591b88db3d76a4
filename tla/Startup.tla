------------------------------ MODULE Startup ------------------------------
(***************************************************************************)
(* From the start of the servers to the first answer a client gets:        *)
(* server/src/metasim-server.c, metasim_listener_init and the listener's   *)
(* handlers that call the other servers, and metasim_init of libmetasim.   *)
(*                                                                         *)
(* The servers are MPI processes.  Each publishes its address in a file of *)
(* a shared directory; MPI barriers (__fence) separate the phases.  Then   *)
(* each opens its listener and publishes the listener's address in a file  *)
(* of its node's /tmp, which the clients of the node wait for.  Files of   *)
(* an earlier run, which nobody removes, may be there.  There is a server  *)
(* on every node and its rank names the node.                              *)
(*                                                                         *)
(* With the -t option the servers test the RPCs before they listen; a test *)
(* is a sequence of calls here, SumBroadcast has what a sum does.          *)
(***************************************************************************)
EXTENDS Integers, Sequences

CONSTANTS
    N,         \* mpi_nranks
    Clients,   \* client processes
    NodeOf,    \* NodeOf[c]: the node of client c
    Faults     \* whether margo_init may fail

ASSUME StartupAssumption ==
    N \in Nat \ {0} /\ NodeOf \in [Clients -> 0 .. N - 1] /\ Faults \in BOOLEAN

Rank == 0 .. N - 1

\* What is in an address file: nothing at all, an address of an earlier run,
\* nothing yet after fopen(..., "w"), or the address of this run.
Content == {"absent", "old", "empty", "new"}

VARIABLES
    selftest,      \* the -t option, the same at every server
    pc,            \* pc[r]: what server r does next, or the phase it is in
    fences,        \* fences[r]: barriers that r has entered
    addr_file,     \* addr_file[r]: logs/addr/<r>
    peer_addrs,    \* peer_addrs[r][q]: the address of q that r has looked up
    registered,    \* registered[r]: metasim_rpc_register is done
    target,        \* target[r]: next peer of the ping test
    listener_file, \* listener_file[r]: the listener address file of the node
    listening,     \* listening[r]: the listener's progress loop runs
    listener_mid,  \* listener_mid[r]: the global is assigned
    client,        \* client[c]: where client c is
    address        \* address[c]: the listener address it has read

server == <<selftest, pc, fences, addr_file, peer_addrs, registered, target>>
listen == <<listener_file, listening, listener_mid>>
vars   == <<server, listen, client, address>>

\* The barriers of comm_init and main, in the order they are entered.
Fence == <<"reading peer addresses", "created log symlinks", "all peers are initialized",
           "ping from 0", "ping from all", "sum from 0", "sum from all">>

Init ==
    /\ selftest \in BOOLEAN
    /\ pc = [r \in Rank |-> "margo_init"]
    /\ fences = [r \in Rank |-> 0]
    /\ \E old \in BOOLEAN :
         addr_file = [r \in Rank |-> IF old THEN "old" ELSE "absent"]
    /\ peer_addrs = [r \in Rank |-> [q \in Rank |-> "absent"]]
    /\ registered = [r \in Rank |-> FALSE]
    /\ target = [r \in Rank |-> 0]
    /\ listener_file \in [Rank -> {"absent", "old"}]
    /\ listening = [r \in Rank |-> FALSE]
    /\ listener_mid = [r \in Rank |-> FALSE]
    /\ client = [c \in Clients |-> "start"]
    /\ address = [c \in Clients |-> "absent"]
-----------------------------------------------------------------------------
(* Barriers.                                                               *)

Goto(r, label) == pc' = [pc EXCEPT ![r] = label]

\* Mutant: a fence that does not wait.
FenceOpenAlways(r) == TRUE

FenceOpen(r) == \A q \in Rank : fences[q] >= fences[r]

\* r has come to its next barrier; the label is the barrier's.
EnterFence(r) ==
    /\ fences' = [fences EXCEPT ![r] = @ + 1]
    /\ Goto(r, Fence[fences[r] + 1])

Passes(r, fence) == pc[r] = fence /\ FenceOpen(r)
-----------------------------------------------------------------------------
(* comm_init                                                               *)

\* margo_init and write_addr_file
Publish(r) ==
    /\ pc[r] = "margo_init"
    /\ addr_file' = [addr_file EXCEPT ![r] = "new"]
    /\ EnterFence(r)
    /\ UNCHANGED <<selftest, peer_addrs, registered, target, listen, client, address>>

\* Mutant: the failing server goes through the barrier.
MargoInitFailsLate(r) ==
    /\ Faults /\ pc[r] = "margo_init"
    /\ Goto(r, "finalize")
    /\ fences' = [fences EXCEPT ![r] = @ + 1]
    /\ UNCHANGED <<selftest, addr_file, peer_addrs, registered, target, listen, client, address>>

\* cleanup, and then MPI_Finalize, which waits for the others.
MargoInitFails(r) ==
    /\ Faults /\ pc[r] = "margo_init"
    /\ Goto(r, "finalize")
    /\ UNCHANGED <<selftest, fences, addr_file, peer_addrs, registered, target, listen, client, address>>

\* read_addr_file; a file that is not there makes the assertion fail.
ReadAddrs(r) ==
    /\ Passes(r, "reading peer addresses")
    /\ peer_addrs' = [peer_addrs EXCEPT ![r] = addr_file]
    /\ IF \E q \in Rank : addr_file[q] = "absent"
       THEN Goto(r, "aborted") /\ UNCHANGED fences
       ELSE EnterFence(r)
    /\ UNCHANGED <<selftest, addr_file, registered, target, listen, client, address>>
-----------------------------------------------------------------------------
(* main                                                                    *)

\* Mutant: registers the RPCs after the fence.
RegisterLate(r) ==
    /\ Passes(r, "created log symlinks")
    /\ EnterFence(r)
    /\ UNCHANGED <<selftest, addr_file, peer_addrs, registered, target, listen, client, address>>

\* comm_probe_peers at rank 0 only prints; metasim_rpc_register.
Register(r) ==
    /\ Passes(r, "created log symlinks")
    /\ registered' = [registered EXCEPT ![r] = TRUE]
    /\ EnterFence(r)
    /\ UNCHANGED <<selftest, addr_file, peer_addrs, target, listen, client, address>>

Initialized(r) ==
    /\ Passes(r, "all peers are initialized")
    /\ IF ~ selftest THEN Goto(r, "listener_init") /\ UNCHANGED fences
       ELSE IF r = 0 THEN Goto(r, "ping test") /\ UNCHANGED fences
       ELSE EnterFence(r)
    /\ UNCHANGED <<selftest, addr_file, peer_addrs, registered, target, listen, client, address>>

\* Mutant: `i <= metasim->nranks'.
PingOneMore(r) ==
    /\ pc[r] = "ping test" /\ target[r] <= N
    /\ target' = [target EXCEPT ![r] = @ + 1]
    /\ UNCHANGED <<selftest, pc, fences, addr_file, peer_addrs, registered, listen, client, address>>

\* test_ping: one call after the other, to everybody but r itself.
Ping(r) ==
    /\ pc[r] = "ping test" /\ target[r] < N
    /\ target' = [target EXCEPT ![r] = @ + 1]
    /\ UNCHANGED <<selftest, pc, fences, addr_file, peer_addrs, registered, listen, client, address>>

\* Mutant: only rank 0 enters the fence after its test.
PingTestEndsNoFence(r) ==
    /\ pc[r] = "ping test" /\ target[r] = N
    /\ target' = [target EXCEPT ![r] = 0]
    /\ IF r = 0 THEN EnterFence(r)
       ELSE Goto(r, "sum test") /\ UNCHANGED fences
    /\ UNCHANGED <<selftest, addr_file, peer_addrs, registered, listen, client, address>>

PingTestEnds(r) ==
    /\ pc[r] = "ping test" /\ target[r] = N
    /\ target' = [target EXCEPT ![r] = 0]
    /\ EnterFence(r)
    /\ UNCHANGED <<selftest, addr_file, peer_addrs, registered, listen, client, address>>

PingFromAll(r) ==
    /\ Passes(r, "ping from 0")
    /\ Goto(r, "ping test")
    /\ UNCHANGED <<selftest, fences, addr_file, peer_addrs, registered, target, listen, client, address>>

\* test_sum(0)
SumFrom0(r) ==
    /\ Passes(r, "ping from all")
    /\ IF r = 0 THEN Goto(r, "sum test") /\ UNCHANGED fences ELSE EnterFence(r)
    /\ UNCHANGED <<selftest, addr_file, peer_addrs, registered, target, listen, client, address>>

SumTestEnds(r) ==
    /\ pc[r] = "sum test"
    /\ EnterFence(r)
    /\ UNCHANGED <<selftest, addr_file, peer_addrs, registered, target, listen, client, address>>

\* Mutant: only rank 0 runs the last test, with the fence after it.
SumFromAllOnlyRoot(r) ==
    /\ Passes(r, "sum from 0")
    /\ Goto(r, IF r = 0 THEN "sum test" ELSE "listener_init")
    /\ UNCHANGED <<selftest, fences, addr_file, peer_addrs, registered, target, listen, client, address>>

SumFromAll(r) ==
    /\ Passes(r, "sum from 0")
    /\ Goto(r, "sum test")
    /\ UNCHANGED <<selftest, fences, addr_file, peer_addrs, registered, target, listen, client, address>>

Tested(r) ==
    /\ Passes(r, "sum from all")
    /\ Goto(r, "listener_init")
    /\ UNCHANGED <<selftest, fences, addr_file, peer_addrs, registered, target, listen, client, address>>
-----------------------------------------------------------------------------
(* metasim_listener_init                                                   *)

\* margo_init, listener_register_rpc; from here on requests are handled.
Listen(r) ==
    /\ pc[r] = "listener_init"
    /\ Goto(r, "fopen")
    /\ listening' = [listening EXCEPT ![r] = TRUE]
    /\ UNCHANGED <<selftest, fences, addr_file, peer_addrs, registered, target,
                   listener_file, listener_mid, client, address>>

\* main does not look at the result: the server goes on without a listener.
ListenerInitFails(r) ==
    /\ Faults /\ pc[r] = "listener_init"
    /\ Goto(r, "wait_for_finalize")
    /\ UNCHANGED <<selftest, fences, addr_file, peer_addrs, registered, target, listen, client, address>>

\* Mutant: does not overwrite a file that is there.
OpenListenerFileOnce(r) ==
    /\ pc[r] = "fopen"
    /\ IF listener_file[r] = "old"
       THEN Goto(r, "listener_mid") /\ UNCHANGED listener_file
       ELSE Goto(r, "fclose") /\ listener_file' = [listener_file EXCEPT ![r] = "empty"]
    /\ UNCHANGED <<selftest, fences, addr_file, peer_addrs, registered, target,
                   listening, listener_mid, client, address>>

OpenListenerFile(r) ==
    /\ pc[r] = "fopen"
    /\ Goto(r, "fclose")
    /\ listener_file' = [listener_file EXCEPT ![r] = "empty"]
    /\ UNCHANGED <<selftest, fences, addr_file, peer_addrs, registered, target,
                   listening, listener_mid, client, address>>

\* The buffered address is written by fclose.
CloseListenerFile(r) ==
    /\ pc[r] = "fclose"
    /\ Goto(r, "listener_mid")
    /\ listener_file' = [listener_file EXCEPT ![r] = "new"]
    /\ UNCHANGED <<selftest, fences, addr_file, peer_addrs, registered, target,
                   listening, listener_mid, client, address>>

AssignListenerMid(r) ==
    /\ pc[r] = "listener_mid"
    /\ Goto(r, "wait_for_finalize")
    /\ listener_mid' = [listener_mid EXCEPT ![r] = TRUE]
    /\ UNCHANGED <<selftest, fences, addr_file, peer_addrs, registered, target,
                   listener_file, listening, client, address>>
-----------------------------------------------------------------------------
(* Clients: metasim_init, and a first request to the listener.             *)

Client(c, from, to) == client[c] = from /\ client' = [client EXCEPT ![c] = to]

\* access in a loop
FileAccessible(c) ==
    /\ listener_file[NodeOf[c]] # "absent"
    /\ Client(c, "start", "read")
    /\ UNCHANGED <<server, listen, address>>

\* fopen and fgets, margo_addr_lookup; metasim_init fails without an address.
ReadListenerFile(c) ==
    /\ address' = [address EXCEPT ![c] = listener_file[NodeOf[c]]]
    /\ Client(c, "read", IF listener_file[NodeOf[c]] = "empty" THEN "failed" ELSE "call")
    /\ UNCHANGED <<server, listen>>

\* The listener of this run handles a request: it uses listener_mid, and calls
\* the other servers.  Nobody answers at an address of an earlier run.
Answer(c) ==
    /\ address[c] = "new" /\ listening[NodeOf[c]]
    /\ Client(c, "call", "answered")
    /\ UNCHANGED <<server, listen, address>>
-----------------------------------------------------------------------------
ServerStep(r) ==
    \/ Publish(r) \/ ReadAddrs(r) \/ Register(r) \/ Initialized(r)
    \/ Ping(r) \/ PingTestEnds(r) \/ PingFromAll(r)
    \/ SumFrom0(r) \/ SumTestEnds(r) \/ SumFromAll(r) \/ Tested(r)
    \/ Listen(r) \/ OpenListenerFile(r) \/ CloseListenerFile(r) \/ AssignListenerMid(r)

ServerFails(r) == MargoInitFails(r) \/ ListenerInitFails(r)

ClientStep(c) == FileAccessible(c) \/ ReadListenerFile(c) \/ Answer(c)

Next ==
    \/ \E r \in Rank : ServerStep(r) \/ ServerFails(r)
    \/ \E c \in Clients : ClientStep(c)

\* Servers and clients are processes that keep running.
Spec ==
    /\ Init /\ [][Next]_vars
    /\ \A r \in Rank : WF_vars(ServerStep(r))
    /\ \A c \in Clients : WF_vars(ClientStep(c))
-----------------------------------------------------------------------------
Phases ==
    { Fence[k] : k \in 1 .. Len(Fence) } \cup
    {"margo_init", "finalize", "aborted", "ping test", "sum test", "listener_init",
     "fopen", "fclose", "listener_mid", "wait_for_finalize"}

TypeOK ==
    /\ selftest \in BOOLEAN
    /\ pc \in [Rank -> Phases]
    /\ fences \in [Rank -> 0 .. Len(Fence)]
    /\ addr_file \in [Rank -> {"absent", "old", "new"}]
    /\ peer_addrs \in [Rank -> [Rank -> {"absent", "old", "new"}]]
    /\ registered \in [Rank -> BOOLEAN]
    /\ target \in [Rank -> 0 .. N]
    /\ listener_file \in [Rank -> Content]
    /\ listening \in [Rank -> BOOLEAN] /\ listener_mid \in [Rank -> BOOLEAN]
    /\ client \in [Clients -> {"start", "read", "call", "answered", "failed"}]
    /\ address \in [Clients -> Content]

Testing(r) == pc[r] \in {"ping test", "sum test"}

(***************************************************************************)
(* A server that calls others does so at the addresses of this run, though *)
(* the files of an earlier run lie in the same directory until they are    *)
(* overwritten.                                                            *)
(***************************************************************************)
CallsThisRun ==
    \A r \in Rank : Testing(r) \/ listening[r] =>
        \A q \in Rank : peer_addrs[r][q] = "new"

(***************************************************************************)
(* Whoever calls a server, in a test or for a client, finds its RPCs       *)
(* registered: no request, of a test or of the first client that any node  *)
(* lets in, comes before the slowest server is ready for it.               *)
(***************************************************************************)
CallsAreRegistered ==
    \A r \in Rank :
        Testing(r) \/ (\E c \in Clients : NodeOf[c] = r /\ client[c] = "answered")
        => \A q \in Rank : registered[q]

(***************************************************************************)
(* Tests do not overlap: while rank 0 tests alone nobody else calls, and   *)
(* ping and sum tests are never under way at the same time.                *)
(***************************************************************************)
TestsDontOverlap ==
    \A r, q \in Rank : Testing(r) /\ Testing(q) => fences[r] = fences[q] /\ pc[r] = pc[q]

(***************************************************************************)
(* A server whose margo_init fails leaves every other one in its first     *)
(* barrier for good: none tests, listens or answers.                       *)
(***************************************************************************)
FailureStopsAll ==
    (\E r \in Rank : pc[r] = "finalize") =>
        /\ \A q \in Rank : pc[q] \in {"margo_init", "finalize", Fence[1]}
        /\ \A c \in Clients : client[c] # "answered"

(***************************************************************************)
(* Unless some margo_init fails all servers come up, with the tests and    *)
(* without: they enter the same barriers in the same order.                *)
(***************************************************************************)
AllComeUp ==
    <>(\/ \A r \in Rank : pc[r] = "wait_for_finalize"
       \/ \E r \in Rank : pc[r] = "finalize")

(***************************************************************************)
(* A client that comes when its node's listener is up is answered,         *)
(* whatever lay in the address file before.                                *)
(***************************************************************************)
LateClientsConnect ==
    \A c \in Clients :
        /\ client[c] = "start" /\ pc[NodeOf[c]] = "wait_for_finalize"
        /\ listening[NodeOf[c]]
        ~> client[c] = "answered"

(***************************************************************************)
(* "wait untile the file becomes available" (metasim.c:230): a client that *)
(* comes early waits, it does not fail.                                    *)
(***************************************************************************)
EarlyClientsWait == \A c \in Clients : client[c] # "failed"
=============================================================================
