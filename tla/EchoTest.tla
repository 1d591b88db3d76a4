------------------------------ MODULE EchoTest ------------------------------
(***************************************************************************)
(* The echo test, test/src/echo-server.c and echo-client.c: a server that  *)
(* ends itself from within an RPC handler when it has had maxrpcs requests. *)
(*                                                                         *)
(* The handlers run on the Streams execution streams that the server asks  *)
(* Margo for, and count their requests in the global nrpcs without a lock. *)
(* margo_finalize called by a handler is a request: Margo goes down when   *)
(* no handler is running any more, and what arrives in between it may      *)
(* still take or refuse (external).                                        *)
(***************************************************************************)
EXTENDS Integers, FiniteSets

CONSTANTS
    Clients,   \* ranks of the client program
    MaxCount,  \* bound on its option echo_count, which is positive
    MaxLimit,  \* bound on the server's option maxrpcs, which is -1 without it
    Streams    \* execution streams of the server (2 in the code)

ASSUME EchoAssumption ==
    /\ IsFiniteSet(Clients) /\ MaxCount \in Nat \ {0}
    /\ MaxLimit \in Nat /\ Streams \in Nat \ {0}

\* The k-th request of client c is handled by the ULT <<c, k>>.
Ult == Clients \X (1 .. MaxCount)

VARIABLES
    maxrpcs, echo_count, \* the options
    server,  \* where main of the server is
    file,    \* ECHO_SERVER_ADDR_FILE, with the contents of Startup
    margo,   \* the server's instance: "up", "closing" or "down"
    nrpcs,   \* requests counted
    pc,      \* pc[u]: where the handler of a request is
    tmp,     \* tmp[u]: nrpcs as u has loaded it to increment it
    client,  \* client[c]: where client c is
    i        \* i[c]: calls that have returned

options == <<maxrpcs, echo_count>>
vars    == <<options, server, file, margo, nrpcs, pc, tmp, client, i>>

Init ==
    /\ maxrpcs \in -1 .. MaxLimit /\ echo_count \in 1 .. MaxCount
    /\ server = "start"
    /\ file \in {"absent", "old"}
    /\ margo = "up"
    /\ nrpcs = 0
    /\ pc = [u \in Ult |-> "none"]
    /\ tmp = [u \in Ult |-> 0]
    /\ client = [c \in Clients |-> "waiting"]
    /\ i = [c \in Clients |-> 0]
-----------------------------------------------------------------------------
(* main and rpc_prepare of the server.                                     *)

Main(from, to) == server = from /\ server' = to

\* fopen truncates the file, fclose brings the address into it.
OpenFile ==
    /\ Main("start", "opened") /\ file' = "empty"
    /\ UNCHANGED <<options, margo, nrpcs, pc, tmp, client, i>>

CloseFile ==
    /\ Main("opened", "published") /\ file' = "new"
    /\ UNCHANGED <<options, margo, nrpcs, pc, tmp, client, i>>

\* Only now do requests find a handler.
Register ==
    /\ Main("published", "registered")
    /\ UNCHANGED <<options, file, margo, nrpcs, pc, tmp, client, i>>

\* server_mid and server_addr are assigned; main waits for finalisation.
AssignMid ==
    /\ Main("registered", "waiting")
    /\ UNCHANGED <<options, file, margo, nrpcs, pc, tmp, client, i>>

\* margo_wait_for_finalize returns.  (main then finalises the instance again,
\* which Margo may or may not survive.)
End ==
    /\ margo = "down" /\ Main("waiting", "ended")
    /\ UNCHANGED <<options, file, margo, nrpcs, pc, tmp, client, i>>

Registered == server \in {"registered", "waiting", "ended"}
-----------------------------------------------------------------------------
(* Clients.                                                                *)

\* get_server_addr: waits for the file only, takes what is in it, and is
\* stopped by an assertion when that is nothing.  The address of an earlier
\* server leads nowhere.
ReadFile(c) ==
    /\ client[c] = "waiting" /\ file # "absent"
    /\ client' = [client EXCEPT ![c] = CASE file = "empty" -> "aborted"
                                         [] file = "old"   -> "lost"
                                         [] file = "new"   -> "loop"]
    /\ UNCHANGED <<options, server, file, margo, nrpcs, pc, tmp, i>>

Request(c) == <<c, i[c] + 1>>

InvokeEcho(c) ==
    /\ client[c] = "loop" /\ i[c] < echo_count
    /\ client' = [client EXCEPT ![c] = "calling"]
    /\ pc' = [pc EXCEPT ![Request(c)] = "sent"]
    /\ UNCHANGED <<options, server, file, margo, nrpcs, tmp, i>>

Answered(u) == pc[u] \in {"responded", "done"}

EchoReturns(c) ==
    /\ client[c] = "calling" /\ Answered(Request(c))
    /\ client' = [client EXCEPT ![c] = "loop"]
    /\ i' = [i EXCEPT ![c] = @ + 1]
    /\ UNCHANGED <<options, server, file, margo, nrpcs, pc, tmp>>

\* margo_forward returns an error, and the assertion on it stops the client.
EchoFails(c) ==
    /\ client[c] = "calling" /\ pc[Request(c)] \in {"unknown", "refused"}
    /\ client' = [client EXCEPT ![c] = "aborted"]
    /\ UNCHANGED <<options, server, file, margo, nrpcs, pc, tmp, i>>

Exit(c) ==
    /\ client[c] = "loop" /\ i[c] = echo_count
    /\ client' = [client EXCEPT ![c] = "exit"]
    /\ UNCHANGED <<options, server, file, margo, nrpcs, pc, tmp, i>>

Client(c) == ReadFile(c) \/ InvokeEcho(c) \/ EchoReturns(c) \/ EchoFails(c) \/ Exit(c)
-----------------------------------------------------------------------------
(* rpc_handle_echo.                                                        *)

Running == { u \in Ult : pc[u] \in {"loaded", "counted", "responded"} }

\* margo_respond gives the stream away until the response is out.
FreeStream == Cardinality({ u \in Running : pc[u] # "responded" }) < Streams

Step(u, from, to) == pc[u] = from /\ pc' = [pc EXCEPT ![u] = to]

\* The server has no handler for the request.
Unknown(u) ==
    /\ ~ Registered
    /\ Step(u, "sent", "unknown")
    /\ UNCHANGED <<options, server, file, margo, nrpcs, tmp, client, i>>

\* Margo is going down, or is not there any more, or the process is gone.
Refused(u) ==
    /\ margo # "up" \/ server = "killed"
    /\ Step(u, "sent", "refused")
    /\ UNCHANGED <<options, server, file, margo, nrpcs, tmp, client, i>>

Alive == margo # "down" /\ server # "killed"

\* nrpcs++
Load(u) ==
    /\ Registered /\ Alive /\ FreeStream
    /\ Step(u, "sent", "loaded")
    /\ tmp' = [tmp EXCEPT ![u] = nrpcs]
    /\ UNCHANGED <<options, server, file, margo, nrpcs, client, i>>

\* Mutant: counts the request and its response.
StoreTwo(u) ==
    /\ Alive /\ Step(u, "loaded", "counted")
    /\ nrpcs' = tmp[u] + 2
    /\ UNCHANGED <<options, server, file, margo, tmp, client, i>>

Store(u) ==
    /\ Alive /\ Step(u, "loaded", "counted")
    /\ nrpcs' = tmp[u] + 1
    /\ UNCHANGED <<options, server, file, margo, tmp, client, i>>

Respond(u) ==
    /\ Alive /\ Step(u, "counted", "responded")
    /\ UNCHANGED <<options, server, file, margo, nrpcs, tmp, client, i>>

\* Mutant: a server without a limit takes -1 for one.
LimitReachedAlways == maxrpcs <= nrpcs

\* Mutant: one request too many.
LimitExceeded == maxrpcs > 0 /\ maxrpcs < nrpcs

LimitReached == maxrpcs > 0 /\ maxrpcs <= nrpcs

\* The last lines of the handler.  Several handlers may find the limit reached,
\* and each of them frees the address and finalises; a handler that does so
\* before server_mid is assigned uses a null instance, which kills the server.
Check(u) ==
    /\ Alive /\ FreeStream
    /\ Step(u, "responded", "done")
    /\ margo' = IF LimitReached THEN "closing" ELSE margo
    /\ server' = IF LimitReached /\ server = "registered" THEN "killed" ELSE server
    /\ UNCHANGED <<options, file, nrpcs, tmp, client, i>>

Handle(u) == Unknown(u) \/ Refused(u) \/ Load(u) \/ Store(u) \/ Respond(u) \/ Check(u)

\* margo_finalize, once all handlers have returned
Shutdown ==
    /\ margo = "closing" /\ Running = {}
    /\ margo' = "down"
    /\ UNCHANGED <<options, server, file, nrpcs, pc, tmp, client, i>>

Server == OpenFile \/ CloseFile \/ Register \/ AssignMid \/ End \/ Shutdown

Next == Server \/ (\E c \in Clients : Client(c)) \/ (\E u \in Ult : Handle(u))

\* All processes and streams run; behaviours are finite.
Spec == Init /\ [][Next]_vars /\ WF_vars(Next)
-----------------------------------------------------------------------------
TypeOK ==
    /\ maxrpcs \in -1 .. MaxLimit /\ echo_count \in 1 .. MaxCount
    /\ server \in {"start", "opened", "published", "registered", "waiting", "ended", "killed"}
    /\ file \in {"absent", "old", "empty", "new"}
    /\ margo \in {"up", "closing", "down"}
    /\ nrpcs \in 0 .. Cardinality(Ult)
    /\ pc \in [Ult -> {"none", "sent", "unknown", "refused", "loaded", "counted",
                       "responded", "done"}]
    /\ tmp \in [Ult -> 0 .. Cardinality(Ult)]
    /\ client \in [Clients -> {"waiting", "loop", "calling", "exit", "aborted", "lost"}]
    /\ i \in [Clients -> 0 .. MaxCount]

Counted == { u \in Ult : pc[u] \in {"counted", "responded", "done"} }

(***************************************************************************)
(* The server has time for maxrpcs requests: before it has counted as many *)
(* it does not end and refuses none, whatever the order in which handlers  *)
(* count, answer and compare; and without a limit it never does.           *)
(***************************************************************************)
AnsweredWithinLimit ==
    server = "ended" \/ (\E u \in Ult : pc[u] = "refused") =>
        maxrpcs > 0 /\ Cardinality(Counted) >= maxrpcs

(***************************************************************************)
(* A server whose counter has come to maxrpcs for good ends; some handler  *)
(* looks at it after the last that counts.  (Two streams may lose an       *)
(* increment, and then it takes more requests than the server was told.)   *)
(***************************************************************************)
ServerEnds ==
    <>[](maxrpcs > 0 /\ nrpcs >= maxrpcs => server \in {"ended", "killed"})
=============================================================================
