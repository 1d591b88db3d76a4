--------------------------- MODULE EchoTestProofs ---------------------------
(***************************************************************************)
(* Theorems about EchoTest, for every number of clients, requests and      *)
(* streams, and every limit.                                               *)
(***************************************************************************)
EXTENDS EchoTest, FiniteSetTheorems, TLAPS

(***************************************************************************)
(* Handlers that run at the same time lose increments of nrpcs and never   *)
(* invent one: what is in nrpcs, or has been loaded from it, is at most    *)
(* the number of requests that are counted.                                *)
(***************************************************************************)
NoneInvented ==
    /\ nrpcs <= Cardinality(Counted)
    /\ \A u \in Ult : pc[u] = "loaded" => tmp[u] <= Cardinality(Counted)

\* A request that its client has not sent yet has no handler.
NotSent ==
    \A c \in Clients :
        /\ client[c] = "calling" => i[c] < echo_count
        /\ \A k \in 1 .. MaxCount :
             k > i[c] + 1 \/ (k > i[c] /\ client[c] \in {"waiting", "loop"}) =>
                pc[<<c, k>>] = "none"

\* The limit has come, as the requests themselves show.
LimitHit == maxrpcs > 0 /\ Cardinality(Counted) >= maxrpcs

\* Nothing but the limit closes the server.
ClosedByLimit ==
    \/ margo # "up" \/ server \in {"ended", "killed"}
    \/ \E u \in Ult : pc[u] = "refused"
    => LimitHit

Inv == TypeOK /\ NoneInvented /\ NotSent /\ ClosedByLimit
-----------------------------------------------------------------------------
(* Counting.                                                               *)

LEMMA UltFinite ==
  /\ IsFiniteSet(Ult) /\ Cardinality(Ult) \in Nat
  /\ \A S \in SUBSET Ult :
       IsFiniteSet(S) /\ Cardinality(S) \in Nat /\ Cardinality(S) <= Cardinality(Ult)
<1>1. IsFiniteSet(1 .. MaxCount)
  BY EchoAssumption, FS_Interval
<1>2. IsFiniteSet(Ult)
  BY <1>1, EchoAssumption, FS_Product DEF Ult
<1> QED BY <1>2, FS_Subset, FS_CardinalityType

\* What a step does to the handlers' progress.
LEMMA CountedGrows ==
  ASSUME NEW u \in Ult, TypeOK, pc' = [pc EXCEPT ![u] = pc'[u]],
         pc[u] \in {"counted", "responded", "done"} =>
            pc'[u] \in {"counted", "responded", "done"}
  PROVE  /\ Counted \subseteq Counted' /\ Counted' \subseteq Ult
         /\ Cardinality(Counted) <= Cardinality(Counted')
<1>1. Counted \subseteq Counted' /\ Counted' \subseteq Ult
  BY DEF Counted, TypeOK
<1>2. IsFiniteSet(Counted')
  BY <1>1, UltFinite
<1> QED BY <1>1, <1>2, FS_Subset

\* The handler of one more request has counted it.
LEMMA CountedOneMore ==
  ASSUME NEW u \in Ult, TypeOK, pc[u] = "loaded", pc' = [pc EXCEPT ![u] = "counted"]
  PROVE  /\ Cardinality(Counted') = Cardinality(Counted) + 1
         /\ Cardinality(Counted) + 1 <= Cardinality(Ult)
<1>1. Counted' = Counted \cup {u} /\ u \notin Counted /\ Counted' \subseteq Ult
  BY DEF Counted, TypeOK
<1>2. IsFiniteSet(Counted)
  BY UltFinite DEF Counted
<1>3. Cardinality(Counted') = Cardinality(Counted) + 1
  BY <1>1, <1>2, FS_AddElement
<1> QED BY <1>1, <1>3, UltFinite
-----------------------------------------------------------------------------
(* Steps.                                                                  *)

LEMMA InitInv == Init => Inv
<1> SUFFICES ASSUME Init PROVE Inv
  OBVIOUS
<1>1. Counted = {} /\ Cardinality(Counted) = 0
  <2>1. Counted = {}
    BY DEF Init, Counted
  <2> QED BY <2>1, FS_EmptySet
<1>2. TypeOK
  BY UltFinite, EchoAssumption DEF Init, TypeOK
<1>3. NoneInvented /\ NotSent /\ ClosedByLimit
  BY <1>1, EchoAssumption DEF Init, NoneInvented, NotSent, ClosedByLimit, Ult
<1> QED BY <1>2, <1>3 DEF Inv

\* The request that a client sends is one of those that it has not sent yet.
LEMMA RequestIsNew ==
  ASSUME Inv, NEW c \in Clients, InvokeEcho(c)
  PROVE  Request(c) \in Ult /\ pc[Request(c)] = "none"
<1>1. i[c] \in 0 .. MaxCount /\ echo_count \in 1 .. MaxCount /\ i[c] < echo_count
  BY DEF Inv, TypeOK, InvokeEcho
<1>2. i[c] + 1 \in 1 .. MaxCount /\ i[c] + 1 > i[c]
  BY <1>1, EchoAssumption
<1>3. Request(c) \in Ult
  BY <1>2 DEF Request, Ult
<1> QED BY <1>2, <1>3 DEF Inv, NotSent, InvokeEcho, Request

\* What a step does to the progress of the handlers and the clients' requests.
LEMMA HandlerStep ==
  ASSUME Inv, NEW u \in Ult, Handle(u)
  PROVE  /\ pc' = [pc EXCEPT ![u] = pc'[u]] /\ pc[u] # "none"
         /\ pc[u] \in {"counted", "responded", "done"} =>
              pc'[u] \in {"counted", "responded", "done"}
         /\ pc'[u] \in {"unknown", "refused", "loaded", "counted", "responded", "done"}
         /\ UNCHANGED <<options, client, i, file>>
<1>1. pc \in [Ult -> {"none", "sent", "unknown", "refused", "loaded", "counted",
                      "responded", "done"}]
  BY DEF Inv, TypeOK
<1>2. CASE Unknown(u) \/ Refused(u)
  BY <1>1, <1>2 DEF Unknown, Refused, Step, options
<1>3. CASE Load(u) \/ Store(u)
  BY <1>1, <1>3 DEF Load, Store, Step, options
<1>4. CASE Respond(u) \/ Check(u)
  BY <1>1, <1>4 DEF Respond, Check, Step, options
<1> QED BY <1>2, <1>3, <1>4 DEF Handle

\* No step takes back a count.
LEMMA CountsKept ==
  ASSUME Inv, [Next]_vars
  PROVE  /\ Cardinality(Counted) <= Cardinality(Counted')
         /\ Cardinality(Counted) \in Nat /\ Cardinality(Counted') \in Nat
         /\ UNCHANGED options
<1>0. Counted' \subseteq Ult /\ Counted \subseteq Ult
  BY DEF Counted
<1>1. Cardinality(Counted) \in Nat /\ Cardinality(Counted') \in Nat
  BY <1>0, UltFinite
<1>2. pc' = pc => Cardinality(Counted') = Cardinality(Counted)
  BY DEF Counted
<1>3. CASE \E u \in Ult : Handle(u)
  <2>1. PICK u \in Ult : Handle(u)
    BY <1>3
  <2>2. TypeOK
    BY DEF Inv
  <2> QED BY <1>1, <2>1, <2>2, HandlerStep, CountedGrows
<1>4. CASE \E c \in Clients : Client(c)
  <2>1. PICK c \in Clients : Client(c)
    BY <1>4
  <2>2. CASE InvokeEcho(c)
    <3>1. pc' = [pc EXCEPT ![Request(c)] = "sent"] /\ UNCHANGED options
      BY <2>2 DEF InvokeEcho
    <3>2. Request(c) \in Ult /\ pc[Request(c)] = "none" /\ TypeOK
      BY <2>2, RequestIsNew DEF Inv
    <3>3. Counted' = Counted
      BY <3>1, <3>2 DEF Counted, TypeOK
    <3> QED BY <1>1, <3>1, <3>3
  <2>3. CASE ReadFile(c) \/ EchoReturns(c) \/ EchoFails(c) \/ Exit(c)
    <3>1. pc' = pc /\ UNCHANGED options
      BY <2>3 DEF ReadFile, EchoReturns, EchoFails, Exit
    <3> QED BY <1>1, <1>2, <3>1
  <2> QED BY <2>1, <2>2, <2>3 DEF Client
<1>5. CASE Server \/ UNCHANGED vars
  <2>1. pc' = pc /\ UNCHANGED options
    BY <1>5 DEF Server, OpenFile, CloseFile, Register, AssignMid, End, Shutdown, vars
  <2> QED BY <1>1, <1>2, <2>1
<1> QED BY <1>3, <1>4, <1>5 DEF Next

LEMMA TypeStep ==
  ASSUME Inv, [Next]_vars
  PROVE  TypeOK'
<1> USE DEF Inv, TypeOK
<1>1. CASE UNCHANGED vars
  BY <1>1 DEF vars, options
<1>2. CASE Server
  BY <1>2 DEF Server, OpenFile, CloseFile, Register, AssignMid, End, Shutdown, Main, options
<1>3. ASSUME NEW c \in Clients, Client(c) PROVE TypeOK'
  <2>1. CASE ReadFile(c)
    <3>1. PICK x \in {"aborted", "lost", "loop"} : client' = [client EXCEPT ![c] = x]
      BY <2>1 DEF ReadFile
    <3> QED BY <2>1, <3>1 DEF ReadFile, options
  <2>2. CASE InvokeEcho(c)
    BY <2>2, RequestIsNew DEF InvokeEcho, options
  <2>3. CASE EchoReturns(c)
    <3>1. i[c] + 1 \in 0 .. MaxCount
      <4>1. i[c] < echo_count /\ echo_count \in 1 .. MaxCount /\ i[c] \in 0 .. MaxCount
        BY <2>3 DEF NotSent, EchoReturns
      <4> QED BY <4>1, EchoAssumption
    <3> QED BY <2>3, <3>1 DEF EchoReturns, options
  <2>4. CASE EchoFails(c) \/ Exit(c)
    BY <2>4 DEF EchoFails, Exit, options
  <2> QED BY <1>3, <2>1, <2>2, <2>3, <2>4 DEF Client
<1>4. ASSUME NEW u \in Ult, Handle(u) PROVE TypeOK'
  <2>1. CASE Unknown(u) \/ Refused(u) \/ Respond(u)
    BY <2>1 DEF Unknown, Refused, Respond, Step, options
  <2>2. CASE Load(u)
    BY <2>2 DEF Load, Step, options
  <2>3. CASE Store(u)
    <3>1. pc[u] = "loaded" /\ pc' = [pc EXCEPT ![u] = "counted"] /\ nrpcs' = tmp[u] + 1
      BY <2>3 DEF Store, Step
    <3>2. tmp[u] <= Cardinality(Counted) /\ tmp[u] \in Nat
      BY <3>1, UltFinite DEF NoneInvented
    <3>3. Cardinality(Counted) + 1 <= Cardinality(Ult)
      BY <3>1, CountedOneMore
    <3>4. Cardinality(Counted) \in Nat
      BY UltFinite DEF Counted
    <3>5. nrpcs' \in 0 .. Cardinality(Ult)
      BY <3>1, <3>2, <3>3, <3>4, UltFinite
    <3> QED BY <2>3, <3>1, <3>5 DEF Store, options
  <2>4. CASE Check(u)
    BY <2>4 DEF Check, Step, options
  <2> QED BY <1>4, <2>1, <2>2, <2>3, <2>4 DEF Handle
<1> QED BY <1>1, <1>2, <1>3, <1>4 DEF Next

LEMMA NoneInventedStep ==
  ASSUME Inv, [Next]_vars
  PROVE  NoneInvented'
<1>1. /\ Cardinality(Counted) <= Cardinality(Counted')
      /\ Cardinality(Counted) \in Nat /\ Cardinality(Counted') \in Nat
  BY CountsKept
<1>2. /\ nrpcs <= Cardinality(Counted) /\ nrpcs \in Nat
      /\ \A u \in Ult : pc[u] = "loaded" => tmp[u] <= Cardinality(Counted)
      /\ \A u \in Ult : tmp[u] \in Nat
  BY UltFinite DEF Inv, TypeOK, NoneInvented
<1>3. ASSUME UNCHANGED <<nrpcs, tmp>>, \A u \in Ult : pc'[u] = "loaded" => pc[u] = "loaded"
      PROVE  NoneInvented'
  BY <1>1, <1>2, <1>3 DEF NoneInvented
<1>4. CASE Server \/ UNCHANGED vars
  BY <1>3, <1>4 DEF Server, OpenFile, CloseFile, Register, AssignMid, End, Shutdown, vars
<1>5. ASSUME NEW c \in Clients, Client(c) PROVE NoneInvented'
  <2>1. CASE InvokeEcho(c)
    BY <1>3, <2>1 DEF InvokeEcho, Inv, TypeOK
  <2>2. CASE ReadFile(c) \/ EchoReturns(c) \/ EchoFails(c) \/ Exit(c)
    BY <1>3, <2>2 DEF ReadFile, EchoReturns, EchoFails, Exit
  <2> QED BY <1>5, <2>1, <2>2 DEF Client
<1>6. ASSUME NEW u \in Ult, Handle(u) PROVE NoneInvented'
  <2>1. CASE Unknown(u) \/ Refused(u) \/ Respond(u) \/ Check(u)
    BY <1>3, <2>1 DEF Unknown, Refused, Respond, Check, Step, Inv, TypeOK
  <2>2. CASE Load(u)
    <3>1. nrpcs' = nrpcs /\ tmp'[u] = nrpcs
      BY <2>2 DEF Load, Inv, TypeOK
    <3>2. ASSUME NEW v \in Ult, v # u, pc'[v] = "loaded"
          PROVE  tmp'[v] = tmp[v] /\ pc[v] = "loaded"
      BY <2>2, <3>2 DEF Load, Step, Inv, TypeOK
    <3>3. ASSUME NEW v \in Ult, pc'[v] = "loaded" PROVE tmp'[v] <= Cardinality(Counted')
      <4>1. CASE v = u
        BY <1>1, <1>2, <3>1, <4>1
      <4>2. CASE v # u
        BY <1>1, <1>2, <3>2, <3>3, <4>2
      <4> QED BY <4>1, <4>2
    <3>4. nrpcs' <= Cardinality(Counted')
      BY <1>1, <1>2, <3>1
    <3> QED BY <3>3, <3>4 DEF NoneInvented
  <2>3. CASE Store(u)
    <3>1. pc[u] = "loaded" /\ pc' = [pc EXCEPT ![u] = "counted"] /\ nrpcs' = tmp[u] + 1
          /\ tmp' = tmp
      BY <2>3 DEF Store, Step
    <3>2. Cardinality(Counted') = Cardinality(Counted) + 1
      BY <3>1, CountedOneMore DEF Inv
    <3>3. nrpcs' <= Cardinality(Counted')
      BY <1>1, <1>2, <3>1, <3>2
    <3>4. \A v \in Ult : pc'[v] = "loaded" => pc[v] = "loaded"
      BY <3>1 DEF Inv, TypeOK
    <3>5. \A v \in Ult : pc'[v] = "loaded" => tmp'[v] <= Cardinality(Counted')
      BY <1>1, <1>2, <3>1, <3>4
    <3> QED BY <3>3, <3>5 DEF NoneInvented
  <2> QED BY <1>6, <2>1, <2>2, <2>3 DEF Handle
<1> QED BY <1>4, <1>5, <1>6 DEF Next

LEMMA NotSentStep ==
  ASSUME Inv, [Next]_vars
  PROVE  NotSent'
<1> DEFINE New(c, k) == k > i[c] + 1 \/ (k > i[c] /\ client[c] \in {"waiting", "loop"})
<1>1. /\ \A c \in Clients : client[c] = "calling" => i[c] < echo_count
      /\ \A c \in Clients : \A k \in 1 .. MaxCount : New(c, k) => pc[<<c, k>>] = "none"
  BY DEF Inv, NotSent
<1>2. \A c \in Clients : i[c] \in Nat
  BY DEF Inv, TypeOK
<1>3. ASSUME UNCHANGED <<echo_count, client, i>>,
             \A v \in Ult : pc[v] = "none" => pc'[v] = "none"
      PROVE  NotSent'
  <2>1. \A c \in Clients, k \in 1 .. MaxCount : <<c, k>> \in Ult
    BY DEF Ult
  <2> QED BY <1>1, <1>3, <2>1 DEF NotSent
<1>4. CASE Server \/ UNCHANGED vars
  BY <1>3, <1>4
     DEF Server, OpenFile, CloseFile, Register, AssignMid, End, Shutdown, vars, options
<1>5. ASSUME NEW u \in Ult, Handle(u) PROVE NotSent'
  BY <1>3, <1>5, HandlerStep DEF options, Inv, TypeOK
<1>6. ASSUME NEW c \in Clients, Client(c) PROVE NotSent'
  <2>1. echo_count' = echo_count
    BY <1>6 DEF Client, ReadFile, InvokeEcho, EchoReturns, EchoFails, Exit, options
  <2>2. \A d \in Clients : d # c => client'[d] = client[d] /\ i'[d] = i[d]
    BY <1>6 DEF Client, ReadFile, InvokeEcho, EchoReturns, EchoFails, Exit, Inv, TypeOK
  <2>3. \A d \in Clients, k \in 1 .. MaxCount :
          d # c => pc'[<<d, k>>] = pc[<<d, k>>]
    <3>1. CASE InvokeEcho(c)
      <4>1. pc' = [pc EXCEPT ![<<c, i[c] + 1>>] = "sent"]
        BY <3>1 DEF InvokeEcho, Request
      <4>2. \A d \in Clients, k \in 1 .. MaxCount : <<d, k>> \in DOMAIN pc
        BY DEF Inv, TypeOK, Ult
      <4> QED BY <4>1, <4>2
    <3>2. CASE ReadFile(c) \/ EchoReturns(c) \/ EchoFails(c) \/ Exit(c)
      BY <3>2 DEF ReadFile, EchoReturns, EchoFails, Exit
    <3> QED BY <1>6, <3>1, <3>2 DEF Client
  <2>4. /\ client'[c] = "calling" => i'[c] < echo_count
        /\ \A k \in 1 .. MaxCount : New(c, k)' => pc'[<<c, k>>] = "none"
    <3>1. CASE InvokeEcho(c)
      <4>1. /\ client'[c] = "calling" /\ i' = i /\ i[c] < echo_count
            /\ pc' = [pc EXCEPT ![<<c, i[c] + 1>>] = "sent"] /\ client[c] = "loop"
        BY <3>1 DEF InvokeEcho, Request, Inv, TypeOK
      <4>2. \A k \in 1 .. MaxCount : k > i[c] + 1 => pc'[<<c, k>>] = pc[<<c, k>>]
        BY <4>1, <1>2 DEF Inv, TypeOK, Ult
      <4> QED BY <1>1, <4>1, <4>2
    <3>2. CASE EchoReturns(c)
      <4>1. client'[c] = "loop" /\ i'[c] = i[c] + 1 /\ pc' = pc
        BY <3>2 DEF EchoReturns, Inv, TypeOK
      <4>2. \A k \in 1 .. MaxCount : New(c, k)' => k > i[c] + 1
        BY <1>2, <4>1
      <4> QED BY <1>1, <4>1, <4>2
    <3>3. CASE ReadFile(c) \/ EchoFails(c) \/ Exit(c)
      <4>1. pc' = pc /\ i' = i /\ client'[c] # "calling" /\
            (client'[c] \in {"waiting", "loop"} => client[c] \in {"waiting", "loop"})
        BY <3>3 DEF ReadFile, EchoFails, Exit, Inv, TypeOK
      <4> QED BY <1>1, <4>1
    <3> QED BY <1>6, <3>1, <3>2, <3>3 DEF Client
  <2> QED BY <1>1, <2>1, <2>2, <2>3, <2>4 DEF NotSent
<1> QED BY <1>4, <1>5, <1>6 DEF Next

LEMMA ClosedByLimitStep ==
  ASSUME Inv, [Next]_vars
  PROVE  ClosedByLimit'
<1>1. LimitHit => LimitHit'
  <2>1. maxrpcs' = maxrpcs /\ maxrpcs \in Int
    BY CountsKept DEF options, Inv, TypeOK
  <2> QED BY <2>1, CountsKept DEF LimitHit
<1> DEFINE Closed == margo # "up" \/ server \in {"ended", "killed"}
<1>2. Closed => LimitHit
  BY DEF Inv, ClosedByLimit
<1>3. Closed' => LimitHit'
  <2>1. CASE margo' = margo /\ (server' \in {"ended", "killed"} => Closed)
    BY <1>1, <1>2, <2>1
  <2>2. CASE Shutdown \/ End
    <3>1. margo # "up"
      BY <2>2 DEF Shutdown, End
    <3> QED BY <1>1, <1>2, <3>1
  <2>3. ASSUME NEW u \in Ult, Check(u) PROVE Closed' => LimitHit'
    <3>1. CASE LimitReached
      <4>1. maxrpcs > 0 /\ maxrpcs <= nrpcs /\ nrpcs <= Cardinality(Counted)
        BY <3>1 DEF LimitReached, Inv, NoneInvented
      <4>2. maxrpcs \in Int /\ nrpcs \in Int /\ Cardinality(Counted) \in Int
        BY CountsKept, UltFinite DEF Inv, TypeOK
      <4>3. LimitHit
        BY <4>1, <4>2 DEF LimitHit
      <4> QED BY <1>1, <4>3
    <3>2. CASE ~ LimitReached
      <4>1. margo' = margo /\ server' = server
        BY <2>3, <3>2 DEF Check
      <4> QED BY <2>1, <4>1
    <3> QED BY <3>1, <3>2
  <2>4. CASE OpenFile \/ CloseFile \/ Register \/ AssignMid \/ UNCHANGED vars
    <3>1. margo' = margo /\ (server' \in {"ended", "killed"} => Closed)
      BY <2>4 DEF OpenFile, CloseFile, Register, AssignMid, Main, vars
    <3> QED BY <2>1, <3>1
  <2>5. CASE \E c \in Clients : Client(c)
    <3>1. margo' = margo /\ server' = server
      BY <2>5 DEF Client, ReadFile, InvokeEcho, EchoReturns, EchoFails, Exit
    <3> QED BY <2>1, <3>1
  <2>6. ASSUME NEW u \in Ult, Unknown(u) \/ Refused(u) \/ Load(u) \/ Store(u) \/ Respond(u)
        PROVE  Closed' => LimitHit'
    <3>1. margo' = margo /\ server' = server
      BY <2>6 DEF Unknown, Refused, Load, Store, Respond
    <3> QED BY <2>1, <3>1
  <2> HIDE DEF Closed
  <2> QED BY <2>2, <2>3, <2>4, <2>5, <2>6 DEF Next, Server, Handle
<1>4. ASSUME NEW u \in Ult, pc'[u] = "refused" PROVE LimitHit'
  <2>1. CASE pc[u] = "refused"
    BY <1>1, <2>1 DEF Inv, ClosedByLimit
  <2>2. CASE pc[u] # "refused"
    <3>1. CASE \E v \in Ult : Handle(v)
      <4>1. PICK v \in Ult : Handle(v)
        BY <3>1
      <4>2. v = u
        BY <1>4, <2>2, <4>1, HandlerStep DEF Inv, TypeOK
      <4>3. Refused(u)
        BY <1>4, <4>1, <4>2
           DEF Handle, Unknown, Load, Store, Respond, Check, Step, Inv, TypeOK
      <4>4. Closed
        BY <4>3 DEF Refused
      <4> QED BY <1>1, <1>2, <4>4
    <3>2. CASE ~ \E v \in Ult : Handle(v)
      <4>1. pc' = pc \/ \E c \in Clients : pc' = [pc EXCEPT ![Request(c)] = "sent"]
        BY <3>2 DEF Next, Server, OpenFile, CloseFile, Register, AssignMid, End, Shutdown,
                    Client, ReadFile, InvokeEcho, EchoReturns, EchoFails, Exit, vars
      <4> QED BY <1>4, <2>2, <4>1 DEF Inv, TypeOK
    <3> QED BY <3>1, <3>2
  <2> QED BY <2>1, <2>2
<1> QED BY <1>3, <1>4 DEF ClosedByLimit

LEMMA Invariance == Spec => []Inv
<1>1. Inv /\ [Next]_vars => Inv'
  BY TypeStep, NoneInventedStep, NotSentStep, ClosedByLimitStep DEF Inv
<1> QED BY <1>1, InitInv, PTL DEF Spec

(***************************************************************************)
(* The echo server and its clients keep their types: among them, nrpcs is  *)
(* never more than the requests that there are.                            *)
(***************************************************************************)
THEOREM TypeCorrect == Spec => []TypeOK
<1>1. Inv => TypeOK
  BY DEF Inv
<1> QED BY <1>1, Invariance, PTL

(***************************************************************************)
(* rpc_handle_echo ends the server no sooner than maxrpcs requests have    *)
(* been counted, and never without a limit, for every number of execution  *)
(* streams that increment nrpcs at the same time.                          *)
(***************************************************************************)
THEOREM LimitIsKept == Spec => []AnsweredWithinLimit
<1>1. Inv => AnsweredWithinLimit
  BY DEF Inv, ClosedByLimit, LimitHit, AnsweredWithinLimit
<1> QED BY <1>1, Invariance, PTL
=============================================================================
