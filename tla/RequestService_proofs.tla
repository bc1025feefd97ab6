------------------------ MODULE RequestService_proofs ------------------------
(* The sink, the main thread and the sequencer implement the service of    *)
(* requests, for any number of clients, descriptors and addresses: each    *)
(* step of theirs is a step of one client's service, or none. What is to   *)
(* be shown is in the two steps that let a client go: whom it hits, and    *)
(* with whose answer.                                                      *)
EXTENDS ScgiRequests_proofs

phases == [c \in Client |-> PhaseOf(client[c])]

(* A descriptor is only ever open for a client that was accepted, raced or *)
(* not.                                                                    *)
Accepted == \A fd \in Fd : fdOf[fd] \in Client => client[fdOf[fd]] \in {"open", "gone", "done"}

(* Closing what a descriptor is open for, or anything that closes none.    *)
LEMMA AcceptedKept ==
  ASSUME TypeOK, Accepted,
         \A fd \in Fd : fdOf'[fd] \in Client => fdOf'[fd] = fdOf[fd],
         \A c \in Client : client[c] \in {"open", "gone", "done"} => client'[c] \in {"open", "gone", "done"}
  PROVE  Accepted'
BY DEF Accepted

LEMMA AcceptedStep == TypeOK /\ Accepted /\ [Next]_vars => Accepted'
<1> SUFFICES ASSUME TypeOK, Accepted, [Next]_vars PROVE Accepted'
  OBVIOUS
<1>1. /\ fdOf \in [Fd -> Client \union {NoClient, Device}] /\ NoClient \notin Client /\ Device \notin Client
      /\ client \in [Client -> {"new", "waiting", "left", "open", "gone", "done"}]
      /\ closing \in Fd \union {NoFd} /\ session \in Fd \union {NoFd}
  BY ClientAssumption, DeviceAssumption DEF TypeOK, DescriptorsOK, ClientsOK
<1>2. ASSUME NEW fd \in Fd, CloseConnection(fd) PROVE \A g \in Fd : fdOf'[g] \in Client => fdOf'[g] = fdOf[g]
  BY <1>1, <1>2 DEF CloseConnection
<1>3. CASE Clients
  <2>1. \A c \in Client : client[c] \in {"open", "gone", "done"} => client'[c] \in {"open", "gone", "done"}
    BY <1>1, <1>3 DEF Clients, Connect, SendData, HangUp
  <2>2. QED
    BY <1>3, <2>1, AcceptedKept DEF Clients, Connect, SendData, HangUp, sinkVars
<1>4. CASE Sink
  <2>1. ASSUME NEW c \in Client, NEW fd \in Fd, NEW a \in Addr, AcceptClient(c, fd, a) PROVE Accepted'
    <3>1. /\ client[c] \in {"waiting", "left"} /\ fdOf' = [fdOf EXCEPT ![fd] = c]
          /\ client' = [client EXCEPT ![c] = IF @ = "left" THEN "gone" ELSE "open"]
      BY <2>1 DEF AcceptClient
    <3>2. QED
      BY <1>1, <3>1 DEF Accepted
  <2>2. ASSUME NEW fd \in Fd, CloseOnHangUp(fd) PROVE Accepted'
    BY <1>1, <1>2, <2>2, AcceptedKept DEF CloseOnHangUp
  <2>3. CASE SendResponse
    <3>1. heap[Head(responseQ)].fd \in Fd
      BY <2>3, HeadTail, Records DEF SendResponse, QueuesOK, TypeOK
    <3>2. QED
      BY <1>1, <1>2, <2>3, <3>1, AcceptedKept DEF SendResponse
  <2>4. CASE CloseStreams
    BY <1>1, <2>4, AcceptedKept DEF CloseStreams, clientVars
  <2>5. QED
    BY <1>4, <2>1, <2>2, <2>3, <2>4, AcceptedKept
       DEF Sink, EpollWait, AcceptDone, ProcessRequest, SendSpins, ResponsesDone, clientVars
<1>5. CASE Main \/ Proxy
  BY <1>5, AcceptedKept DEF Main, Proxy, PassToProxy, HandleLocal, AnswerLocal, LocalSpins, ReturnProxied,
                            TakeTicket, FinishExchange, ExchangeFails, clientVars, sinkVars
<1>6. CASE Sessions
  <2>1. \A g \in Fd : fdOf'[g] \in Client => fdOf'[g] = fdOf[g]
    BY <1>1, <1>6 DEF Sessions, CloseSession, OpenSession
  <2>2. \A c \in Client : client[c] \in {"open", "gone", "done"} => client'[c] \in {"open", "gone", "done"}
    BY <1>1, <1>6 DEF Sessions, CloseSession, OpenSession, clientVars
  <2>3. QED
    BY <2>1, <2>2, AcceptedKept
<1>7. CASE UNCHANGED vars
  BY <1>7, AcceptedKept DEF vars, clientVars, sinkVars
<1>8. QED
  BY <1>3, <1>4, <1>5, <1>6, <1>7 DEF Next

-----------------------------------------------------------------------------
(* The mapping.                                                            *)

LEMMA Stutters ==
  ASSUME UNCHANGED <<client, sent, answers, impatient, raced>>
  PROVE  UNCHANGED Service!vars
BY DEF Service!vars, Orderly

LEMMA OneMoves ==
  ASSUME TypeOK, NEW c \in Client, NEW s, client' = [client EXCEPT ![c] = s]
  PROVE  phases' = [phases EXCEPT ![c] = PhaseOf(s)] /\ phases[c] = PhaseOf(client[c])
BY DEF phases, TypeOK, ClientsOK

(* A client is let go without an answer: one that hung up, or any once the *)
(* order is disturbed.                                                     *)
LEMMA LetGo ==
  ASSUME TypeOK, NEW to, UNCHANGED <<sent, answers, impatient, raced>>,
         client' = [c \in Client |-> IF c = to THEN "done" ELSE client[c]],
         to \in Client => client[to] \in {"open", "gone", "done"} /\ (client[to] = "open" => ~Orderly)
  PROVE  Service!Next \/ UNCHANGED Service!vars
<1>0. client \in [Client -> {"new", "waiting", "left", "open", "gone", "done"}]
  BY DEF TypeOK, ClientsOK
<1>1. CASE to \notin Client \/ client[to] = "done"
  <2>1. client' = client
    BY <1>0, <1>1
  <2>2. QED
    BY <2>1, Stutters
<1>2. CASE to \in Client /\ client[to] \in {"open", "gone"}
  <2>1. client' = [client EXCEPT ![to] = "done"]
    BY <1>0, <1>2
  <2>2. phases' = [phases EXCEPT ![to] = "released"] /\ phases[to] = IF client[to] = "open" THEN "served" ELSE "leaving"
    BY <1>2, <2>1, OneMoves DEF PhaseOf
  <2>3. Orderly' = Orderly
    BY DEF Orderly
  <2>4. CASE client[to] = "open"
    <3>1. Service!Misserve(to)
      BY <1>2, <2>2, <2>3, <2>4 DEF Service!Misserve, Service!Moves, phases
    <3>2. QED
      BY <1>2, <3>1 DEF Service!Next
  <2>5. CASE client[to] = "gone"
    <3>1. Service!Release(to)
      BY <2>2, <2>3, <2>5 DEF Service!Release, Service!Moves, phases
    <3>2. QED
      BY <1>2, <3>1 DEF Service!Next
  <2>6. QED
    BY <1>2, <2>4, <2>5
<1>3. QED
  BY <1>1, <1>2

ServiceInv == TypeOK /\ MatchInv /\ OrderInv /\ Accepted

(* The answer is sent to whom the descriptor in the record is open for: in *)
(* good order that is who asked, and who is still there.                   *)
LEMMA AnswerServes ==
  ASSUME ServiceInv, SendResponse
  PROVE  Service!Next \/ UNCHANGED Service!vars
<1> DEFINE a  == Head(responseQ)
           to == fdOf[heap[a].fd]
<1>1. TypeOK /\ MatchInv /\ OrderInv /\ Accepted
  BY DEF ServiceInv
<1>2. /\ responseQ # <<>> /\ UNCHANGED <<sent, impatient, raced>>
      /\ answers' = [c \in Client |-> IF c = to /\ client[c] = "open" THEN Append(answers[c], heap[a].ans) ELSE answers[c]]
      /\ client' = [c \in Client |-> IF c = to THEN "done" ELSE client[c]]
  BY DEF SendResponse, others
<1>3. /\ a \in Addr /\ heap[a].fd \in Fd /\ heap[a].ans \in Client \union {NoClient}
      /\ answers \in [Client -> Seq(Client \union {NoClient})]
      /\ client \in [Client -> {"new", "waiting", "left", "open", "gone", "done"}]
  BY <1>1, <1>2, HeadTail, Records DEF TypeOK, QueuesOK, ClientsOK
<1>4. to \in Client => client[to] \in {"open", "gone", "done"}
  BY <1>1, <1>3 DEF Accepted
<1>5. CASE to \in Client /\ client[to] = "open"
  <2>1. client' = [client EXCEPT ![to] = "done"] /\ answers' = [answers EXCEPT ![to] = Append(answers[to], heap[a].ans)]
    BY <1>2, <1>3, <1>5
  <2>2. phases' = [phases EXCEPT ![to] = "released"] /\ phases[to] = "served"
    <3>1. phases' = [phases EXCEPT ![to] = PhaseOf("done")] /\ phases[to] = PhaseOf(client[to])
      BY <1>1, <1>5, <2>1, OneMoves
    <3>2. PhaseOf("done") = "released" /\ PhaseOf("open") = "served"
      BY DEF PhaseOf
    <3>3. QED
      BY <1>5, <3>1, <3>2
  <2>3. Orderly' = Orderly
    BY <1>2 DEF Orderly
  <2>4. CASE Orderly
    <3>1. a \in Held["response"] /\ a \in alive /\ heap[a].rx = "done" /\ heap[a].ans = heap[a].client
      BY <1>1, <1>2, <2>4, FirstIsHeld DEF OrderInv, Kept, AnswersRight, Place
    <3>2. heap[a].client = to /\ sent[to] = "all"
      BY <1>1, <2>4, <3>1, MatchedFinds DEF OrderInv, Served, ReadWasSent, MatchInv, Orderly
    <3>3. Service!Answer(to)
      BY <1>2, <2>1, <2>2, <2>3, <3>1, <3>2 DEF Service!Answer, Service!Moves, Service!Gets, phases
    <3>4. QED
      BY <1>5, <3>3 DEF Service!Next
  <2>5. CASE ~Orderly
    <3>1. Service!Misserve(to)
      BY <1>2, <1>3, <2>1, <2>2, <2>3, <2>5 DEF Service!Misserve, Service!Moves, Service!Gets, phases
    <3>2. QED
      BY <1>5, <3>1 DEF Service!Next
  <2>6. QED
    BY <2>4, <2>5
<1>6. CASE ~(to \in Client /\ client[to] = "open")
  <2>1. answers' = answers
    BY <1>2, <1>3, <1>6
  <2>2. QED
    BY <1>1, <1>2, <1>4, <1>6, <2>1, LetGo
<1>7. QED
  BY <1>5, <1>6

(* What the clients do is what the service's clients do.                   *)
LEMMA ClientsServe ==
  ASSUME ServiceInv, Clients
  PROVE  Service!Next
<1> TypeOK
  BY DEF ServiceInv
<1>1. ASSUME NEW c \in Client, Connect(c) PROVE Service!Connect(c)
  <2>1. phases' = [phases EXCEPT ![c] = "served"] /\ phases[c] = "away"
    BY <1>1, OneMoves DEF Connect, PhaseOf
  <2>2. UNCHANGED <<sent, answers, Orderly>>
    BY <1>1 DEF Connect, Orderly, others
  <2>3. QED
    BY <2>1, <2>2 DEF Service!Connect, Service!Moves, phases
<1>2. ASSUME NEW c \in Client, NEW much \in {"part", "all"}, SendData(c, much) PROVE Service!Send(c, much)
  <2>1. phases' = phases /\ phases[c] = "served" /\ Orderly' = Orderly
    BY <1>2 DEF SendData, phases, PhaseOf, Orderly, others
  <2>2. QED
    BY <1>2, <2>1 DEF SendData, Service!Send, phases
<1>3. ASSUME NEW c \in Client, HangUp(c) PROVE Service!HangUp(c)
  <2>1. phases' = [phases EXCEPT ![c] = "leaving"] /\ phases[c] = "served"
    <3>1. client[c] \in {"waiting", "open"} /\ client' = [client EXCEPT ![c] = IF client[c] = "open" THEN "gone" ELSE "left"]
      BY <1>3 DEF HangUp
    <3>2. QED
      BY <3>1, OneMoves DEF PhaseOf
  <2>2. Orderly' = (Orderly /\ sent[c] # "all")
    BY <1>3 DEF HangUp, Orderly, others
  <2>3. UNCHANGED <<sent, answers>>
    BY <1>3 DEF HangUp
  <2>4. QED
    BY <2>1, <2>2, <2>3 DEF Service!HangUp, Service!Moves, phases
<1>4. QED
  BY <1>1, <1>2, <1>3 DEF Clients, Service!Next

LEMMA SinkServes ==
  ASSUME ServiceInv, Sink
  PROVE  Service!Next \/ UNCHANGED Service!vars
<1> TypeOK /\ MatchInv /\ OrderInv /\ Accepted
  BY DEF ServiceInv
<1>1. ASSUME NEW c \in Client, NEW fd \in Fd, NEW a \in Addr, AcceptClient(c, fd, a) PROVE UNCHANGED Service!vars
  <2>1. /\ client[c] \in {"waiting", "left"} /\ client' = [client EXCEPT ![c] = IF client[c] = "left" THEN "gone" ELSE "open"]
        /\ UNCHANGED <<sent, answers, impatient, raced>>
    BY <1>1 DEF AcceptClient, others
  <2>2. phases' = phases
    BY <2>1 DEF phases, PhaseOf, TypeOK, ClientsOK
  <2>3. Orderly' = Orderly
    BY <2>1 DEF Orderly
  <2>4. QED
    BY <2>1, <2>2, <2>3 DEF Service!vars, phases
<1>2. ASSUME NEW fd \in Fd, CloseOnHangUp(fd) PROVE Service!Next \/ UNCHANGED Service!vars
  <2>1. Orderly /\ fdOf[fd] \in Client => client[fdOf[fd]] = "gone"
    BY <1>2 DEF CloseOnHangUp, OrderInv, Served, HungUpIsGone
  <2>2. QED
    BY <1>2, <2>1, LetGo DEF CloseOnHangUp, Accepted, others
<1>3. CASE SendResponse
  BY <1>3, AnswerServes
<1>4. QED
  BY <1>1, <1>2, <1>3, Stutters
     DEF Sink, EpollWait, AcceptDone, ProcessRequest, SendSpins, ResponsesDone, CloseStreams, clientVars, others

LEMMA SessionsServe ==
  ASSUME ServiceInv, Sessions
  PROVE  Service!Next \/ UNCHANGED Service!vars
<1> TypeOK /\ MatchInv /\ Accepted
  BY DEF ServiceInv
<1>1. CASE CloseSession
  <2>1. session \in Fd
    BY <1>1 DEF CloseSession, TypeOK, DescriptorsOK
  <2>2. Orderly => fdOf[session] \notin Client
    BY <1>1, DeviceAssumption DEF CloseSession, MatchInv, Matched, Orderly
  <2>3. QED
    BY <1>1, <2>1, <2>2, LetGo DEF CloseSession, Accepted
<1>2. ASSUME NEW fd \in Fd, OpenSession(fd) PROVE Service!Next \/ UNCHANGED Service!vars
  <2>1. UNCHANGED <<client, sent, answers, impatient>> /\ raced' = (raced \/ closing = fd)
    BY <1>2 DEF OpenSession, clientVars
  <2>2. Orderly' = Orderly \/ Orderly' = FALSE
    BY <2>1 DEF Orderly
  <2>3. Service!Disturb \/ UNCHANGED Service!vars
    BY <2>1, <2>2 DEF Service!Disturb, Service!vars
  <2>4. QED
    BY <2>3 DEF Service!Next
<1>3. QED
  BY <1>1, <1>2 DEF Sessions

(* The threads, queues and events implement the service.                   *)
THEOREM RequestsImplementService == Spec => ImplementsService
<1>1. Init => Accepted
  BY ClientAssumption DEF Init, Accepted
<1>2. Init => Service!Init
  BY DEF Init, Service!Init, PhaseOf, Orderly
<1>3. ServiceInv /\ [Next]_vars => [Service!Next]_(Service!vars)
  <2> SUFFICES ASSUME ServiceInv, [Next]_vars PROVE Service!Next \/ UNCHANGED Service!vars
    OBVIOUS
  <2>1. CASE Main \/ Proxy
    BY <2>1, Stutters DEF Main, Proxy, PassToProxy, HandleLocal, AnswerLocal, LocalSpins, ReturnProxied,
                          TakeTicket, FinishExchange, ExchangeFails, clientVars, others
  <2>2. CASE UNCHANGED vars
    BY <2>2, Stutters DEF vars, clientVars, others
  <2>3. QED
    BY <2>1, <2>2, ClientsServe, SinkServes, SessionsServe DEF Next
<1>4. TypeOK /\ Accepted /\ [Next]_vars => Accepted'
  BY AcceptedStep
<1>5. QED
  BY <1>1, <1>2, <1>3, <1>4, TypeAlways, MatchAlways, OrderAlways, PTL
     DEF ServiceInv, Spec, ImplementsService, Service!Spec

-----------------------------------------------------------------------------
(* What the service promises, it keeps: shown of the service, and true of  *)
(* the threads because they implement it.                                  *)

Promise == Service!TypeOK /\ Service!AnsweredOnce

LEMMA PromiseStep ==
  ASSUME Promise, Service!Next \/ UNCHANGED Service!vars
  PROVE  Promise'
<1>1. /\ phases \in [Client -> {"away", "served", "leaving", "released"}]
      /\ sent \in [Client -> {"none", "part", "all"}] /\ answers \in [Client -> Seq(Client \union {NoClient})]
      /\ Orderly \in BOOLEAN
  BY DEF Promise, Service!TypeOK, Service!Phase, phases
<1>2. \A c \in Client : /\ phases[c] # "released" => answers[c] = <<>>
                        /\ answers[c] # <<>> => Len(answers[c]) = 1
                        /\ Orderly /\ answers[c] # <<>> => answers[c] = <<c>> /\ sent[c] = "all"
  BY DEF Promise, Service!AnsweredOnce, phases
<1>3. ASSUME phases' \in [Client -> {"away", "served", "leaving", "released"}],
             sent' \in [Client -> {"none", "part", "all"}], answers' \in [Client -> Seq(Client \union {NoClient})],
             \A c \in Client : /\ phases'[c] # "released" => answers'[c] = <<>>
                               /\ answers'[c] # <<>> => Len(answers'[c]) = 1
                               /\ Orderly' /\ answers'[c] # <<>> => answers'[c] = <<c>> /\ sent'[c] = "all"
      PROVE  Promise'
  <2>1. Service!TypeOK'
    BY <1>3 DEF Service!TypeOK, Service!Phase, phases, Orderly
  <2>2. Service!AnsweredOnce'
    BY <1>3 DEF Service!AnsweredOnce, phases
  <2>3. QED
    BY <2>1, <2>2 DEF Promise
<1>4. ASSUME NEW c \in Client, NEW from, NEW to \in {"served", "leaving", "released"}, Service!Moves(c, from, to)
      PROVE  phases' = [phases EXCEPT ![c] = to] /\ phases[c] = from
  BY <1>4 DEF Service!Moves, phases
<1>5. ASSUME NEW c \in Client, Service!Connect(c) \/ Service!Release(c) PROVE Promise'
  <2>1. /\ UNCHANGED <<sent, answers>> /\ Orderly' = Orderly
        /\ \/ phases' = [phases EXCEPT ![c] = "served"] /\ phases[c] = "away"
           \/ phases' = [phases EXCEPT ![c] = "released"]
    BY <1>4, <1>5 DEF Service!Connect, Service!Release
  <2>2. QED
    BY <1>1, <1>2, <1>3, <2>1
<1>6. ASSUME NEW c \in Client, Service!HangUp(c) PROVE Promise'
  <2>1. /\ UNCHANGED <<sent, answers>> /\ (Orderly' => Orderly)
        /\ phases' = [phases EXCEPT ![c] = "leaving"] /\ phases[c] = "served"
    BY <1>4, <1>6 DEF Service!HangUp
  <2>2. QED
    BY <1>1, <1>2, <1>3, <2>1
<1>7. ASSUME NEW c \in Client, NEW much \in {"part", "all"}, Service!Send(c, much) PROVE Promise'
  <2>1. /\ phases' = phases /\ phases[c] = "served" /\ answers' = answers /\ Orderly' = Orderly
        /\ sent' = [sent EXCEPT ![c] = much]
    BY <1>7 DEF Service!Send, phases
  <2>2. QED
    BY <1>1, <1>2, <1>3, <2>1
<1>8. ASSUME NEW c \in Client, NEW x \in Client \union {NoClient},
             phases' = [phases EXCEPT ![c] = "released"], phases[c] = "served", sent' = sent, Orderly' = Orderly,
             answers' = [answers EXCEPT ![c] = Append(@, x)], Orderly => x = c /\ sent[c] = "all"
      PROVE  Promise'
  <2>1. answers[c] = <<>>
    BY <1>2, <1>8
  <2>2. Append(<<>>, x) = <<x>> /\ Len(<<x>>) = 1 /\ <<x>> \in Seq(Client \union {NoClient}) /\ <<x>> # <<>>
    BY <1>8
  <2>3. answers' = [answers EXCEPT ![c] = <<x>>]
    BY <1>8, <2>1, <2>2
  <2>4. QED
    BY <1>1, <1>2, <1>3, <1>8, <2>2, <2>3
<1>9. ASSUME NEW c \in Client, Service!Answer(c) PROVE Promise'
  BY <1>4, <1>8, <1>9 DEF Service!Answer, Service!Gets
<1>10. ASSUME NEW c \in Client, Service!Misserve(c) PROVE Promise'
  <2>1. phases' = [phases EXCEPT ![c] = "released"] /\ phases[c] = "served"
    BY <1>4, <1>10 DEF Service!Misserve
  <2>2. sent' = sent /\ Orderly' = Orderly /\ ~Orderly
    BY <1>10 DEF Service!Misserve
  <2>3. CASE UNCHANGED answers
    BY <1>1, <1>2, <1>3, <2>1, <2>2, <2>3
  <2>4. CASE \E x \in Client \union {NoClient} : Service!Gets(c, x)
    BY <1>8, <2>1, <2>2, <2>4 DEF Service!Gets
  <2>5. QED
    BY <1>10, <2>3, <2>4 DEF Service!Misserve
<1>11. ASSUME Service!Disturb \/ UNCHANGED Service!vars PROVE Promise'
  <2>1. UNCHANGED <<phases, sent, answers>> /\ (Orderly' => Orderly)
    BY <1>11 DEF Service!Disturb, Service!vars, phases
  <2>2. QED
    BY <1>1, <1>2, <1>3, <2>1
<1>12. QED
  BY <1>5, <1>6, <1>7, <1>9, <1>10, <1>11 DEF Service!Next

(* No client ever gets a second answer, even after all order is lost, and  *)
(* in good order only its own, for its whole request.                      *)
THEOREM AnsweredAtMostOnce == Spec => []Service!AnsweredOnce
<1>1. Service!Init => Promise
  BY DEF Service!Init, Promise, Service!TypeOK, Service!Phase, Service!AnsweredOnce
<1>2. Promise /\ [Service!Next]_(Service!vars) => Promise'
  BY PromiseStep
<1>3. Promise => Service!AnsweredOnce
  BY DEF Promise
<1>4. QED
  BY <1>1, <1>2, <1>3, RequestsImplementService, PTL DEF ImplementsService, Service!Spec

=============================================================================
