-------------------------- MODULE ScgiRequests_proofs -------------------------
(***************************************************************************)
(* Theorems about the way of a request, for any number of clients, of      *)
(* descriptors and of addresses, whatever is reused under whatever stale   *)
(* event. MapMatchesDescriptors is nearly inductive; the owner of a        *)
(* request is followed through the queues as sets, and the sequences come  *)
(* in only at the end.                                                     *)
(***************************************************************************)
EXTENDS ScgiRequests, TLAPS

-----------------------------------------------------------------------------
(* Types.                                                                  *)

(* What is read from a queue is an address.                                *)
LEMMA HeadTail ==
  ASSUME NEW S, NEW s \in Seq(S), s # <<>>
  PROVE  Head(s) \in S /\ Tail(s) \in Seq(S)
  OBVIOUS

LEMMA Records ==
  ASSUME HeapOK, NEW a \in Addr
  PROVE  /\ heap[a].client \in Client /\ heap[a].fd \in Fd
         /\ heap[a].rx \in {"reading", "done", "error"} /\ heap[a].ans \in Client \union {NoClient}
  BY DEF HeapOK, Record

LEMMA ParsedOK ==
  ASSUME HeapOK, NEW a \in Addr, NEW rx \in {"reading", "done", "error"}
  PROVE  Parsed(a, rx) \in Record
  BY Records DEF Parsed, Record

LEMMA AnsweringOK ==
  ASSUME HeapOK, NEW a \in Addr, NEW c \in Client \union {NoClient}
  PROVE  Answering(a, c) \in Record
  BY Records DEF Answering, Record

LEMMA TypeInit == Init => TypeOK
<1> SUFFICES ASSUME Init PROVE TypeOK
  OBVIOUS
<1>1. ClientsOK
  BY DEF Init, ClientsOK
<1>2. DescriptorsOK
  BY DEF Init, DescriptorsOK
<1>3. HeapOK
  BY DEF Init, HeapOK, Record, Fresh
<1>4. EventsOK /\ ThreadsOK /\ QueuesOK
  BY DEF Init, EventsOK, ThreadsOK, QueuesOK
<1>5. QED
  BY <1>1, <1>2, <1>3, <1>4 DEF TypeOK

LEMMA EventsOf ==
  ASSUME NEW fd \in Fd
  PROVE  {Accepts, Responses, Input(fd), HungUp(fd)} \subseteq Event
  BY DEF Event

LEMMA ClientsType == TypeOK /\ [Next]_vars => ClientsOK'
<1> SUFFICES ASSUME TypeOK, [Next]_vars PROVE ClientsOK'
  OBVIOUS
<1> USE DEF TypeOK, ClientsOK
<1>1. ASSUME NEW c \in Client, Connect(c) PROVE ClientsOK'
  BY <1>1 DEF Connect
<1>2. ASSUME NEW c \in Client, NEW much \in {"part", "all"}, SendData(c, much) PROVE ClientsOK'
  BY <1>2 DEF SendData
<1>3. ASSUME NEW c \in Client, HangUp(c) PROVE ClientsOK'
  BY <1>3 DEF HangUp
<1>4. ASSUME NEW c \in Client, NEW fd \in Fd, NEW a \in Addr, AcceptClient(c, fd, a) PROVE ClientsOK'
  BY <1>4 DEF AcceptClient
<1>5. ASSUME NEW fd \in Fd, CloseOnHangUp(fd) PROVE ClientsOK'
  BY <1>5 DEF CloseOnHangUp
<1>6. CASE SendResponse
  <2>1. heap[Head(responseQ)].ans \in Client \union {NoClient}
    BY <1>6, HeadTail, Records DEF SendResponse, QueuesOK
  <2>2. QED
    BY <1>6, <2>1 DEF SendResponse
<1>7. CASE CloseSession
  BY <1>7 DEF CloseSession
<1>8. CASE UNCHANGED clientVars
  BY <1>8 DEF clientVars
<1>9. QED
  <2>1. CASE Clients
    BY <2>1, <1>1, <1>2, <1>3 DEF Clients
  <2>2. CASE Sink
    BY <2>2, <1>4, <1>5, <1>6, <1>8
       DEF Sink, EpollWait, AcceptDone, ProcessRequest, SendSpins, ResponsesDone, CloseStreams
  <2>3. CASE Main \/ Proxy
    BY <2>3, <1>8 DEF Main, Proxy, PassToProxy, HandleLocal, AnswerLocal, LocalSpins, ReturnProxied,
                      TakeTicket, FinishExchange, ExchangeFails
  <2>4. CASE Sessions
    BY <2>4, <1>7, <1>8 DEF Sessions, OpenSession
  <2>5. CASE UNCHANGED vars
    BY <2>5, <1>8 DEF vars
  <2>6. QED
    BY <2>1, <2>2, <2>3, <2>4, <2>5 DEF Next

(* Closing a connection, whichever it is, keeps the sink's state in type.  *)
LEMMA ClosingType ==
  ASSUME TypeOK, NEW fd \in Fd, CloseConnection(fd)
  PROVE  /\ fdOf' \in [Fd -> Client \union {NoClient, Device}]
         /\ rrMap' \in [Fd -> Addr \union {NoRecord}]
         /\ closing' \in Fd \union {NoFd}
         /\ alive' \subseteq Addr
         /\ edge' \subseteq Event
<1> USE DEF TypeOK, DescriptorsOK, HeapOK, EventsOK
<1>1. CASE rrMap[fd] = NoRecord
  BY <1>1 DEF CloseConnection
<1>2. CASE rrMap[fd] # NoRecord
  BY <1>2 DEF CloseConnection, Erased
<1>3. QED
  BY <1>1, <1>2

LEMMA DescriptorsType == TypeOK /\ [Next]_vars => DescriptorsOK'
<1> SUFFICES ASSUME TypeOK, [Next]_vars PROVE DescriptorsOK'
  OBVIOUS
<1> USE DEF TypeOK, DescriptorsOK
<1>1. ASSUME NEW c \in Client, NEW fd \in Fd, NEW a \in Addr, AcceptClient(c, fd, a) PROVE DescriptorsOK'
  <2>1. UNCHANGED <<closing, session, raced>>
    BY <1>1 DEF AcceptClient, others
  <2>2. QED
    BY <1>1, <2>1 DEF AcceptClient
<1>2. ASSUME NEW fd \in Fd, CloseOnHangUp(fd) PROVE DescriptorsOK'
  <2>1. UNCHANGED <<session, raced>>
    BY <1>2 DEF CloseOnHangUp, others
  <2>2. QED
    BY <1>2, <2>1, ClosingType DEF CloseOnHangUp
<1>3. CASE SendResponse
  <2>1. UNCHANGED <<session, raced>>
    BY <1>3 DEF SendResponse, others
  <2>2. heap[Head(responseQ)].fd \in Fd
    BY <1>3, HeadTail, Records DEF SendResponse, QueuesOK
  <2>3. QED
    BY <1>3, <2>1, <2>2, ClosingType DEF SendResponse
<1>4. CASE CloseStreams
  <2>1. UNCHANGED <<rrMap, session, raced>>
    BY <1>4 DEF CloseStreams, others
  <2>2. QED
    BY <1>4, <2>1 DEF CloseStreams
<1>5. ASSUME NEW fd \in Fd, OpenSession(fd) PROVE DescriptorsOK'
  <2>1. raced' \in BOOLEAN
    BY <1>5 DEF OpenSession
  <2>2. QED
    BY <1>5, <2>1 DEF OpenSession
<1>6. CASE CloseSession
  <2>1. UNCHANGED <<rrMap, closing, raced>>
    BY <1>6 DEF CloseSession
  <2>2. QED
    BY <1>6, <2>1 DEF CloseSession
<1>7. CASE UNCHANGED <<fdOf, rrMap, closing, session, raced>>
  BY <1>7
<1>8. QED
  <2>1. CASE Clients
    BY <2>1, <1>7 DEF Clients, Connect, SendData, HangUp, sinkVars, others
  <2>2. CASE Sink
    BY <2>2, <1>1, <1>2, <1>3, <1>4, <1>7
       DEF Sink, EpollWait, AcceptDone, ProcessRequest, SendSpins, ResponsesDone, others
  <2>3. CASE Main \/ Proxy
    BY <2>3, <1>7 DEF Main, Proxy, PassToProxy, HandleLocal, AnswerLocal, LocalSpins, ReturnProxied,
                      TakeTicket, FinishExchange, ExchangeFails, sinkVars, others
  <2>4. CASE Sessions
    BY <2>4, <1>5, <1>6 DEF Sessions
  <2>5. CASE UNCHANGED vars
    BY <2>5, <1>7 DEF vars, sinkVars, others
  <2>6. QED
    BY <2>1, <2>2, <2>3, <2>4, <2>5 DEF Next

LEMMA HeapType == TypeOK /\ [Next]_vars => HeapOK'
<1> SUFFICES ASSUME TypeOK, [Next]_vars PROVE HeapOK'
  OBVIOUS
<1>0. HeapOK
  BY DEF TypeOK
<1>1. ASSUME NEW c \in Client, NEW fd \in Fd, NEW a \in Addr, AcceptClient(c, fd, a) PROVE HeapOK'
  <2>1. Fresh(c, fd) \in Record
    BY DEF Fresh, Record
  <2>2. QED
    BY <1>0, <1>1, <2>1 DEF AcceptClient, HeapOK
<1>2. ASSUME NEW fd \in Fd, CloseOnHangUp(fd) PROVE HeapOK'
  BY <1>0, <1>2, ClosingType DEF CloseOnHangUp, HeapOK
<1>3. CASE SendResponse
  <2>1. heap[Head(responseQ)].fd \in Fd
    BY <1>0, <1>3, HeadTail, Records DEF SendResponse, QueuesOK, TypeOK
  <2>2. QED
    BY <1>0, <1>3, <2>1, ClosingType DEF SendResponse, HeapOK
<1>4. ASSUME NEW fd \in Fd, ProcessRequest(fd) PROVE HeapOK'
  <2> DEFINE a == rrMap[fd]
  <2>1. alive' = alive
    BY <1>4 DEF ProcessRequest
  <2>2. CASE heap' = heap
    BY <1>0, <2>1, <2>2 DEF HeapOK
  <2>3. CASE heap' # heap
    <3>1. a \in Addr
      BY <1>4, <2>3 DEF ProcessRequest, TypeOK, DescriptorsOK
    <3>2. PICK rx \in {"reading", "done", "error"} : heap' = [heap EXCEPT ![a] = Parsed(a, rx)]
      BY <1>4, <2>3 DEF ProcessRequest
    <3>3. Parsed(a, rx) \in Record
      BY <1>0, <3>1, ParsedOK
    <3>4. QED
      BY <1>0, <2>1, <3>1, <3>2, <3>3 DEF HeapOK
  <2>4. QED
    BY <2>2, <2>3
<1>5. CASE AnswerLocal
  <2>1. alive' = alive /\ heap' = [heap EXCEPT ![mainReq] = Answering(mainReq, mainFor)]
    BY <1>5 DEF AnswerLocal, sinkVars
  <2>2. mainReq \in Addr => Answering(mainReq, mainFor) \in Record
    BY <1>0, AnsweringOK DEF TypeOK, ThreadsOK
  <2>3. QED
    BY <1>0, <2>1, <2>2 DEF HeapOK
<1>6. CASE FinishExchange
  <2>1. alive' = alive /\ heap' = [heap EXCEPT ![proxyReq] = Answering(proxyReq, proxyFor)]
    BY <1>6 DEF FinishExchange, sinkVars
  <2>2. proxyReq \in Addr => Answering(proxyReq, proxyFor) \in Record
    BY <1>0, AnsweringOK DEF TypeOK, ThreadsOK
  <2>3. QED
    BY <1>0, <2>1, <2>2 DEF HeapOK
<1>7. CASE UNCHANGED <<heap, alive>>
  BY <1>0, <1>7 DEF HeapOK
<1>8. QED
  <2>1. CASE Clients
    BY <2>1, <1>7 DEF Clients, Connect, SendData, HangUp, sinkVars
  <2>2. CASE Sink
    BY <2>2, <1>1, <1>2, <1>3, <1>4, <1>7
       DEF Sink, EpollWait, AcceptDone, SendSpins, ResponsesDone, CloseStreams
  <2>3. CASE Main \/ Proxy
    BY <2>3, <1>5, <1>6, <1>7 DEF Main, Proxy, PassToProxy, HandleLocal, LocalSpins, ReturnProxied,
                      TakeTicket, ExchangeFails, sinkVars
  <2>4. CASE Sessions
    BY <2>4, <1>7 DEF Sessions, OpenSession, CloseSession
  <2>5. CASE UNCHANGED vars
    BY <2>5, <1>7 DEF vars, sinkVars
  <2>6. QED
    BY <2>1, <2>2, <2>3, <2>4, <2>5 DEF Next

LEMMA EventsType == TypeOK /\ [Next]_vars => EventsOK'
<1> SUFFICES ASSUME TypeOK, [Next]_vars PROVE EventsOK'
  OBVIOUS
<1>0. EventsOK
  BY DEF TypeOK
<1>1. ASSUME NEW c \in Client, Connect(c) PROVE EventsOK'
  BY <1>0, <1>1 DEF Connect, EventsOK, sinkVars, Event
<1>2. ASSUME NEW c \in Client, NEW much \in {"part", "all"}, SendData(c, much) PROVE EventsOK'
  <2>1. {Input(fd) : fd \in Descriptors(c)} \subseteq Event
    BY DEF Descriptors, Event
  <2>2. batch' = batch
    BY <1>2 DEF SendData, sinkVars
  <2>3. QED
    BY <1>0, <1>2, <2>1, <2>2 DEF SendData, EventsOK
<1>3. ASSUME NEW c \in Client, HangUp(c) PROVE EventsOK'
  <2>1. {HungUp(fd) : fd \in Descriptors(c)} \subseteq Event
    BY DEF Descriptors, Event
  <2>2. batch' = batch
    BY <1>3 DEF HangUp, sinkVars
  <2>3. QED
    BY <1>0, <1>3, <2>1, <2>2 DEF HangUp, EventsOK
<1>4. CASE EpollWait
  BY <1>0, <1>4 DEF EpollWait, EventsOK
<1>5. ASSUME NEW c \in Client, NEW fd \in Fd, NEW a \in Addr, AcceptClient(c, fd, a) PROVE EventsOK'
  <2>1. {Input(fd), HungUp(fd)} \subseteq Event
    BY EventsOf
  <2>2. QED
    BY <1>0, <1>5, <2>1 DEF AcceptClient, EventsOK
<1>6. ASSUME NEW fd \in Fd, CloseOnHangUp(fd) PROVE EventsOK'
  BY <1>0, <1>6, ClosingType DEF CloseOnHangUp, EventsOK
<1>7. CASE SendResponse
  <2>1. heap[Head(responseQ)].fd \in Fd
    BY <1>7, HeadTail, Records DEF SendResponse, QueuesOK, TypeOK
  <2>2. QED
    BY <1>0, <1>7, <2>1, ClosingType DEF SendResponse, EventsOK
<1>8. ASSUME NEW fd \in Fd, ProcessRequest(fd) PROVE EventsOK'
  BY <1>0, <1>8 DEF ProcessRequest, EventsOK
<1>9. CASE AcceptDone \/ ResponsesDone
  BY <1>0, <1>9 DEF AcceptDone, ResponsesDone, EventsOK
<1>10. CASE PostResponse(mainReq) /\ batch' = batch
  BY <1>0, <1>10 DEF PostResponse, EventsOK, Event
<1>11. CASE PostResponse(Head(proxyQ)) /\ batch' = batch
  BY <1>0, <1>11 DEF PostResponse, EventsOK, Event
<1>12. CASE CloseSession
  BY <1>0, <1>12 DEF CloseSession, EventsOK
<1>13. CASE UNCHANGED <<edge, batch>>
  BY <1>0, <1>13 DEF EventsOK
<1>14. QED
  <2>1. CASE Clients
    BY <2>1, <1>1, <1>2, <1>3 DEF Clients
  <2>2. CASE Sink
    BY <2>2, <1>4, <1>5, <1>6, <1>7, <1>8, <1>9, <1>13 DEF Sink, SendSpins, CloseStreams
  <2>3. CASE Main
    BY <2>3, <1>10, <1>11, <1>13 DEF Main, PassToProxy, HandleLocal, AnswerLocal, LocalSpins, ReturnProxied, sinkVars
  <2>4. CASE Proxy
    BY <2>4, <1>13 DEF Proxy, TakeTicket, FinishExchange, ExchangeFails, sinkVars
  <2>5. CASE Sessions
    BY <2>5, <1>12, <1>13 DEF Sessions, OpenSession
  <2>6. CASE UNCHANGED vars
    BY <2>6, <1>13 DEF vars, sinkVars
  <2>7. QED
    BY <2>1, <2>2, <2>3, <2>4, <2>5, <2>6 DEF Next

LEMMA ThreadsType == TypeOK /\ [Next]_vars => ThreadsOK'
<1> SUFFICES ASSUME TypeOK, [Next]_vars PROVE ThreadsOK'
  OBVIOUS
<1>0. ThreadsOK
  BY DEF TypeOK
<1>1. CASE SendSpins
  BY <1>0, <1>1 DEF SendSpins, ThreadsOK, mainVars, proxyVars
<1>2. CASE HandleLocal
  <2>1. Head(requestQ) \in Addr
    BY <1>2, HeadTail DEF HandleLocal, TypeOK, QueuesOK
  <2>2. heap[Head(requestQ)].client \in Client
    BY <2>1, Records DEF TypeOK
  <2>3. QED
    BY <1>0, <1>2, <2>1, <2>2 DEF HandleLocal, ThreadsOK, sinkVars, proxyVars
<1>3. CASE AnswerLocal \/ LocalSpins
  BY <1>0, <1>3 DEF AnswerLocal, LocalSpins, ThreadsOK, sinkVars, proxyVars
<1>4. CASE TakeTicket
  <2>1. Head(ticketQ) \in Addr
    BY <1>4, HeadTail DEF TakeTicket, TypeOK, QueuesOK
  <2>2. heap[Head(ticketQ)].client \in Client
    BY <2>1, Records DEF TypeOK
  <2>3. QED
    BY <1>0, <1>4, <2>1, <2>2 DEF TakeTicket, ThreadsOK, sinkVars, mainVars
<1>5. CASE FinishExchange \/ ExchangeFails
  BY <1>0, <1>5 DEF FinishExchange, ExchangeFails, ThreadsOK, sinkVars, mainVars
<1>6. CASE UNCHANGED <<sinkPC, mainVars, proxyVars>>
  BY <1>0, <1>6 DEF ThreadsOK, mainVars, proxyVars
<1>7. QED
  <2>1. CASE Clients
    BY <2>1, <1>6 DEF Clients, Connect, SendData, HangUp, sinkVars
  <2>2. CASE Sink
    BY <2>2, <1>1, <1>6 DEF Sink, EpollWait, AcceptDone, AcceptClient, CloseOnHangUp, ProcessRequest,
                            SendResponse, ResponsesDone, CloseStreams
  <2>3. CASE Main
    BY <2>3, <1>2, <1>3, <1>6 DEF Main, PassToProxy, ReturnProxied, sinkVars
  <2>4. CASE Proxy
    BY <2>4, <1>4, <1>5 DEF Proxy
  <2>5. CASE Sessions
    BY <2>5, <1>6 DEF Sessions, OpenSession, CloseSession
  <2>6. CASE UNCHANGED vars
    BY <2>6, <1>6 DEF vars, sinkVars
  <2>7. QED
    BY <2>1, <2>2, <2>3, <2>4, <2>5, <2>6 DEF Next

LEMMA QueuesType == TypeOK /\ [Next]_vars => QueuesOK'
<1> SUFFICES ASSUME TypeOK, [Next]_vars PROVE QueuesOK'
  OBVIOUS
<1>0. QueuesOK /\ ThreadsOK
  BY DEF TypeOK
<1>1. ASSUME NEW fd \in Fd, ProcessRequest(fd) PROVE QueuesOK'
  <2>1. rrMap[fd] # NoRecord => rrMap[fd] \in Addr
    BY DEF TypeOK, DescriptorsOK
  <2>2. requestQ' = requestQ \/ (rrMap[fd] # NoRecord /\ requestQ' = Append(requestQ, rrMap[fd]))
    BY <1>1 DEF ProcessRequest
  <2>3. requestQ' \in Seq(Addr)
    <3>1. requestQ \in Seq(Addr)
      BY <1>0 DEF QueuesOK
    <3>2. ASSUME NEW a \in Addr PROVE Append(requestQ, a) \in Seq(Addr)
      BY <3>1
    <3>3. QED
      BY <2>1, <2>2, <3>1, <3>2
  <2>4. QED
    BY <1>0, <1>1, <2>3 DEF ProcessRequest, QueuesOK
<1>2. CASE SendResponse
  BY <1>0, <1>2, HeadTail DEF SendResponse, QueuesOK
<1>3. CASE PassToProxy
  <2>1. Head(requestQ) \in Addr /\ Tail(requestQ) \in Seq(Addr)
    BY <1>0, <1>3, HeadTail DEF PassToProxy, QueuesOK
  <2>2. QED
    BY <1>0, <1>3, <2>1 DEF PassToProxy, QueuesOK
<1>4. CASE HandleLocal
  BY <1>0, <1>4, HeadTail DEF HandleLocal, QueuesOK
<1>5. CASE AnswerLocal
  <2>1. mainReq \in Addr
    BY <1>0, <1>5 DEF AnswerLocal, ThreadsOK
  <2>2. QED
    BY <1>0, <1>5, <2>1 DEF AnswerLocal, PostResponse, QueuesOK
<1>6. CASE ReturnProxied
  <2>1. Head(proxyQ) \in Addr /\ Tail(proxyQ) \in Seq(Addr)
    BY <1>0, <1>6, HeadTail DEF ReturnProxied, QueuesOK
  <2>2. QED
    BY <1>0, <1>6, <2>1 DEF ReturnProxied, PostResponse, QueuesOK
<1>7. CASE TakeTicket
  BY <1>0, <1>7, HeadTail DEF TakeTicket, QueuesOK
<1>8. CASE FinishExchange
  <2>1. proxyReq \in Addr
    BY <1>0, <1>8 DEF FinishExchange, ThreadsOK
  <2>2. QED
    BY <1>0, <1>8, <2>1 DEF FinishExchange, QueuesOK
<1>9. CASE UNCHANGED queueVars
  BY <1>0, <1>9 DEF QueuesOK, queueVars
<1>10. QED
  <2>1. CASE Clients
    BY <2>1, <1>9 DEF Clients, Connect, SendData, HangUp
  <2>2. CASE Sink
    BY <2>2, <1>1, <1>2, <1>9 DEF Sink, EpollWait, AcceptDone, AcceptClient, CloseOnHangUp,
                            SendSpins, ResponsesDone, CloseStreams
  <2>3. CASE Main
    BY <2>3, <1>3, <1>4, <1>5, <1>6, <1>9 DEF Main, LocalSpins
  <2>4. CASE Proxy
    BY <2>4, <1>7, <1>8, <1>9 DEF Proxy, ExchangeFails
  <2>5. CASE Sessions
    BY <2>5, <1>9 DEF Sessions, OpenSession, CloseSession
  <2>6. CASE UNCHANGED vars
    BY <2>6, <1>9 DEF vars
  <2>7. QED
    BY <2>1, <2>2, <2>3, <2>4, <2>5, <2>6 DEF Next

LEMMA TypeStep == TypeOK /\ [Next]_vars => TypeOK'
  BY ClientsType, DescriptorsType, HeapType, EventsType, ThreadsType, QueuesType DEF TypeOK

LEMMA TypeAlways == Spec => []TypeOK
  BY TypeInit, TypeStep, PTL DEF Spec

(* Every variable keeps its type.                                          *)
THEOREM TypeCorrect == Spec => []TypeOK
  BY TypeAlways

-----------------------------------------------------------------------------
(* Descriptors, the map and the heap. What the property needs to be        *)
(* inductive is that the descriptor the sink is about to close once more   *)
(* is nobody's.                                                            *)

Matched ==
  /\ alive = {rrMap[fd] : fd \in Fd} \ {NoRecord}
  /\ session # NoFd => fdOf[session] = Device
  /\ \A fd \in Fd :
       IF rrMap[fd] = NoRecord
       THEN fdOf[fd] = IF fd = session THEN Device ELSE NoClient
       ELSE heap[rrMap[fd]].fd = fd /\ heap[rrMap[fd]].client = fdOf[fd]
  /\ closing # NoFd => fdOf[closing] = NoClient

MatchInv == ~raced => Matched

(* What a record's step never changes: whose it is.                        *)
SameOwners == \A a \in Addr : heap'[a].client = heap[a].client /\ heap'[a].fd = heap[a].fd

LEMMA MatchedSame ==
  ASSUME TypeOK, Matched, SameOwners, UNCHANGED <<fdOf, rrMap, alive, closing, session>>
  PROVE  Matched'
<1>1. \A fd \in Fd : rrMap[fd] # NoRecord => rrMap[fd] \in Addr
  BY DEF TypeOK, DescriptorsOK
<1>2. QED
  BY <1>1 DEF Matched, SameOwners

(* A mapped descriptor is its record's client's, and no other maps to it.  *)
LEMMA MatchedApart ==
  ASSUME TypeOK, Matched, NEW fd \in Fd, rrMap[fd] # NoRecord
  PROVE  /\ rrMap[fd] \in alive /\ rrMap[fd] \in Addr
         /\ fdOf[fd] \in Client /\ fd # session /\ fd # closing
         /\ \A g \in Fd : rrMap[g] = rrMap[fd] => g = fd
<1>1. rrMap[fd] \in Addr /\ rrMap[fd] \in alive
  BY DEF TypeOK, DescriptorsOK, Matched
<1>2. fdOf[fd] \in Client
  BY <1>1, Records DEF TypeOK, Matched
<1>3. fdOf[fd] # Device /\ fdOf[fd] # NoClient
  BY <1>2, DeviceAssumption, ClientAssumption
<1>4. fd # session /\ fd # closing
  BY <1>3, DeviceAssumption DEF Matched
<1>5. QED
  BY <1>1, <1>2, <1>4 DEF Matched

LEMMA MatchedClose ==
  ASSUME TypeOK, Matched, closing = NoFd, NEW fd \in Fd, CloseConnection(fd), UNCHANGED <<heap, session>>
  PROVE  Matched'
<1>1. CASE rrMap[fd] = NoRecord
  BY <1>1 DEF CloseConnection, Matched
<1>2. CASE rrMap[fd] # NoRecord
  <2>1. /\ fdOf' = [fdOf EXCEPT ![fd] = NoClient] /\ rrMap' = [rrMap EXCEPT ![fd] = NoRecord]
        /\ alive' = alive \ {rrMap[fd]} /\ closing' = fd
    BY <1>2 DEF CloseConnection, Erased
  <2>2. fd # session /\ \A g \in Fd : rrMap[g] = rrMap[fd] => g = fd
    BY <1>2, MatchedApart
  <2>3. fdOf \in [Fd -> Client \union {NoClient, Device}] /\ rrMap \in [Fd -> Addr \union {NoRecord}]
    BY DEF TypeOK, DescriptorsOK
  <2>4. alive' = {rrMap'[g] : g \in Fd} \ {NoRecord}
    BY <2>1, <2>2, <2>3 DEF Matched
  <2>5. (session' # NoFd => fdOf'[session'] = Device) /\ fdOf'[closing'] = NoClient
    BY <2>1, <2>2, <2>3 DEF Matched
  <2>6. \A g \in Fd : IF rrMap'[g] = NoRecord
                      THEN fdOf'[g] = IF g = session' THEN Device ELSE NoClient
                      ELSE heap'[rrMap'[g]].fd = g /\ heap'[rrMap'[g]].client = fdOf'[g]
    BY <2>1, <2>2, <2>3 DEF Matched
  <2>7. QED
    BY <2>4, <2>5, <2>6 DEF Matched
<1>3. QED
  BY <1>1, <1>2

LEMMA MatchedAccept ==
  ASSUME TypeOK, Matched, NEW c \in Client, NEW fd \in Fd, NEW a \in Addr, AcceptClient(c, fd, a)
  PROVE  Matched'
<1>1. /\ closing = NoFd /\ fdOf[fd] = NoClient /\ a \notin alive
      /\ fdOf' = [fdOf EXCEPT ![fd] = c] /\ alive' = alive \union {a}
      /\ heap' = [heap EXCEPT ![a] = Fresh(c, fd)] /\ rrMap' = [rrMap EXCEPT ![fd] = a]
      /\ UNCHANGED <<closing, session>>
  BY DEF AcceptClient, Running, others
<1>2. /\ fdOf \in [Fd -> Client \union {NoClient, Device}] /\ rrMap \in [Fd -> Addr \union {NoRecord}]
      /\ heap \in [Addr -> Record] /\ a # NoRecord
  BY RecordAssumption DEF TypeOK, DescriptorsOK, HeapOK
<1>3. rrMap[fd] = NoRecord
  BY <1>1, MatchedApart, ClientAssumption
<1>4. fd # session
  BY <1>1, <1>3, DeviceAssumption DEF Matched
<1>5. \A g \in Fd : rrMap[g] # a
  BY <1>1, <1>2 DEF Matched
<1>6. alive' = {rrMap'[g] : g \in Fd} \ {NoRecord}
  BY <1>1, <1>2, <1>3 DEF Matched
<1>7. (session' # NoFd => fdOf'[session'] = Device) /\ closing' = NoFd
  BY <1>1, <1>2, <1>4 DEF Matched
<1>8. ASSUME NEW g \in Fd
      PROVE  IF rrMap'[g] = NoRecord
             THEN fdOf'[g] = IF g = session' THEN Device ELSE NoClient
             ELSE heap'[rrMap'[g]].fd = g /\ heap'[rrMap'[g]].client = fdOf'[g]
  <2>1. CASE g = fd
    BY <1>1, <1>2, <2>1 DEF Fresh
  <2>2. CASE g # fd
    <3>1. rrMap'[g] = rrMap[g] /\ fdOf'[g] = fdOf[g] /\ (rrMap[g] # NoRecord => heap'[rrMap[g]] = heap[rrMap[g]])
      BY <1>1, <1>2, <1>5, <2>2
    <3>2. QED
      BY <1>1, <3>1 DEF Matched
  <2>3. QED
    BY <2>1, <2>2
<1>9. QED
  BY <1>6, <1>7, <1>8 DEF Matched

LEMMA MatchInit == Init => MatchInv
<1> SUFFICES ASSUME Init PROVE Matched
  BY DEF MatchInv
<1>1. \A fd \in Fd : rrMap[fd] = NoRecord /\ fdOf[fd] = NoClient /\ fd # session
  BY DeviceAssumption DEF Init
<1>2. QED
  BY <1>1 DEF Init, Matched

LEMMA MatchStep == TypeOK /\ MatchInv /\ [Next]_vars => MatchInv'
<1> SUFFICES ASSUME TypeOK, MatchInv, [Next]_vars, ~raced' PROVE Matched'
  BY DEF MatchInv
<1>1. ~raced
  BY DEF Next, Clients, Sink, Main, Proxy, Sessions, Connect, SendData, HangUp, EpollWait, AcceptDone, AcceptClient,
         CloseOnHangUp, ProcessRequest, SendResponse, SendSpins, ResponsesDone, CloseStreams, PassToProxy, HandleLocal,
         AnswerLocal, LocalSpins, ReturnProxied, TakeTicket, FinishExchange, ExchangeFails, OpenSession, CloseSession,
         others, vars
<1>2. Matched
  BY <1>1 DEF MatchInv
<1>3. CASE UNCHANGED <<fdOf, rrMap, alive, closing, session>> /\ SameOwners
  BY <1>2, <1>3, MatchedSame
<1>4. heap' = heap => SameOwners
  BY DEF SameOwners
<1>5. CASE Clients
  BY <1>3, <1>4, <1>5 DEF Clients, Connect, SendData, HangUp, sinkVars, others
<1>6. CASE Sink
  <2>1. ASSUME NEW fd \in Fd, CloseOnHangUp(fd) PROVE Matched'
    BY <1>2, <2>1, MatchedClose DEF CloseOnHangUp, Running, others
  <2>2. CASE SendResponse
    <3>1. heap[Head(responseQ)].fd \in Fd
      BY <2>2, HeadTail, Records DEF SendResponse, QueuesOK, TypeOK
    <3>2. QED
      BY <1>2, <2>2, <3>1, MatchedClose DEF SendResponse, Running, others
  <2>3. ASSUME NEW fd \in Fd, ProcessRequest(fd) PROVE Matched'
    <3>1. SameOwners
      <4>1. CASE heap' = heap
        BY <1>4, <4>1
      <4>2. CASE heap' # heap
        <5>1. PICK rx : heap' = [heap EXCEPT ![rrMap[fd]] = Parsed(rrMap[fd], rx)]
          BY <2>3, <4>2 DEF ProcessRequest
        <5>2. heap \in [Addr -> Record]
          BY DEF TypeOK, HeapOK
        <5>3. QED
          BY <5>1, <5>2 DEF SameOwners, Parsed
      <4>3. QED
        BY <4>1, <4>2
    <3>2. QED
      BY <1>3, <2>3, <3>1 DEF ProcessRequest, others
  <2>4. CASE CloseStreams
    <3>1. /\ closing \in Fd /\ closing' = NoFd /\ fdOf' = [fdOf EXCEPT ![closing] = NoClient]
          /\ UNCHANGED <<rrMap, alive, heap, session>>
      BY <2>4 DEF CloseStreams, others, TypeOK, DescriptorsOK
    <3>2. fdOf' = fdOf
      BY <1>2, <3>1, DeviceAssumption DEF Matched, TypeOK, DescriptorsOK
    <3>3. QED
      BY <1>2, <3>1, <3>2 DEF Matched
  <2>5. CASE EpollWait \/ AcceptDone \/ SendSpins \/ ResponsesDone
    BY <1>3, <1>4, <2>5 DEF EpollWait, AcceptDone, SendSpins, ResponsesDone, others
  <2>6. QED
    BY <1>2, <1>6, <2>1, <2>2, <2>3, <2>4, <2>5, MatchedAccept DEF Sink
<1>7. CASE Main
  <2>1. CASE AnswerLocal
    <3>1. SameOwners
      BY <2>1 DEF AnswerLocal, SameOwners, Answering, TypeOK, HeapOK
    <3>2. QED
      BY <1>3, <2>1, <3>1 DEF AnswerLocal, sinkVars, others
  <2>2. QED
    BY <1>3, <1>4, <1>7, <2>1 DEF Main, PassToProxy, HandleLocal, LocalSpins, ReturnProxied, sinkVars, others
<1>8. CASE Proxy
  <2>1. CASE FinishExchange
    <3>1. SameOwners
      BY <2>1 DEF FinishExchange, SameOwners, Answering, TypeOK, HeapOK
    <3>2. QED
      BY <1>3, <2>1, <3>1 DEF FinishExchange, sinkVars, others
  <2>2. QED
    BY <1>3, <1>4, <1>8, <2>1 DEF Proxy, TakeTicket, ExchangeFails, sinkVars, others
<1>9. ASSUME NEW fd \in Fd, OpenSession(fd) PROVE Matched'
  <2>1. /\ session = NoFd /\ fdOf[fd] = NoClient /\ session' = fd /\ closing # fd
        /\ fdOf' = [fdOf EXCEPT ![fd] = Device] /\ UNCHANGED <<rrMap, alive, heap, closing>>
    BY <1>9 DEF OpenSession
  <2>2. fdOf \in [Fd -> Client \union {NoClient, Device}] /\ closing \in Fd \union {NoFd}
    BY DEF TypeOK, DescriptorsOK
  <2>3. rrMap[fd] = NoRecord
    BY <1>2, <2>1, MatchedApart, ClientAssumption
  <2>4. closing' # NoFd => fdOf'[closing'] = NoClient
    BY <1>2, <2>1, <2>2 DEF Matched
  <2>5. \A g \in Fd : IF rrMap'[g] = NoRecord
                      THEN fdOf'[g] = IF g = session' THEN Device ELSE NoClient
                      ELSE heap'[rrMap'[g]].fd = g /\ heap'[rrMap'[g]].client = fdOf'[g]
    BY <1>2, <2>1, <2>2, <2>3, DeviceAssumption DEF Matched
  <2>6. alive' = {rrMap'[g] : g \in Fd} \ {NoRecord} /\ fdOf'[session'] = Device
    BY <1>2, <2>1, <2>2 DEF Matched
  <2>7. QED
    BY <2>4, <2>5, <2>6 DEF Matched
<1>10. CASE CloseSession
  <2>1. /\ session # NoFd /\ session' = NoFd
        /\ fdOf' = [fdOf EXCEPT ![session] = NoClient] /\ UNCHANGED <<rrMap, alive, heap, closing>>
    BY <1>10 DEF CloseSession
  <2>2. /\ fdOf \in [Fd -> Client \union {NoClient, Device}] /\ closing \in Fd \union {NoFd}
        /\ session \in Fd
    BY <2>1 DEF TypeOK, DescriptorsOK
  <2>3. rrMap[session] = NoRecord
    BY <1>2, <2>2, MatchedApart
  <2>4. closing' # NoFd => fdOf'[closing'] = NoClient
    BY <1>2, <2>1, <2>2 DEF Matched
  <2>5. \A g \in Fd : IF rrMap'[g] = NoRecord
                      THEN fdOf'[g] = IF g = session' THEN Device ELSE NoClient
                      ELSE heap'[rrMap'[g]].fd = g /\ heap'[rrMap'[g]].client = fdOf'[g]
    BY <1>2, <2>1, <2>2, <2>3, DeviceAssumption DEF Matched
  <2>6. alive' = {rrMap'[g] : g \in Fd} \ {NoRecord}
    BY <1>2, <2>1, <2>2 DEF Matched
  <2>7. QED
    BY <2>1, <2>4, <2>5, <2>6 DEF Matched
<1>11. CASE UNCHANGED vars
  BY <1>3, <1>4, <1>11 DEF vars, sinkVars, others
<1>12. QED
  BY <1>5, <1>6, <1>7, <1>8, <1>9, <1>10, <1>11 DEF Next, Sessions

LEMMA MatchAlways == Spec => []MatchInv
<1>1. Init => MatchInv
  BY MatchInit
<1>2. TypeOK /\ MatchInv /\ [Next]_vars => MatchInv'
  BY MatchStep
<1>3. QED
  BY <1>1, <1>2, TypeAlways, PTL DEF Spec

(* Descriptors and records stay matched, however many of either there are, *)
(* as long as no session gets a descriptor the sink has yet to close.      *)
THEOREM DescriptorsMatch == Spec => []MapMatchesDescriptors
<1>1. MatchInv => MapMatchesDescriptors
  BY DEF MatchInv, Matched, MapMatchesDescriptors
<1>2. QED
  BY <1>1, MatchAlways, PTL

-----------------------------------------------------------------------------
(* What is in a queue, and that it is there once.                          *)

Holds(q) == {q[i] : i \in DOMAIN q}
Once(q)  == \A i, j \in DOMAIN q : q[i] = q[j] => i = j

LEMMA TakenHead ==
  ASSUME NEW S, NEW q \in Seq(S), q # <<>>, Once(q)
  PROVE  /\ Once(Tail(q)) /\ Tail(q) \in Seq(S)
         /\ Holds(Tail(q)) = Holds(q) \ {Head(q)} /\ Head(q) \in Holds(q)
<1>1. /\ Len(q) \in Nat \ {0} /\ Tail(q) \in Seq(S) /\ Len(Tail(q)) = Len(q) - 1
      /\ Head(q) = q[1] /\ \A i \in 1..Len(q) - 1 : Tail(q)[i] = q[i + 1]
      /\ DOMAIN q = 1..Len(q) /\ DOMAIN Tail(q) = 1..Len(q) - 1
  OBVIOUS
<1>2. Once(Tail(q))
  BY <1>1 DEF Once
<1>3. Head(q) \in Holds(q)
  BY <1>1 DEF Holds
<1>4. ASSUME NEW x \in Holds(Tail(q)) PROVE x \in Holds(q) \ {Head(q)}
  <2>1. PICK i \in 1..Len(q) - 1 : x = Tail(q)[i]
    BY <1>1 DEF Holds
  <2>2. x = q[i + 1] /\ i + 1 \in DOMAIN q /\ i + 1 # 1
    BY <1>1, <2>1
  <2>3. QED
    BY <1>1, <2>2 DEF Holds, Once
<1>5. ASSUME NEW x \in Holds(q) \ {Head(q)} PROVE x \in Holds(Tail(q))
  <2>1. PICK i \in 1..Len(q) : x = q[i]
    BY <1>1 DEF Holds
  <2>2. i - 1 \in 1..Len(q) - 1 /\ x = Tail(q)[i - 1]
    BY <1>1, <2>1
  <2>3. QED
    BY <1>1, <2>2 DEF Holds
<1>6. QED
  BY <1>1, <1>2, <1>3, <1>4, <1>5

LEMMA PutLast ==
  ASSUME NEW S, NEW q \in Seq(S), NEW x \in S, x \notin Holds(q), Once(q)
  PROVE  /\ Once(Append(q, x)) /\ Append(q, x) \in Seq(S)
         /\ Holds(Append(q, x)) = Holds(q) \union {x}
<1> DEFINE r == Append(q, x)
<1>1. /\ Len(q) \in Nat /\ r \in Seq(S) /\ DOMAIN q = 1..Len(q) /\ DOMAIN r = 1..Len(q) + 1
      /\ r[Len(q) + 1] = x /\ \A i \in 1..Len(q) : r[i] = q[i]
  OBVIOUS
<1> HIDE DEF r
<1>2. Once(r)
  BY <1>1 DEF Once, Holds
<1>3. ASSUME NEW y \in Holds(r) PROVE y \in Holds(q) \union {x}
  <2>1. PICK i \in 1..Len(q) + 1 : y = r[i]
    BY <1>1 DEF Holds
  <2>2. i = Len(q) + 1 \/ i \in 1..Len(q)
    BY <1>1
  <2>3. QED
    BY <1>1, <2>1, <2>2 DEF Holds
<1>4. ASSUME NEW y \in Holds(q) \union {x} PROVE y \in Holds(r)
  <2>1. CASE y = x
    <3>1. Len(q) + 1 \in DOMAIN r
      BY <1>1
    <3>2. QED
      BY <1>1, <2>1, <3>1 DEF Holds
  <2>2. CASE y \in Holds(q)
    <3>1. PICK i \in 1..Len(q) : y = q[i]
      BY <1>1, <2>2 DEF Holds
    <3>2. i \in DOMAIN r /\ y = r[i]
      BY <1>1, <3>1
    <3>3. QED
      BY <3>2 DEF Holds
  <2>3. QED
    BY <2>1, <2>2
<1>5. Holds(r) = Holds(q) \union {x}
  BY <1>3, <1>4
<1>6. QED
  BY <1>1, <1>2, <1>5 DEF r

LEMMA Joined ==
  ASSUME NEW S, NEW q \in Seq(S), NEW r \in Seq(S), Once(q), Once(r), Holds(q) \cap Holds(r) = {}
  PROVE  q \o r \in Seq(S) /\ Once(q \o r) /\ Holds(q \o r) = Holds(q) \union Holds(r)
<1> DEFINE s == q \o r
<1>1. /\ Len(q) \in Nat /\ Len(r) \in Nat /\ s \in Seq(S)
      /\ DOMAIN q = 1..Len(q) /\ DOMAIN r = 1..Len(r) /\ DOMAIN s = 1..Len(q) + Len(r)
      /\ \A i \in 1..Len(q) : s[i] = q[i]
      /\ \A i \in 1..Len(r) : s[Len(q) + i] = r[i]
  OBVIOUS
<1> HIDE DEF s
<1>2. ASSUME NEW i \in DOMAIN s
      PROVE  (i \in DOMAIN q /\ s[i] = q[i]) \/ (i - Len(q) \in DOMAIN r /\ s[i] = r[i - Len(q)])
  <2>1. CASE i <= Len(q)
    BY <1>1, <2>1
  <2>2. CASE i > Len(q)
    <3>1. i - Len(q) \in 1..Len(r) /\ Len(q) + (i - Len(q)) = i
      BY <1>1, <2>2
    <3>2. QED
      BY <1>1, <3>1
  <2>3. QED
    BY <1>1, <2>1, <2>2
<1>3. ASSUME NEW i \in DOMAIN s, NEW j \in DOMAIN s, s[i] = s[j] PROVE i = j
  <2>1. i \in Int /\ j \in Int
    BY <1>1
  <2>2. CASE i \in DOMAIN q /\ s[i] = q[i] /\ j \in DOMAIN q /\ s[j] = q[j]
    BY <1>3, <2>2 DEF Once
  <2>3. CASE i - Len(q) \in DOMAIN r /\ s[i] = r[i - Len(q)] /\ j - Len(q) \in DOMAIN r /\ s[j] = r[j - Len(q)]
    <3>1. i - Len(q) = j - Len(q)
      BY <1>3, <2>3 DEF Once
    <3>2. QED
      BY <1>1, <2>1, <3>1
  <2>4. CASE i \in DOMAIN q /\ s[i] = q[i] /\ j - Len(q) \in DOMAIN r /\ s[j] = r[j - Len(q)]
    BY <1>3, <2>4 DEF Holds
  <2>5. CASE i - Len(q) \in DOMAIN r /\ s[i] = r[i - Len(q)] /\ j \in DOMAIN q /\ s[j] = q[j]
    BY <1>3, <2>5 DEF Holds
  <2>6. QED
    BY <1>2, <2>2, <2>3, <2>4, <2>5
<1>4. ASSUME NEW y \in Holds(s) PROVE y \in Holds(q) \union Holds(r)
  BY <1>2 DEF Holds
<1>5. ASSUME NEW y \in Holds(q) \union Holds(r) PROVE y \in Holds(s)
  <2>1. CASE y \in Holds(q)
    <3>1. PICK i \in 1..Len(q) : y = q[i]
      BY <1>1, <2>1 DEF Holds
    <3>2. i \in DOMAIN s /\ y = s[i]
      BY <1>1, <3>1
    <3>3. QED
      BY <3>2 DEF Holds
  <2>2. CASE y \in Holds(r)
    <3>1. PICK i \in 1..Len(r) : y = r[i]
      BY <1>1, <2>2 DEF Holds
    <3>2. Len(q) + i \in DOMAIN s /\ y = s[Len(q) + i]
      BY <1>1, <3>1
    <3>3. QED
      BY <3>2 DEF Holds
  <2>3. QED
    BY <2>1, <2>2
<1>6. Holds(s) = Holds(q) \union Holds(r)
  BY <1>4, <1>5
<1>7. QED
  BY <1>1, <1>3, <1>6 DEF s, Once

-----------------------------------------------------------------------------
(* Who has which request. A record that was read to the end is in one      *)
(* place, and in that place once.                                          *)

Place == {"request", "ticket", "proxied", "response", "main", "proxy"}

Held ==
  [p \in Place |->
     IF p = "request" THEN Holds(requestQ)
     ELSE IF p = "ticket" THEN Holds(ticketQ)
     ELSE IF p = "proxied" THEN Holds(proxyQ)
     ELSE IF p = "response" THEN Holds(responseQ)
     ELSE IF p = "main" THEN (IF mainPC # "idle" THEN {mainReq} ELSE {})
     ELSE (IF proxyPC \in {"exchanging", "stuck"} THEN {proxyReq} ELSE {})]

Queued == Once(requestQ) /\ Once(ticketQ) /\ Once(proxyQ) /\ Once(responseQ)
Kept   == \A p \in Place : \A a \in Held[p] : a \in alive /\ heap[a].rx = "done"
Apart  == \A p, q \in Place : p # q => Held[p] \cap Held[q] = {}

(* What a client did, as far as the sink's tables and events depend on it. *)
(* One that hung up had not sent its request, so the record the hang-up    *)
(* deletes is nobody's.                                                    *)
ReadWasSent   == \A a \in alive : heap[a].rx = "done" => sent[heap[a].client] = "all"
LeftEarly     == \A c \in Client : client[c] \in {"left", "gone"} => sent[c] # "all"
OpenIsServed  == \A fd \in Fd : fdOf[fd] \in Client => client[fdOf[fd]] \in {"open", "gone"}
OneDescriptor == \A fd, g \in Fd : fdOf[fd] \in Client /\ fdOf[g] = fdOf[fd] => g = fd
HungUpIsGone  == \A fd \in Fd : HungUp(fd) \in edge \union batch => fdOf[fd] \in Client /\ client[fdOf[fd]] = "gone"
Served        == ReadWasSent /\ LeftEarly /\ OpenIsServed /\ OneDescriptor /\ HungUpIsGone

(* Whose the answers are, from the thread that makes them on.              *)
InHandFor ==
  /\ mainPC # "idle" => mainFor = heap[mainReq].client
  /\ proxyPC \in {"exchanging", "stuck"} => proxyFor = heap[proxyReq].client
AnswersRight == \A a \in Held["proxied"] \union Held["response"] : heap[a].ans = heap[a].client
Received ==
  \A c \in Client : answers[c] \in {<<>>, <<c>>} /\ (client[c] # "done" => answers[c] = <<>>)

OrderInv == Orderly => Queued /\ Kept /\ Apart /\ Served /\ InHandFor /\ AnswersRight /\ Received

LEMMA StaysOrderly == [Next]_vars /\ Orderly' => Orderly
<1> SUFFICES ASSUME [Next]_vars, Orderly' PROVE Orderly
  OBVIOUS
<1>1. ~raced
  BY DEF Orderly, Next, Clients, Sink, Main, Proxy, Sessions, Connect, SendData, HangUp, EpollWait, AcceptDone, AcceptClient,
         CloseOnHangUp, ProcessRequest, SendResponse, SendSpins, ResponsesDone, CloseStreams, PassToProxy, HandleLocal,
         AnswerLocal, LocalSpins, ReturnProxied, TakeTicket, FinishExchange, ExchangeFails, OpenSession, CloseSession,
         others, vars
<1>2. impatient \subseteq impatient'
  BY DEF Next, Clients, Sink, Main, Proxy, Sessions, Connect, SendData, HangUp, EpollWait, AcceptDone, AcceptClient,
         CloseOnHangUp, ProcessRequest, SendResponse, SendSpins, ResponsesDone, CloseStreams, PassToProxy, HandleLocal,
         AnswerLocal, LocalSpins, ReturnProxied, TakeTicket, FinishExchange, ExchangeFails, OpenSession, CloseSession,
         clientVars, vars
<1>3. QED
  BY <1>1, <1>2 DEF Orderly

LEMMA EventsDiffer ==
  ASSUME NEW fd, NEW g
  PROVE  /\ HungUp(fd) # Input(g) /\ HungUp(fd) # Accepts /\ HungUp(fd) # Responses
         /\ HungUp(fd) = HungUp(g) => fd = g
<1>1. HungUp(fd).of = "hangup" /\ Input(g).of = "input" /\ Accepts.of = "accept" /\ Responses.of = "response"
  BY DEF HungUp, Input, Accepts, Responses
<1>2. HungUp(fd).fd = fd /\ HungUp(g).fd = g
  BY DEF HungUp
<1>3. QED
  BY <1>1, <1>2

(* A record in the map is found under its own descriptor.                  *)
LEMMA MatchedFinds ==
  ASSUME TypeOK, Matched, NEW a \in alive
  PROVE  /\ heap[a].fd \in Fd /\ rrMap[heap[a].fd] = a /\ fdOf[heap[a].fd] = heap[a].client
         /\ heap[a].client \in Client /\ a # NoRecord /\ a \in Addr
<1>1. a \in Addr /\ a # NoRecord
  BY RecordAssumption DEF TypeOK, HeapOK
<1>2. PICK fd \in Fd : rrMap[fd] = a
  BY DEF Matched
<1>3. QED
  BY <1>1, <1>2, Records DEF Matched, TypeOK

-----------------------------------------------------------------------------
(* The clients and the tables.                                             *)

(* Closing the connection of a client's descriptor, and the client's being *)
(* told, keep the tables in step with the clients.                         *)
LEMMA ServedClose ==
  ASSUME TypeOK, Matched, Served, NEW fd \in Fd, fdOf[fd] \in Client, CloseConnection(fd),
         client' = [c \in Client |-> IF c = fdOf[fd] THEN "done" ELSE client[c]],
         UNCHANGED <<sent, heap>>,
         \A g \in Fd : HungUp(g) \in batch' => HungUp(g) \in batch /\ g # fd
  PROVE  Served'
<1> DEFINE c == fdOf[fd]
<1>1. rrMap[fd] # NoRecord
  BY ClientAssumption, DeviceAssumption DEF Matched
<1>2. /\ fdOf' = [fdOf EXCEPT ![fd] = NoClient]
      /\ alive' = alive \ {rrMap[fd]} /\ edge' = edge \ {Input(fd), HungUp(fd)}
  BY <1>1 DEF CloseConnection
<1>3. /\ fdOf \in [Fd -> Client \union {NoClient, Device}] /\ NoClient \notin Client
      /\ client \in [Client -> {"new", "waiting", "left", "open", "gone", "done"}]
  BY ClientAssumption DEF TypeOK, DescriptorsOK, ClientsOK
<1>4. ReadWasSent'
  BY <1>2 DEF Served, ReadWasSent
<1>5. LeftEarly'
  BY <1>3 DEF Served, LeftEarly
<1>6. \A g \in Fd : fdOf'[g] \in Client => g # fd /\ fdOf'[g] = fdOf[g] /\ fdOf[g] # c
  BY <1>2, <1>3 DEF Served, OneDescriptor
<1>7. OpenIsServed'
  BY <1>3, <1>6 DEF Served, OpenIsServed
<1>8. OneDescriptor'
  BY <1>6 DEF Served, OneDescriptor
<1>9. HungUpIsGone'
  <2> SUFFICES ASSUME NEW g \in Fd, HungUp(g) \in (edge \union batch)'
               PROVE  fdOf'[g] \in Client /\ client'[fdOf'[g]] = "gone"
    BY DEF HungUpIsGone
  <2>1. HungUp(g) \in edge \union batch /\ g # fd
    BY <1>2
  <2>2. fdOf[g] \in Client /\ client[fdOf[g]] = "gone" /\ fdOf[g] # c
    BY <2>1 DEF Served, HungUpIsGone, OneDescriptor
  <2>3. QED
    BY <1>2, <1>3, <2>1, <2>2
<1>10. QED
  BY <1>4, <1>5, <1>7, <1>8, <1>9 DEF Served

(* Nothing that the tables or clients depend on is touched, but for the    *)
(* reading of a record whose request was sent.                             *)
LEMMA ServedSame ==
  ASSUME Served, UNCHANGED <<client, sent, fdOf, alive>>,
         \A fd \in Fd : HungUp(fd) \in (edge \union batch)' => HungUp(fd) \in edge \union batch,
         \A a \in alive : heap'[a].client = heap[a].client /\
                          (heap'[a].rx = "done" => heap[a].rx = "done" \/ sent[heap[a].client] = "all")
  PROVE  Served'
<1>1. ReadWasSent'
  BY DEF Served, ReadWasSent
<1>2. LeftEarly' /\ OpenIsServed' /\ OneDescriptor'
  BY DEF Served, LeftEarly, OpenIsServed, OneDescriptor
<1>3. HungUpIsGone'
  BY DEF Served, HungUpIsGone
<1>4. QED
  BY <1>1, <1>2, <1>3 DEF Served

(* What comes first in a queue is in its place.                            *)
LEMMA FirstIsHeld ==
  ASSUME TypeOK
  PROVE  /\ requestQ # <<>> => Head(requestQ) \in Held["request"]
         /\ ticketQ # <<>> => Head(ticketQ) \in Held["ticket"]
         /\ proxyQ # <<>> => Head(proxyQ) \in Held["proxied"]
         /\ responseQ # <<>> => Head(responseQ) \in Held["response"]
<1>1. ASSUME NEW q \in Seq(Addr), q # <<>> PROVE Head(q) \in Holds(q)
  <2>1. Head(q) = q[1] /\ 1 \in DOMAIN q
    BY <1>1
  <2>2. QED
    BY <2>1 DEF Holds
<1>2. QED
  BY <1>1 DEF Held, Place, TypeOK, QueuesOK

LEMMA ServedAccept ==
  ASSUME TypeOK, Matched, Served, NEW c \in Client, NEW fd \in Fd, NEW a \in Addr, AcceptClient(c, fd, a)
  PROVE  Served'
<1>1. /\ client[c] \in {"waiting", "left"} /\ fdOf[fd] = NoClient /\ a \notin alive
      /\ client' = [client EXCEPT ![c] = IF client[c] = "left" THEN "gone" ELSE "open"]
      /\ fdOf' = [fdOf EXCEPT ![fd] = c] /\ alive' = alive \union {a}
      /\ heap' = [heap EXCEPT ![a] = Fresh(c, fd)]
      /\ UNCHANGED <<sent, batch>>
  BY DEF AcceptClient
<1>2. \A g \in Fd : HungUp(g) \in edge' => HungUp(g) \in edge \/ (g = fd /\ client[c] = "left")
  BY EventsDiffer DEF AcceptClient
<1>3. /\ fdOf \in [Fd -> Client \union {NoClient, Device}] /\ NoClient \notin Client
      /\ client \in [Client -> {"new", "waiting", "left", "open", "gone", "done"}]
      /\ heap \in [Addr -> Record] /\ alive \subseteq Addr
  BY ClientAssumption DEF TypeOK, DescriptorsOK, ClientsOK, HeapOK
<1>4. \A g \in Fd : fdOf[g] # c
  BY <1>1 DEF Served, OpenIsServed
<1>5. ReadWasSent'
  <2>1. heap'[a].rx = "reading" /\ \A b \in alive : heap'[b] = heap[b]
    BY <1>1, <1>3 DEF Fresh
  <2>2. QED
    BY <1>1, <2>1 DEF Served, ReadWasSent
<1>6. LeftEarly'
  BY <1>1, <1>3 DEF Served, LeftEarly
<1>7. OpenIsServed'
  BY <1>1, <1>3, <1>4 DEF Served, OpenIsServed
<1>8. OneDescriptor'
  BY <1>1, <1>3, <1>4 DEF Served, OneDescriptor
<1>9. HungUpIsGone'
  <2> SUFFICES ASSUME NEW g \in Fd, HungUp(g) \in (edge \union batch)'
               PROVE  fdOf'[g] \in Client /\ client'[fdOf'[g]] = "gone"
    BY DEF HungUpIsGone
  <2>1. CASE g = fd /\ client[c] = "left"
    BY <1>1, <1>3, <2>1
  <2>2. CASE HungUp(g) \in edge \union batch
    <3>1. fdOf[g] \in Client /\ client[fdOf[g]] = "gone" /\ g # fd
      BY <1>1, <1>3, <2>2 DEF Served, HungUpIsGone
    <3>2. QED
      BY <1>1, <1>3, <1>4, <3>1
  <2>3. QED
    BY <1>1, <1>2, <2>1, <2>2
<1>10. QED
  BY <1>5, <1>6, <1>7, <1>8, <1>9 DEF Served

(* A record about to be answered is an open client's.                      *)
LEMMA OwedToOpen ==
  ASSUME TypeOK, Matched, Served, NEW a \in alive, heap[a].rx = "done"
  PROVE  client[heap[a].client] = "open"
<1>1. fdOf[heap[a].fd] = heap[a].client /\ heap[a].fd \in Fd /\ heap[a].client \in Client
  BY MatchedFinds
<1>2. QED
  BY <1>1 DEF Served, ReadWasSent, LeftEarly, OpenIsServed

LEMMA ServedStep ==
  ASSUME TypeOK, Matched, Kept, Served, Orderly, Orderly', [Next]_vars
  PROVE  Served'
<1> DEFINE Quiet == \A fd \in Fd : HungUp(fd) \in (edge \union batch)' => HungUp(fd) \in edge \union batch
<1>1. CASE UNCHANGED <<client, sent, fdOf, alive, heap>> /\ Quiet
  BY <1>1, ServedSame
<1>2. /\ fdOf \in [Fd -> Client \union {NoClient, Device}] /\ NoClient \notin Client
      /\ client \in [Client -> {"new", "waiting", "left", "open", "gone", "done"}]
      /\ sent \in [Client -> {"none", "part", "all"}]
      /\ heap \in [Addr -> Record] /\ alive \subseteq Addr
  BY ClientAssumption DEF TypeOK, DescriptorsOK, ClientsOK, HeapOK
<1>3. CASE Clients
  <2>1. ASSUME NEW c \in Client, Connect(c) PROVE Served'
    <3>1. /\ client' = [client EXCEPT ![c] = "waiting"] /\ client[c] = "new" /\ Quiet
          /\ UNCHANGED <<sent, fdOf, alive, heap, batch>>
      BY <2>1, EventsDiffer DEF Connect, sinkVars
    <3>2. ReadWasSent' /\ LeftEarly' /\ OneDescriptor'
      BY <1>2, <3>1 DEF Served, ReadWasSent, LeftEarly, OneDescriptor
    <3>3. OpenIsServed' /\ HungUpIsGone'
      BY <1>2, <3>1 DEF Served, OpenIsServed, HungUpIsGone
    <3>4. QED
      BY <3>2, <3>3 DEF Served
  <2>2. ASSUME NEW c \in Client, NEW much \in {"part", "all"}, SendData(c, much) PROVE Served'
    <3>1. /\ sent' = [sent EXCEPT ![c] = much] /\ client[c] \in {"waiting", "open"} /\ (sent[c] = "all" => much = "all")
          /\ UNCHANGED <<client, fdOf, alive, heap, batch>>
      BY <2>2 DEF SendData, sinkVars
    <3>2. Quiet
      BY <2>2, <3>1, EventsDiffer DEF SendData
    <3>3. \A d \in Client : sent[d] = "all" => sent'[d] = "all"
      BY <1>2, <3>1
    <3>4. \A a \in alive : heap[a].client \in Client
      BY <1>2, Records DEF TypeOK
    <3>5. ReadWasSent'
      BY <3>1, <3>3, <3>4 DEF Served, ReadWasSent
    <3>6. LeftEarly' /\ OneDescriptor' /\ OpenIsServed' /\ HungUpIsGone'
      BY <1>2, <3>1, <3>2 DEF Served, LeftEarly, OneDescriptor, OpenIsServed, HungUpIsGone
    <3>7. QED
      BY <3>5, <3>6 DEF Served
  <2>3. ASSUME NEW c \in Client, HangUp(c) PROVE Served'
    <3>1. /\ client[c] \in {"waiting", "open"} /\ client' = [client EXCEPT ![c] = IF client[c] = "open" THEN "gone" ELSE "left"]
          /\ edge' = edge \union {HungUp(fd) : fd \in Descriptors(c)} /\ UNCHANGED <<sent, fdOf, alive, heap, batch>>
      BY <2>3 DEF HangUp, sinkVars
    <3>2. sent[c] # "all"
      BY <2>3 DEF HangUp, Orderly
    <3>3. \A fd \in Fd : HungUp(fd) \in edge' => HungUp(fd) \in edge \/ fdOf[fd] = c
      BY <3>1, EventsDiffer DEF Descriptors
    <3>4. \A fd \in Fd : fdOf[fd] = c => client[c] = "open"
      BY <3>1 DEF Served, OpenIsServed
    <3>5. ReadWasSent' /\ LeftEarly' /\ OneDescriptor'
      BY <1>2, <3>1, <3>2 DEF Served, ReadWasSent, LeftEarly, OneDescriptor
    <3>6. OpenIsServed'
      BY <1>2, <3>1, <3>4 DEF Served, OpenIsServed
    <3>7. HungUpIsGone'
      BY <1>2, <3>1, <3>3, <3>4 DEF Served, HungUpIsGone
    <3>8. QED
      BY <3>5, <3>6, <3>7 DEF Served
  <2>4. QED
    BY <1>3, <2>1, <2>2, <2>3 DEF Clients
<1>4. CASE Sink
  <2>1. ASSUME NEW c \in Client, NEW fd \in Fd, NEW a \in Addr, AcceptClient(c, fd, a) PROVE Served'
    BY <2>1, ServedAccept
  <2>2. ASSUME NEW fd \in Fd, CloseOnHangUp(fd) PROVE Served'
    <3>1. fdOf[fd] \in Client
      BY <2>2 DEF CloseOnHangUp, Served, HungUpIsGone
    <3>2. \A g \in Fd : HungUp(g) \in batch' => HungUp(g) \in batch /\ g # fd
      BY <2>2 DEF CloseOnHangUp
    <3>3. QED
      BY <2>2, <3>1, <3>2, ServedClose DEF CloseOnHangUp
  <2>3. CASE SendResponse
    <3> DEFINE a == Head(responseQ)
               fd == heap[a].fd
    <3>1. a \in alive /\ heap[a].rx = "done"
      BY <2>3, FirstIsHeld DEF SendResponse, Kept, Place
    <3>2. fd \in Fd /\ fdOf[fd] = heap[a].client /\ heap[a].client \in Client /\ client[fdOf[fd]] = "open"
      BY <3>1, MatchedFinds, OwedToOpen
    <3>3. HungUp(fd) \notin batch
      BY <3>2 DEF Served, HungUpIsGone
    <3>4. \A g \in Fd : HungUp(g) \in batch' => HungUp(g) \in batch /\ g # fd
      BY <2>3, <3>3 DEF SendResponse
    <3>5. /\ CloseConnection(fd) /\ UNCHANGED <<sent, heap>>
          /\ client' = [c \in Client |-> IF c = fdOf[fd] THEN "done" ELSE client[c]]
      BY <2>3 DEF SendResponse
    <3>6. fd \in Fd /\ fdOf[fd] \in Client
      BY <3>2
    <3> HIDE DEF fd
    <3>7. QED
      BY <3>4, <3>5, <3>6, ServedClose
  <2>4. ASSUME NEW fd \in Fd, ProcessRequest(fd) PROVE Served'
    <3>1. UNCHANGED <<client, sent, fdOf, alive, edge>> /\ batch' \subseteq batch
      BY <2>4 DEF ProcessRequest, clientVars
    <3>2. CASE heap' = heap
      BY <1>1, <3>1, <3>2
    <3>3. CASE heap' # heap
      <4> DEFINE a == rrMap[fd]
      <4>1. PICK rx : heap' = [heap EXCEPT ![a] = Parsed(a, rx)] /\ (rx = "done" => sent[heap[a].client] = "all")
        BY <2>4, <3>3 DEF ProcessRequest
      <4>2. \A b \in alive : heap'[b].client = heap[b].client /\
                             (heap'[b].rx = "done" => heap[b].rx = "done" \/ sent[heap[b].client] = "all")
        BY <1>2, <4>1 DEF Parsed
      <4>3. QED
        BY <3>1, <4>2, ServedSame
    <3>4. QED
      BY <3>2, <3>3
  <2>5. CASE CloseStreams
    <3>1. /\ closing \in Fd /\ fdOf' = [fdOf EXCEPT ![closing] = NoClient]
          /\ UNCHANGED <<client, sent, alive, heap, edge, batch>>
      BY <2>5 DEF CloseStreams, clientVars, TypeOK, DescriptorsOK
    <3>2. fdOf' = fdOf
      BY <1>2, <3>1, DeviceAssumption DEF Matched
    <3>3. QED
      BY <1>1, <3>1, <3>2
  <2>6. CASE EpollWait
    BY <1>1, <2>6 DEF EpollWait, clientVars
  <2>7. CASE AcceptDone \/ SendSpins \/ ResponsesDone
    BY <1>1, <2>7 DEF AcceptDone, SendSpins, ResponsesDone, clientVars
  <2>8. QED
    BY <1>4, <2>1, <2>2, <2>3, <2>4, <2>5, <2>6, <2>7 DEF Sink
<1>5. CASE Main
  <2>1. CASE edge' = edge \union {Responses} /\ UNCHANGED <<client, sent, fdOf, alive, heap, batch>>
    BY <1>1, <2>1, EventsDiffer
  <2>2. CASE AnswerLocal
    <3>1. /\ heap' = [heap EXCEPT ![mainReq] = Answering(mainReq, mainFor)] /\ edge' = edge \union {Responses}
          /\ UNCHANGED <<client, sent, fdOf, alive, batch>>
      BY <2>2 DEF AnswerLocal, PostResponse, clientVars, sinkVars
    <3>2. QED
      BY <1>2, <3>1, EventsDiffer, ServedSame DEF Answering
  <2>3. QED
    BY <1>1, <1>5, <2>1, <2>2
       DEF Main, PassToProxy, HandleLocal, LocalSpins, ReturnProxied, PostResponse, clientVars, sinkVars
<1>6. CASE Proxy
  <2>1. CASE FinishExchange
    <3>1. /\ heap' = [heap EXCEPT ![proxyReq] = Answering(proxyReq, proxyFor)]
          /\ UNCHANGED <<client, sent, fdOf, alive, batch, edge>>
      BY <2>1 DEF FinishExchange, clientVars, sinkVars
    <3>2. QED
      BY <1>2, <3>1, ServedSame DEF Answering
  <2>2. QED
    BY <1>1, <1>6, <2>1 DEF Proxy, TakeTicket, ExchangeFails, clientVars, sinkVars
<1>7. ASSUME NEW fd \in Fd, OpenSession(fd) PROVE Served'
  <2>1. /\ fdOf[fd] = NoClient /\ fdOf' = [fdOf EXCEPT ![fd] = Device]
        /\ UNCHANGED <<client, sent, alive, heap, edge, batch>>
    BY <1>7 DEF OpenSession, clientVars
  <2>2. \A g \in Fd : fdOf[g] \in Client => g # fd /\ fdOf'[g] = fdOf[g]
    BY <1>2, <2>1
  <2>3. \A g \in Fd : fdOf'[g] \in Client => fdOf'[g] = fdOf[g]
    BY <1>2, <2>1, DeviceAssumption
  <2>4. ReadWasSent' /\ LeftEarly'
    BY <2>1 DEF Served, ReadWasSent, LeftEarly
  <2>5. OpenIsServed' /\ OneDescriptor'
    BY <2>1, <2>3 DEF Served, OpenIsServed, OneDescriptor
  <2>6. HungUpIsGone'
    BY <2>1, <2>2 DEF Served, HungUpIsGone
  <2>7. QED
    BY <2>4, <2>5, <2>6 DEF Served
<1>8. CASE CloseSession
  <2>1. /\ session \in Fd /\ fdOf' = [fdOf EXCEPT ![session] = NoClient]
        /\ client' = [c \in Client |-> IF c = fdOf[session] THEN "done" ELSE client[c]]
        /\ edge' \subseteq edge /\ UNCHANGED <<sent, alive, heap, batch>>
    BY <1>8 DEF CloseSession, TypeOK, DescriptorsOK
  <2>2. fdOf[session] = Device /\ client' = client
    BY <1>2, <1>8, <2>1, DeviceAssumption DEF Matched, CloseSession
  <2>3. \A g \in Fd : fdOf[g] \in Client => g # session /\ fdOf'[g] = fdOf[g]
    BY <1>2, <2>1, <2>2, DeviceAssumption
  <2>4. \A g \in Fd : fdOf'[g] \in Client => fdOf'[g] = fdOf[g]
    BY <1>2, <2>1
  <2>5. ReadWasSent' /\ LeftEarly'
    BY <2>1, <2>2 DEF Served, ReadWasSent, LeftEarly
  <2>6. OpenIsServed' /\ OneDescriptor'
    BY <2>1, <2>2, <2>4 DEF Served, OpenIsServed, OneDescriptor
  <2>7. HungUpIsGone'
    BY <2>1, <2>2, <2>3 DEF Served, HungUpIsGone
  <2>8. QED
    BY <2>5, <2>6, <2>7 DEF Served
<1>9. CASE UNCHANGED vars
  BY <1>1, <1>9 DEF vars, clientVars, sinkVars
<1>10. QED
  BY <1>3, <1>4, <1>5, <1>6, <1>7, <1>8, <1>9 DEF Next, Sessions

-----------------------------------------------------------------------------
(* The places. A step takes at most one record to one place, where no      *)
(* other place has it any more.                                            *)

LEMMA StaysApart ==
  ASSUME Apart, NEW x, NEW to \in Place,
         \A p \in Place : Held'[p] \subseteq Held[p] \union {x},
         \A p \in Place : p # to => x \notin Held'[p]
  PROVE  Apart'
  BY DEF Apart

LEMMA StaysKept ==
  ASSUME Kept, \A p \in Place : Held'[p] \subseteq Held[p],
         \A p \in Place : \A a \in Held[p] : a \in alive' /\ heap'[a].rx = heap[a].rx
  PROVE  Kept'
  BY DEF Kept

(* No place is touched.                                                    *)
LEMMA StaysHeld ==
  ASSUME UNCHANGED <<requestQ, ticketQ, proxyQ, responseQ, mainReq, proxyReq>>,
         mainPC' = mainPC \/ (mainPC # "idle" /\ mainPC' # "idle"),
         proxyPC' = proxyPC \/ ({proxyPC, proxyPC'} \subseteq {"exchanging", "stuck"})
  PROVE  Held' = Held /\ (Queued => Queued')
<1>1. Held' = Held
  BY DEF Held
<1>2. Queued => Queued'
  BY DEF Queued
<1>3. QED
  BY <1>1, <1>2

(* A record goes from the one place to the other.                          *)
LEMMA Moves ==
  ASSUME Kept, Apart, NEW x, NEW from \in Place, NEW to \in Place, from # to, x \in Held[from],
         Held'[from] \subseteq Held[from] \ {x}, Held'[to] \subseteq Held[to] \union {x},
         \A p \in Place \ {from, to} : Held'[p] \subseteq Held[p],
         alive' = alive, \A a \in Addr : heap'[a].rx = heap[a].rx, alive \subseteq Addr
  PROVE  Kept' /\ Apart'
<1>1. \A p \in Place : p # from => x \notin Held[p]
  BY DEF Apart
<1>2. Apart'
  BY <1>1, StaysApart
<1>3. x \in alive /\ heap'[x].rx = "done"
  BY DEF Kept
<1>4. Kept'
  BY <1>3 DEF Kept
<1>5. QED
  BY <1>2, <1>4

LEMMA HeldStep ==
  ASSUME TypeOK, Matched, Queued, Kept, Apart, Served, Orderly, Orderly', [Next]_vars
  PROVE  Queued' /\ Kept' /\ Apart'
<1> DEFINE Goal == Queued' /\ Kept' /\ Apart'
<1> USE DEF Place
<1>0. /\ requestQ \in Seq(Addr) /\ ticketQ \in Seq(Addr) /\ proxyQ \in Seq(Addr) /\ responseQ \in Seq(Addr)
      /\ heap \in [Addr -> Record] /\ alive \subseteq Addr /\ rrMap \in [Fd -> Addr \union {NoRecord}]
      /\ \A p \in Place : Held[p] \subseteq alive
  BY DEF TypeOK, QueuesOK, HeapOK, DescriptorsOK, Kept
<1>1. ASSUME Held' = Held, Queued', \A a \in alive : a \in alive' /\ heap'[a].rx = heap[a].rx PROVE Goal
  BY <1>0, <1>1 DEF Kept, Apart
<1>2. ASSUME UNCHANGED <<queueVars, mainVars, proxyVars>>,
             \A p \in Place : \A a \in Held[p] : a \in alive' /\ heap'[a].rx = heap[a].rx
      PROVE  Goal
  <2>1. Held' = Held /\ Queued'
    BY <1>2, StaysHeld DEF queueVars, mainVars, proxyVars
  <2>2. QED
    BY <1>2, <2>1 DEF Kept, Apart
<1>3. CASE Clients
  BY <1>0, <1>2, <1>3 DEF Clients, Connect, SendData, HangUp, sinkVars
<1>4. CASE Sink
  <2>1. ASSUME NEW c \in Client, NEW fd \in Fd, NEW a \in Addr, AcceptClient(c, fd, a) PROVE Goal
    <3>1. a \notin alive /\ alive' = alive \union {a} /\ heap' = [heap EXCEPT ![a] = Fresh(c, fd)]
          /\ UNCHANGED <<queueVars, mainVars, proxyVars>>
      BY <2>1 DEF AcceptClient
    <3>2. \A b \in alive : b \in alive' /\ heap'[b].rx = heap[b].rx
      BY <1>0, <3>1
    <3>3. QED
      BY <1>0, <1>2, <3>1, <3>2
  <2>2. ASSUME NEW fd \in Fd, CloseOnHangUp(fd) PROVE Goal
    <3>1. fdOf[fd] \in Client /\ client[fdOf[fd]] = "gone"
      BY <2>2 DEF CloseOnHangUp, Served, HungUpIsGone
    <3>2. rrMap[fd] # NoRecord
      BY <3>1, ClientAssumption, DeviceAssumption DEF Matched
    <3>3. rrMap[fd] \in alive /\ heap[rrMap[fd]].client = fdOf[fd]
      BY <3>2, MatchedApart DEF Matched
    <3>4. heap[rrMap[fd]].rx # "done"
      BY <3>1, <3>3 DEF Served, ReadWasSent, LeftEarly
    <3>5. alive' = alive \ {rrMap[fd]} /\ UNCHANGED <<heap, queueVars, mainVars, proxyVars>>
      BY <2>2, <3>2 DEF CloseOnHangUp, CloseConnection
    <3>6. QED
      BY <1>2, <3>4, <3>5 DEF Kept
  <2>3. ASSUME NEW fd \in Fd, ProcessRequest(fd) PROVE Goal
    <3> DEFINE a == rrMap[fd]
    <3>1. UNCHANGED <<alive, mainVars, proxyVars, ticketQ, proxyQ, responseQ>>
      BY <2>3 DEF ProcessRequest
    <3>2. CASE UNCHANGED <<heap, requestQ>>
      BY <1>0, <1>2, <3>1, <3>2 DEF queueVars
    <3>3. CASE ~UNCHANGED <<heap, requestQ>>
      <4>1. a # NoRecord /\ heap[a].rx # "done"
        BY <2>3, <3>3 DEF ProcessRequest, Reads
      <4>2. a \in alive /\ a \in Addr /\ \A p \in Place : a \notin Held[p]
        BY <4>1, MatchedApart DEF Kept
      <4>3. PICK rx \in {"reading", "done", "error"} :
              /\ heap' = [heap EXCEPT ![a] = Parsed(a, rx)]
              /\ requestQ' = IF rx = "done" THEN Append(requestQ, a) ELSE requestQ
        BY <2>3, <3>3 DEF ProcessRequest
      <4>4. heap'[a].rx = rx /\ \A b \in Addr : b # a => heap'[b].rx = heap[b].rx
        BY <1>0, <4>2, <4>3 DEF Parsed
      <4>5. CASE rx # "done"
        BY <1>0, <1>2, <3>1, <4>2, <4>3, <4>4, <4>5 DEF queueVars
      <4>6. CASE rx = "done"
        <5>1. a \notin Holds(requestQ)
          BY <4>2 DEF Held
        <5>2. Once(requestQ') /\ Holds(requestQ') = Holds(requestQ) \union {a}
          BY <1>0, <4>2, <4>3, <4>6, <5>1, PutLast DEF Queued
        <5>3. Queued'
          BY <3>1, <5>2 DEF Queued
        <5>4. /\ Held'["request"] = Held["request"] \union {a}
              /\ \A p \in Place : p # "request" => Held'[p] = Held[p]
          BY <3>1, <5>2 DEF Held, mainVars, proxyVars
        <5>5. Apart'
          BY <4>2, <5>4, StaysApart
        <5>6. Kept'
          BY <1>0, <3>1, <4>2, <4>4, <4>6, <5>4 DEF Kept
        <5>7. QED
          BY <5>3, <5>5, <5>6
      <4>7. QED
        BY <4>5, <4>6
    <3>4. QED
      BY <3>2, <3>3
  <2>4. CASE SendResponse
    <3> DEFINE a == Head(responseQ)
               fd == heap[a].fd
    <3>1. responseQ # <<>> /\ responseQ' = Tail(responseQ) /\ CloseConnection(fd)
          /\ UNCHANGED <<heap, requestQ, ticketQ, proxyQ, mainVars, proxyVars>>
      BY <2>4 DEF SendResponse
    <3>2. a \in Held["response"]
      BY <3>1, FirstIsHeld
    <3>3. rrMap[fd] = a /\ a # NoRecord
      BY <1>0, <3>2, MatchedFinds
    <3>4. alive' = alive \ {a}
      BY <3>1, <3>3 DEF CloseConnection
    <3>5. Once(responseQ') /\ Holds(responseQ') = Holds(responseQ) \ {a}
      BY <1>0, <3>1, TakenHead DEF Queued
    <3>6. Held'["response"] = Held["response"] \ {a} /\ \A p \in Place : p # "response" => Held'[p] = Held[p]
      BY <3>1, <3>5 DEF Held, mainVars, proxyVars
    <3>7. \A p \in Place : p # "response" => a \notin Held[p]
      BY <3>2 DEF Apart
    <3>8. Apart'
      BY <3>6 DEF Apart
    <3>9. Kept'
      BY <3>1, <3>4, <3>6, <3>7 DEF Kept
    <3>10. Queued'
      BY <3>1, <3>5 DEF Queued
    <3>11. QED
      BY <3>8, <3>9, <3>10
  <2>5. CASE EpollWait \/ AcceptDone \/ SendSpins \/ ResponsesDone \/ CloseStreams
    BY <1>0, <1>2, <2>5 DEF EpollWait, AcceptDone, SendSpins, ResponsesDone, CloseStreams
  <2>6. QED
    BY <1>4, <2>1, <2>2, <2>3, <2>4, <2>5 DEF Sink
<1>5. CASE Main
  <2>1. alive' = alive /\ UNCHANGED proxyVars
    BY <1>5 DEF Main, PassToProxy, HandleLocal, AnswerLocal, LocalSpins, ReturnProxied, sinkVars
  <2>2. CASE PassToProxy
    <3> DEFINE a == Head(requestQ)
    <3>1. /\ requestQ # <<>> /\ requestQ' = Tail(requestQ) /\ ticketQ' = Append(ticketQ, a)
          /\ UNCHANGED <<heap, mainVars, proxyQ, responseQ>>
      BY <2>2 DEF PassToProxy
    <3>2. a \in Held["request"] /\ a \notin Holds(ticketQ) /\ a \in Addr
      BY <1>0, <3>1, FirstIsHeld DEF Apart, Held
    <3>3. Once(requestQ') /\ Holds(requestQ') = Holds(requestQ) \ {a}
      BY <1>0, <3>1, TakenHead DEF Queued
    <3>4. Once(ticketQ') /\ Holds(ticketQ') = Holds(ticketQ) \union {a}
      BY <1>0, <3>1, <3>2, PutLast DEF Queued
    <3>5. /\ Held'["request"] = Held["request"] \ {a} /\ Held'["ticket"] = Held["ticket"] \union {a}
          /\ \A p \in Place \ {"request", "ticket"} : Held'[p] = Held[p]
      BY <2>1, <3>1, <3>3, <3>4 DEF Held, mainVars, proxyVars
    <3>6. Queued'
      BY <3>1, <3>3, <3>4 DEF Queued
    <3>7. QED
      BY <1>0, <2>1, <3>1, <3>2, <3>5, <3>6, Moves
  <2>3. CASE HandleLocal
    <3> DEFINE a == Head(requestQ)
    <3>1. /\ requestQ # <<>> /\ requestQ' = Tail(requestQ) /\ mainPC = "idle" /\ mainPC' = "handling" /\ mainReq' = a
          /\ UNCHANGED <<heap, ticketQ, proxyQ, responseQ>>
      BY <2>3 DEF HandleLocal
    <3>2. a \in Held["request"]
      BY <3>1, FirstIsHeld
    <3>3. Once(requestQ') /\ Holds(requestQ') = Holds(requestQ) \ {a}
      BY <1>0, <3>1, TakenHead DEF Queued
    <3>4. /\ Held'["request"] = Held["request"] \ {a} /\ Held'["main"] = Held["main"] \union {a}
          /\ \A p \in Place \ {"request", "main"} : Held'[p] = Held[p]
      BY <2>1, <3>1, <3>3 DEF Held, proxyVars
    <3>5. Queued'
      BY <3>1, <3>3 DEF Queued
    <3>6. QED
      BY <1>0, <2>1, <3>1, <3>2, <3>4, <3>5, Moves
  <2>4. CASE AnswerLocal
    <3>1. /\ mainPC = "handling" /\ mainPC' = "idle" /\ responseQ' = Append(responseQ, mainReq)
          /\ heap' = [heap EXCEPT ![mainReq] = Answering(mainReq, mainFor)]
          /\ UNCHANGED <<requestQ, ticketQ, proxyQ>>
      BY <2>4 DEF AnswerLocal, PostResponse
    <3>2. mainReq \in Held["main"]
      BY <3>1 DEF Held
    <3>3. mainReq \notin Holds(responseQ) /\ mainReq \in Addr
      BY <1>0, <3>2 DEF Apart, Held
    <3>4. Once(responseQ') /\ Holds(responseQ') = Holds(responseQ) \union {mainReq}
      BY <1>0, <3>1, <3>3, PutLast DEF Queued
    <3>5. /\ Held'["main"] = Held["main"] \ {mainReq} /\ Held'["response"] = Held["response"] \union {mainReq}
          /\ \A p \in Place \ {"main", "response"} : Held'[p] = Held[p]
      BY <2>1, <3>1, <3>4 DEF Held, proxyVars
    <3>6. \A b \in Addr : heap'[b].rx = heap[b].rx
      BY <1>0, <3>1 DEF Answering
    <3>7. Queued'
      BY <3>1, <3>4 DEF Queued
    <3>8. QED
      BY <1>0, <2>1, <3>2, <3>5, <3>6, <3>7, Moves
  <2>5. CASE LocalSpins
    <3>1. /\ mainPC = "handling" /\ mainPC' = "stuck" /\ UNCHANGED <<mainReq, heap, proxyPC, proxyReq, requestQ, ticketQ, proxyQ, responseQ>>
      BY <2>1, <2>5 DEF LocalSpins, proxyVars, queueVars
    <3>2. Held' = Held /\ Queued'
      BY <3>1, StaysHeld
    <3>3. QED
      BY <1>1, <2>1, <3>1, <3>2
  <2>6. CASE ReturnProxied
    <3> DEFINE a == Head(proxyQ)
    <3>1. /\ proxyQ # <<>> /\ proxyQ' = Tail(proxyQ) /\ responseQ' = Append(responseQ, a)
          /\ UNCHANGED <<heap, mainVars, requestQ, ticketQ>>
      BY <2>6 DEF ReturnProxied, PostResponse
    <3>2. a \in Held["proxied"] /\ a \notin Holds(responseQ) /\ a \in Addr
      BY <1>0, <3>1, FirstIsHeld DEF Apart, Held
    <3>3. Once(proxyQ') /\ Holds(proxyQ') = Holds(proxyQ) \ {a}
      BY <1>0, <3>1, TakenHead DEF Queued
    <3>4. Once(responseQ') /\ Holds(responseQ') = Holds(responseQ) \union {a}
      BY <1>0, <3>1, <3>2, PutLast DEF Queued
    <3>5. /\ Held'["proxied"] = Held["proxied"] \ {a} /\ Held'["response"] = Held["response"] \union {a}
          /\ \A p \in Place \ {"proxied", "response"} : Held'[p] = Held[p]
      BY <2>1, <3>1, <3>3, <3>4 DEF Held, mainVars, proxyVars
    <3>6. Queued'
      BY <3>1, <3>3, <3>4 DEF Queued
    <3>7. QED
      BY <1>0, <2>1, <3>1, <3>2, <3>5, <3>6, Moves
  <2>7. QED
    BY <1>5, <2>2, <2>3, <2>4, <2>5, <2>6 DEF Main
<1>6. CASE Proxy
  <2>1. alive' = alive /\ UNCHANGED mainVars
    BY <1>6 DEF Proxy, TakeTicket, FinishExchange, ExchangeFails, sinkVars
  <2>2. CASE TakeTicket
    <3> DEFINE a == Head(ticketQ)
    <3>1. /\ ticketQ # <<>> /\ ticketQ' = Tail(ticketQ) /\ proxyPC = "idle" /\ proxyPC' = "exchanging" /\ proxyReq' = a
          /\ UNCHANGED <<heap, requestQ, proxyQ, responseQ>>
      BY <2>2 DEF TakeTicket
    <3>2. a \in Held["ticket"]
      BY <3>1, FirstIsHeld
    <3>3. Once(ticketQ') /\ Holds(ticketQ') = Holds(ticketQ) \ {a}
      BY <1>0, <3>1, TakenHead DEF Queued
    <3>4. /\ Held'["ticket"] = Held["ticket"] \ {a} /\ Held'["proxy"] = Held["proxy"] \union {a}
          /\ \A p \in Place \ {"ticket", "proxy"} : Held'[p] = Held[p]
      BY <2>1, <3>1, <3>3 DEF Held, mainVars
    <3>5. Queued'
      BY <3>1, <3>3 DEF Queued
    <3>6. QED
      BY <1>0, <2>1, <3>1, <3>2, <3>4, <3>5, Moves
  <2>3. CASE FinishExchange
    <3>1. /\ proxyPC = "exchanging" /\ proxyPC' = "idle" /\ proxyQ' = Append(proxyQ, proxyReq)
          /\ heap' = [heap EXCEPT ![proxyReq] = Answering(proxyReq, proxyFor)]
          /\ UNCHANGED <<requestQ, ticketQ, responseQ>>
      BY <2>3 DEF FinishExchange
    <3>2. proxyReq \in Held["proxy"]
      BY <3>1 DEF Held
    <3>3. proxyReq \notin Holds(proxyQ) /\ proxyReq \in Addr
      BY <1>0, <3>2 DEF Apart, Held
    <3>4. Once(proxyQ') /\ Holds(proxyQ') = Holds(proxyQ) \union {proxyReq}
      BY <1>0, <3>1, <3>3, PutLast DEF Queued
    <3>5. /\ Held'["proxy"] = Held["proxy"] \ {proxyReq} /\ Held'["proxied"] = Held["proxied"] \union {proxyReq}
          /\ \A p \in Place \ {"proxy", "proxied"} : Held'[p] = Held[p]
      BY <2>1, <3>1, <3>4 DEF Held, mainVars
    <3>6. \A b \in Addr : heap'[b].rx = heap[b].rx
      BY <1>0, <3>1 DEF Answering
    <3>7. Queued'
      BY <3>1, <3>4 DEF Queued
    <3>8. QED
      BY <1>0, <2>1, <3>2, <3>5, <3>6, <3>7, Moves
  <2>4. CASE ExchangeFails
    <3>1. /\ proxyPC = "exchanging" /\ proxyPC' \in {"dead", "stuck"}
          /\ UNCHANGED <<heap, proxyReq, mainPC, mainReq, requestQ, ticketQ, proxyQ, responseQ>>
      BY <2>1, <2>4 DEF ExchangeFails, mainVars, queueVars
    <3>2. \A p \in Place : Held'[p] \subseteq Held[p]
      BY <3>1 DEF Held
    <3>3. Queued' /\ Apart'
      BY <3>1, <3>2 DEF Queued, Apart
    <3>4. QED
      BY <1>0, <2>1, <3>1, <3>2, <3>3, StaysKept
  <2>5. QED
    BY <1>6, <2>2, <2>3, <2>4 DEF Proxy
<1>7. CASE Sessions
  BY <1>0, <1>2, <1>7 DEF Sessions, OpenSession, CloseSession
<1>8. CASE UNCHANGED vars
  BY <1>0, <1>2, <1>8 DEF vars, sinkVars
<1>9. QED
  BY <1>3, <1>4, <1>5, <1>6, <1>7, <1>8 DEF Next

-----------------------------------------------------------------------------
(* Whose answers they are.                                                 *)

LEMMA AnswersStep ==
  ASSUME TypeOK, Matched, Queued, Kept, Apart, Served, InHandFor, AnswersRight, Received,
         Orderly, Orderly', Queued', [Next]_vars
  PROVE  InHandFor' /\ AnswersRight' /\ Received'
<1> DEFINE Goal == InHandFor' /\ AnswersRight' /\ Received'
           Busy == {"exchanging", "stuck"}
<1> USE DEF Place
<1>0. /\ requestQ \in Seq(Addr) /\ ticketQ \in Seq(Addr) /\ proxyQ \in Seq(Addr) /\ responseQ \in Seq(Addr)
      /\ heap \in [Addr -> Record] /\ alive \subseteq Addr
      /\ client \in [Client -> {"new", "waiting", "left", "open", "gone", "done"}]
      /\ answers \in [Client -> Seq(Client \union {NoClient})]
      /\ \A p \in Place : Held[p] \subseteq alive
      /\ mainPC # "idle" => mainReq \in alive
      /\ proxyPC \in Busy => proxyReq \in alive
  <2>1. mainPC # "idle" => mainReq \in Held["main"]
    BY DEF Held
  <2>2. proxyPC \in Busy => proxyReq \in Held["proxy"]
    BY DEF Held
  <2>3. QED
    BY <2>1, <2>2 DEF TypeOK, QueuesOK, HeapOK, ClientsOK, Kept
<1>1. ASSUME UNCHANGED <<proxyQ, responseQ, mainVars, proxyVars>>,
             \A a \in alive : heap'[a].client = heap[a].client /\ heap'[a].ans = heap[a].ans
      PROVE  InHandFor' /\ AnswersRight'
  <2>1. Held'["proxied"] = Held["proxied"] /\ Held'["response"] = Held["response"]
    BY <1>1 DEF Held
  <2>2. AnswersRight'
    BY <1>0, <1>1, <2>1 DEF AnswersRight
  <2>3. InHandFor'
    BY <1>0, <1>1 DEF InHandFor, mainVars, proxyVars
  <2>4. QED
    BY <2>2, <2>3
<1>2. ASSUME answers' = answers, \A c \in Client : client[c] = "done" => client'[c] = "done"
      PROVE  Received'
  BY <1>2 DEF Received
<1>3. UNCHANGED <<client, answers>> => Received'
  BY <1>2
<1>4. CASE Clients
  <2>1. UNCHANGED <<proxyQ, responseQ, mainVars, proxyVars, heap, answers>>
    BY <1>4 DEF Clients, Connect, SendData, HangUp, queueVars
  <2>2. \A c \in Client : client[c] = "done" => client'[c] = "done"
    BY <1>0, <1>4 DEF Clients, Connect, SendData, HangUp
  <2>3. QED
    BY <1>1, <1>2, <2>1, <2>2
<1>5. CASE Sink
  <2>1. ASSUME NEW c \in Client, NEW fd \in Fd, NEW a \in Addr, AcceptClient(c, fd, a) PROVE Goal
    <3>1. /\ a \notin alive /\ heap' = [heap EXCEPT ![a] = Fresh(c, fd)]
          /\ UNCHANGED <<answers, proxyQ, responseQ, mainVars, proxyVars>>
      BY <2>1 DEF AcceptClient, queueVars
    <3>2. \A d \in Client : client[d] = "done" => client'[d] = "done"
      BY <1>0, <2>1 DEF AcceptClient
    <3>3. \A b \in alive : heap'[b] = heap[b]
      BY <1>0, <3>1
    <3>4. QED
      BY <1>1, <1>2, <3>1, <3>2, <3>3
  <2>2. ASSUME NEW fd \in Fd, CloseOnHangUp(fd) PROVE Goal
    <3>1. UNCHANGED <<heap, answers, proxyQ, responseQ, mainVars, proxyVars>>
      BY <2>2 DEF CloseOnHangUp, queueVars
    <3>2. \A d \in Client : client[d] = "done" => client'[d] = "done"
      BY <1>0, <2>2 DEF CloseOnHangUp
    <3>3. QED
      BY <1>1, <1>2, <3>1, <3>2
  <2>3. ASSUME NEW fd \in Fd, ProcessRequest(fd) PROVE Goal
    <3>1. UNCHANGED <<client, answers, proxyQ, responseQ, mainVars, proxyVars>>
      BY <2>3 DEF ProcessRequest, clientVars
    <3>2. \A b \in alive : heap'[b].client = heap[b].client /\ heap'[b].ans = heap[b].ans
      <4>1. CASE heap' = heap
        BY <4>1
      <4>2. CASE heap' # heap
        <5>1. PICK rx : heap' = [heap EXCEPT ![rrMap[fd]] = Parsed(rrMap[fd], rx)]
          BY <2>3, <4>2 DEF ProcessRequest
        <5>2. QED
          BY <1>0, <5>1 DEF Parsed
      <4>3. QED
        BY <4>1, <4>2
    <3>3. QED
      BY <1>1, <1>3, <3>1, <3>2
  <2>4. CASE SendResponse
    <3> DEFINE a  == Head(responseQ)
               to == fdOf[heap[a].fd]
    <3>1. /\ responseQ # <<>> /\ responseQ' = Tail(responseQ)
          /\ UNCHANGED <<heap, proxyQ, mainVars, proxyVars>>
          /\ client' = [c \in Client |-> IF c = to THEN "done" ELSE client[c]]
          /\ answers' = [c \in Client |-> IF c = to /\ client[c] = "open"
                                          THEN Append(answers[c], heap[a].ans) ELSE answers[c]]
      BY <2>4 DEF SendResponse
    <3>2. a \in Held["response"] /\ a \in alive /\ heap[a].rx = "done"
      BY <3>1, FirstIsHeld DEF Kept
    <3>3. to = heap[a].client /\ to \in Client /\ client[to] = "open" /\ heap[a].ans = to
      BY <3>2, MatchedFinds, OwedToOpen DEF AnswersRight
    <3>4. answers[to] = <<>> /\ answers'[to] = <<to>> /\ client'[to] = "done"
      <4>1. answers[to] = <<>>
        BY <3>3 DEF Received
      <4>2. answers'[to] = Append(answers[to], to) /\ client'[to] = "done"
        BY <3>1, <3>3
      <4>3. Append(<<>>, to) = <<to>>
        OBVIOUS
      <4>4. QED
        BY <4>1, <4>2, <4>3
    <3>5. \A c \in Client : c # to => answers'[c] = answers[c] /\ client'[c] = client[c]
      BY <3>1
    <3>6. Received'
      BY <3>4, <3>5 DEF Received
    <3>7. Holds(responseQ') \subseteq Holds(responseQ)
      BY <1>0, <3>1, TakenHead DEF Queued
    <3>8. Held'["proxied"] = Held["proxied"] /\ Held'["response"] \subseteq Held["response"]
      BY <3>1, <3>7 DEF Held
    <3>9. AnswersRight' /\ InHandFor'
      BY <3>1, <3>8 DEF AnswersRight, InHandFor, mainVars, proxyVars
    <3>10. QED
      BY <3>6, <3>9
  <2>5. CASE EpollWait \/ AcceptDone \/ SendSpins \/ ResponsesDone \/ CloseStreams
    BY <1>1, <1>3, <2>5 DEF EpollWait, AcceptDone, SendSpins, ResponsesDone, CloseStreams, clientVars, queueVars
  <2>6. QED
    BY <1>5, <2>1, <2>2, <2>3, <2>4, <2>5 DEF Sink
<1>6. CASE Main
  <2>1. UNCHANGED <<client, answers, proxyPC, proxyReq, proxyFor>>
    BY <1>6 DEF Main, PassToProxy, HandleLocal, AnswerLocal, LocalSpins, ReturnProxied, clientVars, proxyVars
  <2>2. CASE PassToProxy
    BY <1>1, <1>3, <2>1, <2>2 DEF PassToProxy, proxyVars
  <2>3. CASE HandleLocal
    <3>1. /\ mainFor' = heap[mainReq'].client /\ UNCHANGED <<heap, proxyQ, responseQ>>
      BY <2>3 DEF HandleLocal
    <3>2. Held'["proxied"] = Held["proxied"] /\ Held'["response"] = Held["response"]
      BY <3>1 DEF Held
    <3>3. QED
      BY <1>3, <2>1, <3>1, <3>2 DEF InHandFor, AnswersRight
  <2>4. CASE AnswerLocal
    <3>1. /\ mainPC = "handling" /\ mainPC' = "idle" /\ responseQ' = Append(responseQ, mainReq) /\ proxyQ' = proxyQ
          /\ heap' = [heap EXCEPT ![mainReq] = Answering(mainReq, mainFor)]
      BY <2>4 DEF AnswerLocal, PostResponse
    <3>2. mainReq \in Held["main"] /\ mainReq \in Addr
      BY <1>0, <3>1 DEF Held
    <3>3. mainReq \notin Held["response"] /\ mainReq \notin Held["proxied"] /\ mainReq \notin Held["proxy"]
      BY <3>2 DEF Apart
    <3>4. Holds(responseQ') = Holds(responseQ) \union {mainReq}
      BY <1>0, <3>1, <3>2, <3>3, PutLast DEF Queued, Held
    <3>5. Held'["response"] = Held["response"] \union {mainReq} /\ Held'["proxied"] = Held["proxied"]
      BY <3>1, <3>4 DEF Held
    <3>6. heap'[mainReq].ans = mainFor /\ heap'[mainReq].client = mainFor
      BY <1>0, <3>1, <3>2 DEF Answering, InHandFor
    <3>7. \A b \in Addr : b # mainReq => heap'[b] = heap[b]
      BY <1>0, <3>1
    <3>8. AnswersRight'
      BY <1>0, <3>3, <3>5, <3>6, <3>7 DEF AnswersRight
    <3>9. InHandFor'
      <4>1. proxyPC \in Busy => proxyReq # mainReq
        BY <3>3 DEF Held
      <4>2. QED
        BY <1>0, <2>1, <3>1, <3>7, <4>1 DEF InHandFor
    <3>10. QED
      BY <1>3, <2>1, <3>8, <3>9
  <2>5. CASE LocalSpins
    <3>1. /\ mainPC # "idle" /\ UNCHANGED <<mainReq, mainFor, heap, proxyQ, responseQ>>
      BY <2>5 DEF LocalSpins, queueVars
    <3>2. Held'["proxied"] = Held["proxied"] /\ Held'["response"] = Held["response"]
      BY <3>1 DEF Held
    <3>3. QED
      BY <1>3, <2>1, <3>1, <3>2 DEF InHandFor, AnswersRight
  <2>6. CASE ReturnProxied
    <3> DEFINE a == Head(proxyQ)
    <3>1. /\ proxyQ # <<>> /\ proxyQ' = Tail(proxyQ) /\ responseQ' = Append(responseQ, a)
          /\ UNCHANGED <<heap, mainVars>>
      BY <2>6 DEF ReturnProxied, PostResponse
    <3>2. a \in Held["proxied"] /\ a \notin Holds(responseQ) /\ a \in Addr
      BY <1>0, <3>1, FirstIsHeld DEF Apart, Held
    <3>3. Holds(proxyQ') \subseteq Holds(proxyQ) /\ Holds(responseQ') = Holds(responseQ) \union {a}
      BY <1>0, <3>1, <3>2, TakenHead, PutLast DEF Queued
    <3>4. Held'["proxied"] \union Held'["response"] \subseteq Held["proxied"] \union Held["response"]
      BY <3>2, <3>3 DEF Held
    <3>5. AnswersRight' /\ InHandFor'
      BY <2>1, <3>1, <3>4 DEF AnswersRight, InHandFor, mainVars
    <3>6. QED
      BY <1>3, <2>1, <3>5
  <2>7. QED
    BY <1>6, <2>2, <2>3, <2>4, <2>5, <2>6 DEF Main
<1>7. CASE Proxy
  <2>1. UNCHANGED <<client, answers, responseQ, mainPC, mainReq, mainFor>>
    BY <1>7 DEF Proxy, TakeTicket, FinishExchange, ExchangeFails, clientVars, mainVars, queueVars
  <2>2. CASE TakeTicket
    <3>1. /\ proxyFor' = heap[proxyReq'].client /\ UNCHANGED <<heap, proxyQ>>
      BY <2>2 DEF TakeTicket
    <3>2. Held'["proxied"] = Held["proxied"] /\ Held'["response"] = Held["response"]
      BY <2>1, <3>1 DEF Held
    <3>3. QED
      BY <1>3, <2>1, <3>1, <3>2 DEF InHandFor, AnswersRight
  <2>3. CASE FinishExchange
    <3>1. /\ proxyPC = "exchanging" /\ proxyPC' = "idle" /\ proxyQ' = Append(proxyQ, proxyReq)
          /\ heap' = [heap EXCEPT ![proxyReq] = Answering(proxyReq, proxyFor)]
      BY <2>3 DEF FinishExchange
    <3>2. proxyReq \in Held["proxy"] /\ proxyReq \in Addr
      BY <1>0, <3>1 DEF Held
    <3>3. proxyReq \notin Held["response"] /\ proxyReq \notin Held["proxied"] /\ proxyReq \notin Held["main"]
      BY <3>2 DEF Apart
    <3>4. Holds(proxyQ') = Holds(proxyQ) \union {proxyReq}
      BY <1>0, <3>1, <3>2, <3>3, PutLast DEF Queued, Held
    <3>5. Held'["proxied"] = Held["proxied"] \union {proxyReq} /\ Held'["response"] = Held["response"]
      BY <2>1, <3>4 DEF Held
    <3>6. heap'[proxyReq].ans = proxyFor /\ heap'[proxyReq].client = proxyFor
      BY <1>0, <3>1, <3>2 DEF Answering, InHandFor
    <3>7. \A b \in Addr : b # proxyReq => heap'[b] = heap[b]
      BY <1>0, <3>1
    <3>8. AnswersRight'
      BY <1>0, <3>3, <3>5, <3>6, <3>7 DEF AnswersRight
    <3>9. InHandFor'
      <4>1. mainPC # "idle" => mainReq # proxyReq
        BY <3>3 DEF Held
      <4>2. QED
        BY <1>0, <2>1, <3>1, <3>7, <4>1 DEF InHandFor
    <3>10. QED
      BY <1>3, <2>1, <3>8, <3>9
  <2>4. CASE ExchangeFails
    <3>1. /\ proxyPC \in Busy /\ UNCHANGED <<proxyReq, proxyFor, heap, proxyQ>>
      BY <2>4 DEF ExchangeFails, queueVars
    <3>2. Held'["proxied"] = Held["proxied"] /\ Held'["response"] = Held["response"]
      BY <2>1, <3>1 DEF Held
    <3>3. QED
      BY <1>3, <2>1, <3>1, <3>2 DEF InHandFor, AnswersRight
  <2>5. QED
    BY <1>7, <2>2, <2>3, <2>4 DEF Proxy
<1>8. CASE Sessions
  <2>1. UNCHANGED <<answers, heap, proxyQ, responseQ, mainVars, proxyVars>>
    BY <1>8 DEF Sessions, OpenSession, CloseSession, clientVars, queueVars
  <2>2. \A c \in Client : client[c] = "done" => client'[c] = "done"
    BY <1>0, <1>8 DEF Sessions, OpenSession, CloseSession, clientVars
  <2>3. QED
    BY <1>1, <1>2, <2>1, <2>2
<1>9. CASE UNCHANGED vars
  BY <1>1, <1>3, <1>9 DEF vars, clientVars, queueVars
<1>10. QED
  BY <1>4, <1>5, <1>6, <1>7, <1>8, <1>9 DEF Next

LEMMA OrderInit == Init => OrderInv
<1> SUFFICES ASSUME Init PROVE OrderInv
  OBVIOUS
<1>1. /\ Holds(requestQ) = {} /\ Holds(ticketQ) = {} /\ Holds(proxyQ) = {} /\ Holds(responseQ) = {}
      /\ Queued
  BY DEF Init, Holds, Queued, Once
<1>2. \A p \in Place : Held[p] = {}
  BY <1>1 DEF Held, Init
<1>3. Kept /\ Apart /\ AnswersRight
  BY <1>2 DEF Kept, Apart, AnswersRight, Place
<1>4. Served
  BY ClientAssumption DEF Init, Served, ReadWasSent, LeftEarly, OpenIsServed, OneDescriptor, HungUpIsGone
<1>5. InHandFor /\ Received
  BY DEF Init, InHandFor, Received
<1>6. QED
  BY <1>1, <1>3, <1>4, <1>5 DEF OrderInv

LEMMA OrderAlways == Spec => []OrderInv
<1>1. TypeOK /\ MatchInv /\ OrderInv /\ [Next]_vars => OrderInv'
  <2> SUFFICES ASSUME TypeOK, MatchInv, OrderInv, [Next]_vars, Orderly'
               PROVE  (Queued /\ Kept /\ Apart /\ Served /\ InHandFor /\ AnswersRight /\ Received)'
    BY DEF OrderInv
  <2>1. Orderly
    BY StaysOrderly
  <2>2. Matched
    BY <2>1 DEF MatchInv, Orderly
  <2>3. Queued /\ Kept /\ Apart /\ Served /\ InHandFor /\ AnswersRight /\ Received
    BY <2>1 DEF OrderInv
  <2>4. Queued' /\ Kept' /\ Apart'
    BY <2>1, <2>2, <2>3, HeldStep
  <2>5. Served'
    BY <2>1, <2>2, <2>3, ServedStep
  <2>6. InHandFor' /\ AnswersRight' /\ Received'
    BY <2>1, <2>2, <2>3, <2>4, AnswersStep
  <2>7. QED
    BY <2>4, <2>5, <2>6
<1>2. QED
  BY <1>1, OrderInit, TypeAlways, MatchAlways, PTL DEF Spec

LEMMA Single == ASSUME NEW S, NEW x \in S PROVE <<x>> \in Seq(S) /\ Once(<<x>>) /\ Holds(<<x>>) = {x}
  BY DEF Once, Holds

LEMMA None == ASSUME NEW S PROVE <<>> \in Seq(S) /\ Once(<<>>) /\ Holds(<<>>) = {}
  BY DEF Once, Holds

(* As long as every client waits for its answer, a record that was read to *)
(* the end is alive and in one place, for any number of clients and        *)
(* whichever descriptors and addresses are used again.                     *)
THEOREM RequestHasOneOwner == Spec => []OneOwner
<1>1. TypeOK /\ OrderInv => OneOwner
  <2> SUFFICES ASSUME TypeOK, OrderInv, Orderly
               PROVE  /\ \A i \in DOMAIN InFlight : InFlight[i] \in alive /\ heap[InFlight[i]].rx = "done"
                      /\ \A i, j \in DOMAIN InFlight : InFlight[i] = InFlight[j] => i = j
    BY DEF OneOwner
  <2> DEFINE m == IF mainPC # "idle" THEN <<mainReq>> ELSE <<>>
             x == IF proxyPC \in {"exchanging", "stuck"} THEN <<proxyReq>> ELSE <<>>
  <2>1. Queued /\ Kept /\ Apart /\ QueuesOK /\ ThreadsOK
    BY DEF OrderInv, TypeOK
  <2>2. /\ requestQ \in Seq(Addr) /\ Once(requestQ) /\ Holds(requestQ) = Held["request"]
        /\ ticketQ \in Seq(Addr) /\ Once(ticketQ) /\ Holds(ticketQ) = Held["ticket"]
        /\ proxyQ \in Seq(Addr) /\ Once(proxyQ) /\ Holds(proxyQ) = Held["proxied"]
        /\ responseQ \in Seq(Addr) /\ Once(responseQ) /\ Holds(responseQ) = Held["response"]
    BY <2>1 DEF Queued, QueuesOK, Held, Place
  <2>3. m \in Seq(Addr) /\ Once(m) /\ Holds(m) = Held["main"]
    BY <2>1, Single, None DEF ThreadsOK, Held, Place
  <2>4. x \in Seq(Addr) /\ Once(x) /\ Holds(x) = Held["proxy"]
    BY <2>1, Single, None DEF ThreadsOK, Held, Place
  <2>5. InFlight = requestQ \o ticketQ \o proxyQ \o responseQ \o m \o x
    BY DEF InFlight
  <2> HIDE DEF m, x
  <2> DEFINE s1 == requestQ \o ticketQ
             s2 == s1 \o proxyQ
             s3 == s2 \o responseQ
             s4 == s3 \o m
             s5 == s4 \o x
  <2>6. \A p, q \in Place : p # q => Held[p] \cap Held[q] = {}
    BY <2>1 DEF Apart
  <2>7. s1 \in Seq(Addr) /\ Once(s1) /\ Holds(s1) = Held["request"] \union Held["ticket"]
    BY <2>2, <2>6, Joined DEF Place
  <2> HIDE DEF s1
  <2>8. s2 \in Seq(Addr) /\ Once(s2) /\ Holds(s2) = Holds(s1) \union Held["proxied"]
    <3>1. Holds(s1) \cap Holds(proxyQ) = {}
      BY <2>2, <2>6, <2>7 DEF Place
    <3>2. QED
      BY <2>2, <2>7, <3>1, Joined
  <2> HIDE DEF s2
  <2>9. s3 \in Seq(Addr) /\ Once(s3) /\ Holds(s3) = Holds(s2) \union Held["response"]
    <3>1. Holds(s2) \cap Holds(responseQ) = {}
      BY <2>2, <2>6, <2>7, <2>8 DEF Place
    <3>2. QED
      BY <2>2, <2>8, <3>1, Joined
  <2> HIDE DEF s3
  <2>10. s4 \in Seq(Addr) /\ Once(s4) /\ Holds(s4) = Holds(s3) \union Held["main"]
    <3>1. Holds(s3) \cap Holds(m) = {}
      BY <2>3, <2>6, <2>7, <2>8, <2>9 DEF Place
    <3>2. QED
      BY <2>3, <2>9, <3>1, Joined
  <2> HIDE DEF s4
  <2>11. s5 \in Seq(Addr) /\ Once(s5) /\ Holds(s5) = Holds(s4) \union Held["proxy"]
    <3>1. Holds(s4) \cap Holds(x) = {}
      BY <2>4, <2>6, <2>7, <2>8, <2>9, <2>10 DEF Place
    <3>2. QED
      BY <2>4, <2>10, <3>1, Joined
  <2>12. InFlight = s5
    BY <2>5 DEF s1, s2, s3, s4
  <2> HIDE DEF s5
  <2>13. \A a \in Holds(s5) : \E p \in Place : a \in Held[p]
    BY <2>7, <2>8, <2>9, <2>10, <2>11 DEF Place
  <2>14. \A i \in DOMAIN s5 : s5[i] \in alive /\ heap[s5[i]].rx = "done"
    BY <2>1, <2>13 DEF Kept, Holds
  <2>15. QED
    BY <2>11, <2>12, <2>14 DEF Once
<1>2. QED
  BY <1>1, TypeAlways, OrderAlways, PTL

(* Nor does a client that waits get another's answer or two.               *)
THEOREM AnswersArriveRight == Spec => []OwnAnswer
<1>1. OrderInv => OwnAnswer
  BY DEF OrderInv, Received, OwnAnswer
<1>2. QED
  BY <1>1, OrderAlways, PTL

(* A connection is closed on its own answer or on its own hang-up.         *)
LEMMA DroppedStep ==
  ASSUME TypeOK, Matched, Kept, Served, AnswersRight, Received, Orderly, Orderly', Next,
         NEW c \in Client, client[c] # "done", client'[c] = "done"
  PROVE  client[c] = "gone" \/ answers'[c] = <<c>>
<1>0. client \in [Client -> {"new", "waiting", "left", "open", "gone", "done"}]
  BY DEF TypeOK, ClientsOK
<1>1. ASSUME NEW d \in Client, NEW s, s # "done", client' = [client EXCEPT ![d] = s] PROVE FALSE
  BY <1>0, <1>1
<1>2. CASE Clients
  BY <1>0, <1>2 DEF Clients, Connect, SendData, HangUp
<1>3. CASE Sink
  <2>1. ASSUME NEW d \in Client, NEW fd \in Fd, NEW a \in Addr, AcceptClient(d, fd, a) PROVE FALSE
    BY <1>0, <2>1 DEF AcceptClient
  <2>2. ASSUME NEW fd \in Fd, CloseOnHangUp(fd) PROVE client[c] = "gone"
    BY <2>2 DEF CloseOnHangUp, Served, HungUpIsGone
  <2>3. CASE SendResponse
    <3> DEFINE a  == Head(responseQ)
               to == fdOf[heap[a].fd]
    <3>1. /\ responseQ # <<>> /\ client'[c] = IF c = to THEN "done" ELSE client[c]
          /\ answers'[c] = IF c = to /\ client[c] = "open" THEN Append(answers[c], heap[a].ans) ELSE answers[c]
      BY <2>3 DEF SendResponse
    <3>2. a \in Held["response"] /\ a \in alive /\ heap[a].rx = "done"
      BY <3>1, FirstIsHeld DEF Kept, Place
    <3>3. c = to /\ to = heap[a].client /\ client[c] = "open" /\ heap[a].ans = c
      BY <3>1, <3>2, MatchedFinds, OwedToOpen DEF AnswersRight
    <3>4. answers[c] = <<>>
      BY DEF Received
    <3>5. answers'[c] = Append(answers[c], c)
      BY <3>1, <3>3
    <3>6. Append(<<>>, c) = <<c>>
      OBVIOUS
    <3>7. QED
      BY <3>4, <3>5, <3>6
  <2>4. QED
    BY <1>3, <2>1, <2>2, <2>3
       DEF Sink, EpollWait, AcceptDone, ProcessRequest, SendSpins, ResponsesDone, CloseStreams, clientVars
<1>4. CASE Main \/ Proxy
  BY <1>4 DEF Main, Proxy, PassToProxy, HandleLocal, AnswerLocal, LocalSpins, ReturnProxied,
              TakeTicket, FinishExchange, ExchangeFails, clientVars
<1>5. CASE Sessions
  <2>1. CASE CloseSession
    <3>1. session \in Fd /\ fdOf[session] = Device
      BY <2>1 DEF CloseSession, Matched, TypeOK, DescriptorsOK
    <3>2. QED
      BY <2>1, <3>1, DeviceAssumption DEF CloseSession
  <2>2. QED
    BY <1>5, <2>1 DEF Sessions, OpenSession, clientVars
<1>6. QED
  BY <1>2, <1>3, <1>4, <1>5 DEF Next

(* No stale hang-up and no stray answer closes the connection of a client  *)
(* that waits, as long as none hangs up on its request.                    *)
THEOREM NobodyIsDropped == Spec => NoneDropped
<1>1. TypeOK /\ MatchInv /\ OrderInv /\ [Next]_vars =>
        [\A c \in Client : Orderly' /\ client[c] # "done" /\ client'[c] = "done"
           => client[c] = "gone" \/ answers'[c] = <<c>>]_vars
  <2> SUFFICES ASSUME TypeOK, MatchInv, OrderInv, Next, Orderly',
                      NEW c \in Client, client[c] # "done", client'[c] = "done"
               PROVE  client[c] = "gone" \/ answers'[c] = <<c>>
    OBVIOUS
  <2>1. Orderly
    BY StaysOrderly
  <2>2. Matched
    BY <2>1 DEF MatchInv, Orderly
  <2>3. QED
    BY <2>1, <2>2, DroppedStep DEF OrderInv
<1>2. QED
  BY <1>1, TypeAlways, MatchAlways, OrderAlways, PTL DEF Spec, NoneDropped

-----------------------------------------------------------------------------
(* Nothing the sink has to do is forgotten. Only the conjuncts about a     *)
(* client's own descriptor need more: that a client some descriptor is     *)
(* open for was accepted, so that accepting another never finds it there.  *)

Coming == edge \union batch

Attended(fd) ==
  /\ client[fdOf[fd]] \in {"open", "gone", "done"}
  /\ client[fdOf[fd]] = "gone" => HungUp(fd) \in Coming
  /\ sent[fdOf[fd]] = "all" /\ heap[rrMap[fd]].rx = "reading" => Input(fd) \in Coming \/ HungUp(fd) \in Coming

AllAttended == \A fd \in Fd : fdOf[fd] \in Client => Attended(fd)
AttendInv   == ~raced => AllAttended
AnswersTold == responseQ # <<>> => Responses \in Coming

LEMMA EventsApart ==
  ASSUME NEW fd, NEW g
  PROVE  /\ Input(fd) # Accepts /\ Input(fd) # Responses /\ Accepts # Responses
         /\ Input(fd) = Input(g) => fd = g
<1>1. Input(fd).of = "input" /\ Accepts.of = "accept" /\ Responses.of = "response"
  BY DEF Input, Accepts, Responses
<1>2. Input(fd).fd = fd /\ Input(g).fd = g
  BY DEF Input
<1>3. QED
  BY <1>1, <1>2

(* A descriptor that is let be stays attended to, when its events are      *)
(* still to come and its record is read no less than before.               *)
LEMMA AttendedSame ==
  ASSUME NEW g \in Fd, Attended(g), fdOf'[g] = fdOf[g], rrMap'[g] = rrMap[g],
         client'[fdOf[g]] = client[fdOf[g]], sent'[fdOf[g]] = sent[fdOf[g]],
         heap'[rrMap[g]].rx = "reading" => heap[rrMap[g]].rx = "reading",
         HungUp(g) \in Coming => HungUp(g) \in Coming',
         Input(g) \in Coming => Input(g) \in Coming' \/ HungUp(g) \in Coming'
  PROVE  Attended(g)'
  BY DEF Attended

(* A step that tells no event away and touches no table.                   *)
LEMMA AttendedKept ==
  ASSUME TypeOK, Matched, AllAttended, UNCHANGED <<client, sent, fdOf, rrMap>>,
         \A a \in Addr : heap'[a].rx = "reading" => heap[a].rx = "reading",
         \A g \in Fd : /\ HungUp(g) \in Coming => HungUp(g) \in Coming'
                       /\ Input(g) \in Coming => Input(g) \in Coming' \/ HungUp(g) \in Coming'
  PROVE  AllAttended'
<1> SUFFICES ASSUME NEW g \in Fd, fdOf'[g] \in Client PROVE Attended(g)'
  BY DEF AllAttended
<1>1. rrMap[g] \in Addr
  BY ClientAssumption, DeviceAssumption DEF Matched, TypeOK, DescriptorsOK
<1>2. Attended(g)
  BY DEF AllAttended
<1>3. QED
  BY <1>1, <1>2, AttendedSame

(* Closing a connection: what is left is as it was.                        *)
LEMMA AttendedClose ==
  ASSUME TypeOK, Matched, AllAttended, NEW fd \in Fd, CloseConnection(fd),
         client' = [c \in Client |-> IF c = fdOf[fd] THEN "done" ELSE client[c]],
         UNCHANGED <<sent, heap>>,
         \A g \in Fd : g # fd => /\ HungUp(g) \in batch => HungUp(g) \in batch'
                                 /\ Input(g) \in batch => Input(g) \in batch'
  PROVE  AllAttended'
<1> SUFFICES ASSUME NEW g \in Fd, fdOf'[g] \in Client PROVE Attended(g)'
  BY DEF AllAttended
<1>1. /\ fdOf \in [Fd -> Client \union {NoClient, Device}] /\ rrMap \in [Fd -> Addr \union {NoRecord}]
      /\ client \in [Client -> {"new", "waiting", "left", "open", "gone", "done"}]
  BY DEF TypeOK, DescriptorsOK, ClientsOK
<1>2. g # fd
  <2>1. CASE rrMap[fd] = NoRecord
    BY <2>1, ClientAssumption, DeviceAssumption DEF Matched, CloseConnection
  <2>2. CASE rrMap[fd] # NoRecord
    BY <1>1, <2>2, ClientAssumption DEF CloseConnection
  <2>3. QED
    BY <2>1, <2>2
<1>3. /\ fdOf'[g] = fdOf[g] /\ rrMap'[g] = rrMap[g]
      /\ (HungUp(g) \in edge => HungUp(g) \in edge') /\ (Input(g) \in edge => Input(g) \in edge')
  BY <1>1, <1>2, EventsDiffer, EventsApart DEF CloseConnection, Erased
<1>4. /\ HungUp(g) \in Coming => HungUp(g) \in Coming'
      /\ Input(g) \in Coming => Input(g) \in Coming'
  BY <1>2, <1>3 DEF Coming
<1>5. Attended(g)
  BY <1>3 DEF AllAttended
<1>6. CASE fdOf[g] = fdOf[fd]
  BY <1>1, <1>3, <1>4, <1>5, <1>6 DEF Attended
<1>7. CASE fdOf[g] # fdOf[fd]
  <2>1. client'[fdOf[g]] = client[fdOf[g]]
    BY <1>1, <1>3, <1>7
  <2>2. QED
    BY <1>3, <1>4, <1>5, <2>1, AttendedSame
<1>8. QED
  BY <1>6, <1>7

(* A new connection is attended to from the start, with what came before.  *)
LEMMA AttendedAccept ==
  ASSUME TypeOK, Matched, AllAttended, NEW c \in Client, NEW fd \in Fd, NEW a \in Addr, AcceptClient(c, fd, a)
  PROVE  AllAttended'
<1> SUFFICES ASSUME NEW g \in Fd, fdOf'[g] \in Client PROVE Attended(g)'
  BY DEF AllAttended
<1>1. /\ fdOf \in [Fd -> Client \union {NoClient, Device}] /\ rrMap \in [Fd -> Addr \union {NoRecord}]
      /\ client \in [Client -> {"new", "waiting", "left", "open", "gone", "done"}]
      /\ heap \in [Addr -> Record]
  BY DEF TypeOK, DescriptorsOK, ClientsOK, HeapOK
<1>2. /\ client[c] \in {"waiting", "left"} /\ a \notin alive
      /\ client' = [client EXCEPT ![c] = IF @ = "left" THEN "gone" ELSE "open"]
      /\ fdOf' = [fdOf EXCEPT ![fd] = c] /\ heap' = [heap EXCEPT ![a] = Fresh(c, fd)]
      /\ rrMap' = [rrMap EXCEPT ![fd] = a] /\ sent' = sent /\ batch' = batch
      /\ edge' = edge \union {e \in {Input(fd), HungUp(fd)} :
                                \/ e = Input(fd) /\ sent[c] # "none"
                                \/ e = HungUp(fd) /\ client[c] = "left"}
  BY DEF AcceptClient
<1>3. CASE g = fd
  <2>1. fdOf'[g] = c /\ client'[c] = (IF client[c] = "left" THEN "gone" ELSE "open")
    BY <1>1, <1>2, <1>3
  <2>2. sent[c] # "none" => Input(g) \in Coming'
    BY <1>2, <1>3 DEF Coming
  <2>3. client[c] = "left" => HungUp(g) \in Coming'
    BY <1>2, <1>3 DEF Coming
  <2>4. QED
    BY <1>2, <2>1, <2>2, <2>3 DEF Attended
<1>4. CASE g # fd
  <2>1. fdOf'[g] = fdOf[g] /\ rrMap'[g] = rrMap[g]
    BY <1>1, <1>2, <1>4
  <2>2. Attended(g)
    BY <2>1 DEF AllAttended
  <2>3. fdOf[g] # c
    BY <1>2, <2>2 DEF Attended
  <2>4. client'[fdOf[g]] = client[fdOf[g]]
    BY <1>1, <1>2, <2>1, <2>3
  <2>5. rrMap[g] # NoRecord
    BY <2>1, ClientAssumption, DeviceAssumption DEF Matched
  <2>6. rrMap[g] \in Addr /\ rrMap[g] # a
    BY <1>2, <2>5, MatchedApart
  <2>7. heap'[rrMap[g]] = heap[rrMap[g]]
    BY <1>1, <1>2, <2>6
  <2>8. Coming \subseteq Coming'
    BY <1>2 DEF Coming
  <2>9. QED
    BY <1>2, <2>1, <2>2, <2>4, <2>7, <2>8, AttendedSame
<1>5. QED
  BY <1>3, <1>4

(* Input is taken off only when all of it has been read, or none is left   *)
(* to be waited for.                                                       *)
LEMMA AttendedRead ==
  ASSUME TypeOK, Matched, AllAttended, NEW fd \in Fd, ProcessRequest(fd)
  PROVE  AllAttended'
<1> SUFFICES ASSUME NEW g \in Fd, fdOf'[g] \in Client PROVE Attended(g)'
  BY DEF AllAttended
<1>1. /\ UNCHANGED <<client, sent, fdOf, rrMap, edge>> /\ batch' = batch \ {Input(fd)}
  BY DEF ProcessRequest, clientVars
<1>2. Attended(g)
  BY <1>1 DEF AllAttended
<1>3. rrMap[g] # NoRecord
  BY <1>1, ClientAssumption, DeviceAssumption DEF Matched
<1>4. rrMap[g] \in Addr /\ heap[rrMap[g]].client = fdOf[g] /\ heap \in [Addr -> Record]
  BY <1>3, MatchedApart DEF Matched, TypeOK, HeapOK
<1>5. HungUp(g) \in Coming => HungUp(g) \in Coming'
  BY <1>1, EventsDiffer DEF Coming
<1>6. CASE g = fd
  <2>1. heap[rrMap[g]].rx \in {"reading", "done", "error"}
    BY <1>4, Records DEF TypeOK
  <2>2. ~(sent'[fdOf'[g]] = "all" /\ heap'[rrMap'[g]].rx = "reading")
    <3>1. CASE heap[rrMap[g]].rx = "reading"
      <4>1. PICK rx \in {"reading", "done", "error"} :
                   /\ rx = "reading" => sent[heap[rrMap[g]].client] = "part"
                   /\ heap' = [heap EXCEPT ![rrMap[g]] = Parsed(rrMap[g], rx)]
        BY <1>3, <1>6, <3>1 DEF ProcessRequest, Reads, NothingMore
      <4>2. heap'[rrMap[g]].rx = rx
        BY <1>4, <4>1 DEF Parsed
      <4>3. QED
        BY <1>1, <1>4, <4>1, <4>2
    <3>2. CASE heap[rrMap[g]].rx # "reading"
      <4>1. heap' = heap
        BY <1>6, <2>1, <3>2 DEF ProcessRequest, Reads
      <4>2. QED
        BY <1>1, <3>2, <4>1
    <3>3. QED
      BY <3>1, <3>2
  <2>3. QED
    BY <1>1, <1>2, <1>5, <2>2 DEF Attended
<1>7. CASE g # fd
  <2>1. heap'[rrMap[g]] = heap[rrMap[g]]
    <3>1. rrMap[fd] # rrMap[g]
      BY <1>3, <1>7, MatchedApart
    <3>2. heap' = heap \/ \E rx : heap' = [heap EXCEPT ![rrMap[fd]] = Parsed(rrMap[fd], rx)]
      BY DEF ProcessRequest
    <3>3. QED
      BY <1>4, <3>1, <3>2
  <2>2. Input(g) \in Coming => Input(g) \in Coming'
    BY <1>1, <1>7, EventsApart DEF Coming
  <2>3. QED
    BY <1>1, <1>2, <1>5, <2>1, <2>2, AttendedSame
<1>8. QED
  BY <1>6, <1>7

LEMMA AttendStep == TypeOK /\ MatchInv /\ AttendInv /\ [Next]_vars => AttendInv'
<1> SUFFICES ASSUME TypeOK, MatchInv, AttendInv, [Next]_vars, ~raced' PROVE AllAttended'
  BY DEF AttendInv
<1>1. ~raced
  BY DEF Next, Clients, Sink, Main, Proxy, Sessions, Connect, SendData, HangUp, EpollWait, AcceptDone, AcceptClient,
         CloseOnHangUp, ProcessRequest, SendResponse, SendSpins, ResponsesDone, CloseStreams, PassToProxy, HandleLocal,
         AnswerLocal, LocalSpins, ReturnProxied, TakeTicket, FinishExchange, ExchangeFails, OpenSession, CloseSession,
         others, vars
<1>2. Matched /\ AllAttended
  BY <1>1 DEF MatchInv, AttendInv
<1>3. /\ fdOf \in [Fd -> Client \union {NoClient, Device}]
      /\ client \in [Client -> {"new", "waiting", "left", "open", "gone", "done"}]
      /\ sent \in [Client -> {"none", "part", "all"}]
      /\ heap \in [Addr -> Record] /\ session \in Fd \union {NoFd}
  BY DEF TypeOK, DescriptorsOK, ClientsOK, HeapOK
<1>4. CASE UNCHANGED <<client, sent, fdOf, rrMap, heap>> /\ Coming \subseteq Coming'
  BY <1>2, <1>4, AttendedKept
<1>5. ASSUME NEW c \in Client, Connect(c) PROVE AllAttended'
  <2> SUFFICES ASSUME NEW g \in Fd, fdOf'[g] \in Client PROVE Attended(g)'
    BY DEF AllAttended
  <2>1. /\ client[c] = "new" /\ client' = [client EXCEPT ![c] = "waiting"]
        /\ UNCHANGED <<sent, fdOf, rrMap, heap>> /\ Coming \subseteq Coming'
    BY <1>5 DEF Connect, sinkVars, Coming
  <2>2. Attended(g)
    BY <1>2, <2>1 DEF AllAttended
  <2>3. client'[fdOf[g]] = client[fdOf[g]]
    BY <1>3, <2>1, <2>2 DEF Attended
  <2>4. QED
    BY <2>1, <2>2, <2>3, AttendedSame
<1>6. ASSUME NEW c \in Client, NEW much \in {"part", "all"}, SendData(c, much) PROVE AllAttended'
  <2> SUFFICES ASSUME NEW g \in Fd, fdOf'[g] \in Client PROVE Attended(g)'
    BY DEF AllAttended
  <2>1. /\ sent' = [sent EXCEPT ![c] = much] /\ edge' = edge \union {Input(fd) : fd \in Descriptors(c)}
        /\ UNCHANGED <<client, fdOf, rrMap, heap, batch>>
    BY <1>6 DEF SendData, sinkVars
  <2>2. Attended(g) /\ Coming \subseteq Coming'
    BY <1>2, <2>1 DEF AllAttended, Coming
  <2>3. CASE fdOf[g] = c
    <3>1. Input(g) \in Coming'
      BY <2>1, <2>3 DEF Coming, Descriptors
    <3>2. QED
      BY <2>1, <2>2, <3>1 DEF Attended
  <2>4. CASE fdOf[g] # c
    <3>1. sent'[fdOf[g]] = sent[fdOf[g]]
      BY <1>3, <2>1, <2>4
    <3>2. QED
      BY <2>1, <2>2, <3>1, AttendedSame
  <2>5. QED
    BY <2>3, <2>4
<1>7. ASSUME NEW c \in Client, HangUp(c) PROVE AllAttended'
  <2> SUFFICES ASSUME NEW g \in Fd, fdOf'[g] \in Client PROVE Attended(g)'
    BY DEF AllAttended
  <2>1. /\ client[c] \in {"waiting", "open"}
        /\ client' = [client EXCEPT ![c] = IF @ = "open" THEN "gone" ELSE "left"]
        /\ edge' = edge \union {HungUp(fd) : fd \in Descriptors(c)}
        /\ UNCHANGED <<sent, fdOf, rrMap, heap, batch>>
    BY <1>7 DEF HangUp, sinkVars
  <2>2. Attended(g) /\ Coming \subseteq Coming'
    BY <1>2, <2>1 DEF AllAttended, Coming
  <2>3. CASE fdOf[g] = c
    <3>1. HungUp(g) \in Coming'
      BY <2>1, <2>3 DEF Coming, Descriptors
    <3>2. client'[c] = "gone"
      BY <1>3, <2>1, <2>2, <2>3 DEF Attended
    <3>3. QED
      BY <2>1, <2>3, <3>1, <3>2 DEF Attended
  <2>4. CASE fdOf[g] # c
    <3>1. client'[fdOf[g]] = client[fdOf[g]]
      BY <1>3, <2>1, <2>4
    <3>2. QED
      BY <2>1, <2>2, <3>1, AttendedSame
  <2>5. QED
    BY <2>3, <2>4
<1>8. CASE EpollWait
  <2>1. /\ batch' = {e \in edge : HangUpFirst(e)} /\ batch = {}
        /\ UNCHANGED <<client, sent, fdOf, rrMap, heap>>
    BY <1>8 DEF EpollWait, clientVars
  <2>2. ASSUME NEW g \in Fd
        PROVE  /\ HungUp(g) \in Coming => HungUp(g) \in Coming'
               /\ Input(g) \in Coming => Input(g) \in Coming' \/ HungUp(g) \in Coming'
    <3>1. HangUpFirst(HungUp(g))
      BY EventsDiffer DEF HangUpFirst
    <3>2. HungUp(g) \in edge \/ HangUpFirst(Input(g))
      BY EventsApart DEF HangUpFirst
    <3>3. QED
      BY <2>1, <3>1, <3>2 DEF Coming
  <2>3. QED
    BY <1>2, <2>1, <2>2, AttendedKept
<1>9. CASE AcceptDone \/ ResponsesDone
  <2>1. /\ UNCHANGED <<client, sent, fdOf, rrMap, heap, edge>>
        /\ batch' = batch \ {Accepts} \/ batch' = batch \ {Responses}
    BY <1>9 DEF AcceptDone, ResponsesDone, clientVars
  <2>2. ASSUME NEW g \in Fd PROVE (HungUp(g) \in Coming => HungUp(g) \in Coming') /\ (Input(g) \in Coming => Input(g) \in Coming')
    BY <2>1, EventsDiffer, EventsApart DEF Coming
  <2>3. QED
    BY <1>2, <2>1, <2>2, AttendedKept
<1>10. ASSUME NEW fd \in Fd, CloseOnHangUp(fd) PROVE AllAttended'
  <2>1. \A g \in Fd : g # fd => /\ HungUp(g) \in batch => HungUp(g) \in batch'
                                /\ Input(g) \in batch => Input(g) \in batch'
    BY <1>10, EventsDiffer DEF CloseOnHangUp
  <2>2. QED
    BY <1>2, <1>10, <2>1, AttendedClose DEF CloseOnHangUp
<1>11. CASE SendResponse
  <2>1. heap[Head(responseQ)].fd \in Fd
    BY <1>11, HeadTail, Records DEF SendResponse, QueuesOK, TypeOK
  <2>2. QED
    BY <1>2, <1>11, <2>1, AttendedClose DEF SendResponse
<1>12. CASE CloseStreams
  <2>1. /\ closing \in Fd /\ fdOf' = [fdOf EXCEPT ![closing] = NoClient]
        /\ UNCHANGED <<client, sent, rrMap, heap, edge, batch>>
    BY <1>12 DEF CloseStreams, clientVars, TypeOK, DescriptorsOK
  <2>2. fdOf' = fdOf
    BY <1>2, <1>3, <2>1, DeviceAssumption DEF Matched
  <2>3. QED
    BY <1>4, <2>1, <2>2 DEF Coming
<1>13. ASSUME NEW a \in Addr, NEW c, heap' = [heap EXCEPT ![a] = Answering(a, c)],
              UNCHANGED <<client, sent, fdOf, rrMap>>, Coming \subseteq Coming'
       PROVE  AllAttended'
  <2>1. \A b \in Addr : heap'[b].rx = heap[b].rx
    BY <1>3, <1>13 DEF Answering
  <2>2. QED
    BY <1>2, <1>13, <2>1, AttendedKept
<1>14. CASE AnswerLocal
  <2>1. mainReq \in Addr
    BY <1>14 DEF AnswerLocal, TypeOK, ThreadsOK
  <2>2. QED
    BY <1>13, <1>14, <2>1 DEF AnswerLocal, PostResponse, clientVars, sinkVars, Coming
<1>15. CASE FinishExchange
  <2>1. proxyReq \in Addr
    BY <1>15 DEF FinishExchange, TypeOK, ThreadsOK
  <2>2. QED
    BY <1>13, <1>15, <2>1 DEF FinishExchange, clientVars, sinkVars, Coming
<1>16. CASE Sessions
  <2>1. PICK fd \in Fd : /\ fdOf' = [fdOf EXCEPT ![fd] = NoClient] \/ fdOf' = [fdOf EXCEPT ![fd] = Device]
                         /\ client' = [c \in Client |-> IF c = fdOf[fd] THEN "done" ELSE client[c]]
                         /\ fdOf[fd] \in {NoClient, Device}
                         /\ edge' = edge \/ edge' = edge \ {Input(fd), HungUp(fd)}
                         /\ UNCHANGED <<sent, rrMap, heap, batch>>
    <3>1. CASE CloseSession
      BY <1>2, <1>3, <3>1 DEF CloseSession, Matched
    <3>2. ASSUME NEW fd \in Fd, OpenSession(fd)
          PROVE  /\ fdOf' = [fdOf EXCEPT ![fd] = Device] /\ fdOf[fd] = NoClient
                 /\ client' = [c \in Client |-> IF c = fdOf[fd] THEN "done" ELSE client[c]]
                 /\ UNCHANGED <<edge, sent, rrMap, heap, batch>>
      BY <1>3, <3>2, ClientAssumption DEF OpenSession, clientVars
    <3>3. QED
      BY <1>16, <3>1, <3>2 DEF Sessions
  <2> SUFFICES ASSUME NEW g \in Fd, fdOf'[g] \in Client PROVE Attended(g)'
    BY DEF AllAttended
  <2>2. g # fd /\ fdOf'[g] = fdOf[g]
    BY <1>3, <2>1, ClientAssumption, DeviceAssumption
  <2>3. /\ HungUp(g) \in Coming => HungUp(g) \in Coming'
        /\ Input(g) \in Coming => Input(g) \in Coming'
    BY <2>1, <2>2, EventsDiffer, EventsApart DEF Coming
  <2>4. client'[fdOf[g]] = client[fdOf[g]]
    BY <2>1, <2>2, ClientAssumption, DeviceAssumption
  <2>5. Attended(g)
    BY <1>2, <2>2 DEF AllAttended
  <2>6. QED
    BY <2>1, <2>2, <2>3, <2>4, <2>5, AttendedSame
<1>17. QED
  <2>1. CASE Clients
    BY <2>1, <1>5, <1>6, <1>7 DEF Clients
  <2>2. CASE Sink
    BY <2>2, <1>2, <1>4, <1>8, <1>9, <1>10, <1>11, <1>12, AttendedAccept, AttendedRead DEF Sink, SendSpins, clientVars, Coming
  <2>3. CASE Main
    BY <2>3, <1>4, <1>14 DEF Main, PassToProxy, HandleLocal, LocalSpins, ReturnProxied, PostResponse, clientVars, sinkVars, Coming
  <2>4. CASE Proxy
    BY <2>4, <1>4, <1>15 DEF Proxy, TakeTicket, ExchangeFails, clientVars, sinkVars, Coming
  <2>5. CASE UNCHANGED vars
    BY <2>5, <1>4 DEF vars, clientVars, sinkVars, Coming
  <2>6. QED
    BY <2>1, <2>2, <2>3, <2>4, <2>5, <1>16 DEF Next

(* The event for answers outlives the taking of all but the last.          *)
LEMMA ToldStep == AnswersTold /\ [Next]_vars => AnswersTold'
<1> SUFFICES ASSUME AnswersTold, [Next]_vars, responseQ' # <<>> PROVE Responses \in Coming'
  BY DEF AnswersTold
<1>1. CASE UNCHANGED responseQ /\ (Responses \in Coming => Responses \in Coming')
  BY <1>1 DEF AnswersTold
<1>2. ASSUME NEW fd, CloseConnection(fd) PROVE Responses \in edge => Responses \in edge'
  BY <1>2, EventsDiffer, EventsApart DEF CloseConnection
<1>3. CASE Clients
  BY <1>1, <1>3 DEF Clients, Connect, SendData, HangUp, queueVars, sinkVars, Coming
<1>4. CASE Sink
  <2>1. CASE EpollWait
    <3>1. HangUpFirst(Responses)
      BY EventsApart DEF HangUpFirst
    <3>2. QED
      BY <1>1, <2>1, <3>1 DEF EpollWait, queueVars, Coming
  <2>2. CASE AcceptDone
    BY <1>1, <2>2, EventsApart DEF AcceptDone, queueVars, Coming
  <2>3. ASSUME NEW c \in Client, NEW fd \in Fd, NEW a \in Addr, AcceptClient(c, fd, a) PROVE Responses \in Coming'
    BY <1>1, <2>3 DEF AcceptClient, queueVars, Coming
  <2>4. ASSUME NEW fd \in Fd, CloseOnHangUp(fd) PROVE Responses \in Coming'
    BY <1>1, <1>2, <2>4, EventsDiffer DEF CloseOnHangUp, queueVars, Coming
  <2>5. ASSUME NEW fd \in Fd, ProcessRequest(fd) PROVE Responses \in Coming'
    BY <1>1, <2>5, EventsApart DEF ProcessRequest, Coming
  <2>6. CASE SendResponse
    BY <2>6 DEF SendResponse, Coming
  <2>7. CASE ResponsesDone
    BY <2>7 DEF ResponsesDone, Drained, queueVars
  <2>8. CASE SendSpins \/ CloseStreams
    BY <1>1, <2>8 DEF SendSpins, CloseStreams, queueVars, Coming
  <2>9. QED
    BY <1>4, <2>1, <2>2, <2>3, <2>4, <2>5, <2>6, <2>7, <2>8 DEF Sink
<1>5. CASE Main
  BY <1>1, <1>5 DEF Main, PassToProxy, HandleLocal, AnswerLocal, LocalSpins, ReturnProxied, PostResponse, queueVars, sinkVars, Coming
<1>6. CASE Proxy
  BY <1>1, <1>6 DEF Proxy, TakeTicket, FinishExchange, ExchangeFails, queueVars, sinkVars, Coming
<1>7. CASE Sessions
  <2>1. CASE CloseSession
    BY <1>1, <2>1, EventsDiffer, EventsApart DEF CloseSession, queueVars, Coming
  <2>2. QED
    BY <1>1, <1>7, <2>1 DEF Sessions, OpenSession, queueVars, Coming
<1>8. CASE UNCHANGED vars
  BY <1>1, <1>8 DEF vars, queueVars, sinkVars, Coming
<1>9. QED
  BY <1>3, <1>4, <1>5, <1>6, <1>7, <1>8 DEF Next

(* However events, descriptors and records are used again, the sink always *)
(* has an event left, told or to be told, for what it still has to do.     *)
THEOREM NoWorkForgotten == Spec => []NoneForgotten
<1>1. Init => AttendInv /\ AnswersTold
  BY ClientAssumption DEF Init, AttendInv, AllAttended, AnswersTold
<1>2. TypeOK /\ MatchInv /\ AttendInv /\ [Next]_vars => AttendInv'
  BY AttendStep
<1>3. AnswersTold /\ [Next]_vars => AnswersTold'
  BY ToldStep
<1>4. AttendInv /\ AnswersTold => NoneForgotten
  BY DEF AttendInv, AllAttended, Attended, AnswersTold, Coming, NoneForgotten
<1>5. QED
  BY <1>1, <1>2, <1>3, <1>4, TypeAlways, MatchAlways, PTL DEF Spec

=============================================================================
