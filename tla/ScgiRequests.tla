---------------------------- MODULE ScgiRequests ----------------------------
(***************************************************************************)
(* The way of an SCGI request through the daemon's threads: the sink       *)
(* accepts connections and reads requests, the main thread answers them    *)
(* or hands them to the proxy sequencer, and the sink sends the answer and *)
(* closes the connection. Queues carry the address of the request record;  *)
(* the sink alone allocates and deletes records.                           *)
(*                                                                         *)
(* Descriptors and addresses are used again as soon as they are free, and  *)
(* the sink's batch of events may be older than what it finds when it      *)
(* comes to one. An address whose record was deleted still reads as it was *)
(* until it is allocated again.                                            *)
(***************************************************************************)
EXTENDS Integers, Sequences

CONSTANTS
  Client,    (* connections of the front end server, one request each         *)
  Proxied,   (* the clients whose request is for /hnode2/mgmt/device-proxy    *)
  Fd,        (* bound: descriptors the process can get for connections        *)
  Addr,      (* heap addresses of request records                             *)
  NoClient,  (* a descriptor that is closed, an answer not made               *)
  NoRecord,  (* no entry in the sink's map, nothing in hand                   *)
  Device,    (* behind a descriptor: the device another thread talks to       *)
  NoFd       (* no descriptor                                                 *)

ASSUME ClientAssumption == Proxied \subseteq Client /\ NoClient \notin Client
ASSUME RecordAssumption == NoRecord \notin Addr
ASSUME DeviceAssumption == Device \notin Client /\ Device # NoClient /\ NoFd \notin Fd

VARIABLES
  client,      (* external: where each connection is, seen from its far end   *)
  sent,        (* external: how much of its request header a client sent      *)
  answers,     (* external: the answers that arrived, each the client it is for *)
  fdOf,        (* the kernel's table: the connection behind a descriptor      *)
  edge,        (* the kernel's ready list of the sink's epoll descriptor      *)
  rrMap,       (* m_rrMap                                                     *)
  heap,        (* what is at each address                                     *)
  alive,       (* the addresses that are allocated                            *)
  batch,       (* the events of the last epoll_wait not come to yet           *)
  sinkPC,      (* is the sink's thread stuck?                                 *)
  closing,     (* the descriptor a deleted record's streams have yet to close *)
  session,     (* the descriptor of another thread's session with a device    *)
  requestQ,    (* m_scgiRequestQueue, sink to main                            *)
  ticketQ,     (* m_requestQueue, main to proxy                               *)
  proxyQ,      (* the main thread's m_proxyResponseQueue, proxy to main       *)
  responseQ,   (* the sink's m_proxyResponseQueue, main to sink               *)
  mainPC, mainReq, mainFor,     (* the main thread, the record in its hand, whose it was *)
  proxyPC, proxyReq, proxyFor,  (* the proxy thread, likewise                 *)
  impatient,   (* history: clients that hung up between request and answer    *)
  raced        (* history: a session got a descriptor the sink had yet to     *)
               (* close once more                                             *)

clientVars == <<client, sent, answers, impatient>>
sinkVars   == <<fdOf, rrMap, alive, batch, sinkPC, closing>>
mainVars   == <<mainPC, mainReq, mainFor>>
proxyVars  == <<proxyPC, proxyReq, proxyFor>>
queueVars  == <<requestQ, ticketQ, proxyQ, responseQ>>
others     == <<session, raced>>
vars       == <<clientVars, sinkVars, edge, heap, mainVars, proxyVars, queueVars, others>>

(* A new HNSCGIRR.                                                         *)
FreshIdle(c, fd) == [client |-> c, fd |-> fd, rx |-> "idle", ans |-> NoClient]
Fresh(c, fd)     == [client |-> c, fd |-> fd, rx |-> "reading", ans |-> NoClient]

(* What is at an address, read further or answered.                        *)
Parsed(a, rx)   == [client |-> heap[a].client, fd |-> heap[a].fd, rx |-> rx, ans |-> heap[a].ans]
Answering(a, c) == [client |-> heap[a].client, fd |-> heap[a].fd, rx |-> heap[a].rx, ans |-> c]

Accepts    == [of |-> "accept"]
Responses  == [of |-> "response"]
Input(fd)  == [of |-> "input", fd |-> fd]
HungUp(fd) == [of |-> "hangup", fd |-> fd]
Event      == {Accepts, Responses} \union {Input(fd) : fd \in Fd} \union {HungUp(fd) : fd \in Fd}

Init ==
  /\ client = [c \in Client |-> "new"]
  /\ sent = [c \in Client |-> "none"]
  /\ answers = [c \in Client |-> <<>>]
  /\ fdOf = [fd \in Fd |-> NoClient]
  /\ edge = {}
  /\ rrMap = [fd \in Fd |-> NoRecord]
  /\ \E c \in Client, fd \in Fd : heap = [a \in Addr |-> Fresh(c, fd)]
  /\ alive = {}
  /\ batch = {} /\ sinkPC = "running" /\ closing = NoFd
  /\ session = NoFd /\ raced = FALSE
  /\ requestQ = <<>> /\ ticketQ = <<>> /\ proxyQ = <<>> /\ responseQ = <<>>
  /\ mainPC = "idle" /\ mainReq = NoRecord /\ mainFor = NoClient
  /\ proxyPC = "idle" /\ proxyReq = NoRecord /\ proxyFor = NoClient
  /\ impatient = {}

-----------------------------------------------------------------------------
(* External: the clients.                                                  *)

Descriptors(c) == {fd \in Fd : fdOf[fd] = c}

Connect(c) ==
  /\ client[c] = "new"
  /\ client' = [client EXCEPT ![c] = "waiting"]
  /\ edge' = edge \union {Accepts}
  /\ UNCHANGED <<sent, answers, impatient, sinkVars, heap, mainVars, proxyVars, queueVars, others>>

(* A part of the header, the rest of it, or something of the body.         *)
SendData(c, much) ==
  /\ client[c] \in {"waiting", "open"}
  /\ sent[c] = "all" => much = "all"
  /\ sent' = [sent EXCEPT ![c] = much]
  /\ edge' = edge \union {Input(fd) : fd \in Descriptors(c)}
  /\ UNCHANGED <<client, answers, impatient, sinkVars, heap, mainVars, proxyVars, queueVars, others>>

HangUp(c) ==
  /\ client[c] \in {"waiting", "open"}
  /\ client' = [client EXCEPT ![c] = IF @ = "open" THEN "gone" ELSE "left"]
  /\ edge' = edge \union {HungUp(fd) : fd \in Descriptors(c)}
  /\ impatient' = IF sent[c] = "all" THEN impatient \union {c} ELSE impatient
  /\ UNCHANGED <<sent, answers, sinkVars, heap, mainVars, proxyVars, queueVars, others>>

-----------------------------------------------------------------------------
(* The sink: one epoll_wait, then its events in the order they came in.    *)

Running == sinkPC = "running" /\ closing = NoFd

(* A hang-up is reported in the same event as the input before it, and the *)
(* loop looks for the hang-up first.                                       *)
(* Fault: it looks for input first, and not any further.                   *)
InputFirst(e)  == \A fd \in Fd : e = HungUp(fd) => Input(fd) \notin edge
HangUpFirst(e) == \A fd \in Fd : e = Input(fd) => HungUp(fd) \notin edge

EpollWait ==
  /\ Running
  /\ batch = {} /\ edge # {}
  /\ batch' = {e \in edge : HangUpFirst(e)}
  /\ edge' = {}
  /\ UNCHANGED <<clientVars, fdOf, rrMap, alive, closing, sinkPC, heap, mainVars, proxyVars, queueVars, others>>

(* processNewClientConnections, one turn of its loop. What arrived before  *)
(* the descriptor was added to the epoll set is an event at once.          *)
AcceptClient(c, fd, a) ==
  /\ Running /\ Accepts \in batch
  /\ client[c] \in {"waiting", "left"}
  /\ fdOf[fd] = NoClient
  /\ a \notin alive
  /\ client' = [client EXCEPT ![c] = IF @ = "left" THEN "gone" ELSE "open"]
  /\ fdOf' = [fdOf EXCEPT ![fd] = c]
  /\ alive' = alive \union {a}
  /\ heap' = [heap EXCEPT ![a] = Fresh(c, fd)]
  /\ rrMap' = [rrMap EXCEPT ![fd] = a]
  /\ edge' = edge \union {e \in {Input(fd), HungUp(fd)} :
                            \/ e = Input(fd) /\ sent[c] # "none"
                            \/ e = HungUp(fd) /\ client[c] = "left"}
  /\ UNCHANGED <<sent, answers, impatient, batch, sinkPC, closing, mainVars, proxyVars, queueVars, others>>

(* No connection is left to accept, or accept() fails for want of a        *)
(* descriptor; the event will not come again for those that wait.          *)
AcceptDone ==
  /\ Running /\ Accepts \in batch
  /\ \/ \A c \in Client : client[c] \notin {"waiting", "left"}
     \/ \A fd \in Fd : fdOf[fd] # NoClient
  /\ batch' = batch \ {Accepts}
  /\ UNCHANGED <<clientVars, fdOf, rrMap, alive, closing, sinkPC, edge, heap, mainVars, proxyVars, queueVars, others>>

(* Fault: the record stays in the map when its descriptor is closed.       *)
KeptIn(fd) == rrMap
(* m_rrMap.erase.                                                          *)
Erased(fd) == [rrMap EXCEPT ![fd] = NoRecord]

(* closeClientConnection: whatever record the descriptor now has is        *)
(* deleted; a descriptor with none is let be. Each of the record's two     *)
(* streams has been opened on the descriptor and closes it once more.      *)
CloseConnection(fd) ==
  IF rrMap[fd] = NoRecord
  THEN UNCHANGED <<fdOf, rrMap, alive, closing, edge>>
  ELSE /\ fdOf' = [fdOf EXCEPT ![fd] = NoClient]
       /\ rrMap' = Erased(fd)
       /\ alive' = alive \ {rrMap[fd]}
       /\ edge' = edge \ {Input(fd), HungUp(fd)}
       /\ closing' = fd

CloseStreams ==
  /\ closing # NoFd
  /\ closing' = NoFd
  /\ fdOf' = [fdOf EXCEPT ![closing] = NoClient]
  /\ UNCHANGED <<clientVars, rrMap, alive, batch, sinkPC, edge, heap, mainVars, proxyVars, queueVars, others>>

CloseOnHangUp(fd) ==
  /\ Running /\ HungUp(fd) \in batch
  /\ batch' = batch \ {HungUp(fd)}
  /\ CloseConnection(fd)
  /\ client' = [c \in Client |-> IF c = fdOf[fd] THEN "done" ELSE client[c]]
  /\ UNCHANGED <<sent, answers, impatient, sinkPC, heap, mainVars, proxyVars, queueVars, others>>

(* Fault: a request whose header is complete is read again.                *)
AlwaysReads(a) == TRUE
(* recvData ignores input while a request is being answered.               *)
Reads(a) == heap[a].rx # "done"

(* Fault: one read for an event, whatever else is there.                   *)
OneRead(c) == sent[c] # "none"
(* The parser leaves off, to go on with the next event, when it has read   *)
(* all there is and that is not the whole header (NeverForgotten).         *)
NothingMore(c) == sent[c] = "part"

(* processClientRequest: the header can be complete if all of it was sent; *)
(* the parser may fail on any of its reads (ScgiRequestParser), for good,  *)
(* and the connection is left open. Input for a descriptor closed          *)
(* meanwhile is ignored.                                                   *)
ProcessRequest(fd) ==
  LET a == rrMap[fd] IN
  /\ Running /\ Input(fd) \in batch
  /\ batch' = batch \ {Input(fd)}
  /\ IF a # NoRecord /\ Reads(a) /\ heap[a].rx # "error"
     THEN \E rx \in {"reading", "done", "error"} :
            /\ rx = "done" => sent[heap[a].client] = "all"
            /\ rx = "reading" => NothingMore(heap[a].client)
            /\ heap' = [heap EXCEPT ![a] = Parsed(a, rx)]
            /\ requestQ' = IF rx = "done" THEN Append(requestQ, a) ELSE requestQ
     ELSE UNCHANGED <<heap, requestQ>>
  /\ UNCHANGED <<clientVars, fdOf, rrMap, alive, closing, sinkPC, edge, mainVars, proxyVars, ticketQ, proxyQ, responseQ, others>>

(* One record of the response queue: the answer goes to the descriptor the *)
(* record holds, then that descriptor's connection is closed.              *)
SendResponse ==
  LET a  == Head(responseQ)
      to == fdOf[heap[a].fd]
  IN
  /\ Running /\ Responses \in batch /\ responseQ # <<>>
  /\ responseQ' = Tail(responseQ)
  /\ answers' = [c \in Client |-> IF c = to /\ client[c] = "open"
                                  THEN Append(answers[c], heap[a].ans) ELSE answers[c]]
  /\ client' = [c \in Client |-> IF c = to THEN "done" ELSE client[c]]
  /\ CloseConnection(heap[a].fd)
  /\ UNCHANGED <<sent, impatient, batch, sinkPC, heap, mainVars, proxyVars, requestQ, ticketQ, proxyQ, others>>

(* The content of a proxied answer comes from the device's connection; if  *)
(* that breaks, the stream is bad and never at its end (ScgiContent).      *)
SendSpins ==
  /\ Running /\ Responses \in batch /\ responseQ # <<>>
  /\ heap[Head(responseQ)].ans \in Proxied
  /\ sinkPC' = "stuck"
  /\ UNCHANGED <<clientVars, fdOf, rrMap, alive, closing, batch, edge, heap, mainVars, proxyVars, queueVars, others>>

(* Fault: one response is sent for an event, not all that are queued.      *)
TakenOne  == TRUE
Drained   == responseQ = <<>>

ResponsesDone ==
  /\ Running /\ Responses \in batch
  /\ Drained
  /\ batch' = batch \ {Responses}
  /\ UNCHANGED <<clientVars, fdOf, rrMap, alive, closing, sinkPC, edge, heap, mainVars, proxyVars, queueVars, others>>

-----------------------------------------------------------------------------
(* The main thread. Its queues' events are drained, as the sink's is.      *)

PostResponse(a) ==
  /\ responseQ' = Append(responseQ, a)
  /\ edge' = edge \union {Responses}

(* checkForProxyRequest: a device that is not known is not proxied to.     *)
PassToProxy ==
  /\ mainPC = "idle" /\ requestQ # <<>>
  /\ heap[Head(requestQ)].client \in Proxied
  /\ requestQ' = Tail(requestQ)
  /\ ticketQ' = Append(ticketQ, Head(requestQ))
  /\ UNCHANGED <<clientVars, sinkVars, edge, heap, mainVars, proxyVars, proxyQ, responseQ, others>>

(* mapProxyRequest, and handleLocalSCGIRequest if there is a handler.      *)
HandleLocal ==
  /\ mainPC = "idle" /\ requestQ # <<>>
  /\ requestQ' = Tail(requestQ)
  /\ mainPC' = "handling"
  /\ mainReq' = Head(requestQ)
  /\ mainFor' = heap[Head(requestQ)].client
  /\ UNCHANGED <<clientVars, sinkVars, edge, heap, proxyVars, ticketQ, proxyQ, responseQ, others>>

AnswerLocal ==
  /\ mainPC = "handling"
  /\ heap' = [heap EXCEPT ![mainReq] = Answering(mainReq, mainFor)]
  /\ PostResponse(mainReq)
  /\ mainPC' = "idle" /\ mainReq' = NoRecord /\ mainFor' = NoClient
  /\ UNCHANGED <<clientVars, sinkVars, proxyVars, requestQ, ticketQ, proxyQ, others>>

(* A body that has not arrived when it is read (ScgiContent).              *)
LocalSpins ==
  /\ mainPC = "handling"
  /\ mainPC' = "stuck"
  /\ UNCHANGED <<clientVars, sinkVars, edge, heap, mainReq, mainFor, proxyVars, queueVars, others>>

ReturnProxied ==
  /\ mainPC = "idle" /\ proxyQ # <<>>
  /\ proxyQ' = Tail(proxyQ)
  /\ PostResponse(Head(proxyQ))
  /\ UNCHANGED <<clientVars, sinkVars, heap, mainVars, proxyVars, requestQ, ticketQ, others>>

-----------------------------------------------------------------------------
(* The proxy sequencer.                                                    *)

TakeTicket ==
  /\ proxyPC = "idle" /\ ticketQ # <<>>
  /\ ticketQ' = Tail(ticketQ)
  /\ proxyPC' = "exchanging"
  /\ proxyReq' = Head(ticketQ)
  /\ proxyFor' = heap[Head(ticketQ)].client
  /\ UNCHANGED <<clientVars, sinkVars, edge, heap, mainVars, requestQ, proxyQ, responseQ, others>>

FinishExchange ==
  /\ proxyPC = "exchanging"
  /\ heap' = [heap EXCEPT ![proxyReq] = Answering(proxyReq, proxyFor)]
  /\ proxyQ' = Append(proxyQ, proxyReq)
  /\ proxyPC' = "idle" /\ proxyReq' = NoRecord /\ proxyFor' = NoClient
  /\ UNCHANGED <<clientVars, sinkVars, edge, mainVars, requestQ, ticketQ, responseQ, others>>

(* sendRequest or receiveResponse throws and ends the thread; or the body  *)
(* to pass on never ends.                                                  *)
ExchangeFails ==
  /\ proxyPC = "exchanging"
  /\ proxyPC' \in {"dead", "stuck"}
  /\ UNCHANGED <<clientVars, sinkVars, edge, heap, mainVars, proxyReq, proxyFor, queueVars, others>>

-----------------------------------------------------------------------------
(* The other threads' sockets: the monitor and the proxy talk to devices   *)
(* through HTTP sessions, each of which opens a descriptor and closes it,  *)
(* whoever has it by then.                                                 *)

OpenSession(fd) ==
  /\ session = NoFd
  /\ fdOf[fd] = NoClient
  /\ session' = fd
  /\ fdOf' = [fdOf EXCEPT ![fd] = Device]
  /\ raced' = (raced \/ closing = fd)
  /\ UNCHANGED <<clientVars, rrMap, alive, batch, sinkPC, closing, edge, heap, mainVars, proxyVars, queueVars>>

CloseSession ==
  /\ session # NoFd
  /\ session' = NoFd
  /\ fdOf' = [fdOf EXCEPT ![session] = NoClient]
  /\ client' = [c \in Client |-> IF c = fdOf[session] THEN "done" ELSE client[c]]
  /\ edge' = edge \ {Input(session), HungUp(session)}
  /\ UNCHANGED <<sent, answers, impatient, rrMap, alive, batch, sinkPC, closing, heap, mainVars, proxyVars, queueVars, raced>>

-----------------------------------------------------------------------------

Clients ==
  \E c \in Client :
    \/ Connect(c) \/ HangUp(c)
    \/ \E much \in {"part", "all"} : SendData(c, much)

Sink ==
  \/ EpollWait \/ AcceptDone
  \/ \E c \in Client, fd \in Fd, a \in Addr : AcceptClient(c, fd, a)
  \/ \E fd \in Fd : CloseOnHangUp(fd) \/ ProcessRequest(fd)
  \/ SendResponse \/ SendSpins \/ ResponsesDone \/ CloseStreams

Main == PassToProxy \/ HandleLocal \/ AnswerLocal \/ LocalSpins \/ ReturnProxied

Proxy == TakeTicket \/ FinishExchange \/ ExchangeFails

Sessions == CloseSession \/ \E fd \in Fd : OpenSession(fd)

Next == Clients \/ Sink \/ Main \/ Proxy \/ Sessions

Spec == Init /\ [][Next]_vars

(* Each of the three threads goes on as long as it has something to do;    *)
(* a client need not.                                                      *)
FairSpec == Spec /\ WF_vars(Sink) /\ WF_vars(Main) /\ WF_vars(Proxy)

-----------------------------------------------------------------------------

Record == [client : Client, fd : Fd, rx : {"reading", "done", "error"}, ans : Client \union {NoClient}]

ClientsOK ==
  /\ client \in [Client -> {"new", "waiting", "left", "open", "gone", "done"}]
  /\ sent \in [Client -> {"none", "part", "all"}]
  /\ answers \in [Client -> Seq(Client \union {NoClient})]
  /\ impatient \subseteq Client

DescriptorsOK ==
  /\ fdOf \in [Fd -> Client \union {NoClient, Device}]
  /\ rrMap \in [Fd -> Addr \union {NoRecord}]
  /\ closing \in Fd \union {NoFd} /\ session \in Fd \union {NoFd} /\ raced \in BOOLEAN

HeapOK   == heap \in [Addr -> Record] /\ alive \subseteq Addr
EventsOK == edge \subseteq Event /\ batch \subseteq Event

ThreadsOK ==
  /\ sinkPC \in {"running", "stuck"}
  /\ mainPC \in {"idle", "handling", "stuck"} /\ mainReq \in Addr \union {NoRecord}
  /\ proxyPC \in {"idle", "exchanging", "dead", "stuck"} /\ proxyReq \in Addr \union {NoRecord}
  /\ mainPC # "idle" => mainReq \in Addr
  /\ proxyPC # "idle" => proxyReq \in Addr
  /\ mainFor \in Client \union {NoClient} /\ proxyFor \in Client \union {NoClient}

QueuesOK ==
  /\ requestQ \in Seq(Addr) /\ ticketQ \in Seq(Addr)
  /\ proxyQ \in Seq(Addr) /\ responseQ \in Seq(Addr)

TypeOK == ClientsOK /\ DescriptorsOK /\ HeapOK /\ EventsOK /\ ThreadsOK /\ QueuesOK

(* Whatever hangs up when, and whatever stale event is come to, a          *)
(* descriptor is open exactly as long as it has a record of its own in the *)
(* map, or is another thread's, and no other record is allocated: none     *)
(* leaks, none is deleted while it can still be found, and no thread's     *)
(* descriptor is closed by another. All of this as long as no session gets *)
(* a descriptor between the sink's first and last close of it.             *)
MapMatchesDescriptors ==
  ~raced =>
    /\ alive = {rrMap[fd] : fd \in Fd} \ {NoRecord}
    /\ session # NoFd => fdOf[session] = Device
    /\ \A fd \in Fd :
         IF rrMap[fd] = NoRecord
         THEN fdOf[fd] = IF fd = session THEN Device ELSE NoClient
         ELSE heap[rrMap[fd]].fd = fd /\ heap[rrMap[fd]].client = fdOf[fd]

(* Events are told once, in batches that may be older than the descriptors *)
(* they are about. Still none of the sink's work is forgotten: while there *)
(* is an answer to send, a client that hung up to be released, or a whole  *)
(* request to be read, an event for it is in the batch or yet to be told.  *)
NoneForgotten ==
  LET coming == edge \union batch IN
  /\ responseQ # <<>> => Responses \in coming
  /\ ~raced =>
       \A fd \in Fd : fdOf[fd] \in Client =>
         /\ client[fdOf[fd]] = "gone" => HungUp(fd) \in coming
         /\ sent[fdOf[fd]] = "all" /\ heap[rrMap[fd]].rx = "reading" =>
              {Input(fd), HungUp(fd)} \cap coming # {}

(* The addresses in queues and in threads' hands, in a row.                *)
InFlight ==
  requestQ \o ticketQ \o proxyQ \o responseQ
    \o (IF mainPC # "idle" THEN <<mainReq>> ELSE <<>>)
    \o (IF proxyPC \in {"exchanging", "stuck"} THEN <<proxyReq>> ELSE <<>>)

(* No client hangs up on its request, and no session is opened at the      *)
(* wrong moment.                                                           *)
Orderly == impatient = {} /\ ~raced

(* As long as no client hangs up on its request, every address in flight   *)
(* is of a record that is alive and was read to the end, and no record is  *)
(* in two hands: not when a thread dies, nor when descriptors and          *)
(* addresses are used again under a stale event.                           *)
OneOwner ==
  Orderly =>
    /\ \A i \in DOMAIN InFlight : InFlight[i] \in alive /\ heap[InFlight[i]].rx = "done"
    /\ \A i, j \in DOMAIN InFlight : InFlight[i] = InFlight[j] => i = j

(* Nor is any client sent another's answer, or a second one.               *)
OwnAnswer == Orderly => \A c \in Client : answers[c] \in {<<>>, <<c>>}

(* Nor is a connection closed under a client that waits, by a hang-up seen *)
(* late or an answer that was another's.                                   *)
NoneDropped ==
  [][\A c \in Client :
       Orderly' /\ client[c] # "done" /\ client'[c] = "done"
         => client[c] = "gone" \/ answers'[c] = <<c>>]_vars

(* All of it together, of each client: the threads, queues and events come *)
(* to the service RequestService promises, also after a client hung up on  *)
(* its request or a session raced a close, when it promises less.          *)
PhaseOf(place) ==
  IF place = "new" THEN "away"
  ELSE IF place \in {"waiting", "open"} THEN "served"
  ELSE IF place \in {"left", "gone"} THEN "leaving" ELSE "released"

Service ==
  INSTANCE RequestService WITH
    phase <- [c \in Client |-> PhaseOf(client[c])], sent <- sent, answers <- answers, orderly <- Orderly

ImplementsService == Service!Spec

(* A request the sink has read is answered, unless a thread it needs is    *)
(* stuck or dead; a local one needs nothing of the proxy's thread.         *)
Answered ==
  \A c \in Client :
    (\E a \in alive : heap[a].client = c /\ heap[a].rx = "done")
      ~> \/ answers[c] # <<>> \/ ~Orderly
         \/ sinkPC = "stuck" \/ mainPC = "stuck"
         \/ c \in Proxied /\ proxyPC \in {"dead", "stuck"}

(* The connection of a client that hung up is closed, whatever else came   *)
(* with the hang-up: neither descriptor nor record leaks.                  *)
Released ==
  \A c \in Client : client[c] = "gone" ~> client[c] = "done" \/ ~Orderly \/ sinkPC = "stuck"

=============================================================================
