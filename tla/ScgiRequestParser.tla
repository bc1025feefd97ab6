-------------------------- MODULE ScgiRequestParser --------------------------
(***************************************************************************)
(* The sink's parser of one SCGI request: a netstring, its length, a       *)
(* colon, the headers and a comma, then the body. The bytes arrive in      *)
(* pieces, on a non-blocking socket whose events are edge triggered; the   *)
(* parser reads until a read() tells it to stop.                           *)
(*                                                                         *)
(* A byte is its position in the stream. What a header says is left out.   *)
(***************************************************************************)
EXTENDS Integers

CONSTANTS
  Prefix,      (* the length of "<digits>:"                                   *)
  MaxHeader,   (* bound: bytes of headers                                     *)
  Body         (* the length of the body                                      *)

ASSUME LengthAssumption == Prefix \in Nat \ {0} /\ MaxHeader \in Nat /\ Body \in Nat

VARIABLES
  declared,    (* external: the length the netstring declares                 *)
  comma,       (* external: is the byte after that length a comma?            *)
  arrived,     (* external: bytes the client's end has sent                   *)
  closed,      (* external: the client's end will send no more                *)
  edge,        (* the event epoll will report                                 *)
  busy,        (* the sink is in recvData                                     *)
  taken,       (* bytes read() has returned                                   *)
  rxState,     (* m_rxState                                                   *)
  expHdrLen,   (* m_expHdrLen                                                 *)
  rcvHdrLen,   (* m_rcvHdrLen                                                 *)
  headerBuf,   (* the positions in m_headerBuf                                *)
  headers,     (* the positions the header pairs were extracted from          *)
  queued       (* how often the request was put on the parent's queue         *)

peer   == <<declared, comma, arrived, closed>>
parser == <<taken, rxState, expHdrLen, rcvHdrLen, headerBuf, headers, queued>>
vars   == <<peer, edge, busy, parser>>

RxState == {"idle", "length", "accumulate", "extract", "comma", "done", "error"}

HeaderEnd == Prefix + declared
FrameEnd  == HeaderEnd + 1
Total     == FrameEnd + Body

Init ==
  /\ declared \in 0..MaxHeader
  /\ comma \in BOOLEAN
  /\ arrived = 0 /\ closed = FALSE
  /\ edge = FALSE /\ busy = FALSE
  /\ taken = 0
  /\ rxState = "idle"
  /\ expHdrLen = 0 /\ rcvHdrLen = 0
  /\ headerBuf = {} /\ headers = {}
  /\ queued = 0

-----------------------------------------------------------------------------
(* External: more bytes, or the client shuts its sending side down.        *)

Arrive(n) ==
  /\ ~closed
  /\ n > 0 /\ arrived + n <= Total
  /\ arrived' = arrived + n
  /\ edge' = TRUE
  /\ UNCHANGED <<declared, comma, closed, busy, parser>>

Shutdown ==
  /\ ~closed
  /\ closed' = TRUE
  /\ edge' = TRUE
  /\ UNCHANGED <<declared, comma, arrived, busy, parser>>

-----------------------------------------------------------------------------
(* processClientRequest and recvData; input that comes while the payload   *)
(* is processed, or after an error, is left where it is.                   *)

Available == arrived - taken

(* read() of a non-blocking socket with nothing in it: 0 at the end of the *)
(* stream, otherwise -1 and EAGAIN.                                        *)
AtEnd   == Available = 0 /\ closed
Blocked == Available = 0 /\ ~closed

Receive ==
  /\ ~busy /\ edge
  /\ edge' = FALSE
  /\ busy' = (rxState \notin {"done", "error"})
  /\ UNCHANGED <<peer, parser>>

Parsing(s) == busy /\ rxState = s

StartRequest ==
  /\ Parsing("idle")
  /\ expHdrLen' = 0 /\ rcvHdrLen' = 0
  /\ rxState' = "length"
  /\ UNCHANGED <<peer, edge, busy, taken, headerBuf, headers, queued>>

(* readNetStrStart, one character; the colon ends the number.              *)
ReadNetStrStart ==
  /\ Parsing("length")
  /\ Available > 0
  /\ taken' = taken + 1
  /\ IF taken' = Prefix
     THEN /\ expHdrLen' = declared /\ rcvHdrLen' = 0
          /\ headerBuf' = {}
          /\ rxState' = "accumulate"
     ELSE UNCHANGED <<expHdrLen, rcvHdrLen, headerBuf, rxState>>
  /\ UNCHANGED <<peer, edge, busy, headers, queued>>

(* Fault: the comma is counted among the header bytes.                     *)
BytesLeftWithComma == expHdrLen + 1 - rcvHdrLen
BytesLeft == expHdrLen - rcvHdrLen

(* Faults: the buffer is full only with the comma in it, or with the last  *)
(* byte still to come.                                                     *)
FullWithComma(received) == received = expHdrLen + 1
FullOneShort(received)  == received + 1 >= expHdrLen
Full(received) == received = expHdrLen

(* Fault: one byte for an event, whatever else is there.                   *)
OneByte == IF BytesLeft = 0 THEN 0 ELSE 1
(* As much as there is, at most what is left.                              *)
Piece == IF Available < BytesLeft THEN Available ELSE BytesLeft

(* fillRequestHeaderBuffer. A read of no bytes at all returns 0.           *)
FillRequestHeaderBuffer ==
  LET n == Piece IN
  /\ Parsing("accumulate")
  /\ Available > 0 \/ BytesLeft = 0
  /\ taken' = taken + n
  /\ rcvHdrLen' = rcvHdrLen + n
  /\ headerBuf' = headerBuf \union ((taken + 1)..(taken + n))
  /\ IF Full(rcvHdrLen')
     THEN rxState' = "extract" /\ UNCHANGED busy
     ELSE busy' = FALSE /\ UNCHANGED rxState
  /\ UNCHANGED <<peer, edge, expHdrLen, headers, queued>>

ExtractHeaderPairs ==
  /\ Parsing("extract")
  /\ headers' = headerBuf
  /\ headerBuf' = {} /\ rcvHdrLen' = 0
  /\ rxState' = "comma"
  /\ UNCHANGED <<peer, edge, busy, taken, expHdrLen, queued>>

(* Fault: the byte after the headers is consumed without a look at it.     *)
IsAnyByte(p) == TRUE
IsComma(p)   == p = FrameEnd /\ comma

(* consumeNetStrComma, and the request goes to the parent's queue.         *)
ConsumeNetStrComma ==
  /\ Parsing("comma")
  /\ Available > 0
  /\ taken' = taken + 1
  /\ busy' = FALSE
  /\ IF IsComma(taken')
     THEN rxState' = "done" /\ queued' = queued + 1
     ELSE rxState' = "error" /\ UNCHANGED queued
  /\ UNCHANGED <<peer, edge, expHdrLen, rcvHdrLen, headerBuf, headers>>

NeedsBytes == \/ rxState \in {"length", "comma"}
              \/ rxState = "accumulate" /\ BytesLeft > 0

(* A read() that returns 0 leaves the state to wait, one that fails is a   *)
(* parse error; the connection stays open either way.                      *)
ReadNothing ==
  /\ busy /\ NeedsBytes
  /\ Available = 0
  /\ busy' = FALSE
  /\ \/ AtEnd /\ UNCHANGED rxState
     \/ Blocked /\ rxState' = "error"
  /\ UNCHANGED <<peer, edge, taken, expHdrLen, rcvHdrLen, headerBuf, headers, queued>>

-----------------------------------------------------------------------------

Sink ==
  \/ Receive \/ StartRequest \/ ReadNetStrStart \/ FillRequestHeaderBuffer
  \/ ExtractHeaderPairs \/ ConsumeNetStrComma \/ ReadNothing

Next ==
  \/ Sink
  \/ \E n \in 1..Total : Arrive(n)
  \/ Shutdown

Spec == Init /\ [][Next]_vars

(* The sink's thread comes to every event and leaves no recvData undone.   *)
FairSpec == Spec /\ WF_vars(Sink)

-----------------------------------------------------------------------------

TypeOK ==
  /\ declared \in 0..MaxHeader /\ comma \in BOOLEAN
  /\ arrived \in 0..Total /\ taken \in 0..arrived
  /\ closed \in BOOLEAN /\ edge \in BOOLEAN /\ busy \in BOOLEAN
  /\ rxState \in RxState
  /\ expHdrLen \in 0..MaxHeader /\ rcvHdrLen \in 0..expHdrLen
  /\ headerBuf \subseteq 1..Total /\ headers \subseteq 1..Total
  /\ queued \in Nat

(* However the bytes come, a request goes to the queue once, with headers  *)
(* extracted from exactly the bytes the netstring declared, and the next   *)
(* byte to read is the first of the body.                                  *)
QueuedIntact ==
  queued > 0 =>
    /\ queued = 1 /\ comma
    /\ headers = (Prefix + 1)..HeaderEnd
    /\ taken = FrameEnd

(* The socket tells of every arrival once. A request that is there as a    *)
(* whole is parsed, or has failed, or is about to be looked at: it never   *)
(* waits for an event that will not come.                                  *)
NeverForgotten ==
  ~edge /\ ~busy /\ arrived >= FrameEnd => rxState \in {"done", "error"}

(* A request that is there as a whole when the sink first looks is parsed; *)
(* it is only ever a piecemeal one that fails.                             *)
WholeRequestParsed ==
  (rxState = "idle" /\ ~busy /\ edge /\ comma /\ arrived >= FrameEnd) ~> rxState = "done"

(* However many reads it takes, and whatever comes in between, they amount *)
(* to one look at the socket for an event, as ScgiRequests has it; and the *)
(* look fails only for a byte that is no comma, or for coming to the last  *)
(* byte when more was to come: never for the header's length, its end, or  *)
(* how the bytes that are there are divided among reads.                   *)
Sent == IF arrived = 0 THEN "none" ELSE IF arrived < FrameEnd THEN "part" ELSE "all"

Reader ==
  INSTANCE RequestReader WITH
    sound <- comma, sent <- Sent, over <- closed, told <- edge \/ busy,
    rx <- IF rxState \in {"done", "error"} THEN rxState ELSE "reading"

ImplementsReader == Reader!Spec

(* "If a character is not available then return to waiting": a request     *)
(* that is well formed as far as it has come does not fail.                *)
PartialRequestWaits == comma => rxState # "error"

=============================================================================
