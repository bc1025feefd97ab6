----------------------- MODULE ScgiRequestParser_proofs -----------------------
(***************************************************************************)
(* What the parser has read in each of its states, for prefixes, headers   *)
(* and bodies of any length and however the bytes come.                    *)
(***************************************************************************)
EXTENDS ScgiRequestParser, TLAPS

HeaderBytes(last) == (Prefix + 1)..last

(* How far the stream was read, and what became of its bytes.              *)
ReadSoFar ==
  /\ rxState = "idle" => taken = 0
  /\ rxState = "length" => taken < Prefix
  /\ rxState = "accumulate" => expHdrLen = declared /\ taken = Prefix + rcvHdrLen
  /\ rxState = "extract" => expHdrLen = declared /\ taken = HeaderEnd
  /\ rxState = "comma" => taken = HeaderEnd
  /\ rxState = "done" => taken = FrameEnd /\ comma /\ ~busy
  /\ rxState = "error" => ~busy

KeptSoFar ==
  /\ rxState \in {"idle", "length"} => headerBuf = {}
  /\ rxState \in {"accumulate", "extract"} => headerBuf = HeaderBytes(taken)
  /\ rxState \in {"comma", "done"} => headers = HeaderBytes(HeaderEnd)
  /\ queued = IF rxState = "done" THEN 1 ELSE 0

ParserInv == TypeOK /\ ReadSoFar /\ KeptSoFar

LEMMA ParserInit == Init => ParserInv
<1> SUFFICES ASSUME Init PROVE ParserInv
  OBVIOUS
<1>0. comma \in BOOLEAN /\ closed \in BOOLEAN /\ edge \in BOOLEAN /\ busy \in BOOLEAN
  BY DEF Init
<1>1. TypeOK
  BY <1>0, LengthAssumption DEF Init, TypeOK, RxState, Total, FrameEnd, HeaderEnd
<1>2. ReadSoFar /\ KeptSoFar
  BY DEF Init, ReadSoFar, KeptSoFar
<1>3. QED
  BY <1>1, <1>2 DEF ParserInv

(* Every step, of the parser's or the client's, keeps that.                *)
LEMMA ParserStep == ParserInv /\ [Next]_vars => ParserInv'
<1> SUFFICES ASSUME ParserInv, [Next]_vars PROVE ParserInv'
  OBVIOUS
<1> USE LengthAssumption DEF ParserInv, TypeOK, ReadSoFar, KeptSoFar, RxState, Total, FrameEnd, HeaderEnd,
                              HeaderBytes, peer, parser
<1>1. ASSUME NEW n \in 1..Total, Arrive(n) PROVE ParserInv'
  BY <1>1 DEF Arrive
<1>2. CASE Shutdown
  BY <1>2 DEF Shutdown
<1>3. CASE Receive
  BY <1>3 DEF Receive
<1>4. CASE StartRequest
  BY <1>4 DEF StartRequest, Parsing
<1>5. CASE ReadNetStrStart
  <2>1. /\ rxState = "length" /\ busy /\ taken < arrived /\ taken' = taken + 1
        /\ UNCHANGED <<declared, comma, arrived, closed, edge, busy, headers, queued>>
    BY <1>5 DEF ReadNetStrStart, Parsing, Available
  <2>2. CASE taken' = Prefix
    <3>1. expHdrLen' = declared /\ rcvHdrLen' = 0 /\ headerBuf' = {} /\ rxState' = "accumulate"
      BY <1>5, <2>2 DEF ReadNetStrStart
    <3>2. headerBuf' = HeaderBytes(taken')
      BY <2>2, <3>1
    <3>3. TypeOK'
      BY <2>1, <3>1
    <3>4. ReadSoFar' /\ KeptSoFar'
      BY <2>1, <2>2, <3>1, <3>2
    <3>5. QED
      BY <3>3, <3>4
  <2>3. CASE taken' # Prefix
    <3>1. UNCHANGED <<expHdrLen, rcvHdrLen, headerBuf, rxState>>
      BY <1>5, <2>3 DEF ReadNetStrStart
    <3>2. QED
      BY <2>1, <2>3, <3>1
  <2>4. QED
    BY <2>2, <2>3
<1>6. CASE FillRequestHeaderBuffer
  <2> DEFINE n == Piece
  <2>1. n \in 0..(declared - rcvHdrLen) /\ taken + n <= arrived
    BY <1>6 DEF FillRequestHeaderBuffer, Parsing, Available, BytesLeft, Piece
  <2>2. /\ rxState = "accumulate" /\ busy
        /\ taken' = taken + n /\ rcvHdrLen' = rcvHdrLen + n
        /\ headerBuf' = headerBuf \union ((taken + 1)..(taken + n))
        /\ UNCHANGED <<declared, comma, arrived, closed, edge, expHdrLen, headers, queued>>
    BY <1>6 DEF FillRequestHeaderBuffer, Parsing
  <2>3. \/ rcvHdrLen' = declared /\ rxState' = "extract" /\ busy' = busy
        \/ rxState' = "accumulate" /\ busy' = FALSE
    BY <1>6, <2>2 DEF FillRequestHeaderBuffer, Full
  <2> HIDE DEF n
  <2>4. headerBuf' = HeaderBytes(taken')
    BY <2>1, <2>2
  <2>5. taken' \in 0..arrived /\ rcvHdrLen' \in 0..expHdrLen /\ headerBuf' \subseteq 1..Total
    BY <2>1, <2>2
  <2>6. comma' \in BOOLEAN /\ closed' \in BOOLEAN /\ edge' \in BOOLEAN /\ busy' \in BOOLEAN
    BY <2>2, <2>3
  <2>7. rxState' \in {"accumulate", "extract"} /\ (rxState' = "extract" => rcvHdrLen' = declared)
    BY <2>3
  <2>8. TypeOK'
    <3>1. declared' \in 0..MaxHeader /\ Total' = Total
      BY <2>2
    <3>2. arrived' \in 0..Total' /\ taken' \in 0..arrived'
      BY <2>2, <2>5, <3>1
    <3>3. expHdrLen' \in 0..MaxHeader /\ rcvHdrLen' \in 0..expHdrLen' /\ queued' \in Nat
      BY <2>2, <2>5
    <3>4. headerBuf' \subseteq 1..Total' /\ headers' \subseteq 1..Total'
      BY <2>2, <2>5, <3>1
    <3>5. rxState' \in RxState
      BY <2>7
    <3>6. QED
      BY <2>6, <3>1, <3>2, <3>3, <3>4, <3>5
  <2>9. ReadSoFar'
    <3>1. taken' = Prefix + rcvHdrLen' /\ expHdrLen' = declared /\ declared' = declared
      BY <2>1, <2>2
    <3>2. QED
      BY <2>7, <3>1 DEF ReadSoFar
  <2>10. KeptSoFar'
    BY <2>2, <2>4, <2>7
  <2>11. QED
    BY <2>8, <2>9, <2>10
<1>7. CASE ExtractHeaderPairs
  BY <1>7 DEF ExtractHeaderPairs, Parsing
<1>8. CASE ConsumeNetStrComma
  <2>1. /\ rxState = "comma" /\ taken < arrived /\ taken' = taken + 1 /\ busy' = FALSE
        /\ UNCHANGED <<declared, comma, arrived, closed, edge, expHdrLen, rcvHdrLen, headerBuf, headers>>
    BY <1>8 DEF ConsumeNetStrComma, Parsing, Available
  <2>2. \/ comma /\ rxState' = "done" /\ queued' = queued + 1
        \/ rxState' = "error" /\ queued' = queued
    BY <1>8 DEF ConsumeNetStrComma, IsComma
  <2>3. comma' \in BOOLEAN /\ closed' \in BOOLEAN /\ edge' \in BOOLEAN /\ busy' \in BOOLEAN
    BY <2>1
  <2>4. TypeOK'
    BY <2>1, <2>2, <2>3
  <2>5. ReadSoFar'
    BY <2>1, <2>2
  <2>6. KeptSoFar'
    BY <2>1, <2>2
  <2>7. QED
    BY <2>4, <2>5, <2>6
<1>9. CASE ReadNothing
  BY <1>9 DEF ReadNothing, NeedsBytes, AtEnd, Blocked
<1>10. CASE UNCHANGED vars
  BY <1>10 DEF vars
<1>11. QED
  BY <1>1, <1>2, <1>3, <1>4, <1>5, <1>6, <1>7, <1>8, <1>9, <1>10 DEF Next, Sink

LEMMA ParserAlways == Spec => []ParserInv
  BY ParserInit, ParserStep, PTL DEF Spec

(* Every variable keeps its type: no byte is read before it came and none  *)
(* is put into the buffer beyond its length.                               *)
THEOREM TypeCorrect == Spec => []TypeOK
<1>1. ParserInv => TypeOK
  BY DEF ParserInv
<1>2. QED
  BY <1>1, ParserAlways, PTL

(* A request on the queue was queued once, with exactly its header bytes.  *)
THEOREM QueuedWhole == Spec => []QueuedIntact
<1>1. ParserInv => QueuedIntact
  BY DEF ParserInv, TypeOK, ReadSoFar, KeptSoFar, QueuedIntact, HeaderBytes
<1>2. QED
  BY <1>1, ParserAlways, PTL

-----------------------------------------------------------------------------
(* The byte after the headers is the one looked at for a comma, and every  *)
(* byte a read could have waited for comes before the end of the frame.    *)
LEMMA FailStep ==
  ASSUME ParserInv, [Next]_vars, rxState # "error", rxState' = "error"
  PROVE  ~comma \/ (arrived < FrameEnd /\ ~closed)
<1> USE LengthAssumption DEF ParserInv, TypeOK, ReadSoFar, FrameEnd, HeaderEnd
<1>1. ConsumeNetStrComma \/ ReadNothing
  BY DEF Next, Sink, Arrive, Shutdown, Receive, StartRequest, ReadNetStrStart, FillRequestHeaderBuffer,
       ExtractHeaderPairs, vars, parser
<1>2. CASE ConsumeNetStrComma
  <2>1. taken' = FrameEnd /\ ~IsComma(taken')
    BY <1>2 DEF ConsumeNetStrComma, Parsing
  <2>2. QED
    BY <2>1 DEF IsComma
<1>3. CASE ReadNothing
  <2>1. Available = 0 /\ ~closed /\ NeedsBytes
    BY <1>3 DEF ReadNothing, AtEnd, Blocked
  <2>2. arrived = taken
    BY <2>1 DEF Available
  <2>3. taken < FrameEnd
    BY <2>1 DEF NeedsBytes, BytesLeft
  <2>4. QED
    BY <2>1, <2>2, <2>3
<1>4. QED
  BY <1>1, <1>2, <1>3

-----------------------------------------------------------------------------
(* The sink leaves off waiting only when it has read all there is, and     *)
(* that is not yet the whole header; what comes later is an event.         *)
LEMMA ForgetsNothing == ParserInv /\ NeverForgotten /\ [Next]_vars => NeverForgotten'
<1> SUFFICES ASSUME ParserInv, NeverForgotten, [Next]_vars PROVE NeverForgotten'
  OBVIOUS
<1> USE LengthAssumption DEF ParserInv, TypeOK, NeverForgotten, Total, FrameEnd, HeaderEnd, peer, parser
<1>1. ASSUME NEW n \in 1..Total, Arrive(n) PROVE NeverForgotten'
  BY <1>1 DEF Arrive
<1>2. CASE Shutdown
  BY <1>2 DEF Shutdown
<1>3. CASE Receive
  BY <1>3 DEF Receive
<1>4. CASE StartRequest \/ ReadNetStrStart \/ ExtractHeaderPairs
  BY <1>4 DEF StartRequest, ReadNetStrStart, ExtractHeaderPairs, Parsing
<1>5. CASE FillRequestHeaderBuffer
  <2>1. /\ busy /\ rxState = "accumulate" /\ rcvHdrLen' = rcvHdrLen + Piece
        /\ expHdrLen = declared /\ taken = Prefix + rcvHdrLen
        /\ UNCHANGED <<declared, arrived, edge>>
    BY <1>5 DEF FillRequestHeaderBuffer, Parsing, ReadSoFar
  <2>2. CASE rcvHdrLen' = expHdrLen
    BY <1>5, <2>1, <2>2 DEF FillRequestHeaderBuffer, Full
  <2>3. CASE rcvHdrLen' # expHdrLen
    <3>1. arrived - taken < expHdrLen - rcvHdrLen
      BY <2>1, <2>3 DEF Piece, Available, BytesLeft
    <3>2. arrived < HeaderEnd
      BY <2>1, <3>1
    <3>3. QED
      BY <2>1, <3>2
  <2>4. QED
    BY <2>2, <2>3
<1>6. CASE ConsumeNetStrComma
  BY <1>6 DEF ConsumeNetStrComma
<1>7. CASE ReadNothing
  <2>1. taken = arrived /\ rxState \in {"length", "comma", "accumulate"}
        /\ (rxState = "accumulate" => rcvHdrLen < expHdrLen)
    BY <1>7 DEF ReadNothing, NeedsBytes, Available, BytesLeft
  <2>2. arrived < FrameEnd
    BY <2>1 DEF ReadSoFar
  <2>3. QED
    BY <1>7, <2>2 DEF ReadNothing
<1>8. CASE UNCHANGED vars
  BY <1>8 DEF vars
<1>9. QED
  BY <1>1, <1>2, <1>3, <1>4, <1>5, <1>6, <1>7, <1>8 DEF Next, Sink

(* No request that is there as a whole waits for another event.            *)
THEOREM NothingForgotten == Spec => []NeverForgotten
<1>1. Init => NeverForgotten
  BY LengthAssumption DEF Init, NeverForgotten, FrameEnd, HeaderEnd
<1>2. QED
  BY <1>1, ForgetsNothing, ParserAlways, PTL DEF Spec

-----------------------------------------------------------------------------
(* The turns of the parser's loop amount to one look: all but the last of  *)
(* them change nothing of what the sink's loop can tell, nor does the last *)
(* one if it leaves off while more has come in, which is told of anew.     *)

reading == IF rxState \in {"done", "error"} THEN rxState ELSE "reading"

LEMMA LeavesOff ==
  ASSUME ParserInv, busy, rxState \notin {"done", "error"},
         ~busy', UNCHANGED <<peer, edge, rxState>>, arrived < FrameEnd, arrived = 0 => closed
  PROVE  [Reader!Next]_(Reader!vars)
<1>1. reading = "reading" /\ reading' = "reading" /\ Sent' = Sent /\ closed' = closed /\ comma' = comma
  BY DEF reading, Sent, peer, FrameEnd, HeaderEnd
<1>2. Sent # "all" /\ (Sent = "none" => closed)
  BY DEF Sent
<1>3. CASE edge
  <2>1. (edge \/ busy)' = (edge \/ busy)
    BY <1>3
  <2>2. QED
    BY <1>1, <2>1 DEF Reader!vars, reading
<1>4. CASE ~edge
  <2>1. (edge \/ busy) /\ (edge \/ busy)' = FALSE
    BY <1>4
  <2>2. Reader!Wait
    BY <1>1, <1>2, <2>1 DEF Reader!Wait, reading
  <2>3. QED
    BY <2>2 DEF Reader!Next
<1>5. QED
  BY <1>3, <1>4

LEMMA ReadsOn ==
  ASSUME ParserInv, busy, busy', UNCHANGED peer,
         rxState \notin {"done", "error"}, rxState' \notin {"done", "error"}
  PROVE  UNCHANGED Reader!vars
BY DEF Reader!vars, Sent, peer, FrameEnd, HeaderEnd

LEMMA Fails ==
  ASSUME ParserInv, [Next]_vars, busy, rxState \notin {"done", "error"}, rxState' = "error", UNCHANGED peer
  PROVE  Reader!Fail
<1>0. ~comma \/ (Sent # "all" /\ ~closed)
  BY FailStep DEF Sent, ParserInv, TypeOK, Total, FrameEnd, HeaderEnd
<1>1. Sent' = Sent /\ closed' = closed /\ comma' = comma
  BY DEF Sent, peer, FrameEnd, HeaderEnd
<1>2. (edge \/ busy) /\ (edge \/ busy)' \in BOOLEAN
  OBVIOUS
<1>3. QED
  BY <1>0, <1>1, <1>2 DEF Reader!Fail, Reader!Settle

LEMMA ReaderStep == ParserInv /\ [Next]_vars => [Reader!Next]_(Reader!vars)
<1> SUFFICES ASSUME ParserInv, [Next]_vars PROVE [Reader!Next]_(Reader!vars)
  OBVIOUS
<1>0. /\ arrived \in Nat /\ taken \in 0..arrived /\ Prefix \in Nat \ {0} /\ declared \in Nat
      /\ busy \in BOOLEAN /\ edge \in BOOLEAN /\ closed \in BOOLEAN
  BY LengthAssumption DEF ParserInv, TypeOK, Total, FrameEnd, HeaderEnd
<1>1. ASSUME NEW n \in 1..Total, Arrive(n) PROVE [Reader!Next]_(Reader!vars)
  <2>1. /\ ~closed /\ closed' = closed /\ arrived' = arrived + n /\ n > 0
        /\ edge' /\ UNCHANGED <<declared, comma, rxState>>
    BY <1>1 DEF Arrive, parser
  <2>2. Sent' \in {"part", "all"} /\ (Sent = "all" => Sent' = "all")
    BY <1>0, <2>1 DEF Sent, FrameEnd, HeaderEnd, Total
  <2>3. (edge \/ busy)' = TRUE
    BY <2>1
  <2>4. Reader!Send(Sent')
    BY <2>1, <2>2, <2>3 DEF Reader!Send
  <2>5. QED
    BY <2>2, <2>4 DEF Reader!Next
<1>2. CASE Shutdown
  <2>1. ~closed /\ closed' = TRUE /\ edge' /\ UNCHANGED <<declared, comma, arrived, rxState>>
    BY <1>2 DEF Shutdown, parser
  <2>2. Sent' = Sent /\ (edge \/ busy)' = TRUE
    BY <2>1 DEF Sent, FrameEnd, HeaderEnd
  <2>3. Reader!Shutdown
    BY <2>1, <2>2 DEF Reader!Shutdown
  <2>4. QED
    BY <2>3 DEF Reader!Next
<1>3. CASE Receive
  <2>1. /\ edge /\ ~busy /\ edge' = FALSE /\ busy' = (rxState \notin {"done", "error"})
        /\ UNCHANGED <<declared, comma, arrived, closed, rxState>>
    BY <1>3 DEF Receive, peer, parser
  <2>2. Sent' = Sent
    BY <2>1 DEF Sent, FrameEnd, HeaderEnd
  <2>3. CASE rxState \in {"done", "error"}
    <3>1. (edge \/ busy) /\ (edge \/ busy)' = FALSE
      BY <2>1, <2>3
    <3>2. Reader!Ignore
      BY <2>1, <2>2, <2>3, <3>1 DEF Reader!Ignore
    <3>3. QED
      BY <3>2 DEF Reader!Next
  <2>4. CASE rxState \notin {"done", "error"}
    <3>1. (edge \/ busy)' = (edge \/ busy)
      BY <2>1, <2>4
    <3>2. QED
      BY <2>1, <2>2, <3>1 DEF Reader!vars
  <2>5. QED
    BY <2>3, <2>4
<1>4. CASE StartRequest \/ ReadNetStrStart \/ ExtractHeaderPairs
  <2>1. /\ busy /\ busy' /\ UNCHANGED peer
        /\ rxState \notin {"done", "error"} /\ rxState' \notin {"done", "error"}
    BY <1>4 DEF StartRequest, ReadNetStrStart, ExtractHeaderPairs, Parsing
  <2>2. QED
    BY <2>1, ReadsOn
<1>5. CASE FillRequestHeaderBuffer
  <2>1. /\ busy /\ rxState = "accumulate" /\ rcvHdrLen' = rcvHdrLen + Piece /\ UNCHANGED <<peer, edge>>
        /\ expHdrLen = declared /\ taken = Prefix + rcvHdrLen /\ rcvHdrLen \in Nat
    BY <1>5 DEF FillRequestHeaderBuffer, Parsing, ParserInv, ReadSoFar, TypeOK
  <2>2. CASE rcvHdrLen' = expHdrLen
    <3>1. busy' /\ rxState' = "extract"
      BY <1>5, <2>1, <2>2 DEF FillRequestHeaderBuffer, Full
    <3>2. QED
      BY <2>1, <3>1, ReadsOn
  <2>3. CASE rcvHdrLen' # expHdrLen
    <3>1. ~busy' /\ rxState' = rxState
      BY <1>5, <2>3 DEF FillRequestHeaderBuffer, Full
    <3>2. arrived - taken < expHdrLen - rcvHdrLen
      BY <1>0, <2>1, <2>3 DEF Piece, Available, BytesLeft
    <3>3. arrived < FrameEnd /\ arrived # 0
      BY <1>0, <2>1, <3>2 DEF FrameEnd, HeaderEnd
    <3>4. QED
      BY <2>1, <3>1, <3>3, LeavesOff
  <2>4. QED
    BY <2>2, <2>3
<1>6. CASE ConsumeNetStrComma
  <2>1. /\ busy /\ rxState = "comma" /\ taken < arrived /\ UNCHANGED peer
        /\ rxState' \in {"done", "error"}
    BY <1>0, <1>6 DEF ConsumeNetStrComma, Parsing, Available, peer
  <2>2. CASE rxState' = "done"
    <3>1. arrived >= FrameEnd /\ arrived # 0
      BY <1>0, <2>1 DEF ParserInv, ReadSoFar, FrameEnd, HeaderEnd
    <3>2. Sent = "all" /\ Sent' = Sent /\ closed' = closed /\ comma /\ comma'
      BY <1>6, <2>2, <1>0, <2>1, <3>1 DEF Sent, peer, FrameEnd, HeaderEnd, ConsumeNetStrComma, IsComma
    <3>3. (edge \/ busy) /\ (edge \/ busy)' \in BOOLEAN
      BY <2>1
    <3>4. Reader!Read
      BY <2>1, <2>2, <3>2, <3>3 DEF Reader!Read, Reader!Settle
    <3>5. QED
      BY <3>4 DEF Reader!Next
  <2>3. CASE rxState' = "error"
    BY <2>1, <2>3, Fails DEF Reader!Next
  <2>4. QED
    BY <2>1, <2>2, <2>3
<1>7. CASE ReadNothing
  <2>1. /\ busy /\ ~busy' /\ taken = arrived /\ rxState \in {"length", "comma", "accumulate"}
        /\ rxState = "accumulate" => rcvHdrLen < expHdrLen
        /\ UNCHANGED <<peer, edge>>
    BY <1>0, <1>7 DEF ReadNothing, NeedsBytes, Available, BytesLeft, ParserInv, TypeOK
  <2>2. arrived < FrameEnd
    BY <1>0, <2>1 DEF ParserInv, ReadSoFar, TypeOK, FrameEnd, HeaderEnd
  <2>3. CASE rxState' = rxState /\ closed
    BY <2>1, <2>2, <2>3, LeavesOff
  <2>4. CASE rxState' = "error"
    BY <2>1, <2>4, Fails DEF Reader!Next
  <2>5. QED
    BY <1>7, <2>3, <2>4 DEF ReadNothing, AtEnd, Blocked
<1>8. CASE UNCHANGED vars
  <2>1. UNCHANGED <<declared, comma, arrived, closed, edge, busy, rxState>>
    BY <1>8 DEF vars, peer, parser
  <2>2. Sent' = Sent /\ (edge \/ busy)' = (edge \/ busy)
    BY <2>1 DEF Sent, FrameEnd, HeaderEnd
  <2>3. QED
    BY <2>1, <2>2 DEF Reader!vars
<1>9. QED
  BY <1>1, <1>2, <1>3, <1>4, <1>5, <1>6, <1>7, <1>8 DEF Next, Sink

(* The parser does what ScgiRequests takes it for: one look for an event.  *)
THEOREM ParserImplementsReader == Spec => ImplementsReader
<1>1. Init => Reader!Init
  BY LengthAssumption DEF Init, Reader!Init, Sent, FrameEnd, HeaderEnd
<1>2. QED
  BY <1>1, ReaderStep, ParserAlways, PTL DEF Spec, ImplementsReader, Reader!Spec

=============================================================================
