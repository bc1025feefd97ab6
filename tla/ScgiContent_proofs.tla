-------------------------- MODULE ScgiContent_proofs --------------------------
(***************************************************************************)
(* What a transfer has moved when it ends, for contents and buffers of any *)
(* size: proved by relating the stream's state to the two counts.          *)
(***************************************************************************)
EXTENDS ScgiContent, TLAPS

(* A good stream has moved what it has read; the end of the file is only   *)
(* ever the end of the transfer; a bad stream never is.                    *)
StreamSays ==
  /\ stream = "good" => moved = taken
  /\ stream = "eof" => closed /\ moved = arrived /\ status = "complete"
  /\ stream = "bad" => status = "content" /\ (HasLength => moved < length)
  /\ status = "complete" /\ stream = "good" => HasLength /\ moved = total

ContentInv == TypeOK /\ StreamSays

LEMMA ContentInit == Init => ContentInv
<1> SUFFICES ASSUME Init PROVE ContentInv
  OBVIOUS
<1>0. closed \in BOOLEAN
  BY DEF Init
<1>1. TypeOK
  BY <1>0, ContentAssumption DEF Init, TypeOK
<1>2. StreamSays
  BY DEF Init, StreamSays
<1>3. QED
  BY <1>1, <1>2 DEF ContentInv

(* A chunk is of at least one byte, and of no more than is left.           *)
LEMMA ChunkBounded ==
  ASSUME TypeOK, HasLength => moved < length
  PROVE  /\ ToMove \in Nat \ {0}
         /\ HasLength => ToMove <= length - moved /\ length = total
  BY ContentAssumption DEF TypeOK, ToMove, Left, HasLength

(* Every step keeps what the counts have to do with each other.            *)
LEMMA ContentStep == ContentInv /\ [Next]_vars => ContentInv'
<1> SUFFICES ASSUME ContentInv, [Next]_vars PROVE ContentInv'
  OBVIOUS
<1> USE ContentAssumption DEF ContentInv, TypeOK, StreamSays
<1>1. ASSUME NEW n \in 1..MaxLength, Arrive(n) PROVE ContentInv'
  BY <1>1 DEF Arrive, HasLength
<1>2. CASE Close
  BY <1>2 DEF Close, HasLength
<1>3. CASE NoContent
  BY <1>3 DEF NoContent, HasLength
<1>4. CASE XferContentChunk
  <2> DEFINE n == ToMove
  <2>1. n \in Nat \ {0} /\ (HasLength => n <= length - moved /\ length = total)
    BY <1>4, ChunkBounded DEF XferContentChunk
  <2>2. /\ status = "content" /\ Read(n)
        /\ status' = IF More THEN "content" ELSE "complete"
        /\ UNCHANGED <<total, length, arrived, closed>>
    BY <1>4 DEF XferContentChunk
  <2> HIDE DEF n
  <2>3. CASE stream = "good" /\ Waiting >= n /\ taken' = taken + n /\ moved' = moved + n /\ UNCHANGED stream
    BY <2>1, <2>2, <2>3 DEF More, Waiting, HasLength
  <2>4. CASE stream = "good" /\ Waiting < n /\ closed /\ taken' = arrived
             /\ moved' = moved + Counted(n, Waiting) /\ stream' = "eof"
    BY <2>1, <2>2, <2>4 DEF More, Waiting, HasLength, Counted
  <2>5. CASE stream = "good" /\ Waiting < n /\ ~closed /\ taken' = arrived /\ stream' = "bad" /\ UNCHANGED moved
    BY <1>4, <2>1, <2>2, <2>5 DEF More, Waiting, HasLength, XferContentChunk
  <2>6. CASE stream # "good" /\ UNCHANGED <<taken, moved, stream>>
    BY <1>4, <2>1, <2>2, <2>6 DEF More, HasLength, XferContentChunk
  <2>7. QED
    BY <2>2, <2>3, <2>4, <2>5, <2>6 DEF Read
<1>5. CASE UNCHANGED vars
  BY <1>5 DEF vars, HasLength
<1>6. QED
  BY <1>1, <1>2, <1>3, <1>4, <1>5 DEF Next, Xfer, Source

LEMMA ContentAlways == Spec => []ContentInv
  BY ContentInit, ContentStep, PTL DEF Spec

(* No count runs ahead of what it counts.                                  *)
THEOREM TypeCorrect == Spec => []TypeOK
<1>1. ContentInv => TypeOK
  BY DEF ContentInv
<1>2. QED
  BY <1>1, ContentAlways, PTL

(* A transfer that ends has moved all there is to move.                    *)
THEOREM NothingLeftBehind == Spec => []CompleteMovesAll
<1>1. ContentInv => CompleteMovesAll
  BY DEF ContentInv, TypeOK, StreamSays, CompleteMovesAll
<1>2. QED
  BY <1>1, ContentAlways, PTL

-----------------------------------------------------------------------------
(* A read that finds less than it asks for: with a length it never asks    *)
(* for more than is to come, since what was moved is what was taken.       *)
LEMMA ShortReadIsEarly ==
  ASSUME ContentInv, XferContentChunk, stream = "good", Waiting < ToMove, ~closed
  PROVE  arrived < total \/ ~HasLength
<1>1. moved = taken /\ arrived \in 0..total /\ taken \in 0..arrived
  BY DEF ContentInv, StreamSays, TypeOK
<1>2. HasLength => ToMove <= total - taken
  BY <1>1, ChunkBounded DEF ContentInv, XferContentChunk
<1>3. arrived \in Int /\ total \in Int /\ taken \in Int /\ ToMove \in Int
  BY <1>1, ChunkBounded DEF ContentInv, XferContentChunk, TypeOK
<1>4. QED
  BY <1>2, <1>3 DEF Waiting

(* Only the loop's read changes the stream.                                *)
LEMMA StallStep ==
  ASSUME ContentInv, [Next]_vars, stream # "bad", stream' = "bad"
  PROVE  ~closed /\ (arrived < total \/ ~HasLength)
<1>1. XferContentChunk
  BY DEF Next, Xfer, Source, Arrive, Close, NoContent, vars
<1>2. stream = "good" /\ Waiting < ToMove /\ ~closed
  BY <1>1 DEF XferContentChunk, Read
<1>3. QED
  BY <1>1, <1>2, ShortReadIsEarly

(* The loop comes to spin only on content, or an end of it, that is late.  *)
THEOREM StallsOnLateContentOnly == Spec => OnlyLateContentStalls
<1>1. ContentInv /\ [Next]_vars =>
        [stream # "bad" /\ stream' = "bad"
           => ~closed /\ (arrived < total \/ ~HasLength)]_vars
  BY StallStep
<1>2. QED
  BY <1>1, ContentAlways, PTL DEF Spec, OnlyLateContentStalls

=============================================================================
