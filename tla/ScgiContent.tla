----------------------------- MODULE ScgiContent -----------------------------
(***************************************************************************)
(* The transfer of a message's content, chunk after chunk, from a stream   *)
(* to another: a request's body into memory or to a device, an answer's to *)
(* the front end. Three threads run this loop: main, proxy and sink.       *)
(*                                                                         *)
(* The source is a file stream over a non-blocking socket, or a device's   *)
(* connection. A read that comes before the bytes do makes the stream bad. *)
(***************************************************************************)
EXTENDS Integers

CONSTANTS
  MaxLength,   (* bound: bytes of content                                     *)
  Buffer,      (* sizeof(buff), more than one chunk for some contents         *)
  NoLength     (* the message has no Content-Length                           *)

ASSUME ContentAssumption ==
  MaxLength \in Nat /\ Buffer \in Nat \ {0} /\ NoLength \notin Nat

VARIABLES
  total,     (* external: how much the source has to send                     *)
  length,    (* the Content-Length header                                     *)
  arrived,   (* external: bytes that have come from the source                *)
  closed,    (* external: the source has ended, early or not                  *)
  taken,     (* bytes the stream has read                                     *)
  stream,    (* the stream's state                                            *)
  moved,     (* m_contentMoved                                                *)
  status     (* what the last xferContentChunk returned, at first its caller's *)

vars == <<total, length, arrived, closed, taken, stream, moved, status>>

Init ==
  /\ total \in 0..MaxLength
  /\ length \in {total, NoLength}
  /\ arrived = 0 /\ closed = FALSE
  /\ taken = 0 /\ stream = "good"
  /\ moved = 0
  /\ status = "content"

-----------------------------------------------------------------------------
(* External: the source.                                                   *)

Arrive(n) ==
  /\ ~closed
  /\ n > 0 /\ arrived + n <= total
  /\ arrived' = arrived + n
  /\ UNCHANGED <<total, length, closed, taken, stream, moved, status>>

Close ==
  /\ ~closed
  /\ closed' = TRUE
  /\ UNCHANGED <<total, length, arrived, taken, stream, moved, status>>

-----------------------------------------------------------------------------
(* External: istream::read. All of n bytes, or what there is and the end   *)
(* of the file; but if the file fails with EAGAIN before that, what it did *)
(* get is dropped and the stream is bad. A bad stream is not at its end.   *)

Waiting == arrived - taken

(* Fault: the bytes asked for are counted as moved.                        *)
CountedAsked(asked, got) == asked
(* m_contentMoved grows by gcount().                                       *)
Counted(asked, got) == got

Read(n) ==
  \/ /\ stream = "good" /\ Waiting >= n
     /\ taken' = taken + n /\ moved' = moved + n
     /\ UNCHANGED stream
  \/ /\ stream = "good" /\ Waiting < n /\ closed
     /\ taken' = arrived /\ moved' = moved + Counted(n, Waiting)
     /\ stream' = "eof"
  \/ /\ stream = "good" /\ Waiting < n /\ ~closed
     /\ taken' = arrived
     /\ stream' = "bad"
     /\ UNCHANGED moved
  \/ stream # "good" /\ UNCHANGED <<taken, moved, stream>>

-----------------------------------------------------------------------------
(* xferContentChunk, once more as long as it returns MSG_CONTENT.          *)

HasLength == length # NoLength

(* Fault: a whole buffer is read whatever is left of the length.           *)
LeftWhole == Buffer
Left      == length - moved

ToMove == IF HasLength /\ Left < Buffer THEN Left ELSE Buffer

(* Fault: the content is complete with the last chunk but one.             *)
MoreOnceShort == HasLength /\ moved' + Buffer < length /\ stream' # "eof"
More == (HasLength => moved' < length) /\ stream' # "eof"

NoContent ==
  /\ status = "content"
  /\ HasLength /\ moved >= length
  /\ status' = "complete"
  /\ UNCHANGED <<total, length, arrived, closed, taken, stream, moved>>

XferContentChunk ==
  /\ status = "content"
  /\ HasLength => moved < length
  /\ Read(ToMove)
  /\ status' = IF More THEN "content" ELSE "complete"
  /\ UNCHANGED <<total, length, arrived, closed>>

-----------------------------------------------------------------------------

Xfer   == NoContent \/ XferContentChunk
Source == Close \/ \E n \in 1..MaxLength : Arrive(n)

Next == Xfer \/ Source

Spec == Init /\ [][Next]_vars

(* The thread stays in its loop; what the source has to send comes.        *)
FairSpec == Spec /\ WF_vars(Xfer) /\ WF_vars(\E n \in 1..MaxLength : Arrive(n))

-----------------------------------------------------------------------------

TypeOK ==
  /\ total \in 0..MaxLength /\ length \in {total, NoLength}
  /\ arrived \in 0..total /\ closed \in BOOLEAN
  /\ taken \in 0..arrived /\ moved \in 0..taken
  /\ stream \in {"good", "eof", "bad"}
  /\ status \in {"content", "complete"}

(* A transfer that ends has moved all there is to move: the whole content, *)
(* or, if the source ended early, all that came of it.                     *)
CompleteMovesAll ==
  status = "complete" => moved = total \/ (closed /\ moved = arrived)

(* The loop comes to spin on a bad stream only for content that has not    *)
(* all come, or whose end is not told: neither a last chunk of any size    *)
(* nor one that ends with the content asks for more than there is.         *)
OnlyLateContentStalls ==
  [][stream # "bad" /\ stream' = "bad"
       => ~closed /\ (arrived < total \/ ~HasLength)]_vars

(* Content that is there in time, with a length or with an end, is moved   *)
(* to its last byte and the transfer ends.                                 *)
ContentInTimeMoved ==
  (status = "content" /\ stream = "good" /\ arrived = total /\ (HasLength \/ closed))
    ~> (status = "complete" /\ moved = total)

=============================================================================
