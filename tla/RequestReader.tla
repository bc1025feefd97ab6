---------------------------- MODULE RequestReader ----------------------------
(***************************************************************************)
(* What the sink's loop may take the parser of a request for: told of      *)
(* something on the socket it has one look, in one step, after which the   *)
(* header has been read, or reading it has failed for good, or the loop    *)
(* waits to be told again. It is ScgiRequests' ProcessRequest, of one      *)
(* connection; ScgiRequestParser, which reads byte by byte while more is   *)
(* coming in, implements it.                                               *)
(***************************************************************************)

VARIABLES
  sound,   (* the header is a netstring: it ends in its comma                 *)
  sent,    (* how much of the request header the client's end has sent        *)
  over,    (* it will send no more                                            *)
  told,    (* there is an event the loop has not dealt with                   *)
  rx       (* what has become of the header                                   *)

vars == <<sound, sent, over, told, rx>>

TypeOK ==
  /\ sound \in BOOLEAN /\ over \in BOOLEAN /\ told \in BOOLEAN
  /\ sent \in {"none", "part", "all"} /\ rx \in {"reading", "done", "error"}

Init ==
  sound \in BOOLEAN /\ sent = "none" /\ over = FALSE /\ told = FALSE /\ rx = "reading"

-----------------------------------------------------------------------------

Send(much) ==
  /\ ~over
  /\ sent = "all" => much = "all"
  /\ sent' = much /\ told' = TRUE
  /\ UNCHANGED <<sound, over, rx>>

Shutdown == ~over /\ over' = TRUE /\ told' = TRUE /\ UNCHANGED <<sound, sent, rx>>

(* What came during the look may be told of once more.                     *)
Settle(outcome) ==
  /\ told /\ rx = "reading"
  /\ rx' = outcome
  /\ told' \in BOOLEAN
  /\ UNCHANGED <<sound, sent, over>>

Read == sound /\ sent = "all" /\ Settle("done")

(* For a byte that is no comma, or because the look came to the end of     *)
(* what there was, with more to come.                                      *)
Fail == (~sound \/ (sent # "all" /\ ~over)) /\ Settle("error")

(* It waits when it has read all there is, and that is part of the header, *)
(* or nothing at all because no more is to come.                           *)
Wait ==
  /\ told /\ rx = "reading"
  /\ sent # "all" /\ (sent = "none" => over)
  /\ told' = FALSE
  /\ UNCHANGED <<sound, sent, over, rx>>

(* An event for a request that was read or has failed is ignored.          *)
Ignore == told /\ rx # "reading" /\ told' = FALSE /\ UNCHANGED <<sound, sent, over, rx>>

Next ==
  \/ \E much \in {"part", "all"} : Send(much)
  \/ Shutdown \/ Read \/ Fail \/ Wait \/ Ignore

Spec == Init /\ [][Next]_vars

=============================================================================
