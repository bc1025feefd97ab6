--------------------------- MODULE RequestService ---------------------------
(***************************************************************************)
(* What the daemon promises the front end of each request, without the     *)
(* threads, queues, descriptors, events and records that bring it about:   *)
(* a client is answered once, with its own answer, after it sent all of    *)
(* its request, and is let go by that answer. A client that hangs up       *)
(* before is let go without one. Once a client hung up on its request, or  *)
(* a session got into the closing of a connection, an answer may be        *)
(* another's or missing, but never a second one. ScgiRequests implements   *)
(* this.                                                                   *)
(***************************************************************************)
EXTENDS Sequences

CONSTANTS
  Client,    (* connections of the front end server, one request each         *)
  NoClient   (* an answer that was never made                                 *)

VARIABLES
  phase,     (* where each client is                                          *)
  sent,      (* how much of its request header it sent                        *)
  answers,   (* what it got, each the client it was for                       *)
  orderly    (* nothing has happened yet that the promise does not survive    *)

vars == <<phase, sent, answers, orderly>>

Init ==
  /\ phase = [c \in Client |-> "away"]
  /\ sent = [c \in Client |-> "none"]
  /\ answers = [c \in Client |-> <<>>]
  /\ orderly = TRUE

Moves(c, from, to) == phase[c] = from /\ phase' = [phase EXCEPT ![c] = to]

-----------------------------------------------------------------------------

Connect(c) == Moves(c, "away", "served") /\ UNCHANGED <<sent, answers, orderly>>

Send(c, much) ==
  /\ phase[c] = "served"
  /\ sent[c] = "all" => much = "all"
  /\ sent' = [sent EXCEPT ![c] = much]
  /\ UNCHANGED <<phase, answers, orderly>>

HangUp(c) ==
  /\ Moves(c, "served", "leaving")
  /\ orderly' = (orderly /\ sent[c] # "all")
  /\ UNCHANGED <<sent, answers>>

Gets(c, answer) == answers' = [answers EXCEPT ![c] = Append(@, answer)]

Answer(c) ==
  /\ sent[c] = "all"
  /\ Moves(c, "served", "released") /\ Gets(c, c)
  /\ UNCHANGED <<sent, orderly>>

Release(c) == Moves(c, "leaving", "released") /\ UNCHANGED <<sent, answers, orderly>>

Disturb == orderly' = FALSE /\ UNCHANGED <<phase, sent, answers>>

Misserve(c) ==
  /\ ~orderly
  /\ Moves(c, "served", "released")
  /\ UNCHANGED answers \/ \E answer \in Client \union {NoClient} : Gets(c, answer)
  /\ UNCHANGED <<sent, orderly>>

Next ==
  \/ \E c \in Client :
       \/ Connect(c) \/ HangUp(c) \/ Answer(c) \/ Release(c) \/ Misserve(c)
       \/ \E much \in {"part", "all"} : Send(c, much)
  \/ Disturb

Spec == Init /\ [][Next]_vars

-----------------------------------------------------------------------------

Phase == {"away", "served", "leaving", "released"}

TypeOK ==
  /\ phase \in [Client -> Phase] /\ sent \in [Client -> {"none", "part", "all"}]
  /\ answers \in [Client -> Seq(Client \union {NoClient})]
  /\ orderly \in BOOLEAN

(* No client is answered twice, or before it is let go; and what a client  *)
(* got in good order is its own, and came after its whole request.         *)
AnsweredOnce ==
  \A c \in Client :
    /\ answers[c] # <<>> => phase[c] = "released" /\ Len(answers[c]) = 1
    /\ orderly /\ answers[c] # <<>> => answers[c] = <<c>> /\ sent[c] = "all"

=============================================================================
