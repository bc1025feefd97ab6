--------------------------- MODULE MCScgiRequests ---------------------------
(* Connections over two descriptors and two addresses, so that both are    *)
(* used again; one of them for a proxied request. Three, followed as far   *)
(* as the first race or hang-up on a request; or two, and on from there.   *)
EXTENDS ScgiRequests, FiniteSets, TLC

(* The local clients, the descriptors and the addresses are alike.         *)
Alike == Permutations(Fd) \union Permutations(Addr) \union Permutations(Client \ Proxied)

(* The sink alone uses descriptors, and one of the clients hangs up on its *)
(* request while others go on. Descriptors and addresses are alike, so the *)
(* one of each that is used first may be given.                            *)
FirstFd   == CHOOSE fd \in Fd : TRUE
FirstAddr == CHOOSE a \in Addr : TRUE

OneImpatient ==
  /\ session = NoFd /\ Cardinality(impatient) <= 1
  /\ (\A c \in Client : client[c] # "done") =>
       /\ (\E fd \in Fd : fdOf[fd] # NoClient) => fdOf[FirstFd] # NoClient
       /\ alive # {} => FirstAddr \in alive

=============================================================================
