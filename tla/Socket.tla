------------------------------- MODULE Socket -------------------------------
(***************************************************************************)
(* The connections between clients and the daemon: Unix stream sockets     *)
(* that carry JSON lines (proto/src/framing.rs, proto/src/wire.rs).        *)
(*                                                                         *)
(* From client to daemon a line is one element.  From daemon to client a   *)
(* line may be longer than one read of its reader, and then is two         *)
(* fragments; what becomes of a line in two reads is what framing is       *)
(* about.  An end that is closed takes with it what it has not read; what  *)
(* it has written stays readable for the other end.                        *)
(***************************************************************************)
EXTENDS Integers, Sequences

CONSTANTS
  Conns,      \* connections; one is used again when both its ends are closed
  NoConn,     \* a client without a connection
  NoPeer,     \* a connection without an open end
  Clients,    \* users of proto::client
  Strangers   \* other programs at the socket, which may write anything

Peers == Clients \cup Strangers

ASSUME SocketAssumption ==
  /\ NoConn \notin Conns /\ NoPeer \notin Peers
  /\ Clients \cap Strangers = {}

VARIABLES
  peer,   \* who dialled, as long as an end is open
  up,     \* lines the daemon has not read
  down,   \* fragments the client has not read
  said,   \* how many messages the daemon has sent to a client that is there
  hung,   \* whether the client's end is closed
  shut    \* whether the daemon's end is closed

socket == <<peer, up, down, said, hung, shut>>

\* What clients write: arg is the number of a request, and for hello and
\* subscribe whether snapshots are wanted.
Line == [kind : {"hello", "otherversion", "request", "subscribe", "unknown",
                 "garbage", "toolong"},
         arg : Nat]

\* What the daemon writes.  RecentAnomalies and Context are the large ones.
Kinds == {"hello", "recent", "snapshot", "anomaly", "reply", "error", "goodbye"}
Size(kind) == IF kind \in {"recent", "reply"} THEN 2 ELSE 1

Fragment == [kind : Kinds, n : Nat, last : BOOLEAN]
Fragments(kind, n) ==
  [i \in 1..Size(kind) |-> [kind |-> kind, n |-> n, last |-> i = Size(kind)]]

SocketInit ==
  /\ peer = [k \in Conns |-> NoPeer]
  /\ up = [k \in Conns |-> <<>>] /\ down = [k \in Conns |-> <<>>]
  /\ said = [k \in Conns |-> 0]
  /\ hung = [k \in Conns |-> TRUE] /\ shut = [k \in Conns |-> TRUE]

\* A new connection in the listener's backlog.
Open(k, p) ==
  /\ peer' = [peer EXCEPT ![k] = p]
  /\ up' = [up EXCEPT ![k] = <<>>] /\ down' = [down EXCEPT ![k] = <<>>]
  /\ said' = [said EXCEPT ![k] = 0]
  /\ hung' = [hung EXCEPT ![k] = FALSE] /\ shut' = [shut EXCEPT ![k] = FALSE]

Write(k, kind, arg) ==
  /\ up' = [up EXCEPT ![k] = Append(@, [kind |-> kind, arg |-> arg])]
  /\ UNCHANGED <<peer, down, said, hung, shut>>

HangUp(k) ==
  /\ hung' = [hung EXCEPT ![k] = TRUE]
  /\ down' = [down EXCEPT ![k] = <<>>] /\ said' = [said EXCEPT ![k] = 0]
  /\ peer' = IF shut[k] THEN [peer EXCEPT ![k] = NoPeer] ELSE peer
  /\ UNCHANGED <<up, shut>>

\* send_message: the error of a closed connection is ignored.  What a
\* stranger is told is not followed up.
Say(k, kind) ==
  IF hung[k] \/ peer[k] \in Strangers
  THEN UNCHANGED <<down, said>>
  ELSE /\ said' = [said EXCEPT ![k] = @ + 1]
       /\ down' = [down EXCEPT ![k] = @ \o Fragments(kind, said[k] + 1)]

\* The daemon's task for the connection ends and with it both halves.
Shut(k) ==
  /\ shut' = [shut EXCEPT ![k] = TRUE]
  /\ up' = [up EXCEPT ![k] = <<>>]
  /\ peer' = IF hung[k] THEN [peer EXCEPT ![k] = NoPeer] ELSE peer

=============================================================================
