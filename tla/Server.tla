------------------------------- MODULE Server -------------------------------
(***************************************************************************)
(* The daemon's side of the connections: the accept loop with its limit    *)
(* (daemon/src/server.rs) and one task per connection, from the handshake  *)
(* to the select! loop (daemon/src/client_task.rs), through shutdown, the  *)
(* end of the process and its next start.                                  *)
(*                                                                         *)
(* A task ends in two steps: its socket is closed when run returns, and    *)
(* only then is the client taken off the count.                            *)
(***************************************************************************)
EXTENDS Socket

CONSTANTS
  MaxClients,   \* socket.max_clients
  MaxSaid,      \* bound of the model: messages after which nothing is pushed
  MaxTroubles   \* bound of the model: how often the daemon is started or a
                \* client lets its Hello wait

ASSUME ServerAssumption ==
  MaxClients \in Nat /\ MaxSaid \in Nat /\ MaxTroubles \in Nat

VARIABLES
  phase,    \* of the process: "up"; "told" to shut down; "grace", the accept
            \* loop left; "down"
  lives,    \* how often it was started
  clients,  \* SharedState::client_count
  stage,    \* where the task of a connection is
  wants,    \* its Subscription::snapshots
  stalls,   \* how often hello_timeout ran out for a client
  runs      \* the requests handled, by client, in the order of handling

server == <<phase, lives, clients, stage, wants, stalls, runs>>

Stages == {"none", "backlog", "refusing", "handshake", "greet", "recall", "show",
           "live", "leaving"}
Counted == {"handshake", "greet", "recall", "show", "live", "leaving"}

ServerInit ==
  /\ phase = "up" /\ lives = 1 /\ clients = 0 /\ stalls = 0
  /\ stage = [k \in Conns |-> "none"] /\ wants = [k \in Conns |-> FALSE]
  /\ runs = [c \in Clients |-> <<>>]

\* The listener exists until the process has gone, also when nobody accepts.
Listening == phase # "down"

To(k, s) == stage' = [stage EXCEPT ![k] = s]

\* The task returns, after a last message if it has one.
Leave(k) ==
  /\ To(k, "leaving") /\ Shut(k)
  /\ wants' = [wants EXCEPT ![k] = FALSE]
  /\ UNCHANGED <<hung, phase, lives, clients>>
LeaveSaying(k, kind) == Say(k, kind) /\ Leave(k)

-----------------------------------------------------------------------------
(* The accept loop                                                         *)

Accept(k) ==
  /\ phase \in {"up", "told"} /\ stage[k] = "backlog"
  /\ IF clients + 1 > MaxClients
     THEN To(k, "refusing") /\ UNCHANGED clients
     ELSE To(k, "handshake") /\ clients' = clients + 1
  /\ UNCHANGED <<socket, phase, lives, wants, stalls, runs>>

\* reject_too_many, a task of its own that was never counted.
Refuse(k) ==
  /\ stage[k] = "refusing"
  /\ Say(k, "goodbye") /\ Shut(k) /\ To(k, "none")
  /\ UNCHANGED <<hung, phase, lives, clients, wants, stalls, runs>>

Depart(k) ==
  /\ stage[k] = "leaving"
  /\ To(k, "none") /\ clients' = clients - 1
  /\ UNCHANGED <<socket, phase, lives, wants, stalls, runs>>

-----------------------------------------------------------------------------
(* do_handshake and the greeting                                           *)

\* The next line the task of k has not read.
Reads(k, s, kinds) == stage[k] = s /\ up[k] # <<>> /\ Head(up[k]).kind \in kinds
Consume(k) == up' = [up EXCEPT ![k] = Tail(@)]

Admit(k) ==
  /\ Reads(k, "handshake", {"hello"})
  /\ wants' = [wants EXCEPT ![k] = Head(up[k]).arg = 1]
  /\ Consume(k) /\ To(k, "greet")
  /\ UNCHANGED <<peer, down, said, hung, shut, phase, lives, clients, stalls, runs>>

\* Anything else that can be read is an error, and the deadline keeps running.
HelloExpected(k) ==
  /\ Reads(k, "handshake", {"request", "subscribe", "unknown"})
  /\ Say(k, "error") /\ Consume(k)
  /\ UNCHANGED <<peer, hung, shut, server>>

RejectHello(k) ==
  /\ \/ Reads(k, "handshake", {"otherversion", "toolong"}) /\ LeaveSaying(k, "goodbye")
     \/ Reads(k, "handshake", {"garbage"}) /\ LeaveSaying(k, "error")
  /\ UNCHANGED <<stalls, runs>>

\* hello_timeout, whatever was said or is waiting to be read.  For a client of
\* the library it runs out only while the client has not got around to writing.
HelloTimeout(k) ==
  /\ stage[k] = "handshake"
  /\ IF peer[k] \in Clients
     THEN up[k] = <<>> /\ lives + stalls < MaxTroubles /\ stalls' = stalls + 1
     ELSE UNCHANGED stalls
  /\ LeaveSaying(k, "goodbye")
  /\ UNCHANGED runs

\* Nothing is read and no shutdown is heard before the greeting is complete.
Greet(k) ==
  /\ \/ stage[k] = "greet" /\ Say(k, "hello") /\ To(k, "recall")
     \/ stage[k] = "recall" /\ Say(k, "recent") /\ To(k, "show")
     \/ /\ stage[k] = "show" /\ To(k, "live")
        /\ IF wants[k] THEN Say(k, "snapshot") ELSE UNCHANGED <<down, said>>
  /\ UNCHANGED <<peer, up, hung, shut, phase, lives, clients, wants, stalls, runs>>

-----------------------------------------------------------------------------
(* run_session                                                             *)

\* Snapshots by the interval; anomalies, Lagged errors and LAN devices as
\* they come, of which one kind stands for all.
Push(k) ==
  /\ stage[k] = "live" /\ said[k] < MaxSaid
  /\ \/ wants[k] /\ Say(k, "snapshot")
     \/ Say(k, "anomaly")
  /\ UNCHANGED <<peer, up, hung, shut, server>>

\* Mutant: the line stays in the reader's buffer.
ServeAgain(k) ==
  /\ Reads(k, "live", {"request"}) /\ peer[k] \in Clients
  /\ Say(k, "reply")
  /\ runs' = [runs EXCEPT ![peer[k]] = Append(@, Head(up[k]).arg)]
  /\ UNCHANGED <<peer, up, hung, shut, phase, lives, clients, stage, wants, stalls>>

Serve(k) ==
  /\ \/ /\ Reads(k, "live", {"request"})
        /\ Say(k, "reply")
        /\ runs' = IF peer[k] \in Clients
                   THEN [runs EXCEPT ![peer[k]] = Append(@, Head(up[k]).arg)] ELSE runs
        /\ UNCHANGED wants
     \/ /\ Reads(k, "live", {"subscribe"})
        /\ wants' = [wants EXCEPT ![k] = Head(up[k]).arg = 1]
        /\ UNCHANGED <<down, said, runs>>
     \/ Reads(k, "live", {"hello", "otherversion"}) /\ UNCHANGED <<down, said, wants, runs>>
     \/ Reads(k, "live", {"unknown"}) /\ Say(k, "error") /\ UNCHANGED <<wants, runs>>
  /\ Consume(k)
  /\ UNCHANGED <<peer, hung, shut, phase, lives, clients, stage, stalls>>

RejectLine(k) ==
  /\ \/ Reads(k, "live", {"toolong"}) /\ LeaveSaying(k, "goodbye")
     \/ Reads(k, "live", {"garbage"}) /\ LeaveSaying(k, "error")
  /\ UNCHANGED <<stalls, runs>>

\* The receiver was cloned before the handshake, so that a change meanwhile
\* is not missed.
HearShutdown(k) ==
  /\ stage[k] = "live" /\ phase \in {"told", "grace"}
  /\ LeaveSaying(k, "goodbye")
  /\ UNCHANGED <<stalls, runs>>

\* Mutants: a task that ends in the handshake is not taken off the count;
\* a session relies on its pushes to notice that the peer has left.
EofUncounted(k) ==
  /\ stage[k] = "handshake" /\ hung[k] /\ up[k] = <<>>
  /\ To(k, "none") /\ Shut(k)
  /\ UNCHANGED <<down, said, hung, phase, lives, clients, wants, stalls, runs>>
EofInHandshake(k) ==
  /\ stage[k] = "handshake" /\ hung[k] /\ up[k] = <<>>
  /\ Leave(k)
  /\ UNCHANGED <<down, said, stalls, runs>>

Eof(k) ==
  /\ stage[k] \in {"handshake", "live"} /\ hung[k] /\ up[k] = <<>>
  /\ Leave(k)
  /\ UNCHANGED <<down, said, stalls, runs>>

-----------------------------------------------------------------------------
(* The process                                                             *)

Signal ==
  /\ phase = "up" /\ phase' = "told"
  /\ UNCHANGED <<socket, lives, clients, stage, wants, stalls, runs>>

StopAccepting ==
  /\ phase = "told" /\ phase' = "grace"
  /\ UNCHANGED <<socket, lives, clients, stage, wants, stalls, runs>>

\* SHUTDOWN_GRACE is over, or the process was killed: every task is dropped
\* where it is, and every end is closed.
Gone ==
  /\ phase' = "down" /\ clients' = 0
  /\ stage' = [k \in Conns |-> "none"]
  /\ wants' = [k \in Conns |-> FALSE]
  /\ shut' = [k \in Conns |-> TRUE] /\ up' = [k \in Conns |-> <<>>]
  /\ peer' = [k \in Conns |-> IF hung[k] THEN NoPeer ELSE peer[k]]
  /\ UNCHANGED <<down, said, hung, lives, stalls, runs>>
Exit == phase = "grace" /\ Gone
Crash == phase \in {"up", "told"} /\ Gone

Start ==
  /\ phase = "down" /\ lives + stalls < MaxTroubles
  /\ phase' = "up" /\ lives' = lives + 1
  /\ UNCHANGED <<socket, clients, stage, wants, stalls, runs>>

Task(k) ==
  \/ Accept(k) \/ Refuse(k) \/ Depart(k)
  \/ Admit(k) \/ HelloExpected(k) \/ RejectHello(k) \/ HelloTimeout(k) \/ Greet(k)
  \/ Push(k) \/ Serve(k) \/ RejectLine(k) \/ HearShutdown(k) \/ Eof(k)

ServerNext == (\E k \in Conns : Task(k)) \/ Signal \/ StopAccepting \/ Exit \/ Crash \/ Start

=============================================================================
