----------------------------- MODULE Connection -----------------------------
(***************************************************************************)
(* Clients and daemon together: Client and Server over the same sockets,   *)
(* with strangers that connect, write what they like and leave when they   *)
(* like, and with a daemon that is shut down, killed and started again     *)
(* under its clients.  In a behaviour either clients come or strangers.    *)
(***************************************************************************)
EXTENDS Server, Client, FiniteSets

VARIABLE cast   \* who comes to the socket in this behaviour: the clients, or the strangers

vars == <<socket, server, client>>

Init ==
  /\ SocketInit /\ ServerInit /\ ClientInit
  /\ cast \in {Clients, Strangers}

\* connect puts the connection into the backlog, accepted or not.
Free(k) == hung[k] /\ stage[k] = "none"
Dial(c, k) ==
  /\ c \in cast /\ Listening /\ Free(k)
  /\ Connect(c, k) /\ To(k, "backlog")
  /\ UNCHANGED <<phase, lives, clients, wants, stalls, runs>>

ClientStep(c) == c \in cast /\ ClientNext(c, Listening) /\ UNCHANGED server

\* Another program at the socket.  It writes when the daemon reads, which is
\* when it would be read in any case.
Intrude(p, k) ==
  /\ p \in cast /\ Listening /\ Free(k) /\ \A j \in Conns : peer[j] = p => hung[j]
  /\ Open(k, p) /\ To(k, "backlog")
  /\ UNCHANGED <<phase, lives, clients, wants, stalls, runs, client>>
Mutter(k) ==
  /\ peer[k] \in Strangers /\ ~hung[k] /\ ~shut[k]
  /\ stage[k] \in {"handshake", "live"} /\ up[k] = <<>>
  /\ \E line \in [kind : {"hello", "subscribe"}, arg : {0, 1}]
               \cup [kind : {"otherversion", "request", "unknown", "garbage", "toolong"},
                     arg : {0}] :
       Write(k, line.kind, line.arg)
  /\ UNCHANGED <<server, client>>
Vanish(k) ==
  /\ peer[k] \in Strangers /\ ~hung[k] /\ HangUp(k)
  /\ UNCHANGED <<server, client>>

Next ==
  /\ \/ ServerNext /\ UNCHANGED client
     \/ \E c \in Clients : ClientStep(c) \/ \E k \in Conns : Dial(c, k)
     \/ \E k \in Conns : Mutter(k) \/ Vanish(k) \/ \E p \in Strangers : Intrude(p, k)
  /\ UNCHANGED cast

\* Tasks that can take a step take it; the select! of a session chooses at
\* random among its branches.  Nothing makes an interval tick, a signal come,
\* a daemon start, an application ask or a stranger do anything.
Fairness ==
  /\ \A k \in Conns :
       /\ WF_vars((Accept(k) \/ Refuse(k) \/ Depart(k)) /\ UNCHANGED client)
       /\ WF_vars((Admit(k) \/ HelloExpected(k) \/ RejectHello(k)) /\ UNCHANGED client)
       /\ WF_vars(HelloTimeout(k) /\ UNCHANGED client)
       /\ WF_vars(Greet(k) /\ UNCHANGED client)
       /\ WF_vars((Serve(k) \/ RejectLine(k)) /\ UNCHANGED client)
       /\ WF_vars((HearShutdown(k) \/ Eof(k)) /\ UNCHANGED client)
  /\ WF_vars((StopAccepting \/ Exit) /\ UNCHANGED client)
  /\ \A c \in Clients :
       /\ WF_vars(\E k \in Conns : Dial(c, k))
       /\ WF_vars(c \in cast /\ (FailToConnect(c, Listening) \/ TryAgain(c)) /\ UNCHANGED server)
       /\ WF_vars(c \in cast /\ (SendHello(c) \/ Welcome(c) \/ Unwelcome(c)) /\ UNCHANGED server)
       /\ WF_vars(c \in cast /\ Read(c) /\ UNCHANGED server)

Spec == Init /\ [][Next]_<<vars, cast>>
FairSpec == Spec /\ Fairness

-----------------------------------------------------------------------------
(* Properties                                                              *)

\* The client counter (client_connected, client_disconnected) is the number
\* of tasks that run, whatever ends them, and never more than max_clients are
\* served; a slot is not lost and not given away twice.
SlotsAreExact ==
  /\ clients = Cardinality({k \in Conns : stage[k] \in Counted})
  /\ clients <= MaxClients

\* Whoever hangs up gives back the slot, and so does whoever has not said
\* Hello by hello_timeout, whatever else was said: no task stays for ever
\* with a peer that has left or in its handshake.
Overdue(k) == stage[k] = "handshake" \/ (hung[k] /\ stage[k] # "none")
SlotsComeBack == \A k \in Conns : []<>~Overdue(k)

\* A request is handled at most once and requests are handled in the order
\* they were made, over lost connections and restarts: what the old session
\* had not read is gone before the next request is written.
HandledOnceInOrder ==
  \A c \in Clients : \A i, j \in DOMAIN runs[c] : i < j => runs[c][i] < runs[c][j]

\* Once the client has handed on a message of a session, it hands on every
\* following one: reads cancelled by outgoing requests tear no line
\* (FrameReader).
NothingMissingInside ==
  [][\A c \in Clients :
       latest[c] # 0 /\ latest'[c] \notin {0, latest[c]} => latest'[c] = latest[c] + 1]_vars

\* A client whose user may open the socket gets and keeps its session once
\* the daemon stays up and no stranger keeps the slot: no step of the
\* handshake waits for ever, no slot stays taken, no retry is the last.
Undisturbed(c) ==
  /\ c \in cast /\ phase = "up" /\ permitted[c] /\ app[c]
  /\ \A k \in Conns : peer[k] \in Strangers => hung[k]
ConnectionIsRestored ==
  \A c \in Clients : <>[]Undisturbed(c) => <>[](state[c] = "connected")
=============================================================================
