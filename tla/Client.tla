------------------------------- MODULE Client -------------------------------
(***************************************************************************)
(* The client's side of the connections: the connection task of            *)
(* proto/src/client.rs with its queues, and the bridge that applies        *)
(* messages to what the GUI shows (gui/src/client.rs; tui/src/main.rs      *)
(* does the same).                                                         *)
(*                                                                         *)
(* The listener and the socket of the daemon are seen through Socket; how  *)
(* long a wait lasts matters only as the exponent it is computed from.     *)
(***************************************************************************)
EXTENDS Socket

CONSTANTS
  InboundCapacity,   \* INBOUND_CAPACITY
  OutboundCapacity,  \* OUTBOUND_CAPACITY
  AttemptCap,        \* the exponent backoff_delay does not go beyond
  MaxRequests        \* bound of the model: requests of one application

ASSUME ClientAssumption ==
  /\ InboundCapacity \in Nat \ {0} /\ OutboundCapacity \in Nat \ {0}
  /\ AttemptCap \in Nat /\ MaxRequests \in Nat

VARIABLES
  state,      \* of connection_loop
  link,       \* its connection
  attempt,    \* up to AttemptCap, where it makes no more difference
  permitted,  \* whether the user may open the socket
  have,       \* fragments of an unfinished line in the FrameReader
  latest,     \* the number of the last message of this session handed on
  inbox,      \* InboundQueue::items, as far as they differ in the queue
  outbox,     \* requests in the outbound channel
  asked,      \* how many requests the application made
  app,        \* whether it still has its Sender
  known       \* whether the bridge has applied a Hello: GuiState::allowed_actions

client == <<state, link, attempt, permitted, have, latest, inbox, outbox, asked,
            app, known>>
queues == <<inbox, outbox, asked, app, known>>

States == {"connecting", "greeting", "awaiting", "connected", "waiting", "denied", "ended"}

QueuesInit ==
  /\ inbox = [c \in Clients |-> <<>>] /\ outbox = [c \in Clients |-> <<>>]
  /\ asked = [c \in Clients |-> 0] /\ app = [c \in Clients |-> TRUE]
  /\ known = [c \in Clients |-> FALSE]

ClientInit ==
  /\ QueuesInit
  /\ state = [c \in Clients |-> "connecting"] /\ link = [c \in Clients |-> NoConn]
  /\ attempt = [c \in Clients |-> 0] /\ permitted \in [Clients -> BOOLEAN]
  /\ have = [c \in Clients |-> 0] /\ latest = [c \in Clients |-> 0]

Become(c, s) == state' = [state EXCEPT ![c] = s]

\* Disconnected: the delay is computed from the exponent, which then grows.
Retry(c, from) ==
  /\ Become(c, "waiting")
  /\ attempt' = [attempt EXCEPT ![c] = IF from < AttemptCap THEN from + 1 ELSE from]
Disconnect(c, from) ==
  /\ Retry(c, from)
  /\ link' = [link EXCEPT ![c] = NoConn] /\ have' = [have EXCEPT ![c] = 0]
  /\ latest' = [latest EXCEPT ![c] = 0]
  /\ UNCHANGED permitted

\* A session that stood for STABLE_CONNECTION starts the backoff anew.
Lost(c) == \E from \in {0, attempt[c]} : Disconnect(c, from)

-----------------------------------------------------------------------------
(* connect_and_handshake                                                   *)

\* EACCES, or nobody listens.
FailToConnect(c, listening) ==
  /\ state[c] = "connecting"
  /\ \/ ~listening /\ Retry(c, attempt[c])
     \/ ~permitted[c] /\ Become(c, "denied") /\ UNCHANGED attempt
  /\ UNCHANGED <<socket, link, permitted, have, latest, queues>>

Connect(c, k) ==
  /\ state[c] = "connecting" /\ permitted[c]
  /\ Open(k, c)
  /\ Become(c, "greeting") /\ link' = [link EXCEPT ![c] = k]
  /\ UNCHANGED <<attempt, permitted, have, latest, queues>>

\* A daemon that has already refused has closed its end, and the write fails
\* before its Goodbye is read.
SendHello(c) ==
  /\ state[c] = "greeting"
  /\ IF shut[link[c]]
     THEN HangUp(link[c]) /\ Disconnect(c, attempt[c])
     ELSE /\ Write(link[c], "hello", 1) /\ Become(c, "awaiting")
          /\ UNCHANGED <<link, attempt, permitted, have, latest>>
  /\ UNCHANGED queues

\* The handshake reads through a BufReader of its own, which may have read
\* on behind the Hello; into_inner returns the stream without what it holds.
Welcome(c) ==
  /\ state[c] = "awaiting" /\ down[link[c]] # <<>>
  /\ Head(down[link[c]]).kind = "hello"
  /\ \E n \in 1..Len(down[link[c]]) :
       down' = [down EXCEPT ![link[c]] = SubSeq(@, n + 1, Len(@))]
  /\ Become(c, "connected")
  /\ UNCHANGED <<peer, up, said, hung, shut, link, attempt, permitted, have, latest, queues>>

\* A Goodbye, any other answer, or the end of the stream.
Unwelcome(c) ==
  /\ state[c] = "awaiting"
  /\ IF down[link[c]] = <<>> THEN shut[link[c]] ELSE Head(down[link[c]]).kind # "hello"
  /\ HangUp(link[c]) /\ Disconnect(c, attempt[c])
  /\ UNCHANGED queues

-----------------------------------------------------------------------------
(* run_session                                                             *)

\* Mutant: the branch that loses takes its part of a line with it.
SendRequestTearing(c) ==
  /\ state[c] = "connected" /\ outbox[c] # <<>> /\ ~shut[link[c]]
  /\ outbox' = [outbox EXCEPT ![c] = Tail(@)]
  /\ Write(link[c], "request", Head(outbox[c]))
  /\ have' = [have EXCEPT ![c] = 0]
  /\ UNCHANGED <<state, link, attempt, permitted, latest, inbox, asked, app, known>>

\* outbound_rx.recv: the request has left the queue whether or not it can be
\* written.
SendRequest(c) ==
  /\ state[c] = "connected" /\ outbox[c] # <<>>
  /\ outbox' = [outbox EXCEPT ![c] = Tail(@)]
  /\ IF shut[link[c]]
     THEN HangUp(link[c]) /\ Lost(c)
     ELSE /\ Write(link[c], "request", Head(outbox[c]))
          /\ UNCHANGED <<state, link, attempt, permitted, have, latest>>
  /\ UNCHANGED <<inbox, asked, app, known>>

End(c) ==
  /\ state[c] = "connected" /\ outbox[c] = <<>> /\ ~app[c]
  /\ HangUp(link[c]) /\ Become(c, "ended") /\ link' = [link EXCEPT ![c] = NoConn]
  /\ have' = [have EXCEPT ![c] = 0] /\ latest' = [latest EXCEPT ![c] = 0]
  /\ UNCHANGED <<attempt, permitted, queues>>

\* InboundSender::send: a full queue gives up its oldest snapshot, and only
\* without one its oldest message.
Victim(q) ==
  LET snapshots == {i \in DOMAIN q : q[i] = "snapshot"}
  IN  IF snapshots = {} THEN 1 ELSE CHOOSE i \in snapshots : \A j \in snapshots : i <= j
Without(q, v) == [i \in 1..(Len(q) - 1) |-> IF i < v THEN q[i] ELSE q[i + 1]]
Sort(kind) == IF kind \in {"hello", "snapshot"} THEN kind ELSE "other"
HandOn(c, kind) ==
  LET full == Len(inbox[c]) >= InboundCapacity
      kept == IF full THEN Without(inbox[c], Victim(inbox[c])) ELSE inbox[c]
  IN  inbox' = [inbox EXCEPT ![c] = Append(kept, Sort(kind))]

Ready(c) == state[c] = "connected" /\ down[link[c]] # <<>>
NextFragment(c) == Head(down[link[c]])
ReadOn(c) ==
  /\ down' = [down EXCEPT ![link[c]] = Tail(@)]
  /\ UNCHANGED <<peer, up, said, hung, shut>>
Whole(c) == NextFragment(c).last /\ have[c] + 1 = Size(NextFragment(c).kind)

\* FrameReader keeps the beginning of a line over cancelled reads.
ReadPart(c) ==
  /\ Ready(c) /\ ~NextFragment(c).last
  /\ ReadOn(c) /\ have' = [have EXCEPT ![c] = @ + 1]
  /\ UNCHANGED <<state, link, attempt, permitted, latest, queues>>

\* The rest of a line whose beginning is lost does not parse and is ignored.
SkipTorn(c) ==
  /\ Ready(c) /\ NextFragment(c).last /\ ~Whole(c)
  /\ ReadOn(c) /\ have' = [have EXCEPT ![c] = 0]
  /\ UNCHANGED <<state, link, attempt, permitted, latest, queues>>

Receive(c) ==
  /\ Ready(c) /\ Whole(c) /\ HandOn(c, NextFragment(c).kind)
  /\ IF NextFragment(c).kind = "goodbye"
     THEN HangUp(link[c]) /\ Lost(c)
     ELSE /\ ReadOn(c) /\ have' = [have EXCEPT ![c] = 0]
          /\ latest' = [latest EXCEPT ![c] = NextFragment(c).n]
          /\ UNCHANGED <<state, link, attempt, permitted>>
  /\ UNCHANGED <<outbox, asked, app, known>>

EndOfStream(c) ==
  /\ state[c] = "connected" /\ down[link[c]] = <<>> /\ shut[link[c]]
  /\ HangUp(link[c]) /\ Lost(c)
  /\ UNCHANGED queues

\* The delay, or DENIED_RETRY, is over.
\* Mutant: a refusal is final.
TryAgainUnlessDenied(c) ==
  /\ state[c] = "waiting" /\ Become(c, "connecting")
  /\ UNCHANGED <<socket, link, attempt, permitted, have, latest, queues>>
TryAgain(c) ==
  /\ state[c] \in {"waiting", "denied"} /\ Become(c, "connecting")
  /\ UNCHANGED <<socket, link, attempt, permitted, have, latest, queues>>

-----------------------------------------------------------------------------
(* The application                                                         *)

\* try_send into the bounded channel, connected or not.
Ask(c) ==
  /\ app[c] /\ asked[c] < MaxRequests /\ Len(outbox[c]) < OutboundCapacity
  /\ asked' = [asked EXCEPT ![c] = @ + 1]
  /\ outbox' = [outbox EXCEPT ![c] = Append(@, asked[c] + 1)]
  /\ UNCHANGED <<socket, state, link, attempt, permitted, have, latest, inbox, app,
                 known>>

\* InboundReceiver::recv: the oldest of what waits.
Recv(c) == inbox[c] # <<>> /\ inbox' = [inbox EXCEPT ![c] = Tail(@)]

\* The bridge takes a message and applies it.
Apply(c) ==
  /\ Recv(c)
  /\ known' = [known EXCEPT ![c] = @ \/ Head(inbox[c]) = "hello"]
  /\ UNCHANGED <<socket, state, link, attempt, permitted, have, latest, outbox, asked,
                 app>>

\* An application that has gone asks for nothing more; the model has it ask
\* first.
DropSender(c) ==
  /\ app[c] /\ asked[c] = MaxRequests /\ app' = [app EXCEPT ![c] = FALSE]
  /\ UNCHANGED <<socket, state, link, attempt, permitted, have, latest, inbox, outbox,
                 asked, known>>

\* The user is added to the socket's group.
Permit(c) ==
  /\ ~permitted[c] /\ permitted' = [permitted EXCEPT ![c] = TRUE]
  /\ UNCHANGED <<socket, state, link, attempt, have, latest, queues>>

Read(c) == ReadPart(c) \/ SkipTorn(c) \/ Receive(c) \/ EndOfStream(c)

ClientNext(c, listening) ==
  \/ FailToConnect(c, listening) \/ SendHello(c) \/ Welcome(c) \/ Unwelcome(c)
  \/ SendRequest(c) \/ End(c) \/ Read(c) \/ TryAgain(c)
  \/ Ask(c) \/ Apply(c) \/ DropSender(c) \/ Permit(c)

=============================================================================
