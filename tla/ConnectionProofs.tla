-------------------------- MODULE ConnectionProofs --------------------------
(***************************************************************************)
(* What holds between clients and daemon over any number of connections,   *)
(* lost sessions and restarts, for any queue sizes: the client count, the  *)
(* order in which requests are handled, and the completeness of what a     *)
(* session hands on.                                                       *)
(***************************************************************************)
EXTENDS Connection, TLAPS, SequenceTheorems, FiniteSetTheorems

Types ==
  /\ peer \in [Conns -> Peers \cup {NoPeer}]
  /\ up \in [Conns -> Seq(Line)] /\ down \in [Conns -> Seq(Fragment)]
  /\ said \in [Conns -> Nat]
  /\ hung \in [Conns -> BOOLEAN] /\ shut \in [Conns -> BOOLEAN]
  /\ stage \in [Conns -> Stages] /\ runs \in [Clients -> Seq(Nat)]
  /\ state \in [Clients -> States] /\ link \in [Clients -> Conns \cup {NoConn}]
  /\ have \in [Clients -> Nat] /\ latest \in [Clients -> Nat]
  /\ outbox \in [Clients -> Seq(Nat)] /\ asked \in [Clients -> Nat]

\* A client holds the open end of its link, and reads only while connected; a
\* daemon that has closed its end has read or dropped all it was sent.
Linked ==
  /\ \A c \in Clients :
       /\ state[c] \in {"greeting", "awaiting", "connected"} <=> link[c] \in Conns
       /\ link[c] \in Conns => peer[link[c]] = c /\ ~hung[link[c]]
       /\ state[c] # "connected" => have[c] = 0 /\ latest[c] = 0
  /\ \A k \in Conns : shut[k] => up[k] = <<>>

\* The tasks that hold a slot.
Held == {k \in Conns : stage[k] \in Counted}
SlotsHeld == IsFiniteSet(Held) /\ SlotsAreExact

-----------------------------------------------------------------------------
(* Requests: a number is run, written or waiting to be written, in this    *)
(* order, and only one connection of a client has requests to be read.     *)

Rising(s) == \A i, j \in DOMAIN s : i < j => s[i] < s[j]
IsRequest(line) == line.kind = "request"
Requests(k) == {i \in DOMAIN up[k] : IsRequest(up[k][i])}

\* The requests of client c to be read from connection k.
Written(c, k) ==
  /\ state[c] = "ended" \/ (state[c] = "connected" /\ link[c] = k)
  /\ \A i, j \in Requests(k) : i < j => up[k][i].arg < up[k][j].arg
  /\ \A i \in Requests(k) :
       /\ up[k][i].arg <= asked[c]
       /\ \A j \in DOMAIN runs[c] : runs[c][j] < up[k][i].arg
       /\ \A j \in DOMAIN outbox[c] : up[k][i].arg < outbox[c][j]

InOrder ==
  \A c \in Clients :
    /\ Rising(runs[c]) /\ Rising(outbox[c])
    /\ \A i \in DOMAIN runs[c] : runs[c][i] <= asked[c]
    /\ \A i \in DOMAIN outbox[c] : outbox[c][i] <= asked[c]
    /\ \A i \in DOMAIN runs[c], j \in DOMAIN outbox[c] : runs[c][i] < outbox[c][j]
    /\ \A k \in Conns : peer[k] = c /\ Requests(k) # {} => Written(c, k)
    /\ \A k, m \in Conns :
         peer[k] = c /\ peer[m] = c /\ Requests(k) # {} /\ Requests(m) # {} => k = m

-----------------------------------------------------------------------------
(* Messages: what is in a connection is the end of what was said.          *)

Begins(f) == f.last <=> Size(f.kind) = 1
Follows(f, g) ==
  IF f.last THEN g.n = f.n + 1 /\ Begins(g) ELSE g.n = f.n /\ g.kind = f.kind /\ g.last

\* The fragments in q follow each other up to the end of message number n.
Stream(q, n) ==
  /\ \A i \in 1..Len(q) : ~q[i].last => Size(q[i].kind) = 2
  /\ \A i \in 1..(Len(q) - 1) : Follows(q[i], q[i + 1])
  /\ q # <<>> => q[Len(q)].last /\ q[Len(q)].n = n

\* A reader that has part of a line has its rest before it; one that has
\* handed on a message has the next one before it.
InStep(c) ==
  LET q == down[link[c]]
  IN  /\ have[c] \in {0, 1}
      /\ have[c] = 1 => q # <<>> /\ q[1].last /\ Size(q[1].kind) = 2
      /\ latest[c] # 0 /\ q # <<>> => q[1].n = latest[c] + 1 /\ (have[c] = 0 => Begins(q[1]))
      /\ latest[c] # 0 /\ q = <<>> => said[link[c]] = latest[c]

InStream ==
  /\ \A k \in Conns : Stream(down[k], said[k])
  /\ \A k \in Conns : \A i \in 1..Len(down[k]) : down[k][i].kind = "goodbye" => shut[k]
  /\ \A c \in Clients : state[c] = "connected" => InStep(c)

IInv == Types /\ Linked /\ SlotsHeld /\ InOrder /\ InStream

-----------------------------------------------------------------------------
(* Types                                                                   *)

LEMMA FragmentsFacts ==
  ASSUME NEW kind \in Kinds, NEW n \in Nat
  PROVE  /\ Fragments(kind, n) \in Seq(Fragment)
         /\ Len(Fragments(kind, n)) = Size(kind) /\ Size(kind) \in {1, 2}
         /\ \A i \in 1..Size(kind) :
              Fragments(kind, n)[i] = [kind |-> kind, n |-> n, last |-> i = Size(kind)]
<1> DEFINE m == Size(kind)
           Nth(i) == [kind |-> kind, n |-> n, last |-> i = m]
<1>1. m \in {1, 2}
  BY DEF Size
<1>2. Fragments(kind, n) = [i \in 1..m |-> Nth(i)]
  BY DEF Fragments
<1> HIDE DEF m
<1>3. \A i \in 1..m : Nth(i) \in Fragment
  BY DEF Fragment
<1> HIDE DEF Nth
<1>4. /\ [i \in 1..m |-> Nth(i)] \in Seq(Fragment)
      /\ Len([i \in 1..m |-> Nth(i)]) = m
  BY <1>1, <1>3
<1> QED
  BY <1>1, <1>2, <1>4 DEF m, Nth

LEMMA SayTypes ==
  ASSUME Types, NEW k \in Conns, NEW kind \in Kinds, Say(k, kind)
  PROVE  down' \in [Conns -> Seq(Fragment)] /\ said' \in [Conns -> Nat]
<1>1. CASE hung[k] \/ peer[k] \in Strangers
  BY <1>1 DEF Say, Types
<1>2. CASE ~(hung[k] \/ peer[k] \in Strangers)
  <2>1. said[k] + 1 \in Nat /\ down[k] \in Seq(Fragment)
    BY DEF Types
  <2>2. down[k] \o Fragments(kind, said[k] + 1) \in Seq(Fragment)
    BY <2>1, FragmentsFacts, ConcatProperties
  <2> QED
    BY <1>2, <2>1, <2>2 DEF Say, Types
<1> QED
  BY <1>1, <1>2

\* What the socket is after a task has closed its end.
LEMMA ShutTypes ==
  ASSUME Types, NEW k \in Conns, Shut(k)
  PROVE  /\ shut' \in [Conns -> BOOLEAN] /\ up' \in [Conns -> Seq(Line)]
         /\ peer' \in [Conns -> Peers \cup {NoPeer}]
BY EmptySeq DEF Types, Shut

LEMMA HangUpTypes ==
  ASSUME Types, NEW k \in Conns, HangUp(k)
  PROVE  /\ hung' \in [Conns -> BOOLEAN] /\ shut' = shut /\ up' = up
         /\ down' \in [Conns -> Seq(Fragment)] /\ said' \in [Conns -> Nat]
         /\ peer' \in [Conns -> Peers \cup {NoPeer}]
BY EmptySeq DEF Types, HangUp

LEMMA WriteTypes ==
  ASSUME Types, NEW k \in Conns, NEW kind, NEW arg, [kind |-> kind, arg |-> arg] \in Line,
         Write(k, kind, arg)
  PROVE  up' \in [Conns -> Seq(Line)] /\ UNCHANGED <<peer, down, said, hung, shut>>
<1>1. Append(up[k], [kind |-> kind, arg |-> arg]) \in Seq(Line)
  BY AppendProperties DEF Types
<1> QED
  BY <1>1 DEF Types, Write

LEMMA OpenTypes ==
  ASSUME Types, NEW k \in Conns, NEW p \in Peers, Open(k, p)
  PROVE  /\ peer' \in [Conns -> Peers \cup {NoPeer}]
         /\ up' \in [Conns -> Seq(Line)] /\ down' \in [Conns -> Seq(Fragment)]
         /\ said' \in [Conns -> Nat]
         /\ hung' \in [Conns -> BOOLEAN] /\ shut' \in [Conns -> BOOLEAN]
BY EmptySeq DEF Types, Open

\* A line that was read has gone.
LEMMA ConsumeTypes ==
  ASSUME Types, NEW k \in Conns, up[k] # <<>>, Consume(k)
  PROVE  up' \in [Conns -> Seq(Line)] /\ Head(up[k]) \in Line
<1>1. Tail(up[k]) \in Seq(Line) /\ Head(up[k]) \in Line
  BY HeadTailProperties DEF Types
<1> QED
  BY <1>1 DEF Types, Consume

\* The variables of Types a step of the daemon may change.
ServerTypes ==
  /\ peer \in [Conns -> Peers \cup {NoPeer}]
  /\ up \in [Conns -> Seq(Line)] /\ down \in [Conns -> Seq(Fragment)]
  /\ said \in [Conns -> Nat]
  /\ hung \in [Conns -> BOOLEAN] /\ shut \in [Conns -> BOOLEAN]
  /\ stage \in [Conns -> Stages] /\ runs \in [Clients -> Seq(Nat)]

LEMMA TaskTypes ==
  ASSUME Types, NEW k \in Conns, Task(k)
  PROVE  ServerTypes'
<1> USE DEF Types, ServerTypes, Stages, To, Kinds, socket, server
<1> DEFINE Leaves(kind) == LeaveSaying(k, kind) /\ runs' = runs
<1>0. ASSUME NEW kind \in Kinds, Leaves(kind)
      PROVE  ServerTypes'
  BY <1>0, SayTypes, ShutTypes DEF LeaveSaying, Leave
<1>1. CASE Accept(k)
  BY <1>1 DEF Accept
<1>2. CASE Refuse(k)
  BY <1>2, SayTypes, ShutTypes DEF Refuse
<1>3. CASE Depart(k)
  BY <1>3 DEF Depart
<1>4. CASE Admit(k)
  BY <1>4, ConsumeTypes DEF Admit, Reads
<1>5. CASE HelloExpected(k)
  BY <1>5, SayTypes, ConsumeTypes DEF HelloExpected, Reads
<1>6. CASE RejectHello(k)
  BY <1>0, <1>6 DEF RejectHello
<1>7. CASE HelloTimeout(k)
  BY <1>0, <1>7 DEF HelloTimeout
<1>8. CASE Greet(k)
  BY <1>8, SayTypes DEF Greet
<1>9. CASE Push(k)
  BY <1>9, SayTypes DEF Push
<1>10. CASE Serve(k)
  <2>1. up[k] # <<>> /\ Consume(k) /\ UNCHANGED <<peer, hung, shut, stage>>
    BY <1>10 DEF Serve, Reads
  <2>2. up' \in [Conns -> Seq(Line)] /\ Head(up[k]) \in Line
    BY <2>1, ConsumeTypes
  <2>3. down' \in [Conns -> Seq(Fragment)] /\ said' \in [Conns -> Nat]
    BY <1>10, SayTypes DEF Serve
  <2>4. runs' \in [Clients -> Seq(Nat)]
    <3>1. Head(up[k]).arg \in Nat
      BY <2>2 DEF Line
    <3>2. peer[k] \in Clients => Append(runs[peer[k]], Head(up[k]).arg) \in Seq(Nat)
      BY <3>1, AppendProperties
    <3>3. \/ runs' = runs
          \/ /\ peer[k] \in Clients
             /\ runs' = [runs EXCEPT ![peer[k]] = Append(@, Head(up[k]).arg)]
      BY <1>10 DEF Serve
    <3> QED
      BY <3>2, <3>3
  <2> QED
    BY <2>1, <2>2, <2>3, <2>4
<1>11. CASE RejectLine(k)
  BY <1>0, <1>11 DEF RejectLine
<1>12. CASE HearShutdown(k)
  BY <1>0, <1>12 DEF HearShutdown
<1>13. CASE Eof(k)
  BY <1>13, ShutTypes DEF Eof, Leave
<1> QED
  BY <1>1, <1>2, <1>3, <1>4, <1>5, <1>6, <1>7, <1>8, <1>9, <1>10, <1>11, <1>12, <1>13 DEF Task

LEMMA DaemonTypes ==
  ASSUME Types, ServerNext
  PROVE  ServerTypes'
<1> USE DEF Types, ServerTypes, Stages, socket, server
<1>1. CASE \E k \in Conns : Task(k)
  BY <1>1, TaskTypes
<1>2. CASE Signal \/ StopAccepting \/ Start
  BY <1>2 DEF Signal, StopAccepting, Start
<1>3. CASE Exit \/ Crash
  <2>1. <<>> \in Seq(Line)
    BY EmptySeq
  <2>2. Gone
    BY <1>3 DEF Exit, Crash
  <2>3. /\ up' \in [Conns -> Seq(Line)] /\ shut' \in [Conns -> BOOLEAN]
        /\ stage' \in [Conns -> Stages]
    BY <2>1, <2>2 DEF Gone
  <2>4. peer' \in [Conns -> Peers \cup {NoPeer}]
    BY <2>2 DEF Gone
  <2> QED
    BY <2>2, <2>3, <2>4 DEF Gone
<1> QED
  BY <1>1, <1>2, <1>3 DEF ServerNext

LEMMA ClientStepTypes ==
  ASSUME Types, Linked, NEW c \in Clients, ClientNext(c, Listening), UNCHANGED server
  PROVE  Types'
<1> USE DEF Types, States, server, client, queues, socket, Become
<1> DEFINE SocketTypes ==
             /\ peer' \in [Conns -> Peers \cup {NoPeer}]
             /\ up' \in [Conns -> Seq(Line)] /\ down' \in [Conns -> Seq(Fragment)]
             /\ said' \in [Conns -> Nat]
             /\ hung' \in [Conns -> BOOLEAN] /\ shut' \in [Conns -> BOOLEAN]
           Linking == state[c] \in {"greeting", "awaiting", "connected"}
<1>1. Linking => link[c] \in Conns
  BY DEF Linked
<1>2. ASSUME Linking, HangUp(link[c])
      PROVE  SocketTypes
  BY <1>1, <1>2, HangUpTypes
<1>3. ASSUME NEW from, Disconnect(c, from)
      PROVE  /\ state' \in [Clients -> States] /\ link' \in [Clients -> Conns \cup {NoConn}]
             /\ have' \in [Clients -> Nat] /\ latest' \in [Clients -> Nat]
  BY <1>3 DEF Disconnect, Retry
<1>4. CASE FailToConnect(c, Listening) \/ TryAgain(c)
  BY <1>4 DEF FailToConnect, TryAgain, Retry
<1>5. CASE SendHello(c)
  <2>1. Linking
    BY <1>5 DEF SendHello
  <2>2. CASE HangUp(link[c]) /\ Disconnect(c, attempt[c])
    BY <1>2, <1>3, <1>5, <2>1, <2>2 DEF SendHello
  <2>3. CASE Write(link[c], "hello", 1)
    <3>1. [kind |-> "hello", arg |-> 1] \in Line
      BY DEF Line
    <3>2. SocketTypes
      BY <1>1, <2>1, <2>3, <3>1, WriteTypes
    <3> QED
      BY <1>3, <1>5, <3>2 DEF SendHello
  <2> QED
    BY <1>5, <2>2, <2>3 DEF SendHello
<1>6. CASE Welcome(c)
  <2>1. link[c] \in Conns
    BY <1>1, <1>6 DEF Welcome
  <2> DEFINE q == down[link[c]]
  <2>2. q \in Seq(Fragment) /\ Len(q) \in Nat
    BY <2>1, LenProperties
  <2>3. PICK n \in 1..Len(q) : down' = [down EXCEPT ![link[c]] = SubSeq(@, n + 1, Len(@))]
    BY <1>6 DEF Welcome
  <2>4. SubSeq(q, n + 1, Len(q)) \in Seq(Fragment)
    <3>1. \A i \in (n + 1)..Len(q) : q[i] \in Fragment
      BY <2>2, <2>3, ElementOfSeq
    <3> QED
      BY <2>2, <2>3, <3>1, SubSeqProperties
  <2>5. down' \in [Conns -> Seq(Fragment)]
    BY <2>1, <2>3, <2>4
  <2> QED
    BY <1>6, <2>5 DEF Welcome
<1>7. CASE Unwelcome(c)
  BY <1>2, <1>3, <1>7 DEF Unwelcome
<1>8. CASE SendRequest(c)
  <2>1. Linking /\ outbox[c] \in Seq(Nat) /\ outbox[c] # <<>>
    BY <1>8 DEF SendRequest
  <2>2. Head(outbox[c]) \in Nat /\ Tail(outbox[c]) \in Seq(Nat)
    BY <2>1, HeadTailProperties
  <2>3. outbox' \in [Clients -> Seq(Nat)]
    BY <1>8, <2>2 DEF SendRequest
  <2>4. CASE HangUp(link[c]) /\ Lost(c)
    BY <1>2, <1>3, <1>8, <2>1, <2>3, <2>4 DEF SendRequest, Lost
  <2>5. CASE Write(link[c], "request", Head(outbox[c])) /\ UNCHANGED <<state, link, have, latest>>
    <3>1. [kind |-> "request", arg |-> Head(outbox[c])] \in Line
      BY <2>2 DEF Line
    <3>2. SocketTypes
      BY <1>1, <2>1, <2>5, <3>1, WriteTypes
    <3> QED
      BY <1>8, <2>3, <2>5, <3>2 DEF SendRequest
  <2> QED
    BY <1>8, <2>4, <2>5 DEF SendRequest
<1>9. CASE End(c)
  BY <1>2, <1>9 DEF End
<1>10. ASSUME Ready(c), ReadOn(c)
       PROVE  SocketTypes /\ NextFragment(c) \in Fragment
  <2>1. link[c] \in Conns /\ down[link[c]] \in Seq(Fragment) /\ down[link[c]] # <<>>
    BY <1>1, <1>10 DEF Ready
  <2>2. Tail(down[link[c]]) \in Seq(Fragment) /\ Head(down[link[c]]) \in Fragment
    BY <2>1, HeadTailProperties
  <2> QED
    BY <1>10, <2>1, <2>2 DEF ReadOn, NextFragment
<1>11. CASE ReadPart(c) \/ SkipTorn(c)
  <2>1. Ready(c) /\ ReadOn(c)
    BY <1>11 DEF ReadPart, SkipTorn
  <2>2. SocketTypes
    BY <1>10, <2>1
  <2>3. have' \in [Clients -> Nat]
    <3>1. have \in [Clients -> Nat]
      OBVIOUS
    <3>2. PICK n \in Nat : have' = [have EXCEPT ![c] = n]
      BY <1>11 DEF ReadPart, SkipTorn
    <3> QED
      BY <3>1, <3>2
  <2> QED
    BY <1>11, <2>2, <2>3 DEF ReadPart, SkipTorn
<1>12. CASE Receive(c)
  <2>1. CASE HangUp(link[c]) /\ Lost(c)
    BY <1>2, <1>3, <1>12, <2>1 DEF Receive, Lost, Ready
  <2>2. CASE ReadOn(c)
    <3>1. SocketTypes /\ NextFragment(c).n \in Nat
      BY <1>10, <1>12, <2>2 DEF Receive, Fragment
    <3>2. UNCHANGED <<outbox, asked>>
      BY <1>12 DEF Receive
    <3>3. CASE HangUp(link[c]) /\ Lost(c)
      BY <1>2, <1>3, <1>12, <3>2, <3>3 DEF Receive, Lost, Ready
    <3>4. CASE /\ have' = [have EXCEPT ![c] = 0]
               /\ latest' = [latest EXCEPT ![c] = NextFragment(c).n]
               /\ UNCHANGED <<state, link, attempt, permitted, stage, runs>>
      BY <3>1, <3>2, <3>4
    <3> QED
      BY <1>12, <3>3, <3>4 DEF Receive
  <2> QED
    BY <1>12, <2>1, <2>2 DEF Receive
<1>13. CASE EndOfStream(c)
  BY <1>2, <1>3, <1>13 DEF EndOfStream, Lost
<1>14. CASE Ask(c)
  <2>1. Append(outbox[c], asked[c] + 1) \in Seq(Nat)
    BY AppendProperties
  <2> QED
    BY <1>14, <2>1 DEF Ask
<1>15. CASE Apply(c) \/ DropSender(c) \/ Permit(c)
  BY <1>15 DEF Apply, Recv, DropSender, Permit
<1> QED
  BY <1>4, <1>5, <1>6, <1>7, <1>8, <1>9, <1>11, <1>12, <1>13, <1>14, <1>15 DEF ClientNext, Read

LEMMA TypesStep ==
  ASSUME Types, Linked, [Next]_<<vars, cast>>
  PROVE  Types'
<1> USE DEF vars, server, client, queues, socket
<1>1. CASE ServerNext /\ UNCHANGED client
  BY <1>1, DaemonTypes DEF Types, ServerTypes
<1>2. ASSUME NEW c \in Clients, ClientStep(c)
      PROVE  Types'
  BY <1>2, ClientStepTypes DEF ClientStep
<1>3. ASSUME NEW c \in Clients, NEW k \in Conns, Dial(c, k)
      PROVE  Types'
  BY <1>3, OpenTypes DEF Dial, Connect, Types, Become, To, Peers, States, Stages
<1>4. ASSUME NEW p \in Strangers, NEW k \in Conns, Intrude(p, k)
      PROVE  Types'
  BY <1>4, OpenTypes DEF Intrude, Types, To, Peers, Stages
<1>5. ASSUME NEW k \in Conns, Mutter(k)
      PROVE  Types'
  <2>1. PICK line \in [kind : {"hello", "subscribe"}, arg : {0, 1}]
                      \cup [kind : {"otherversion", "request", "unknown", "garbage", "toolong"},
                            arg : {0}] :
          Write(k, line.kind, line.arg)
    BY <1>5 DEF Mutter
  <2>2. [kind |-> line.kind, arg |-> line.arg] \in Line
    BY DEF Line
  <2>3. up' \in [Conns -> Seq(Line)] /\ UNCHANGED <<peer, down, said, hung, shut>>
    BY <2>1, <2>2, WriteTypes
  <2> QED
    BY <1>5, <2>3 DEF Mutter, Types
<1>6. ASSUME NEW k \in Conns, Vanish(k)
      PROVE  Types'
  BY <1>6, HangUpTypes DEF Vanish, Types
<1>7. CASE UNCHANGED <<vars, cast>>
  BY <1>7 DEF Types
<1> QED
  BY <1>1, <1>2, <1>3, <1>4, <1>5, <1>6, <1>7 DEF Next

-----------------------------------------------------------------------------
(* Slots                                                                   *)

\* A step of one task that neither takes nor gives a slot.
LEMMA HeldSame ==
  ASSUME SlotsHeld, stage \in [Conns -> Stages], NEW k \in Conns, NEW s,
         stage' = [stage EXCEPT ![k] = s], stage[k] \in Counted <=> s \in Counted,
         clients' = clients
  PROVE  SlotsHeld'
<1>1. Held' = Held
  BY DEF Held
<1> QED
  BY <1>1 DEF SlotsHeld, SlotsAreExact, Held

LEMMA SlotsStep ==
  ASSUME Types, SlotsHeld, [Next]_<<vars, cast>>
  PROVE  SlotsHeld'
<1> USE DEF To, socket, server, vars
<1>0. stage \in [Conns -> Stages]
  BY DEF Types
<1>1. CASE UNCHANGED <<stage, clients>>
  BY <1>1 DEF SlotsHeld, SlotsAreExact, Held
<1>2. ASSUME NEW k \in Conns, Task(k)
      PROVE  SlotsHeld'
  <2>1. CASE Accept(k)
    <3>1. CASE clients + 1 > MaxClients
      <4>1. stage' = [stage EXCEPT ![k] = "refusing"] /\ clients' = clients /\ stage[k] = "backlog"
        BY <2>1, <3>1 DEF Accept
      <4> QED
        BY <1>0, <4>1, HeldSame DEF Counted
    <3>2. CASE ~(clients + 1 > MaxClients)
      <4>1. stage' = [stage EXCEPT ![k] = "handshake"] /\ clients' = clients + 1 /\ stage[k] = "backlog"
        BY <2>1, <3>2 DEF Accept
      <4>2. Held' = Held \cup {k} /\ k \notin Held
        BY <1>0, <4>1 DEF Held, Counted
      <4>3. IsFiniteSet(Held) /\ clients = Cardinality(Held)
        BY DEF SlotsHeld, SlotsAreExact, Held
      <4>4. IsFiniteSet(Held') /\ Cardinality(Held') = Cardinality(Held) + 1
        BY <4>2, <4>3, FS_AddElement
      <4>5. clients' <= MaxClients
        BY <3>2, <4>1, <4>3, FS_CardinalityType, ServerAssumption
      <4> QED
        BY <4>1, <4>3, <4>4, <4>5 DEF SlotsHeld, SlotsAreExact, Held
    <3> QED
      BY <3>1, <3>2
  <2>2. CASE Depart(k)
    <3>1. stage' = [stage EXCEPT ![k] = "none"] /\ clients' = clients - 1 /\ stage[k] = "leaving"
      BY <2>2 DEF Depart
    <3>2. Held' = Held \ {k} /\ k \in Held
      BY <1>0, <3>1 DEF Held, Counted
    <3>3. IsFiniteSet(Held) /\ clients = Cardinality(Held) /\ clients <= MaxClients
      BY DEF SlotsHeld, SlotsAreExact, Held
    <3>4. IsFiniteSet(Held') /\ Cardinality(Held') = Cardinality(Held) - 1
      BY <3>2, <3>3, FS_RemoveElement
    <3>5. clients' <= MaxClients
      BY <3>1, <3>3, FS_CardinalityType, ServerAssumption
    <3> QED
      BY <3>1, <3>3, <3>4, <3>5 DEF SlotsHeld, SlotsAreExact, Held
  <2>3. CASE Refuse(k)
    <3>1. stage' = [stage EXCEPT ![k] = "none"] /\ clients' = clients /\ stage[k] = "refusing"
      BY <2>3 DEF Refuse
    <3> QED
      BY <1>0, <3>1, HeldSame DEF Counted
  <2>4. CASE RejectHello(k) \/ HelloTimeout(k) \/ RejectLine(k) \/ HearShutdown(k) \/ Eof(k)
    <3>1. /\ stage' = [stage EXCEPT ![k] = "leaving"] /\ clients' = clients
          /\ stage[k] \in {"handshake", "live"}
      BY <2>4 DEF RejectHello, HelloTimeout, RejectLine, HearShutdown, Eof, LeaveSaying, Leave, Reads
    <3> QED
      BY <1>0, <3>1, HeldSame DEF Counted
  <2>5. CASE Admit(k) \/ Greet(k)
    <3>1. PICK s \in {"greet", "recall", "show", "live"} :
            stage' = [stage EXCEPT ![k] = s] /\ clients' = clients
      BY <2>5 DEF Admit, Greet
    <3>2. stage[k] \in {"handshake", "greet", "recall", "show"}
      BY <2>5 DEF Admit, Greet, Reads
    <3> QED
      BY <1>0, <3>1, <3>2, HeldSame DEF Counted
  <2>6. CASE HelloExpected(k) \/ Push(k) \/ Serve(k)
    BY <1>1, <2>6 DEF HelloExpected, Push, Serve
  <2> QED
    BY <1>2, <2>1, <2>2, <2>3, <2>4, <2>5, <2>6 DEF Task
<1>3. CASE Signal \/ StopAccepting \/ Start
  BY <1>1, <1>3 DEF Signal, StopAccepting, Start
<1>4. CASE Exit \/ Crash
  <2>1. clients' = 0 /\ stage' = [k \in Conns |-> "none"]
    BY <1>4 DEF Exit, Crash, Gone
  <2>2. Held' = {}
    BY <2>1 DEF Held, Counted
  <2>3. IsFiniteSet(Held') /\ Cardinality(Held') = 0
    BY <2>2, FS_EmptySet
  <2> QED
    BY <2>1, <2>3, ServerAssumption DEF SlotsHeld, SlotsAreExact, Held
<1>5. ASSUME NEW c \in Clients, ClientStep(c)
      PROVE  SlotsHeld'
  BY <1>1, <1>5 DEF ClientStep
<1>6. ASSUME NEW k \in Conns, (\E c \in Clients : Dial(c, k)) \/ \E p \in Strangers : Intrude(p, k)
      PROVE  SlotsHeld'
  <2>1. stage[k] = "none" /\ stage' = [stage EXCEPT ![k] = "backlog"] /\ clients' = clients
    BY <1>6 DEF Dial, Intrude, Free
  <2> QED
    BY <1>0, <2>1, HeldSame DEF Counted
<1>7. ASSUME NEW k \in Conns, Mutter(k) \/ Vanish(k)
      PROVE  SlotsHeld'
  BY <1>1, <1>7 DEF Mutter, Vanish
<1> QED
  BY <1>1, <1>2, <1>3, <1>4, <1>5, <1>6, <1>7 DEF Next, ServerNext

-----------------------------------------------------------------------------
(* Links                                                                   *)

LEMMA LinkedServer ==
  ASSUME Types, Linked, ServerNext, UNCHANGED client
  PROVE  Linked'
<1> USE DEF client, socket, server
<1>1. hung' = hung
  BY DEF ServerNext, Task, Accept, Refuse, Depart, Admit, HelloExpected, RejectHello, HelloTimeout,
         Greet, Push, Serve, RejectLine, HearShutdown, Eof, LeaveSaying, Leave, Signal,
         StopAccepting, Exit, Crash, Gone, Start
<1>2. \A k \in Conns : ~hung[k] => peer'[k] = peer[k]
  BY DEF Types, ServerNext, Task, Accept, Refuse, Depart, Admit, HelloExpected, RejectHello,
         HelloTimeout, Greet, Push, Serve, RejectLine, HearShutdown, Eof, LeaveSaying, Leave, Shut,
         Signal, StopAccepting, Exit, Crash, Gone, Start
<1>3. \A k \in Conns : shut'[k] => up'[k] = <<>>
  <2>1. CASE UNCHANGED <<up, shut>>
    BY <2>1 DEF Linked
  <2>2. ASSUME NEW k \in Conns, Shut(k)
        PROVE  \A j \in Conns : shut'[j] => up'[j] = <<>>
    BY <2>2 DEF Linked, Types, Shut
  <2>3. ASSUME NEW k \in Conns, up[k] # <<>>, Consume(k), shut' = shut
        PROVE  \A j \in Conns : shut'[j] => up'[j] = <<>>
    BY <2>3 DEF Linked, Types, Consume
  <2>4. CASE Exit \/ Crash
    BY <2>4 DEF Exit, Crash, Gone
  <2> QED
    BY <2>1, <2>2, <2>3, <2>4
    DEF ServerNext, Task, Accept, Refuse, Depart, Admit, HelloExpected, RejectHello, HelloTimeout,
        Greet, Push, Serve, RejectLine, HearShutdown, Eof, LeaveSaying, Leave, Reads, Signal,
        StopAccepting, Start
<1> QED
  BY <1>1, <1>2, <1>3 DEF Linked

LEMMA LinkedClient ==
  ASSUME Types, Linked, NEW c \in Clients, ClientNext(c, Listening), UNCHANGED server
  PROVE  Linked'
<1> USE DEF client, socket, queues, server, Become
<1> DEFINE Linking == state[c] \in {"greeting", "awaiting", "connected"}
           k == link[c]
<1>0. /\ state \in [Clients -> States] /\ link \in [Clients -> Conns \cup {NoConn}]
      /\ have \in [Clients -> Nat] /\ latest \in [Clients -> Nat]
      /\ peer \in [Conns -> Peers \cup {NoPeer}] /\ hung \in [Conns -> BOOLEAN]
      /\ up \in [Conns -> Seq(Line)]
      /\ NoConn \notin Conns
  BY SocketAssumption DEF Types
<1>1. ASSUME Linking
      PROVE  /\ k \in Conns /\ peer[k] = c
             /\ \A d \in Clients : d # c => link[d] # k
  BY <1>1 DEF Linked
<1>2. ASSUME Linking, HangUp(k), NEW s \in {"waiting", "ended"}, state' = [state EXCEPT ![c] = s],
             link' = [link EXCEPT ![c] = NoConn], have' = [have EXCEPT ![c] = 0],
             latest' = [latest EXCEPT ![c] = 0]
      PROVE  Linked'
  <2>1. UNCHANGED <<up, shut>> /\ \A j \in Conns : j # k => peer'[j] = peer[j] /\ hung'[j] = hung[j]
    BY <1>0, <1>2 DEF HangUp
  <2>2. ASSUME NEW d \in Clients, d # c
        PROVE  /\ state'[d] = state[d] /\ link'[d] = link[d] /\ link[d] # k
               /\ have'[d] = have[d] /\ latest'[d] = latest[d]
    BY <1>0, <1>1, <1>2, <2>2
  <2>3. /\ state'[c] = s /\ link'[c] = NoConn /\ have'[c] = 0 /\ latest'[c] = 0
    BY <1>0, <1>2
  <2> QED
    BY <1>0, <2>1, <2>2, <2>3 DEF Linked
<1>3. ASSUME NEW from, Disconnect(c, from), HangUp(k), Linking
      PROVE  Linked'
  BY <1>2, <1>3 DEF Disconnect, Retry
<1>4. ASSUME NEW kind, NEW arg, Write(k, kind, arg), Linking, ~shut[k],
             UNCHANGED <<link, have, latest>>,
             state' = state \/ (state[c] = "greeting" /\ state' = [state EXCEPT ![c] = "awaiting"])
      PROVE  Linked'
  BY <1>0, <1>1, <1>4 DEF Linked, Write
<1>5. ASSUME NEW s \in {"waiting", "denied", "connecting"}, ~Linking,
             state' = [state EXCEPT ![c] = s], UNCHANGED <<socket, link, have, latest>>
      PROVE  Linked'
  BY <1>0, <1>5 DEF Linked
<1>6. CASE FailToConnect(c, Listening) \/ TryAgain(c)
  BY <1>5, <1>6 DEF FailToConnect, TryAgain, Retry
<1>7. CASE SendHello(c)
  BY <1>3, <1>4, <1>7 DEF SendHello
<1>8. CASE Welcome(c)
  BY <1>0, <1>8 DEF Welcome, Linked
<1>9. CASE Unwelcome(c)
  BY <1>3, <1>9 DEF Unwelcome
<1>10. CASE SendRequest(c)
  BY <1>3, <1>4, <1>10 DEF SendRequest, Lost
<1>11. CASE End(c)
  BY <1>2, <1>11 DEF End
<1>12. ASSUME UNCHANGED <<peer, up, hung, shut, state, link>>, state[c] = "connected",
              \A d \in Clients : d # c => have'[d] = have[d] /\ latest'[d] = latest[d]
       PROVE  Linked'
  BY <1>0, <1>12 DEF Linked
<1>13. CASE ReadPart(c) \/ SkipTorn(c)
  <2>1. /\ UNCHANGED <<peer, up, hung, shut, state, link, latest>> /\ state[c] = "connected"
        /\ \A d \in Clients : d # c => have'[d] = have[d]
    BY <1>0, <1>13 DEF ReadPart, SkipTorn, ReadOn, Ready
  <2> QED
    BY <1>12, <2>1
<1>14. CASE Receive(c)
  <2>1. CASE HangUp(k) /\ Lost(c)
    BY <1>3, <1>14, <2>1 DEF Receive, Lost, Ready
  <2>2. CASE ReadOn(c) /\ UNCHANGED <<state, link>> /\ have' = [have EXCEPT ![c] = 0]
             /\ latest' = [latest EXCEPT ![c] = NextFragment(c).n]
    BY <1>0, <1>12, <1>14, <2>2 DEF Receive, ReadOn, Ready
  <2> QED
    BY <1>14, <2>1, <2>2 DEF Receive
<1>15. CASE EndOfStream(c)
  BY <1>3, <1>15 DEF EndOfStream, Lost
<1>16. CASE Ask(c) \/ Apply(c) \/ DropSender(c) \/ Permit(c)
  BY <1>16 DEF Ask, Apply, DropSender, Permit, Linked
<1> QED
  BY <1>6, <1>7, <1>8, <1>9, <1>10, <1>11, <1>13, <1>14, <1>15, <1>16 DEF ClientNext, Read

LEMMA LinkedStep ==
  ASSUME Types, Linked, [Next]_<<vars, cast>>
  PROVE  Linked'
<1> USE DEF vars, client, socket, server, queues
<1>0. /\ state \in [Clients -> States] /\ link \in [Clients -> Conns \cup {NoConn}]
      /\ peer \in [Conns -> Peers \cup {NoPeer}] /\ hung \in [Conns -> BOOLEAN]
      /\ shut \in [Conns -> BOOLEAN] /\ up \in [Conns -> Seq(Line)]
      /\ NoConn \notin Conns /\ Clients \cap Strangers = {}
  BY SocketAssumption DEF Types
<1>1. CASE ServerNext /\ UNCHANGED client
  BY <1>1, LinkedServer
<1>2. ASSUME NEW c \in Clients, ClientStep(c)
      PROVE  Linked'
  BY <1>2, LinkedClient DEF ClientStep
<1>3. ASSUME NEW c \in Clients, NEW k \in Conns, Dial(c, k)
      PROVE  Linked'
  <2>1. /\ hung[k] /\ state[c] = "connecting" /\ Open(k, c) /\ UNCHANGED <<have, latest>>
        /\ state' = [state EXCEPT ![c] = "greeting"] /\ link' = [link EXCEPT ![c] = k]
    BY <1>3 DEF Dial, Free, Connect, Become
  <2>2. \A d \in Clients : link[d] # k
    BY <1>0, <2>1 DEF Linked
  <2>3. have[c] = 0 /\ latest[c] = 0
    BY <2>1 DEF Linked
  <2> QED
    BY <1>0, <2>1, <2>2, <2>3 DEF Linked, Open
<1>4. ASSUME NEW p \in Strangers, NEW k \in Conns, Intrude(p, k)
      PROVE  Linked'
  <2>1. hung[k] /\ Open(k, p) /\ UNCHANGED client
    BY <1>4 DEF Intrude, Free
  <2> QED
    BY <1>0, <2>1 DEF Linked, Open
<1>5. ASSUME NEW k \in Conns, Mutter(k)
      PROVE  Linked'
  <2>1. ~shut[k] /\ UNCHANGED client /\ UNCHANGED <<peer, hung, shut>>
        /\ \A j \in Conns : j # k => up'[j] = up[j]
    BY <1>0, <1>5 DEF Mutter, Write
  <2> QED
    BY <1>0, <2>1 DEF Linked
<1>6. ASSUME NEW k \in Conns, Vanish(k)
      PROVE  Linked'
  <2>1. peer[k] \in Strangers /\ HangUp(k) /\ UNCHANGED client
    BY <1>6 DEF Vanish
  <2> QED
    BY <1>0, <2>1 DEF Linked, HangUp
<1>7. CASE UNCHANGED <<vars, cast>>
  BY <1>7 DEF Linked
<1> QED
  BY <1>1, <1>2, <1>3, <1>4, <1>5, <1>6, <1>7 DEF Next

-----------------------------------------------------------------------------
(* The order of requests                                                   *)

LEMMA AppendNth ==
  ASSUME NEW S, NEW s \in Seq(S), NEW x \in S
  PROVE  /\ Append(s, x) \in Seq(S) /\ Len(s) \in Nat
         /\ DOMAIN s = 1..Len(s) /\ DOMAIN Append(s, x) = 1..(Len(s) + 1)
         /\ \A i \in 1..Len(s) : Append(s, x)[i] = s[i]
         /\ Append(s, x)[Len(s) + 1] = x
BY AppendProperties, LenProperties

LEMMA TailNth ==
  ASSUME NEW S, NEW s \in Seq(S), s # <<>>
  PROVE  /\ Tail(s) \in Seq(S) /\ Len(s) \in Nat \ {0} /\ Head(s) = s[1] /\ Head(s) \in S
         /\ DOMAIN s = 1..Len(s) /\ DOMAIN Tail(s) = 1..(Len(s) - 1)
         /\ \A i \in 1..(Len(s) - 1) : Tail(s)[i] = s[i + 1]
<1>1. Tail(s) \in Seq(S) /\ Len(Tail(s)) = Len(s) - 1 /\ Head(s) \in S
      /\ \A i \in 1..Len(Tail(s)) : Tail(s)[i] = s[i + 1]
  BY HeadTailProperties
<1>2. Len(s) \in Nat \ {0} /\ DOMAIN s = 1..Len(s) /\ DOMAIN Tail(s) = 1..Len(Tail(s))
  BY <1>1, LenProperties, EmptySeq
<1> QED
  BY <1>1, <1>2

LEMMA RisingTail ==
  ASSUME NEW s \in Seq(Nat), s # <<>>, Rising(s)
  PROVE  /\ Rising(Tail(s))
         /\ \A i \in DOMAIN Tail(s) : \E j \in DOMAIN s : Tail(s)[i] = s[j] /\ s[1] < s[j]
         /\ 1 \in DOMAIN s
<1>1. /\ Len(s) \in Nat \ {0} /\ DOMAIN s = 1..Len(s) /\ DOMAIN Tail(s) = 1..(Len(s) - 1)
      /\ \A i \in 1..(Len(s) - 1) : Tail(s)[i] = s[i + 1]
  BY TailNth
<1>2. ASSUME NEW i \in DOMAIN Tail(s), NEW j \in DOMAIN Tail(s), i < j
      PROVE  Tail(s)[i] < Tail(s)[j]
  <2>1. i + 1 \in DOMAIN s /\ j + 1 \in DOMAIN s /\ i + 1 < j + 1
    BY <1>1, <1>2
  <2> QED
    BY <1>1, <2>1 DEF Rising
<1>3. ASSUME NEW i \in DOMAIN Tail(s)
      PROVE  \E j \in DOMAIN s : Tail(s)[i] = s[j] /\ s[1] < s[j]
  <2>1. i + 1 \in DOMAIN s /\ 1 \in DOMAIN s /\ 1 < i + 1
    BY <1>1
  <2> QED
    BY <1>1, <2>1 DEF Rising
<1> QED
  BY <1>1, <1>2, <1>3 DEF Rising

\* A step after which the requests in k are, from some place on, those before it.
Fades(k) ==
  peer'[k] \in Clients /\ Requests(k)' # {} =>
    /\ peer[k] = peer'[k]
    /\ state'[peer[k]] = "ended" \/ (state'[peer[k]] = "connected" /\ link'[peer[k]] = k)
    /\ \E d \in {0, 1} : \A i \in Requests(k)' :
         i + d \in Requests(k) /\ up'[k][i].arg = up[k][i + d].arg

LEMMA RequestIndices ==
  ASSUME Types, NEW k \in Conns
  PROVE  Requests(k) \subseteq Nat /\ DOMAIN up[k] = 1..Len(up[k]) /\ Len(up[k]) \in Nat
BY LenProperties DEF Types, Requests

LEMMA IndicesNext ==
  ASSUME Types', NEW k \in Conns
  PROVE  Requests(k)' \subseteq Nat
<1>1. up'[k] \in Seq(Line)
  BY DEF Types
<1>2. DOMAIN up'[k] \subseteq Nat
  BY <1>1, LenProperties
<1> QED
  BY <1>2 DEF Requests

LEMMA Fading ==
  ASSUME Types, Types', InOrder, UNCHANGED <<runs, outbox, asked>>, \A k \in Conns : Fades(k)
  PROVE  InOrder'
<1>1. ASSUME NEW c \in Clients, NEW k \in Conns, peer'[k] = c, Requests(k)' # {}
      PROVE  Written(c, k)' /\ peer[k] = c /\ Requests(k) # {}
  <2>1. /\ peer[k] = c /\ (state'[c] = "ended" \/ (state'[c] = "connected" /\ link'[c] = k))
    BY <1>1 DEF Fades
  <2>2. PICK d \in {0, 1} : \A i \in Requests(k)' :
               i + d \in Requests(k) /\ up'[k][i].arg = up[k][i + d].arg
    BY <1>1 DEF Fades
  <2>3. Requests(k) # {}
    BY <1>1, <2>2
  <2>4. Written(c, k)
    BY <2>1, <2>3 DEF InOrder
  <2>5. Requests(k)' \subseteq Nat
    BY IndicesNext
  <2>6. ASSUME NEW i \in Requests(k)', NEW j \in Requests(k)', i < j
        PROVE  up'[k][i].arg < up'[k][j].arg
    <3>1. i + d < j + d
      BY <2>5, <2>6
    <3> QED
      BY <2>2, <2>4, <3>1 DEF Written
  <2> QED
    BY <2>1, <2>2, <2>3, <2>4, <2>6 DEF Written
<1> QED
  BY <1>1 DEF InOrder, Rising

\* The same when a request of a client without written ones is thrown away.
LEMMA FadingOutbox ==
  ASSUME Types, Types', InOrder, UNCHANGED <<runs, asked>>, \A k \in Conns : Fades(k),
         NEW c \in Clients, outbox[c] # <<>>, outbox' = [outbox EXCEPT ![c] = Tail(@)],
         \A k \in Conns : peer[k] = c => Requests(k) = {}
  PROVE  InOrder'
<1> DEFINE out == outbox[c]
<1>0. outbox \in [Clients -> Seq(Nat)] /\ out \in Seq(Nat)
  BY DEF Types
<1>1. outbox'[c] = Tail(out) /\ \A d \in Clients : d # c => outbox'[d] = outbox[d]
  BY <1>0
<1>2. /\ Rising(Tail(out)) /\ \A i \in DOMAIN Tail(out) : \E j \in DOMAIN out : Tail(out)[i] = out[j]
  <2>1. Rising(out) /\ out # <<>>
    BY DEF InOrder
  <2> HIDE DEF out
  <2> QED
    BY <1>0, <2>1, RisingTail
<1>3. ASSUME NEW d \in Clients
      PROVE  /\ Rising(outbox'[d])
             /\ \A i \in DOMAIN outbox'[d] : outbox'[d][i] <= asked[d]
             /\ \A i \in DOMAIN runs[d], j \in DOMAIN outbox'[d] : runs[d][i] < outbox'[d][j]
  <2>1. CASE d = c
    <3>1. /\ \A i \in DOMAIN out : out[i] <= asked[c]
          /\ \A i \in DOMAIN runs[c], j \in DOMAIN out : runs[c][i] < out[j]
      BY DEF InOrder
    <3>2. outbox'[d] = Tail(out)
      BY <1>1, <2>1
    <3> HIDE DEF out
    <3> QED
      BY <1>2, <2>1, <3>1, <3>2
  <2>2. CASE d # c
    BY <1>1, <2>2 DEF InOrder
  <2> QED
    BY <2>1, <2>2
<1>4. ASSUME NEW d \in Clients, NEW k \in Conns, peer'[k] = d, Requests(k)' # {}
      PROVE  Written(d, k)' /\ peer[k] = d /\ Requests(k) # {}
  <2>1. /\ peer[k] = d /\ (state'[d] = "ended" \/ (state'[d] = "connected" /\ link'[d] = k))
    BY <1>4 DEF Fades
  <2>2. PICK e \in {0, 1} : \A i \in Requests(k)' :
               i + e \in Requests(k) /\ up'[k][i].arg = up[k][i + e].arg
    BY <1>4 DEF Fades
  <2>3. Requests(k) # {} /\ d # c
    BY <1>4, <2>1, <2>2
  <2>4. Written(d, k)
    BY <2>1, <2>3 DEF InOrder
  <2>5. Requests(k)' \subseteq Nat
    BY IndicesNext
  <2>6. ASSUME NEW i \in Requests(k)', NEW j \in Requests(k)', i < j
        PROVE  up'[k][i].arg < up'[k][j].arg
    <3>1. i + e < j + e
      BY <2>5, <2>6
    <3> QED
      BY <2>2, <2>4, <3>1 DEF Written
  <2> QED
    BY <1>1, <2>1, <2>2, <2>3, <2>4, <2>6 DEF Written
<1> QED
  BY <1>3, <1>4 DEF InOrder, Rising

\* Nothing is added to k, and the client has not left it.
LEMMA FadesIfSame ==
  ASSUME Types, InOrder, NEW k \in Conns, peer'[k] \in {peer[k], NoPeer},
         up'[k] = up[k] \/ up'[k] = <<>> \/ (up[k] # <<>> /\ up'[k] = Tail(up[k])),
         \A c \in Clients : peer[k] = c /\ Requests(k) # {} /\ up'[k] # <<>> =>
           state'[c] = "ended" \/ (state'[c] = "connected" /\ link'[c] = k)
  PROVE  Fades(k)
<1> SUFFICES ASSUME peer'[k] \in Clients, Requests(k)' # {}
             PROVE  /\ peer[k] = peer'[k]
                    /\ \/ state'[peer[k]] = "ended"
                       \/ state'[peer[k]] = "connected" /\ link'[peer[k]] = k
                    /\ \E d \in {0, 1} : \A i \in Requests(k)' :
                         i + d \in Requests(k) /\ up'[k][i].arg = up[k][i + d].arg
  BY DEF Fades
<1>1. peer[k] = peer'[k]
  BY SocketAssumption DEF Peers
<1>2. up'[k] # <<>>
  BY EmptySeq DEF Requests
<1>3. \E d \in {0, 1} : \A i \in Requests(k)' :
        i + d \in Requests(k) /\ up'[k][i].arg = up[k][i + d].arg
  <2>1. CASE up'[k] = up[k]
    <3>1. \A i \in Requests(k)' : i + 0 \in Requests(k) /\ up'[k][i].arg = up[k][i + 0].arg
      BY <2>1, RequestIndices DEF Requests
    <3> QED
      BY <3>1
  <2>2. CASE up[k] # <<>> /\ up'[k] = Tail(up[k])
    <3>1. /\ Len(up[k]) \in Nat \ {0} /\ DOMAIN up[k] = 1..Len(up[k])
          /\ DOMAIN Tail(up[k]) = 1..(Len(up[k]) - 1)
          /\ \A i \in 1..(Len(up[k]) - 1) : Tail(up[k])[i] = up[k][i + 1]
      BY <2>2, TailNth DEF Types
    <3>2. \A i \in Requests(k)' : i + 1 \in Requests(k) /\ up'[k][i].arg = up[k][i + 1].arg
      BY <2>2, <3>1 DEF Requests
    <3> QED
      BY <3>2
  <2> QED
    BY <1>2, <2>1, <2>2
<1>4. Requests(k) # {}
  BY <1>3
<1> QED
  BY <1>1, <1>2, <1>3, <1>4

LEMMA OrderServer ==
  ASSUME Types, Types', InOrder, ServerNext, UNCHANGED client
  PROVE  InOrder'
<1> USE DEF client, socket, server
<1>0. /\ peer \in [Conns -> Peers \cup {NoPeer}] /\ up \in [Conns -> Seq(Line)]
      /\ runs \in [Clients -> Seq(Nat)]
  BY DEF Types
<1>1. ASSUME NEW k \in Conns, peer'[k] \in {peer[k], NoPeer},
             up'[k] = up[k] \/ up'[k] = <<>> \/ (up[k] # <<>> /\ up'[k] = Tail(up[k]))
      PROVE  Fades(k)
  BY <1>1, FadesIfSame DEF InOrder, Written
<1>2. ASSUME runs' = runs,
             \A k \in Conns :
               /\ peer'[k] \in {peer[k], NoPeer}
               /\ up'[k] = up[k] \/ up'[k] = <<>> \/ (up[k] # <<>> /\ up'[k] = Tail(up[k]))
      PROVE  InOrder'
  BY <1>1, <1>2, Fading
<1>3. ASSUME NEW k \in Conns, Task(k), ~Serve(k)
      PROVE  InOrder'
  <2>1. runs' = runs
    BY <1>3 DEF Task, Accept, Refuse, Depart, Admit, HelloExpected, RejectHello, HelloTimeout,
                Greet, Push, RejectLine, HearShutdown, Eof
  <2>2. CASE UNCHANGED <<peer, up>>
    BY <1>2, <2>1, <2>2
  <2>3. CASE Shut(k)
    <3>1. \A j \in Conns : peer'[j] \in {peer[j], NoPeer} /\ (up'[j] = up[j] \/ up'[j] = <<>>)
      BY <1>0, <2>3 DEF Shut
    <3> QED
      BY <1>2, <2>1, <3>1
  <2>4. CASE up[k] # <<>> /\ Consume(k) /\ peer' = peer
    <3>1. \A j \in Conns : up'[j] = up[j] \/ (up[j] # <<>> /\ up'[j] = Tail(up[j]))
      BY <1>0, <2>4 DEF Consume
    <3> QED
      BY <1>2, <2>1, <2>4, <3>1
  <2> QED
    BY <1>3, <2>2, <2>3, <2>4
    DEF Task, Accept, Refuse, Depart, Admit, HelloExpected, RejectHello, HelloTimeout,
        Greet, Push, RejectLine, HearShutdown, Eof, LeaveSaying, Leave, Reads
<1>4. ASSUME NEW k \in Conns, Serve(k)
      PROVE  InOrder'
  <2>1. up[k] # <<>> /\ Consume(k) /\ peer' = peer
    BY <1>4 DEF Serve, Reads
  <2>2. \A j \in Conns : up'[j] = up[j] \/ (up[j] # <<>> /\ up'[j] = Tail(up[j]))
    BY <1>0, <2>1 DEF Consume
  <2>3. CASE runs' = runs
    BY <1>2, <2>1, <2>2, <2>3
  <2>4. ASSUME NEW c \in Clients, peer[k] = c, Head(up[k]).kind = "request",
               runs' = [runs EXCEPT ![c] = Append(@, Head(up[k]).arg)]
        PROVE  InOrder'
    <3> DEFINE a == Head(up[k]).arg
               r == runs[c]
    <3>1. /\ Len(up[k]) \in Nat \ {0} /\ DOMAIN up[k] = 1..Len(up[k])
          /\ DOMAIN Tail(up[k]) = 1..(Len(up[k]) - 1)
          /\ \A i \in 1..(Len(up[k]) - 1) : Tail(up[k])[i] = up[k][i + 1]
          /\ Head(up[k]) = up[k][1] /\ Head(up[k]) \in Line
      BY <1>0, <2>1, TailNth
    <3>2. 1 \in Requests(k) /\ a = up[k][1].arg /\ a \in Nat
      BY <2>4, <3>1 DEF Requests, IsRequest, Line
    <3>3. Written(c, k)
      BY <2>4, <3>2 DEF InOrder
    <3>4. /\ runs'[c] = Append(r, a)
          /\ \A d \in Clients : d # c => runs'[d] = runs[d]
          /\ r \in Seq(Nat)
      BY <1>0, <2>4
    <3>5. /\ Len(r) \in Nat /\ DOMAIN r = 1..Len(r) /\ DOMAIN runs'[c] = 1..(Len(r) + 1)
          /\ \A i \in 1..Len(r) : runs'[c][i] = r[i]
          /\ runs'[c][Len(r) + 1] = a
      BY <3>2, <3>4, AppendNth
    <3>6. \A i \in DOMAIN runs'[c] : (i \in DOMAIN r /\ runs'[c][i] = r[i]) \/ runs'[c][i] = a
      BY <3>5
    <3>7. Rising(runs'[c])
      <4>1. ASSUME NEW i \in DOMAIN runs'[c], NEW j \in DOMAIN runs'[c], i < j
            PROVE  runs'[c][i] < runs'[c][j]
        <5>1. i \in DOMAIN r
          BY <3>5, <4>1
        <5>2. CASE j \in DOMAIN r
          BY <2>4, <3>5, <4>1, <5>1, <5>2 DEF InOrder, Rising
        <5>3. CASE j \notin DOMAIN r
          <6>1. runs'[c][j] = a
            BY <3>6, <5>3
          <6> QED
            BY <3>2, <3>3, <3>5, <5>1, <6>1 DEF Written
        <5> QED
          BY <5>2, <5>3
      <4> QED
        BY <4>1 DEF Rising
    <3>8. \A i \in Requests(k)' : /\ i + 1 \in Requests(k) /\ 1 < i + 1
                                  /\ up'[k][i].arg = up[k][i + 1].arg
      BY <1>0, <2>1, <3>1 DEF Requests, Consume
    <3>9. \A j \in Conns : peer[j] = c /\ Requests(j)' # {} => j = k
      <4>1. \A j \in Conns : j # k => Requests(j)' = Requests(j)
        BY <1>0, <2>1 DEF Consume, Requests
      <4> QED
        BY <2>4, <3>2, <4>1 DEF InOrder
    <3>10. Requests(k)' # {} => Written(c, k)'
      <4>1. \A i, j \in Requests(k)' : i < j => up'[k][i].arg < up'[k][j].arg
        <5>1. Requests(k)' \subseteq Nat
          BY LenProperties DEF Types, Requests
        <5>2. \A i, j \in Requests(k)' : i < j => i + 1 < j + 1
          BY <5>1
        <5> QED
          BY <3>3, <3>8, <5>2 DEF Written
      <4>2. \A i \in Requests(k)' : \A j \in DOMAIN runs'[c] : runs'[c][j] < up'[k][i].arg
        BY <3>2, <3>3, <3>6, <3>8 DEF Written
      <4> QED
        BY <3>3, <3>8, <4>1, <4>2 DEF Written
    <3>11. /\ \A i \in DOMAIN runs'[c] : runs'[c][i] <= asked[c]
           /\ \A i \in DOMAIN runs'[c], j \in DOMAIN outbox[c] : runs'[c][i] < outbox[c][j]
      BY <2>4, <3>2, <3>3, <3>6 DEF InOrder, Written
    <3>12. ASSUME NEW d \in Clients, d # c, NEW j \in Conns, peer[j] = d, Requests(j)' # {}
           PROVE  Written(d, j)' /\ Requests(j) # {}
      <4>1. j # k /\ up'[j] = up[j]
        BY <1>0, <2>1, <2>4, <3>12 DEF Consume
      <4>2. Requests(j)' = Requests(j)
        BY <4>1 DEF Requests
      <4> QED
        BY <3>4, <3>12, <4>1, <4>2 DEF InOrder, Written
    <3> HIDE DEF r, a
    <3>13. ASSUME NEW d \in Clients
           PROVE  /\ Rising(runs'[d]) /\ Rising(outbox[d])
                  /\ \A i \in DOMAIN runs'[d] : runs'[d][i] <= asked[d]
                  /\ \A i \in DOMAIN outbox[d] : outbox[d][i] <= asked[d]
                  /\ \A i \in DOMAIN runs'[d], j \in DOMAIN outbox[d] : runs'[d][i] < outbox[d][j]
                  /\ \A j \in Conns : peer[j] = d /\ Requests(j)' # {} => Written(d, j)'
                  /\ \A j, m \in Conns : peer[j] = d /\ peer[m] = d
                       /\ Requests(j)' # {} /\ Requests(m)' # {} => j = m
      <4>1. CASE d = c
        <5>1. \A j \in Conns : peer[j] = c /\ Requests(j)' # {} => Written(c, j)'
          BY <3>9, <3>10
        <5>2. Rising(outbox[c]) /\ \A i \in DOMAIN outbox[c] : outbox[c][i] <= asked[c]
          BY DEF InOrder
        <5> QED
          BY <3>7, <3>9, <3>11, <4>1, <5>1, <5>2
      <4>2. CASE d # c
        BY <3>4, <3>12, <4>2 DEF InOrder
      <4> QED
        BY <4>1, <4>2
    <3> QED
      BY <2>1, <3>13 DEF InOrder, Rising
  <2> QED
    BY <1>4, <2>3, <2>4 DEF Serve, Reads
<1>5. CASE Signal \/ StopAccepting \/ Start
  BY <1>2, <1>5 DEF Signal, StopAccepting, Start
<1>6. CASE Exit \/ Crash
  <2>1. runs' = runs /\ \A k \in Conns : up'[k] = <<>> /\ peer'[k] \in {peer[k], NoPeer}
    BY <1>6 DEF Exit, Crash, Gone
  <2> QED
    BY <1>2, <2>1
<1> QED
  BY <1>3, <1>4, <1>5, <1>6 DEF ServerNext

\* A client writes down its next request: all earlier ones are run or before it.
LEMMA OrderWritten ==
  ASSUME Types, Types', Linked, InOrder, NEW c \in Clients, NEW k \in Conns,
         state[c] = "connected", link[c] = k, outbox[c] # <<>>,
         outbox' = [outbox EXCEPT ![c] = Tail(@)], Write(k, "request", Head(outbox[c])),
         UNCHANGED <<state, link, asked, runs>>
  PROVE  InOrder'
<1> DEFINE h == Head(outbox[c])
           line == [kind |-> "request", arg |-> h]
           out == outbox[c]
<1>0. /\ up \in [Conns -> Seq(Line)] /\ outbox \in [Clients -> Seq(Nat)] /\ out \in Seq(Nat)
      /\ asked \in [Clients -> Nat] /\ runs \in [Clients -> Seq(Nat)]
  BY DEF Types
<1>1. h \in Nat /\ h = out[1]
  BY <1>0, TailNth
<1>2. line \in Line
  BY <1>1 DEF Line
<1>3. /\ outbox'[c] = Tail(out)
      /\ \A d \in Clients : d # c => outbox'[d] = outbox[d]
      /\ peer' = peer /\ up'[k] = Append(up[k], line)
      /\ \A j \in Conns : j # k => up'[j] = up[j]
  BY <1>0 DEF Write
<1>4. /\ Rising(outbox'[c]) /\ 1 \in DOMAIN out
      /\ \A i \in DOMAIN outbox'[c] : \E j \in DOMAIN out : outbox'[c][i] = out[j] /\ h < out[j]
  <2>1. Rising(out)
    BY DEF InOrder
  <2>2. /\ Rising(Tail(out)) /\ 1 \in DOMAIN out
        /\ \A i \in DOMAIN Tail(out) : \E j \in DOMAIN out : Tail(out)[i] = out[j] /\ out[1] < out[j]
    BY <1>0, <2>1, RisingTail
  <2>3. outbox'[c] = Tail(out) /\ h = out[1]
    BY <1>1, <1>3
  <2> HIDE DEF h, out
  <2> QED
    BY <2>2, <2>3
<1>5. /\ Len(up[k]) \in Nat
      /\ DOMAIN up[k] = 1..Len(up[k]) /\ DOMAIN up'[k] = 1..(Len(up[k]) + 1)
      /\ \A i \in 1..Len(up[k]) : up'[k][i] = up[k][i]
      /\ up'[k][Len(up[k]) + 1] = line
  BY <1>0, <1>2, <1>3, AppendNth
<1>6. peer[k] = c
  BY DEF Linked
<1>7. \A j \in Conns : peer[j] = c /\ Requests(j)' # {} => j = k
  <2>1. \A j \in Conns : j # k => Requests(j)' = Requests(j)
    BY <1>3 DEF Requests
  <2> QED
    BY <2>1 DEF InOrder, Written
<1>8. \A i \in Requests(k)' :
        \/ i \in Requests(k) /\ i <= Len(up[k]) /\ up'[k][i] = up[k][i]
        \/ i = Len(up[k]) + 1 /\ up'[k][i].arg = h
  BY <1>5 DEF Requests
<1>9. Requests(k) # {} => Written(c, k)
  BY <1>6 DEF InOrder
<1>10. Written(c, k)'
  <2>1. ASSUME NEW i \in Requests(k)', NEW j \in Requests(k)', i < j
        PROVE  up'[k][i].arg < up'[k][j].arg
    <3>1. i \in DOMAIN up'[k] /\ j \in DOMAIN up'[k]
      BY <2>1 DEF Requests
    <3>2. i \in Requests(k) /\ up'[k][i] = up[k][i]
      BY <1>5, <1>8, <2>1, <3>1
    <3>3. CASE j \in Requests(k) /\ up'[k][j] = up[k][j]
      BY <1>9, <2>1, <3>2, <3>3 DEF Written
    <3>4. CASE up'[k][j].arg = h
      BY <1>1, <1>4, <1>9, <3>2, <3>4 DEF Written
    <3> QED
      BY <1>8, <2>1, <3>3, <3>4
  <2>2. ASSUME NEW i \in Requests(k)'
        PROVE  /\ up'[k][i].arg <= asked[c]
               /\ \A j \in DOMAIN runs[c] : runs[c][j] < up'[k][i].arg
               /\ \A j \in DOMAIN outbox'[c] : up'[k][i].arg < outbox'[c][j]
    <3>1. CASE i \in Requests(k) /\ up'[k][i] = up[k][i]
      BY <1>4, <1>9, <3>1 DEF Written
    <3>2. CASE up'[k][i].arg = h
      BY <1>1, <1>4, <3>2 DEF InOrder
    <3> QED
      BY <1>8, <3>1, <3>2
  <2> QED
    BY <2>1, <2>2 DEF Written
<1>11. /\ \A i \in DOMAIN outbox'[c] : outbox'[c][i] <= asked[c]
       /\ \A i \in DOMAIN runs[c], j \in DOMAIN outbox'[c] : runs[c][i] < outbox'[c][j]
  BY <1>4 DEF InOrder
<1>12. ASSUME NEW d \in Clients, d # c, NEW j \in Conns, peer[j] = d, Requests(j)' # {}
       PROVE  Written(d, j)' /\ Requests(j) # {}
  <2>1. j # k /\ up'[j] = up[j]
    BY <1>3, <1>6, <1>12
  <2>2. Requests(j)' = Requests(j)
    BY <2>1 DEF Requests
  <2> QED
    BY <1>3, <1>12, <2>1, <2>2 DEF InOrder, Written
<1>13. ASSUME NEW d \in Clients
       PROVE  /\ Rising(runs[d]) /\ Rising(outbox'[d])
              /\ \A i \in DOMAIN runs[d] : runs[d][i] <= asked[d]
              /\ \A i \in DOMAIN outbox'[d] : outbox'[d][i] <= asked[d]
              /\ \A i \in DOMAIN runs[d], j \in DOMAIN outbox'[d] : runs[d][i] < outbox'[d][j]
              /\ \A j \in Conns : peer[j] = d /\ Requests(j)' # {} => Written(d, j)'
              /\ \A j, m \in Conns : peer[j] = d /\ peer[m] = d
                   /\ Requests(j)' # {} /\ Requests(m)' # {} => j = m
  <2>1. CASE d = c
    <3>1. \A j \in Conns : peer[j] = c /\ Requests(j)' # {} => Written(c, j)'
      BY <1>7, <1>10
    <3>2. Rising(runs[c]) /\ \A i \in DOMAIN runs[c] : runs[c][i] <= asked[c]
      BY DEF InOrder
    <3> QED
      BY <1>4, <1>7, <1>11, <2>1, <3>1, <3>2
  <2>2. CASE d # c
    BY <1>3, <1>12, <2>2 DEF InOrder
  <2> QED
    BY <2>1, <2>2
<1> QED
  BY <1>3, <1>13 DEF InOrder, Rising

\* What is asked last has the greatest number.
LEMMA OrderAsked ==
  ASSUME Types, Types', InOrder, NEW c \in Clients, Ask(c), runs' = runs
  PROVE  InOrder'
<1> USE DEF socket
<1> DEFINE n == asked[c] + 1
           out == outbox[c]
<1>0. /\ outbox \in [Clients -> Seq(Nat)] /\ out \in Seq(Nat) /\ runs \in [Clients -> Seq(Nat)]
      /\ asked \in [Clients -> Nat] /\ asked[c] \in Nat /\ n \in Nat
      /\ up \in [Conns -> Seq(Line)]
  BY DEF Types
<1>1. /\ outbox'[c] = Append(out, n) /\ asked'[c] = n
      /\ \A d \in Clients : d # c => outbox'[d] = outbox[d] /\ asked'[d] = asked[d]
      /\ UNCHANGED <<peer, up, state, link>>
  BY <1>0 DEF Ask
<1>2. /\ Len(out) \in Nat /\ DOMAIN out = 1..Len(out) /\ DOMAIN outbox'[c] = 1..(Len(out) + 1)
      /\ \A i \in 1..Len(out) : outbox'[c][i] = out[i]
      /\ outbox'[c][Len(out) + 1] = n
  BY <1>0, <1>1, AppendNth
<1>3. \A i \in DOMAIN outbox'[c] : (i \in DOMAIN out /\ outbox'[c][i] = out[i]) \/ outbox'[c][i] = n
  BY <1>2
<1>4. \A i \in DOMAIN out : out[i] \in Nat /\ out[i] < n
  <2>1. \A i \in DOMAIN out : out[i] \in Nat /\ out[i] <= asked[c]
    BY <1>0, <1>2, ElementOfSeq DEF InOrder
  <2> QED
    BY <1>0, <2>1
<1>5. \A i \in DOMAIN runs[c] : runs[c][i] \in Nat /\ runs[c][i] < n
  <2>1. \A i \in DOMAIN runs[c] : runs[c][i] \in Nat /\ runs[c][i] <= asked[c]
    BY <1>0, LenProperties, ElementOfSeq DEF InOrder
  <2> QED
    BY <1>0, <2>1
<1>6. Rising(outbox'[c])
  <2> SUFFICES ASSUME NEW i \in DOMAIN outbox'[c], NEW j \in DOMAIN outbox'[c], i < j
               PROVE  outbox'[c][i] < outbox'[c][j]
    BY DEF Rising
  <2>1. i \in DOMAIN out /\ outbox'[c][i] = out[i]
    BY <1>2
  <2> QED
    BY <1>3, <1>4, <2>1 DEF InOrder, Rising
<1>7. /\ \A i \in DOMAIN outbox'[c] : outbox'[c][i] <= asked'[c]
      /\ \A i \in DOMAIN runs[c] : runs[c][i] <= asked'[c]
      /\ \A i \in DOMAIN runs[c], j \in DOMAIN outbox'[c] : runs[c][i] < outbox'[c][j]
  <2>1. ASSUME NEW i \in DOMAIN outbox'[c]
        PROVE  outbox'[c][i] <= n
    <3>1. CASE i \in DOMAIN out /\ outbox'[c][i] = out[i]
      BY <1>0, <1>4, <3>1
    <3>2. CASE outbox'[c][i] = n
      BY <1>0, <3>2
    <3> QED
      BY <1>3, <2>1, <3>1, <3>2
  <2>2. \A i \in DOMAIN runs[c] : runs[c][i] <= n
    BY <1>0, <1>5
  <2>3. \A i \in DOMAIN runs[c], j \in DOMAIN out : runs[c][i] < out[j]
    BY DEF InOrder
  <2>4. \A i \in DOMAIN runs[c], j \in DOMAIN outbox'[c] : runs[c][i] < outbox'[c][j]
    BY <1>3, <1>5, <2>3
  <2> QED
    BY <1>1, <2>1, <2>2, <2>4
<1>8. \A k \in Conns : Requests(k)' = Requests(k)
  BY <1>1 DEF Requests
<1>9. ASSUME NEW k \in Conns, peer[k] = c, Requests(k) # {}
      PROVE  Written(c, k)'
  <2>1. Written(c, k)
    BY <1>9 DEF InOrder
  <2>2. \A i \in Requests(k) : up[k][i].arg \in Nat /\ up[k][i].arg <= asked[c]
    <3>1. \A i \in DOMAIN up[k] : up[k][i] \in Line
      BY <1>0, LenProperties, ElementOfSeq
    <3> QED
      BY <2>1, <3>1 DEF Written, Requests, Line
  <2>3. \A i \in Requests(k) : up[k][i].arg < n /\ up[k][i].arg <= n
    BY <1>0, <2>2
  <2>4. \A i \in Requests(k) : \A j \in DOMAIN outbox'[c] : up[k][i].arg < outbox'[c][j]
    BY <1>3, <2>1, <2>3 DEF Written
  <2> QED
    BY <1>1, <1>8, <2>1, <2>3, <2>4 DEF Written
<1>10. ASSUME NEW d \in Clients, d # c, NEW k \in Conns, peer[k] = d, Requests(k) # {}
      PROVE  Written(d, k)'
  BY <1>1, <1>8, <1>10 DEF InOrder, Written
<1>11. ASSUME NEW d \in Clients
       PROVE  /\ Rising(runs[d]) /\ Rising(outbox'[d])
              /\ \A i \in DOMAIN runs[d] : runs[d][i] <= asked'[d]
              /\ \A i \in DOMAIN outbox'[d] : outbox'[d][i] <= asked'[d]
              /\ \A i \in DOMAIN runs[d], j \in DOMAIN outbox'[d] : runs[d][i] < outbox'[d][j]
  <2>1. CASE d = c
    BY <1>6, <1>7, <2>1 DEF InOrder
  <2>2. CASE d # c
    BY <1>1, <2>2 DEF InOrder
  <2> QED
    BY <2>1, <2>2
<1> QED
  BY <1>1, <1>8, <1>9, <1>10, <1>11 DEF InOrder, Rising

LEMMA OrderClient ==
  ASSUME Types, Types', Linked, InOrder, InStream, NEW c \in Clients,
         ClientNext(c, Listening), UNCHANGED server
  PROVE  InOrder'
<1> USE DEF client, socket, queues, server, Become
<1> DEFINE k == link[c]
           Linking == state[c] \in {"greeting", "awaiting", "connected"}
           \* No requests of c are to be read, or c stays where it is or has ended.
           Clear == \A j \in Conns : peer[j] = c /\ Requests(j) # {} =>
                      state'[c] = "ended" \/ (state'[c] = "connected" /\ link'[c] = j)
           Others == \A d \in Clients : d # c => state'[d] = state[d] /\ link'[d] = link[d]
<1>0. /\ state \in [Clients -> States] /\ link \in [Clients -> Conns \cup {NoConn}]
      /\ peer \in [Conns -> Peers \cup {NoPeer}] /\ up \in [Conns -> Seq(Line)]
  BY DEF Types
<1>1. Linking => k \in Conns /\ peer[k] = c
  BY DEF Linked
<1>2. ASSUME Clear, Others, NEW j \in Conns, up'[j] = up[j], peer'[j] \in {peer[j], NoPeer}
      PROVE  Fades(j)
  <2>1. \A d \in Clients : peer[j] = d /\ Requests(j) # {} =>
          state'[d] = "ended" \/ (state'[d] = "connected" /\ link'[d] = j)
    BY <1>2 DEF InOrder, Written
  <2> QED
    BY <1>2, <2>1, FadesIfSame
<1>3. ASSUME Clear, Others, UNCHANGED <<outbox, asked>>, up' = up,
             \A j \in Conns : peer'[j] \in {peer[j], NoPeer}
      PROVE  InOrder'
  BY <1>2, <1>3, Fading
<1>4. state[c] # "connected" /\ state[c] # "ended" => Clear
  BY DEF InOrder, Written
<1>5. Linking /\ up[k] = <<>> => Clear
  BY EmptySeq DEF InOrder, Written, Requests
<1>6. ASSUME Linking, HangUp(k)
      PROVE  up' = up /\ \A j \in Conns : peer'[j] \in {peer[j], NoPeer}
  BY <1>0, <1>1, <1>6 DEF HangUp
<1>7. ASSUME NEW from, Disconnect(c, from)
      PROVE  Others
  BY <1>0, <1>7 DEF Disconnect, Retry
<1>8. CASE FailToConnect(c, Listening) \/ TryAgain(c)
  <2>1. state[c] # "connected" /\ state[c] # "ended"
    BY <1>8 DEF FailToConnect, TryAgain
  <2>2. Others /\ UNCHANGED <<socket, outbox, asked>>
    BY <1>0, <1>8 DEF FailToConnect, TryAgain, Retry
  <2> QED
    BY <1>3, <1>4, <2>1, <2>2
<1>9. CASE SendHello(c)
  <2>1. state[c] = "greeting" /\ Linking /\ UNCHANGED <<outbox, asked>>
    BY <1>9 DEF SendHello
  <2>2. CASE HangUp(k) /\ Disconnect(c, attempt[c])
    BY <1>3, <1>4, <1>6, <1>7, <2>1, <2>2
  <2>3. CASE /\ Write(k, "hello", 1) /\ state' = [state EXCEPT ![c] = "awaiting"]
             /\ link' = link
    <3>1. Others /\ Clear
      BY <1>0, <1>4, <2>1, <2>3
    <3>2. peer' = peer /\ \A j \in Conns : j # k => up'[j] = up[j]
      BY <1>0, <2>3 DEF Write
    <3>3. Requests(k) = {}
      BY <1>1, <2>1 DEF InOrder, Written
    <3>4. up'[k] = Append(up[k], [kind |-> "hello", arg |-> 1])
      BY <1>0, <1>1, <2>1, <2>3 DEF Write
    <3>5. Requests(k)' = {}
      <4>1. [kind |-> "hello", arg |-> 1] \in Line
        BY DEF Line
      <4>2. /\ Len(up[k]) \in Nat
            /\ DOMAIN up[k] = 1..Len(up[k]) /\ DOMAIN up'[k] = 1..(Len(up[k]) + 1)
            /\ \A i \in 1..Len(up[k]) : up'[k][i] = up[k][i]
            /\ up'[k][Len(up[k]) + 1] = [kind |-> "hello", arg |-> 1]
        BY <1>0, <1>1, <2>1, <3>4, <4>1, AppendNth
      <4>3. \A i \in DOMAIN up'[k] : \/ i \in DOMAIN up[k] /\ up'[k][i] = up[k][i]
                                   \/ up'[k][i].kind = "hello"
        BY <4>2
      <4> QED
        BY <2>3, <3>3, <4>3 DEF Requests, IsRequest
    <3>6. \A j \in Conns : Fades(j)
      <4>1. Fades(k)
        BY <3>5 DEF Fades
      <4> QED
        BY <1>2, <3>1, <3>2, <4>1
    <3> QED
      BY <2>1, <3>6, Fading
  <2> QED
    BY <1>9, <2>2, <2>3 DEF SendHello
<1>10. CASE Welcome(c)
  <2>1. /\ state[c] = "awaiting" /\ state' = [state EXCEPT ![c] = "connected"]
        /\ UNCHANGED <<up, peer, link, outbox, asked>>
    BY <1>10 DEF Welcome
  <2>2. \A j \in Conns : peer[j] = c => Requests(j) = {}
    BY <2>1 DEF InOrder, Written
  <2>3. Clear /\ Others
    BY <1>0, <2>1, <2>2
  <2> QED
    BY <1>3, <2>1, <2>3
<1>11. CASE Unwelcome(c)
  <2>1. /\ state[c] = "awaiting" /\ Linking /\ HangUp(k) /\ Disconnect(c, attempt[c])
        /\ UNCHANGED <<outbox, asked>>
    BY <1>11 DEF Unwelcome
  <2> QED
    BY <1>3, <1>4, <1>6, <1>7, <2>1
<1>12. CASE SendRequest(c)
  <2>1. /\ state[c] = "connected" /\ Linking /\ outbox[c] # <<>> /\ UNCHANGED <<asked, runs>>
        /\ outbox' = [outbox EXCEPT ![c] = Tail(@)]
    BY <1>12 DEF SendRequest
  <2>2. CASE shut[k] /\ HangUp(k) /\ Lost(c)
    <3>1. \A j \in Conns : peer[j] = c => Requests(j) = {}
      BY <1>1, <2>1, <2>2, EmptySeq DEF Linked, InOrder, Written, Requests
    <3>2. Clear /\ Others
      BY <1>7, <2>2, <3>1 DEF Lost
    <3>3. \A j \in Conns : Fades(j)
      BY <1>2, <1>6, <2>1, <2>2, <3>2
    <3> QED
      BY <2>1, <3>1, <3>3, FadingOutbox
  <2>3. CASE Write(k, "request", Head(outbox[c])) /\ UNCHANGED <<state, link>>
    BY <1>1, <2>1, <2>3, OrderWritten
  <2> QED
    BY <1>12, <2>2, <2>3 DEF SendRequest
<1>13. CASE End(c)
  <2>1. /\ state[c] = "connected" /\ Linking /\ HangUp(k) /\ UNCHANGED <<outbox, asked>>
        /\ state' = [state EXCEPT ![c] = "ended"] /\ link' = [link EXCEPT ![c] = NoConn]
    BY <1>13 DEF End
  <2>2. Clear /\ Others
    BY <1>0, <2>1
  <2> QED
    BY <1>3, <1>6, <2>1, <2>2
<1>14. ASSUME UNCHANGED <<peer, up, state, link, outbox, asked>>
       PROVE  InOrder'
  <2>1. Clear /\ Others
    BY <1>14 DEF InOrder, Written
  <2> QED
    BY <1>3, <1>14, <2>1
<1>15. CASE ReadPart(c) \/ SkipTorn(c)
  BY <1>14, <1>15 DEF ReadPart, SkipTorn, ReadOn
<1>16. CASE Receive(c)
  <2>1. state[c] = "connected" /\ Linking /\ UNCHANGED <<outbox, asked>>
    BY <1>16 DEF Receive, Ready
  <2>2. CASE NextFragment(c).kind = "goodbye" /\ HangUp(k) /\ Lost(c)
    <3>1. k \in Conns /\ down[k] \in Seq(Fragment) /\ down[k] # <<>>
      BY <1>1, <1>16, <2>1 DEF Types, Receive, Ready
    <3>2. 1 \in 1..Len(down[k]) /\ Head(down[k]) = down[k][1]
      BY <3>1, TailNth
    <3>3. shut[k]
      BY <2>2, <3>1, <3>2 DEF InStream, NextFragment
    <3>4. up[k] = <<>>
      BY <3>1, <3>3 DEF Linked
    <3> QED
      BY <1>3, <1>5, <1>6, <1>7, <2>1, <2>2, <3>4 DEF Lost
  <2>3. CASE ReadOn(c) /\ UNCHANGED <<state, link>>
    BY <1>14, <2>1, <2>3 DEF ReadOn
  <2> QED
    BY <1>16, <2>2, <2>3 DEF Receive
<1>17. CASE EndOfStream(c)
  <2>1. /\ state[c] = "connected" /\ Linking /\ shut[k] /\ HangUp(k) /\ Lost(c)
        /\ UNCHANGED <<outbox, asked>>
    BY <1>17 DEF EndOfStream
  <2>2. up[k] = <<>>
    BY <1>1, <2>1 DEF Linked
  <2> QED
    BY <1>3, <1>5, <1>6, <1>7, <2>1, <2>2 DEF Lost
<1>18. CASE Ask(c)
  BY <1>18, OrderAsked
<1>19. CASE Apply(c) \/ DropSender(c) \/ Permit(c)
  BY <1>14, <1>19 DEF Apply, Recv, DropSender, Permit
<1> QED
  BY <1>8, <1>9, <1>10, <1>11, <1>12, <1>13, <1>15, <1>16, <1>17, <1>18, <1>19
  DEF ClientNext, Read

LEMMA OrderStep ==
  ASSUME IInv, [Next]_<<vars, cast>>
  PROVE  InOrder'
<1> USE DEF vars, client, socket, server, queues
<1>0. /\ Types /\ Types' /\ Linked /\ InOrder /\ InStream
      /\ state \in [Clients -> States] /\ link \in [Clients -> Conns \cup {NoConn}]
      /\ peer \in [Conns -> Peers \cup {NoPeer}] /\ up \in [Conns -> Seq(Line)]
      /\ Clients \cap Strangers = {}
  BY TypesStep, SocketAssumption DEF IInv, Types
<1>1. CASE ServerNext /\ UNCHANGED client
  BY <1>0, <1>1, OrderServer
<1>2. ASSUME NEW c \in Clients, ClientStep(c)
      PROVE  InOrder'
  BY <1>0, <1>2, OrderClient DEF ClientStep
<1>3. ASSUME NEW k \in Conns, up'[k] = <<>>
      PROVE  Fades(k)
  BY <1>3, EmptySeq DEF Fades, Requests
<1>4. ASSUME NEW c \in Clients, NEW k \in Conns, Dial(c, k)
      PROVE  InOrder'
  <2>1. /\ state[c] = "connecting" /\ Open(k, c) /\ UNCHANGED <<outbox, asked, runs>>
        /\ state' = [state EXCEPT ![c] = "greeting"] /\ link' = [link EXCEPT ![c] = k]
    BY <1>4 DEF Dial, Connect, Become
  <2>2. ASSUME NEW j \in Conns, j # k
        PROVE  Fades(j)
    <3>1. up'[j] = up[j] /\ peer'[j] = peer[j]
      BY <1>0, <2>1, <2>2 DEF Open
    <3>2. \A d \in Clients : peer[j] = d /\ Requests(j) # {} =>
            state'[d] = "ended" \/ (state'[d] = "connected" /\ link'[d] = j)
      BY <1>0, <2>1 DEF InOrder, Written
    <3> QED
      BY <1>0, <3>1, <3>2, FadesIfSame
  <2>3. Fades(k)
    BY <1>0, <1>3, <2>1 DEF Open
  <2> QED
    BY <1>0, <2>1, <2>2, <2>3, Fading
<1>5. ASSUME NEW k \in Conns, UNCHANGED <<client, runs>>,
             \A j \in Conns : j # k => up'[j] = up[j] /\ peer'[j] = peer[j],
             Fades(k)
      PROVE  InOrder'
  <2>1. ASSUME NEW j \in Conns, j # k
        PROVE  Fades(j)
    <3>1. up'[j] = up[j] /\ peer'[j] = peer[j] /\ UNCHANGED <<state, link>>
      BY <1>5, <2>1
    <3>2. \A d \in Clients : peer[j] = d /\ Requests(j) # {} =>
            state[d] = "ended" \/ (state[d] = "connected" /\ link[d] = j)
      BY <1>0 DEF InOrder, Written
    <3> QED
      BY <1>0, <3>1, <3>2, FadesIfSame
  <2> QED
    BY <1>0, <1>5, <2>1, Fading
<1>6. ASSUME NEW p \in Strangers, NEW k \in Conns, Intrude(p, k)
      PROVE  InOrder'
  <2>1. /\ UNCHANGED <<client, runs>> /\ up'[k] = <<>>
        /\ \A j \in Conns : j # k => up'[j] = up[j] /\ peer'[j] = peer[j]
    BY <1>0, <1>6 DEF Intrude, Open
  <2> QED
    BY <1>3, <1>5, <2>1
<1>7. ASSUME NEW k \in Conns, Mutter(k)
      PROVE  InOrder'
  <2>1. /\ UNCHANGED <<client, runs, peer>> /\ peer[k] \in Strangers
        /\ \A j \in Conns : j # k => up'[j] = up[j]
    BY <1>0, <1>7 DEF Mutter, Write
  <2>2. Fades(k)
    BY <1>0, <2>1 DEF Fades
  <2> QED
    BY <1>5, <2>1, <2>2
<1>8. ASSUME NEW k \in Conns, Vanish(k)
      PROVE  InOrder'
  <2>1. /\ UNCHANGED <<client, runs, up>> /\ peer[k] \in Strangers
        /\ peer'[k] \in {peer[k], NoPeer} /\ \A j \in Conns : j # k => peer'[j] = peer[j]
    BY <1>0, <1>8 DEF Vanish, HangUp
  <2>2. Fades(k)
    BY <1>0, <2>1, SocketAssumption DEF Fades, Peers
  <2> QED
    BY <1>5, <2>1, <2>2
<1>9. CASE UNCHANGED <<vars, cast>>
  <2>1. /\ UNCHANGED <<runs, outbox, asked>>
        /\ UNCHANGED <<up, peer>> /\ UNCHANGED <<state, link>>
    BY <1>9
  <2>2. ASSUME NEW k \in Conns
        PROVE  Fades(k)
    <3>1. \A d \in Clients : peer[k] = d /\ Requests(k) # {} =>
            state[d] = "ended" \/ (state[d] = "connected" /\ link[d] = k)
      BY <1>0 DEF InOrder, Written
    <3> QED
      BY <1>0, <2>1, <3>1, FadesIfSame
  <2> QED
    BY <1>0, <2>1, <2>2, Fading
<1> QED
  BY <1>1, <1>2, <1>4, <1>6, <1>7, <1>8, <1>9 DEF Next

-----------------------------------------------------------------------------
(* The stream of messages                                                  *)

\* What is left of a stream is a stream.
LEMMA StreamRest ==
  ASSUME NEW q \in Seq(Fragment), NEW r \in Seq(Fragment), NEW n \in Nat, Stream(q, n),
         NEW m \in 0..Len(q), Len(r) = Len(q) - m, \A i \in 1..Len(r) : r[i] = q[i + m]
  PROVE  Stream(r, n)
<1>0. Len(q) \in Nat /\ Len(r) \in Nat /\ m \in Nat
  BY LenProperties
<1>1. \A i \in 1..Len(r) : ~r[i].last => Size(r[i].kind) = 2
  <2>1. \A i \in 1..Len(r) : i + m \in 1..Len(q)
    BY <1>0
  <2> QED
    BY <2>1 DEF Stream
<1>2. \A i \in 1..(Len(r) - 1) : Follows(r[i], r[i + 1])
  <2> SUFFICES ASSUME NEW i \in 1..(Len(r) - 1) PROVE Follows(r[i], r[i + 1])
    OBVIOUS
  <2>1. i + m \in 1..(Len(q) - 1) /\ (i + m) + 1 = (i + 1) + m /\ i \in 1..Len(r) /\ i + 1 \in 1..Len(r)
    BY <1>0
  <2>2. r[i] = q[i + m] /\ r[i + 1] = q[(i + m) + 1]
    <3>1. r[i] = q[i + m] /\ r[i + 1] = q[(i + 1) + m]
      BY <2>1
    <3>2. (i + m) + 1 = (i + 1) + m
      BY <2>1
    <3> QED
      BY <3>1, <3>2
  <2> QED
    BY <2>1, <2>2 DEF Stream
<1>3. r # <<>> => r[Len(r)].last /\ r[Len(r)].n = n
  <2> SUFFICES ASSUME r # <<>> PROVE r[Len(r)].last /\ r[Len(r)].n = n
    OBVIOUS
  <2>1. Len(r) \in 1..Len(r) /\ Len(r) + m = Len(q) /\ Len(q) # 0
    BY <1>0, EmptySeq
  <2>2. q # <<>>
    BY <2>1, EmptySeq
  <2> QED
    BY <2>1, <2>2 DEF Stream
<1> QED
  BY <1>1, <1>2, <1>3 DEF Stream

LEMMA StreamEmpty ==
  ASSUME NEW n
  PROVE  Stream(<<>>, n)
BY DEF Stream

\* The next message continues the stream.
LEMMA StreamSaid ==
  ASSUME NEW q \in Seq(Fragment), NEW n \in Nat, Stream(q, n), NEW kind \in Kinds
  PROVE  LET r == q \o Fragments(kind, n + 1)
         IN  /\ Stream(r, n + 1) /\ r \in Seq(Fragment)
             /\ r # <<>>
             /\ q # <<>> => r[1] = q[1]
             /\ q = <<>> => r[1].n = n + 1 /\ Begins(r[1])
             /\ \A i \in 1..Len(r) : r[i].kind = kind \/ \E j \in 1..Len(q) : r[i] = q[j]
<1> DEFINE F == Fragments(kind, n + 1)
           r == q \o F
           m == Size(kind)
<1>1. /\ F \in Seq(Fragment) /\ Len(F) = m /\ m \in {1, 2}
      /\ \A i \in 1..m : F[i].kind = kind /\ F[i].n = n + 1 /\ (F[i].last <=> i = m)
  <2>1. n + 1 \in Nat
    OBVIOUS
  <2>2. /\ F \in Seq(Fragment) /\ Len(F) = m /\ m \in {1, 2}
        /\ \A i \in 1..m : F[i] = [kind |-> kind, n |-> n + 1, last |-> i = m]
    BY <2>1, FragmentsFacts
  <2> HIDE DEF F, m
  <2>3. ASSUME NEW i \in 1..m
        PROVE  F[i].kind = kind /\ F[i].n = n + 1 /\ (F[i].last <=> i = m)
    <3>1. F[i] = [kind |-> kind, n |-> n + 1, last |-> i = m]
      BY <2>2
    <3>2. F[i].kind = kind /\ F[i].n = n + 1
      BY <3>1
    <3>3. F[i].last = (i = m)
      BY <3>1
    <3> QED
      BY <3>2, <3>3
  <2> QED
    BY <2>2, <2>3
<1>2. Len(q) \in Nat
  BY LenProperties
<1>3. /\ r \in Seq(Fragment) /\ Len(r) = Len(q) + m
      /\ \A i \in 1..(Len(q) + m) : r[i] = IF i <= Len(q) THEN q[i] ELSE F[i - Len(q)]
  BY <1>1, <1>2, ConcatProperties
<1> HIDE DEF F, r
<1>4. \A i \in 1..Len(q) : i \in 1..Len(r) /\ r[i] = q[i]
  BY <1>1, <1>2, <1>3
<1>5. \A i \in 1..m : /\ Len(q) + i \in 1..Len(r)
                      /\ r[Len(q) + i].kind = kind /\ r[Len(q) + i].n = n + 1
                      /\ r[Len(q) + i].last <=> i = m
  <2> SUFFICES ASSUME NEW i \in 1..m
               PROVE  Len(q) + i \in 1..Len(r) /\ r[Len(q) + i] = F[i]
    BY <1>1
  <2>1. Len(q) + i \in 1..(Len(q) + m) /\ ~(Len(q) + i <= Len(q)) /\ (Len(q) + i) - Len(q) = i
    BY <1>1, <1>2
  <2> QED
    BY <1>3, <2>1
<1>6. \A i \in 1..Len(r) : i \in 1..Len(q) \/ \E j \in 1..m : i = Len(q) + j
  <2> SUFFICES ASSUME NEW i \in 1..Len(r), ~(i \in 1..Len(q))
               PROVE  \E j \in 1..m : i = Len(q) + j
    OBVIOUS
  <2>1. i - Len(q) \in 1..m /\ i = Len(q) + (i - Len(q))
    BY <1>1, <1>2, <1>3
  <2> QED
    BY <2>1
<1>7. \A i \in 1..Len(r) : ~r[i].last => Size(r[i].kind) = 2
  <2> SUFFICES ASSUME NEW i \in 1..Len(r), ~r[i].last PROVE Size(r[i].kind) = 2
    OBVIOUS
  <2>1. CASE i \in 1..Len(q)
    BY <1>4, <2>1 DEF Stream
  <2>2. ASSUME NEW j \in 1..m, i = Len(q) + j
        PROVE  Size(r[i].kind) = 2
    BY <1>1, <1>5, <2>2
  <2> QED
    BY <1>6, <2>1, <2>2
<1>8. ASSUME NEW i \in 1..(Len(r) - 1)
      PROVE  Follows(r[i], r[i + 1])
  <2>1. CASE i + 1 <= Len(q)
    <3>1. i \in 1..(Len(q) - 1) /\ i \in 1..Len(q) /\ i + 1 \in 1..Len(q)
      BY <1>2, <2>1
    <3> QED
      BY <1>4, <3>1 DEF Stream
  <2>2. CASE i = Len(q)
    <3>1. q # <<>> /\ i \in 1..Len(q) /\ 1 \in 1..m
      BY <1>1, <1>2, <2>2, EmptySeq
    <3>2. r[i].last /\ r[i].n = n
      BY <1>4, <2>2, <3>1 DEF Stream
    <3>3. r[i + 1].n = n + 1 /\ r[i + 1].kind = kind /\ (r[i + 1].last <=> 1 = m)
      BY <1>5, <2>2, <3>1
    <3> QED
      BY <1>1, <3>2, <3>3 DEF Follows, Begins
  <2>3. CASE i > Len(q)
    <3>1. i = Len(q) + 1 /\ m = 2 /\ 1 \in 1..m /\ 2 \in 1..m /\ i + 1 = Len(q) + 2
      BY <1>1, <1>2, <1>3, <2>3
    <3>2. /\ r[i].n = n + 1 /\ r[i].kind = kind /\ ~r[i].last
          /\ r[i + 1].n = n + 1 /\ r[i + 1].kind = kind /\ r[i + 1].last
      BY <1>5, <3>1
    <3> QED
      BY <3>1, <3>2 DEF Follows
  <2> QED
    BY <1>2, <1>3, <2>1, <2>2, <2>3
<1>9. r # <<>> /\ r[Len(r)].last /\ r[Len(r)].n = n + 1
  <2>1. Len(r) # 0 /\ m \in 1..m /\ Len(r) = Len(q) + m
    BY <1>1, <1>2, <1>3
  <2>2. r[Len(r)].n = n + 1 /\ r[Len(r)].last
    BY <1>5, <2>1
  <2> QED
    BY <1>3, <2>1, <2>2, EmptySeq
<1>10. q # <<>> => r[1] = q[1]
  <2>1. q # <<>> => 1 \in 1..Len(q)
    BY <1>2, EmptySeq
  <2> QED
    BY <1>4, <2>1
<1>11. q = <<>> => r[1].n = n + 1 /\ Begins(r[1])
  <2> SUFFICES ASSUME q = <<>> PROVE r[1].n = n + 1 /\ Begins(r[1])
    OBVIOUS
  <2>1. Len(q) = 0 /\ 1 \in 1..m /\ Len(q) + 1 = 1
    BY <1>1
  <2>2. r[1].n = n + 1 /\ r[1].kind = kind /\ (r[1].last <=> 1 = m)
    BY <1>5, <2>1
  <2> QED
    BY <1>1, <2>2 DEF Begins
<1>12. \A i \in 1..Len(r) : r[i].kind = kind \/ \E j \in 1..Len(q) : r[i] = q[j]
  <2> SUFFICES ASSUME NEW i \in 1..Len(r)
               PROVE  r[i].kind = kind \/ \E j \in 1..Len(q) : r[i] = q[j]
    OBVIOUS
  <2>1. CASE i \in 1..Len(q)
    BY <1>4, <2>1
  <2>2. ASSUME NEW j \in 1..m, i = Len(q) + j
        PROVE  r[i].kind = kind
    BY <1>5, <2>2
  <2> QED
    BY <1>6, <2>1, <2>2
<1>13. Stream(r, n + 1)
  BY <1>7, <1>8, <1>9 DEF Stream
<1> QED
  BY <1>3, <1>9, <1>10, <1>11, <1>12, <1>13 DEF r, F

\* A step that changes what is in one connection.
LEMMA StreamChange ==
  ASSUME Types, InStream, NEW k \in Conns, Stream(down'[k], said'[k]),
         \A j \in Conns : j # k => down'[j] = down[j] /\ said'[j] = said[j] /\ (shut[j] => shut'[j]),
         \A i \in 1..Len(down'[k]) : down'[k][i].kind = "goodbye" => shut'[k],
         \A c \in Clients : state'[c] = "connected" =>
           \/ InStep(c)'
           \/ /\ state[c] = "connected" /\ link'[c] = link[c] /\ link[c] # k /\ link[c] \in Conns
              /\ have'[c] = have[c] /\ latest'[c] = latest[c]
  PROVE  InStream'
<1>1. \A j \in Conns : Stream(down'[j], said'[j])
  BY DEF InStream
<1>2. \A j \in Conns : \A i \in 1..Len(down'[j]) : down'[j][i].kind = "goodbye" => shut'[j]
  BY DEF InStream
<1>3. ASSUME NEW c \in Clients, state'[c] = "connected"
      PROVE  InStep(c)'
  <2>1. CASE /\ state[c] = "connected" /\ link'[c] = link[c] /\ link[c] # k /\ link[c] \in Conns
             /\ have'[c] = have[c] /\ latest'[c] = latest[c]
    <3>1. InStep(c) /\ down'[link[c]] = down[link[c]] /\ said'[link[c]] = said[link[c]]
      BY <2>1 DEF InStream
    <3> QED
      BY <2>1, <3>1 DEF InStep
  <2> QED
    BY <1>3, <2>1
<1> QED
  BY <1>1, <1>2, <1>3 DEF InStream

\* The daemon says something more, or the client writes.
LEMMA StreamGrows ==
  ASSUME Types, Linked, InStream, NEW k \in Conns, NEW kind \in Kinds, Say(k, kind),
         UNCHANGED client, \A j \in Conns : shut[j] => shut'[j], kind = "goodbye" => shut'[k]
  PROVE  InStream'
<1> USE DEF client
<1>0. /\ down \in [Conns -> Seq(Fragment)] /\ said \in [Conns -> Nat]
      /\ link \in [Clients -> Conns \cup {NoConn}] /\ have \in [Clients -> Nat]
      /\ latest \in [Clients -> Nat] /\ NoConn \notin Conns
  BY SocketAssumption DEF Types
<1>1. CASE UNCHANGED <<down, said>>
  BY <1>1 DEF InStream, InStep
<1>2. CASE /\ said' = [said EXCEPT ![k] = @ + 1]
           /\ down' = [down EXCEPT ![k] = @ \o Fragments(kind, said[k] + 1)]
  <2> DEFINE q == down[k]
             n == said[k]
  <2>1. q \in Seq(Fragment) /\ n \in Nat /\ Stream(q, n)
    BY <1>0 DEF InStream
  <2>2. said'[k] = n + 1 /\ down'[k] = q \o Fragments(kind, n + 1)
    BY <1>0, <1>2
  <2>3. \A j \in Conns : j # k => down'[j] = down[j] /\ said'[j] = said[j]
    BY <1>0, <1>2
  <2> HIDE DEF q, n
  <2>4. /\ Stream(down'[k], said'[k]) /\ down'[k] # <<>>
        /\ q # <<>> => down'[k][1] = q[1]
        /\ q = <<>> => down'[k][1].n = n + 1 /\ Begins(down'[k][1])
        /\ \A i \in 1..Len(down'[k]) :
             down'[k][i].kind = kind \/ \E j \in 1..Len(q) : down'[k][i] = q[j]
    BY <2>1, <2>2, StreamSaid
  <2>5. \A i \in 1..Len(down'[k]) : down'[k][i].kind = "goodbye" => shut'[k]
    BY <2>4 DEF InStream, q
  <2>6. ASSUME NEW c \in Clients, state[c] = "connected", link[c] = k
        PROVE  InStep(c)'
    <3>1. InStep(c)
      BY <2>6 DEF InStream
    <3>2. CASE q # <<>>
      BY <2>4, <2>6, <3>1, <3>2 DEF InStep, q
    <3>3. CASE q = <<>>
      BY <2>4, <2>6, <3>1, <3>3 DEF InStep, q, n
    <3> QED
      BY <3>2, <3>3
  <2>7. \A c \in Clients : state[c] = "connected" => link[c] \in Conns
    BY DEF Linked
  <2> QED
    BY <2>3, <2>4, <2>5, <2>6, <2>7, StreamChange
<1> QED
  BY <1>1, <1>2 DEF Say

LEMMA StreamServer ==
  ASSUME Types, Linked, InStream, ServerNext, UNCHANGED client
  PROVE  InStream'
<1> USE DEF socket, server
<1>0. shut \in [Conns -> BOOLEAN]
  BY DEF Types
<1>1. ASSUME UNCHANGED <<down, said>>, \A j \in Conns : shut[j] => shut'[j]
      PROVE  InStream'
  BY <1>1 DEF InStream, InStep, client
<1>2. ASSUME NEW k \in Conns, NEW kind \in Kinds, Say(k, kind), shut' = shut, kind # "goodbye"
      PROVE  InStream'
  BY <1>2, StreamGrows
<1>3. ASSUME NEW k \in Conns, NEW kind \in Kinds, Say(k, kind), Shut(k)
      PROVE  InStream'
  <2>1. shut'[k] /\ \A j \in Conns : shut[j] => shut'[j]
    BY <1>0, <1>3 DEF Shut
  <2> QED
    BY <1>3, <2>1, StreamGrows
<1>4. ASSUME NEW k \in Conns, Task(k)
      PROVE  InStream'
  <2>1. CASE UNCHANGED <<down, said, shut>>
    BY <1>1, <2>1
  <2>2. CASE Refuse(k) \/ RejectHello(k) \/ HelloTimeout(k) \/ RejectLine(k) \/ HearShutdown(k)
    <3>1. \E kind \in {"goodbye", "error"} : Say(k, kind) /\ Shut(k)
      BY <2>2 DEF Refuse, RejectHello, HelloTimeout, RejectLine, HearShutdown, LeaveSaying, Leave
    <3> QED
      BY <1>3, <3>1 DEF Kinds
  <2>3. CASE Eof(k)
    <3>1. UNCHANGED <<down, said>> /\ \A j \in Conns : shut[j] => shut'[j]
      BY <1>0, <2>3 DEF Eof, Leave, Shut
    <3> QED
      BY <1>1, <3>1
  <2>4. CASE HelloExpected(k) \/ Greet(k) \/ Push(k) \/ Serve(k)
    <3>1. /\ shut' = shut
          /\ UNCHANGED <<down, said>>
             \/ \E kind \in {"hello", "recent", "snapshot", "anomaly", "reply", "error"} : Say(k, kind)
      BY <2>4 DEF HelloExpected, Greet, Push, Serve
    <3> QED
      BY <1>2, <2>1, <3>1 DEF Kinds
  <2> QED
    BY <1>4, <2>1, <2>2, <2>3, <2>4 DEF Task, Accept, Depart, Admit
<1>5. CASE Signal \/ StopAccepting \/ Start
  BY <1>1, <1>5 DEF Signal, StopAccepting, Start
<1>6. CASE Exit \/ Crash
  BY <1>1, <1>6 DEF Exit, Crash, Gone
<1> QED
  BY <1>4, <1>5, <1>6 DEF ServerNext

\* Taking the first fragment of a stream leaves the one that follows it.
LEMMA StreamTail ==
  ASSUME NEW q \in Seq(Fragment), NEW n \in Nat, q # <<>>, Stream(q, n)
  PROVE  /\ Tail(q) \in Seq(Fragment) /\ Stream(Tail(q), n)
         /\ Head(q) = q[1] /\ q[1] \in Fragment
         /\ ~q[1].last => Size(q[1].kind) = 2
         /\ Tail(q) # <<>> => Follows(q[1], Tail(q)[1])
         /\ Tail(q) = <<>> => q[1].last /\ q[1].n = n
         /\ \A i \in 1..Len(Tail(q)) : \E j \in 1..Len(q) : Tail(q)[i] = q[j]
<1>1. /\ Tail(q) \in Seq(Fragment) /\ Len(q) \in Nat \ {0} /\ Head(q) = q[1] /\ q[1] \in Fragment
      /\ DOMAIN Tail(q) = 1..(Len(q) - 1)
      /\ \A i \in 1..(Len(q) - 1) : Tail(q)[i] = q[i + 1]
  BY TailNth
<1>2. Len(Tail(q)) = Len(q) - 1
  BY HeadTailProperties
<1>3. Stream(Tail(q), n)
  <2>1. 1 \in 0..Len(q)
    BY <1>1
  <2> QED
    BY <1>1, <1>2, <2>1, StreamRest
<1>4. ~q[1].last => Size(q[1].kind) = 2
  BY <1>1 DEF Stream
<1>5. Tail(q) # <<>> => Follows(q[1], Tail(q)[1])
  <2> SUFFICES ASSUME Tail(q) # <<>> PROVE Follows(q[1], Tail(q)[1])
    OBVIOUS
  <2>1. Len(Tail(q)) # 0
    BY <1>1, EmptySeq
  <2>2. 1 \in 1..(Len(q) - 1) /\ 1 + 1 = 2
    BY <1>1, <1>2, <2>1
  <2>3. Tail(q)[1] = q[2] /\ Follows(q[1], q[1 + 1])
    BY <1>1, <2>2 DEF Stream
  <2> QED
    BY <2>3
<1>6. Tail(q) = <<>> => q[1].last /\ q[1].n = n
  <2> SUFFICES ASSUME Tail(q) = <<>> PROVE q[1].last /\ q[1].n = n
    OBVIOUS
  <2>1. Len(q) = 1
    BY <1>1, <1>2
  <2> QED
    BY <2>1 DEF Stream
<1>7. \A i \in 1..Len(Tail(q)) : \E j \in 1..Len(q) : Tail(q)[i] = q[j]
  <2>1. \A i \in 1..Len(Tail(q)) : i + 1 \in 1..Len(q) /\ Tail(q)[i] = q[i + 1]
    BY <1>1, <1>2
  <2> QED
    BY <2>1
<1> QED
  BY <1>1, <1>3, <1>4, <1>5, <1>6, <1>7

\* The ways of a connected client to read on, and what it hands on by it.
LEMMA ReadInStep ==
  ASSUME Types, Linked, InStream, NEW c \in Clients, Ready(c), ReadOn(c),
         UNCHANGED <<state, link>>,
         \A d \in Clients : d # c => have'[d] = have[d] /\ latest'[d] = latest[d],
         LET f == NextFragment(c)
         IN  \/ ~f.last /\ have'[c] = have[c] + 1 /\ latest'[c] = latest[c]
             \/ f.last /\ ~Whole(c) /\ have'[c] = 0 /\ latest'[c] = latest[c]
             \/ f.last /\ Whole(c) /\ have'[c] = 0 /\ latest'[c] = f.n
  PROVE  /\ InStream'
         /\ latest[c] # 0 /\ latest'[c] # latest[c] => latest'[c] = latest[c] + 1
<1> DEFINE k == link[c]
           q == down[k]
           n == said[k]
           r == Tail(q)
           f == q[1]
<1>0. /\ k \in Conns /\ q \in Seq(Fragment) /\ q # <<>> /\ n \in Nat
      /\ have[c] \in Nat /\ latest[c] \in Nat
  BY DEF Types, Linked, Ready
<1>1. InStep(c) /\ Stream(q, n)
  BY <1>0 DEF InStream, Ready
<1> HIDE DEF n
<1>2. /\ r \in Seq(Fragment) /\ Stream(r, n) /\ NextFragment(c) = f /\ f \in Fragment
      /\ ~f.last => Size(f.kind) = 2
      /\ r # <<>> => Follows(f, r[1])
      /\ r = <<>> => f.last /\ f.n = n
      /\ \A i \in 1..Len(r) : \E j \in 1..Len(q) : r[i] = q[j]
  BY <1>0, <1>1, StreamTail DEF NextFragment
<1>3. /\ down'[k] = r /\ said'[k] = n /\ UNCHANGED shut
      /\ \A j \in Conns : j # k => down'[j] = down[j] /\ said'[j] = said[j]
  BY <1>0 DEF ReadOn, Types, n
<1>4. /\ have[c] \in {0, 1}
      /\ have[c] = 1 => f.last /\ Size(f.kind) = 2
      /\ latest[c] # 0 => f.n = latest[c] + 1 /\ (have[c] = 0 => Begins(f))
  BY <1>0, <1>1 DEF InStep
<1>5. Size(f.kind) \in {1, 2} /\ f.n \in Nat
  BY <1>2 DEF Size, Fragment
<1>6. InStep(c)' <=>
        /\ have'[c] \in {0, 1}
        /\ have'[c] = 1 => r # <<>> /\ r[1].last /\ Size(r[1].kind) = 2
        /\ latest'[c] # 0 /\ r # <<>> => r[1].n = latest'[c] + 1 /\ (have'[c] = 0 => Begins(r[1]))
        /\ latest'[c] # 0 /\ r = <<>> => n = latest'[c]
  BY <1>3 DEF InStep
<1>7. Whole(c) <=> f.last /\ have[c] + 1 = Size(f.kind)
  BY <1>2 DEF Whole
<1> DEFINE Goal == /\ InStep(c)'
                   /\ latest[c] # 0 /\ latest'[c] # latest[c] => latest'[c] = latest[c] + 1
<1>a. \/ ~f.last /\ have'[c] = have[c] + 1 /\ latest'[c] = latest[c]
      \/ f.last /\ ~Whole(c) /\ have'[c] = 0 /\ latest'[c] = latest[c]
      \/ f.last /\ Whole(c) /\ have'[c] = 0 /\ latest'[c] = f.n
  BY <1>2
<1>b. q = down[k]
  OBVIOUS
<1> HIDE DEF k, q, r, f
<1>8. ASSUME ~f.last /\ have'[c] = have[c] + 1 /\ latest'[c] = latest[c]
      PROVE  Goal
  <2>1. have[c] = 0 /\ r # <<>> /\ Follows(f, r[1]) /\ Size(f.kind) = 2
    BY <1>2, <1>4, <1>8
  <2>2. r[1].last /\ r[1].kind = f.kind /\ r[1].n = f.n
    BY <1>8, <2>1 DEF Follows
  <2> QED
    BY <1>4, <1>6, <1>8, <2>1, <2>2
<1>9. ASSUME f.last /\ ~Whole(c) /\ have'[c] = 0 /\ latest'[c] = latest[c]
      PROVE  Goal
  <2>1. latest[c] = 0
    BY <1>4, <1>5, <1>7, <1>9 DEF Begins
  <2> QED
    BY <1>6, <1>9, <2>1
<1>10. ASSUME f.last /\ Whole(c) /\ have'[c] = 0 /\ latest'[c] = f.n
       PROVE  Goal
  <2>1. r # <<>> => r[1].n = f.n + 1 /\ Begins(r[1])
    BY <1>2, <1>10 DEF Follows
  <2>2. latest[c] # 0 => f.n = latest[c] + 1
    BY <1>4
  <2> QED
    BY <1>2, <1>6, <1>10, <2>1, <2>2
<1>11. Goal
  BY <1>a, <1>8, <1>9, <1>10
<1>12. ASSUME NEW i \in 1..Len(down'[k]), down'[k][i].kind = "goodbye"
       PROVE  shut'[k]
  <2>1. PICK j \in 1..Len(q) : r[i] = q[j]
    BY <1>2, <1>3, <1>12
  <2>2. q[j].kind = "goodbye"
    BY <1>3, <1>12, <2>1
  <2>3. shut[k]
    BY <1>0, <1>b, <2>1, <2>2 DEF InStream
  <2> QED
    BY <1>3, <2>3
<1>13. ASSUME NEW d \in Clients, d # c, state[d] = "connected"
       PROVE  link[d] # k /\ link[d] \in Conns
  BY <1>0, <1>13 DEF Linked, k
<1>14. InStream'
  BY <1>0, <1>2, <1>3, <1>11, <1>12, <1>13, StreamChange
<1> QED
  BY <1>11, <1>14

\* A step after which every session either goes on as it was or has just begun
\* or ended; nothing was handed on.
LEMMA StreamLeft ==
  ASSUME Types, Linked, InStream, NEW k \in Conns, down'[k] = <<>>,
         \A j \in Conns : j # k => down'[j] = down[j] /\ said'[j] = said[j] /\ (shut[j] => shut'[j]),
         \A c \in Clients : state'[c] = "connected" =>
           /\ state[c] = "connected" /\ link'[c] = link[c] /\ link[c] # k
           /\ have'[c] = have[c] /\ latest'[c] = latest[c]
  PROVE  InStream'
<1>1. Stream(down'[k], said'[k]) /\ Len(down'[k]) = 0
  BY StreamEmpty
<1>2. \A i \in 1..Len(down'[k]) : down'[k][i].kind = "goodbye" => shut'[k]
  BY <1>1
<1> QED
  BY <1>1, <1>2, StreamChange DEF Linked

LEMMA StreamSame ==
  ASSUME InStream, UNCHANGED <<down, said, shut>>,
         \A c \in Clients : state'[c] = "connected" =>
           /\ state[c] = "connected" /\ link'[c] = link[c]
           /\ have'[c] = have[c] /\ latest'[c] = latest[c]
  PROVE  InStream'
BY DEF InStream, InStep

\* What a step may do to the numbers handed on.
HandsOnNext(c) == latest[c] # 0 /\ latest'[c] \notin {0, latest[c]} => latest'[c] = latest[c] + 1

LEMMA StreamClient ==
  ASSUME Types, Linked, InStream, NEW c \in Clients, ClientNext(c, Listening), UNCHANGED server
  PROVE  InStream' /\ \A d \in Clients : HandsOnNext(d)
<1> USE DEF client, socket, queues, server, Become
<1> DEFINE k == link[c]
           Linking == state[c] \in {"greeting", "awaiting", "connected"}
<1>0. /\ state \in [Clients -> States] /\ link \in [Clients -> Conns \cup {NoConn}]
      /\ have \in [Clients -> Nat] /\ latest \in [Clients -> Nat]
      /\ down \in [Conns -> Seq(Fragment)] /\ said \in [Conns -> Nat]
  BY DEF Types
<1>1. Linking => k \in Conns /\ \A d \in Clients : d # c => link[d] # k
  BY DEF Linked
<1>2. ASSUME Linking, HangUp(k), NEW s \in {"waiting", "ended"}, state' = [state EXCEPT ![c] = s],
             link' = [link EXCEPT ![c] = NoConn], have' = [have EXCEPT ![c] = 0],
             latest' = [latest EXCEPT ![c] = 0]
      PROVE  InStream' /\ \A d \in Clients : HandsOnNext(d)
  <2>1. /\ down'[k] = <<>> /\ shut' = shut
        /\ \A j \in Conns : j # k => down'[j] = down[j] /\ said'[j] = said[j]
    BY <1>0, <1>1, <1>2 DEF HangUp
  <2>2. \A d \in Clients : state'[d] = "connected" =>
          /\ state[d] = "connected" /\ link'[d] = link[d] /\ link[d] # k
          /\ have'[d] = have[d] /\ latest'[d] = latest[d]
    BY <1>0, <1>1, <1>2
  <2>3. InStream'
    BY <1>1, <1>2, <2>1, <2>2, StreamLeft
  <2>4. \A d \in Clients : latest'[d] \in {0, latest[d]}
    BY <1>0, <1>2
  <2> QED
    BY <2>3, <2>4 DEF HandsOnNext
<1>3. ASSUME NEW from, Disconnect(c, from), HangUp(k), Linking
      PROVE  InStream' /\ \A d \in Clients : HandsOnNext(d)
  BY <1>2, <1>3 DEF Disconnect, Retry
<1>4. ASSUME UNCHANGED <<down, said, shut, link, have, latest>>, NEW s,
             state' = state \/ (s # "connected" /\ state' = [state EXCEPT ![c] = s])
      PROVE  InStream' /\ \A d \in Clients : HandsOnNext(d)
  <2>1. \A d \in Clients : state'[d] = "connected" => state[d] = "connected"
    BY <1>0, <1>4
  <2> QED
    BY <1>4, <2>1, StreamSame DEF HandsOnNext
<1>5. CASE FailToConnect(c, Listening) \/ TryAgain(c)
  BY <1>4, <1>5 DEF FailToConnect, TryAgain, Retry
<1>6. CASE SendHello(c)
  <2>1. CASE HangUp(k) /\ Disconnect(c, attempt[c])
    BY <1>3, <1>6, <2>1 DEF SendHello
  <2>2. CASE Write(k, "hello", 1) /\ state' = [state EXCEPT ![c] = "awaiting"]
             /\ UNCHANGED <<link, have, latest>>
    <3>1. UNCHANGED <<down, said, shut, link, have, latest>>
      BY <2>2 DEF Write
    <3> QED
      BY <1>4, <2>2, <3>1
  <2> QED
    BY <1>6, <2>1, <2>2 DEF SendHello
<1>7. CASE Welcome(c)
  <2> DEFINE q == down[k]
  <2>1. /\ state[c] = "awaiting" /\ state' = [state EXCEPT ![c] = "connected"]
        /\ UNCHANGED <<said, shut, link, have, latest>> /\ k \in Conns /\ q # <<>>
    BY <1>1, <1>7 DEF Welcome
  <2>2. PICK m \in 1..Len(q) : down' = [down EXCEPT ![k] = SubSeq(@, m + 1, Len(@))]
    BY <1>7 DEF Welcome
  <2>3. q \in Seq(Fragment) /\ Len(q) \in Nat /\ Stream(q, said[k]) /\ said[k] \in Nat
    BY <1>0, <2>1, LenProperties DEF InStream
  <2> DEFINE r == SubSeq(q, m + 1, Len(q))
  <2>4. /\ r \in Seq(Fragment) /\ Len(r) = Len(q) - m
        /\ \A i \in 1..Len(r) : i + m \in 1..Len(q) /\ r[i] = q[i + m]
    <3>1. \A i \in (m + 1)..Len(q) : q[i] \in Fragment
      BY <2>3, ElementOfSeq
    <3>2. /\ r \in Seq(Fragment) /\ Len(r) = IF m + 1 <= Len(q) THEN Len(q) - (m + 1) + 1 ELSE 0
          /\ \A i \in 1..(Len(q) - (m + 1) + 1) : r[i] = q[(m + 1) + i - 1]
      BY <2>3, <3>1, SubSeqProperties
    <3> HIDE DEF r, q
    <3>3. Len(r) = Len(q) - m /\ Len(q) - (m + 1) + 1 = Len(q) - m
      BY <2>3, <3>2
    <3>4. ASSUME NEW i \in 1..Len(r)
          PROVE  i + m \in 1..Len(q) /\ r[i] = q[i + m]
      <4>1. i \in 1..(Len(q) - (m + 1) + 1) /\ (m + 1) + i - 1 = i + m /\ i + m \in 1..Len(q)
        BY <2>3, <3>3
      <4> QED
        BY <3>2, <4>1
    <3> QED
      BY <3>2, <3>3, <3>4
  <2>5. /\ down'[k] = r
        /\ \A j \in Conns : j # k => down'[j] = down[j] /\ said'[j] = said[j]
    BY <1>0, <2>1, <2>2
  <2>6. Stream(r, said'[k])
    <3>1. m \in 0..Len(q)
      BY <2>3
    <3> HIDE DEF r, q
    <3> QED
      BY <2>1, <2>3, <2>4, <3>1, StreamRest
  <2>7. \A i \in 1..Len(r) : r[i].kind = "goodbye" => shut'[k]
    BY <2>1, <2>4 DEF InStream
  <2>8. InStep(c)'
    <3>1. have'[c] = 0 /\ latest'[c] = 0
      BY <2>1 DEF Linked
    <3> QED
      BY <3>1 DEF InStep
  <2>9. \A d \in Clients : d # c /\ state'[d] = "connected" =>
          /\ state[d] = "connected" /\ link'[d] = link[d] /\ link[d] # k /\ link[d] \in Conns
          /\ have'[d] = have[d] /\ latest'[d] = latest[d]
    BY <1>0, <1>1, <2>1 DEF Linked
  <2> HIDE DEF r
  <2>10. InStream'
    BY <2>1, <2>5, <2>6, <2>7, <2>8, <2>9, StreamChange
  <2> QED
    BY <2>1, <2>10 DEF HandsOnNext
<1>8. CASE Unwelcome(c)
  BY <1>3, <1>8 DEF Unwelcome
<1>9. CASE SendRequest(c)
  <2>1. CASE HangUp(k) /\ Lost(c)
    BY <1>3, <1>9, <2>1 DEF SendRequest, Lost
  <2>2. CASE Write(k, "request", Head(outbox[c])) /\ UNCHANGED <<state, link, have, latest>>
    BY <1>4, <2>2 DEF Write
  <2> QED
    BY <1>9, <2>1, <2>2 DEF SendRequest
<1>10. CASE End(c)
  BY <1>2, <1>10 DEF End
<1>11. ASSUME NEW f, f = NextFragment(c), Ready(c), ReadOn(c), UNCHANGED <<state, link>>,
              \/ ~f.last /\ have' = [have EXCEPT ![c] = @ + 1] /\ latest' = latest
              \/ f.last /\ ~Whole(c) /\ have' = [have EXCEPT ![c] = 0] /\ latest' = latest
              \/ f.last /\ Whole(c) /\ have' = [have EXCEPT ![c] = 0]
                 /\ latest' = [latest EXCEPT ![c] = f.n]
       PROVE  InStream' /\ \A d \in Clients : HandsOnNext(d)
  <2>1. \A d \in Clients : d # c => have'[d] = have[d] /\ latest'[d] = latest[d]
    BY <1>0, <1>11
  <2>2. \/ ~f.last /\ have'[c] = have[c] + 1 /\ latest'[c] = latest[c]
        \/ f.last /\ ~Whole(c) /\ have'[c] = 0 /\ latest'[c] = latest[c]
        \/ f.last /\ Whole(c) /\ have'[c] = 0 /\ latest'[c] = f.n
    BY <1>0, <1>11
  <2>3. InStream' /\ (latest[c] # 0 /\ latest'[c] # latest[c] => latest'[c] = latest[c] + 1)
    BY <1>11, <2>1, <2>2, ReadInStep
  <2> QED
    BY <2>1, <2>3 DEF HandsOnNext
<1>12. CASE ReadPart(c) \/ SkipTorn(c)
  BY <1>11, <1>12 DEF ReadPart, SkipTorn
<1>13. CASE Receive(c)
  <2>1. CASE HangUp(k) /\ Lost(c)
    BY <1>3, <1>13, <2>1 DEF Receive, Lost, Ready
  <2>2. CASE ReadOn(c) /\ UNCHANGED <<state, link>> /\ have' = [have EXCEPT ![c] = 0]
             /\ latest' = [latest EXCEPT ![c] = NextFragment(c).n]
    BY <1>11, <1>13, <2>2 DEF Receive, Whole
  <2> QED
    BY <1>13, <2>1, <2>2 DEF Receive
<1>14. CASE EndOfStream(c)
  BY <1>3, <1>14 DEF EndOfStream, Lost
<1>15. CASE Ask(c) \/ Apply(c) \/ DropSender(c) \/ Permit(c)
  BY <1>4, <1>15 DEF Ask, Apply, Recv, DropSender, Permit
<1> QED
  BY <1>5, <1>6, <1>7, <1>8, <1>9, <1>10, <1>12, <1>13, <1>14, <1>15 DEF ClientNext, Read

LEMMA StreamStep ==
  ASSUME IInv, [Next]_<<vars, cast>>
  PROVE  InStream' /\ \A c \in Clients : HandsOnNext(c)
<1> USE DEF vars, client, socket, server, queues
<1>0. /\ Types /\ Linked /\ InStream
      /\ state \in [Clients -> States] /\ link \in [Clients -> Conns \cup {NoConn}]
      /\ down \in [Conns -> Seq(Fragment)] /\ said \in [Conns -> Nat]
      /\ shut \in [Conns -> BOOLEAN] /\ Clients \cap Strangers = {}
  BY SocketAssumption DEF IInv, Types
<1>1. CASE ServerNext /\ UNCHANGED client
  BY <1>0, <1>1, StreamServer DEF HandsOnNext
<1>2. ASSUME NEW c \in Clients, ClientStep(c)
      PROVE  InStream' /\ \A d \in Clients : HandsOnNext(d)
  BY <1>0, <1>2, StreamClient DEF ClientStep
<1>3. ASSUME NEW c \in Clients, NEW k \in Conns, Dial(c, k)
      PROVE  InStream' /\ \A d \in Clients : HandsOnNext(d)
  <2>1. /\ hung[k] /\ state' = [state EXCEPT ![c] = "greeting"] /\ link' = [link EXCEPT ![c] = k]
        /\ UNCHANGED <<have, latest>> /\ Open(k, c)
    BY <1>3 DEF Dial, Free, Connect, Become
  <2>2. /\ down'[k] = <<>>
        /\ \A j \in Conns : j # k =>
             down'[j] = down[j] /\ said'[j] = said[j] /\ (shut[j] => shut'[j])
    BY <1>0, <2>1 DEF Open
  <2>3. \A d \in Clients : link[d] # k
    BY <1>0, <2>1 DEF Linked
  <2>4. \A d \in Clients : state'[d] = "connected" =>
          state[d] = "connected" /\ link'[d] = link[d] /\ link[d] # k
    BY <1>0, <2>1, <2>3
  <2> QED
    BY <1>0, <2>1, <2>2, <2>4, StreamLeft DEF HandsOnNext
<1>4. ASSUME NEW p \in Strangers, NEW k \in Conns, Intrude(p, k)
      PROVE  InStream' /\ \A d \in Clients : HandsOnNext(d)
  <2>1. hung[k] /\ Open(k, p) /\ UNCHANGED client
    BY <1>4 DEF Intrude, Free
  <2>2. /\ down'[k] = <<>>
        /\ \A j \in Conns : j # k =>
             down'[j] = down[j] /\ said'[j] = said[j] /\ (shut[j] => shut'[j])
    BY <1>0, <2>1 DEF Open
  <2>3. \A d \in Clients : state[d] = "connected" => link[d] # k
    BY <1>0, <2>1 DEF Linked
  <2> QED
    BY <1>0, <2>1, <2>2, <2>3, StreamLeft DEF HandsOnNext
<1>5. ASSUME NEW k \in Conns, Mutter(k)
      PROVE  InStream' /\ \A d \in Clients : HandsOnNext(d)
  BY <1>0, <1>5, StreamSame DEF Mutter, Write, HandsOnNext
<1>6. ASSUME NEW k \in Conns, Vanish(k)
      PROVE  InStream' /\ \A d \in Clients : HandsOnNext(d)
  <2>1. peer[k] \in Strangers /\ HangUp(k) /\ UNCHANGED client
    BY <1>6 DEF Vanish
  <2>2. /\ down'[k] = <<>> /\ shut' = shut
        /\ \A j \in Conns : j # k => down'[j] = down[j] /\ said'[j] = said[j]
    BY <1>0, <2>1 DEF HangUp
  <2>3. \A d \in Clients : state[d] = "connected" => link[d] # k
    BY <1>0, <2>1 DEF Linked
  <2> QED
    BY <1>0, <2>1, <2>2, <2>3, StreamLeft DEF HandsOnNext
<1>7. CASE UNCHANGED <<vars, cast>>
  BY <1>0, <1>7, StreamSame DEF HandsOnNext
<1> QED
  BY <1>1, <1>2, <1>3, <1>4, <1>5, <1>6, <1>7 DEF Next

-----------------------------------------------------------------------------
(* Theorems                                                                *)

LEMMA StartsSound == Init => IInv
<1> SUFFICES ASSUME Init PROVE IInv
  OBVIOUS
<1> USE DEF Init, SocketInit, ServerInit, ClientInit, QueuesInit
<1>1. Types
  <2>1. \A S : <<>> \in Seq(S)
    BY EmptySeq
  <2> QED
    BY <2>1 DEF Types, States, Stages
<1>2. Linked
  BY SocketAssumption DEF Linked
<1>3. SlotsHeld
  <2>1. Held = {}
    BY DEF Held, Counted
  <2>2. IsFiniteSet(Held) /\ Cardinality(Held) = 0
    BY <2>1, FS_EmptySet
  <2>3. clients = 0 /\ 0 <= MaxClients
    BY ServerAssumption
  <2> QED
    BY <2>2, <2>3 DEF SlotsHeld, SlotsAreExact, Held
<1>4. InOrder
  <2>1. \A k \in Conns : up[k] = <<>>
    OBVIOUS
  <2>2. \A k \in Conns : Requests(k) = {}
    <3>1. Len(<<>>) = 0 /\ DOMAIN <<>> = 1..0
      BY EmptySeq
    <3>2. DOMAIN <<>> = {}
      BY <3>1
    <3> QED
      BY <2>1, <3>2 DEF Requests
  <2> QED
    BY <2>2 DEF InOrder, Rising
<1>5. InStream
  BY StreamEmpty DEF InStream
<1> QED
  BY <1>1, <1>2, <1>3, <1>4, <1>5 DEF IInv

LEMMA StaysSound == IInv /\ [Next]_<<vars, cast>> => IInv'
BY TypesStep, LinkedStep, SlotsStep, OrderStep, StreamStep DEF IInv

LEMMA AlwaysSound == Spec => []IInv
BY StartsSound, StaysSound, PTL DEF Spec

\* The client count is the number of tasks that run, and never more than
\* max_clients: no end of a task, at whatever await point, loses a slot or
\* gives one away twice.
THEOREM SlotsExact == Spec => []SlotsAreExact
<1>1. IInv => SlotsAreExact
  BY DEF IInv, SlotsHeld
<1> QED
  BY <1>1, AlwaysSound, PTL

\* Requests of a client are handled in the order it made them and each at
\* most once, over lost connections, restarts and reconnects.
THEOREM HandledOnce == Spec => []HandledOnceInOrder
<1>1. IInv => HandledOnceInOrder
  BY DEF IInv, InOrder, Rising, HandledOnceInOrder
<1> QED
  BY <1>1, AlwaysSound, PTL

\* After the first message of a session a client hands on every following
\* one, however reads are cancelled.
THEOREM NothingIsMissing == Spec => NothingMissingInside
<1>1. IInv /\ [Next]_<<vars, cast>> =>
        [\A c \in Clients :
           latest[c] # 0 /\ latest'[c] \notin {0, latest[c]} => latest'[c] = latest[c] + 1]_vars
  BY StreamStep DEF HandsOnNext
<1> QED
  BY <1>1, AlwaysSound, PTL DEF Spec, NothingMissingInside

=============================================================================
