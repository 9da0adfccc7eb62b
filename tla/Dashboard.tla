------------------------------ MODULE Dashboard ------------------------------
(***************************************************************************)
(* The dashboard of the GUI (gui/src/app.rs) with the state it shares with *)
(* the task that reads from the daemon (gui/src/client.rs).                *)
(*                                                                         *)
(* Of the client library only its interface is here: a connection that     *)
(* comes and goes, a bounded queue of requests that outlives connections,  *)
(* messages in order.  The daemon may be another one after a reconnect,    *)
(* and numbers its anomalies from 1 then.  An anomaly is its number and    *)
(* the daemon it is from, and has one level; search, unit filter and level *)
(* filter are one filter by level, and the list is sorted by time.         *)
(***************************************************************************)
EXTENDS Integers, SequencesExt, Screen

CONSTANTS
  AnomalyCap,        \* ANOMALY_CAP
  LogCap,            \* LOG_CAP, ACTION_LOG_CAP
  OutboundRoom,      \* OUTBOUND_CAPACITY
  Levels,            \* the levels of anomalies
  LevelOf(_, _),     \* the level of an anomaly, by daemon and number
  Kinds,             \* the kinds of action the daemon allows
  HandsOnHello,      \* the client library hands the Hello on
  MaxRaised, MaxDaemons, MaxClicks, MaxTroubles  \* bounds of the model

ASSUME DashboardAssumption ==
  {AnomalyCap, LogCap, OutboundRoom, MaxDaemons} \subseteq Nat \ {0}

VARIABLES
  link,      \* the connection: up, the daemon, the anomalies it has raised
  news,      \* the watch has a state of the connection the bridge has not seen
  queue,     \* requests on their way to the daemon
  inbox,     \* messages the bridge has not taken yet
  gui,       \* GuiState
  app,       \* LogsentryApp
  render,    \* RenderSnapshot
  screen,    \* what the last frame showed of anomalies and context
  clicks, troubles

outside == <<link, news, queue, inbox, troubles>>
inside == <<app, render, screen, clicks>>
dashboard == <<outside, gui, inside>>

None == <<>>
All == Levels
Anomaly(daemon, id) == [daemon |-> daemon, id |-> id]
Level(a) == LevelOf(a.daemon, a.id)
\* The daemons number the time on.
Time(a) == a.daemon * (MaxRaised + 1) + a.id

NewState == [connection |-> "unknown", allowed |-> {}, anomalies |-> <<>>, context |-> None,
             results |-> <<>>, log |-> <<>>, devices |-> <<>>]
NewApp == [paused |-> FALSE, selected |-> 0, next |-> 1, pending |-> 0, dialog |-> None,
           filter |-> All]
Blank == [list |-> <<>>, selected |-> 0, detail |-> None, context |-> None,
          results |-> <<>>, log |-> <<>>, devices |-> <<>>]

DashboardInit ==
  /\ link = [up |-> FALSE, daemon |-> 1, raised |-> 0] /\ news = TRUE
  /\ queue = <<>> /\ inbox = <<>> /\ troubles = 0
  /\ gui = NewState /\ app = NewApp /\ render = NewState /\ screen = Blank
  /\ clicks = 0

-----------------------------------------------------------------------------
\* The daemon behind the client library.

\* A session begins with the list of the latest anomalies.  The library as it is keeps
\* the Hello to itself (connect_and_handshake); where it does not,
\* which the bridge is prepared for, all that happens otherwise happens too.
LinkUp ==
  /\ ~link.up
  /\ link' = [link EXCEPT !.up = TRUE] /\ news' = TRUE
  /\ LET hello == [kind |-> "hello", allowed |-> Kinds]
         recent == [kind |-> "recent", list |-> [i \in 1..link.raised |-> Anomaly(link.daemon, i)]]
     IN  inbox' = inbox \o (IF HandsOnHello THEN <<hello, recent>> ELSE <<recent>>)
  /\ UNCHANGED <<queue, troubles, gui, inside, repaint>>

\* The connection is lost, or with it the daemon, and the next is another one.
LinkDown ==
  /\ link.up /\ troubles < MaxTroubles
  /\ troubles' = troubles + 1 /\ news' = TRUE
  /\ \/ link' = [link EXCEPT !.up = FALSE]
     \/ link.daemon < MaxDaemons /\ link' = [up |-> FALSE, daemon |-> link.daemon + 1, raised |-> 0]
  /\ UNCHANGED <<queue, inbox, gui, inside, repaint>>

Raise ==
  /\ link.up /\ link.raised < MaxRaised
  /\ link' = [link EXCEPT !.raised = @ + 1]
  /\ inbox' = Append(inbox, [kind |-> "anomaly", anomaly |-> Anomaly(link.daemon, link.raised + 1)])
  /\ UNCHANGED <<news, queue, troubles, gui, inside, repaint>>

\* An error, or the devices of the network.
Tell(kind) ==
  /\ link.up /\ troubles < MaxTroubles
  /\ troubles' = troubles + 1 /\ inbox' = Append(inbox, [kind |-> kind, devices |-> <<2, 1>>])
  /\ UNCHANGED <<link, news, queue, gui, inside, repaint>>

\* A request is carried out, and answered unless the connection is lost with the answer.
Serve(answered) ==
  /\ link.up /\ queue # <<>>
  /\ LET request == Head(queue)
         answer == IF request.kind = "context"
                   THEN [kind |-> "context", id |-> request.id, about |-> request.about]
                   ELSE [kind |-> "result", id |-> request.id]
     IN  /\ queue' = Tail(queue)
         /\ IF answered THEN inbox' = Append(inbox, answer) /\ UNCHANGED <<link, news, troubles>>
            ELSE /\ troubles < MaxTroubles /\ troubles' = troubles + 1
                 /\ link' = [link EXCEPT !.up = FALSE] /\ news' = TRUE
                 /\ UNCHANGED inbox
  /\ UNCHANGED <<gui, inside, repaint>>

-----------------------------------------------------------------------------
\* The bridge.

\* push_anomaly, push_log, push_action_result: the oldest goes.
PushBounded(seq, e, cap) == Append(IF Len(seq) >= cap THEN Tail(seq) ELSE seq, e)
\* And one after the other.
PushRecent(anomalies, list) ==
  LET after[n \in 0..Len(list)] ==
        IF n = 0 THEN anomalies ELSE PushBounded(after[n - 1], list[n], AnomalyCap)
  IN  after[Len(list)]

ApplyMessage(g, m) ==
  CASE m.kind = "hello" -> [g EXCEPT !.allowed = m.allowed]
    [] m.kind = "recent" -> [g EXCEPT !.anomalies = PushRecent(@, m.list)]
    [] m.kind = "anomaly" -> [g EXCEPT !.anomalies = PushBounded(@, m.anomaly, AnomalyCap)]
    [] m.kind = "context" -> [g EXCEPT !.context = [id |-> m.id, about |-> m.about]]
    [] m.kind = "result" -> [g EXCEPT !.results = PushBounded(@, m.id, LogCap)]
    [] m.kind = "error" -> [g EXCEPT !.log = PushBounded(@, "error", LogCap)]
    [] m.kind = "lan" -> [g EXCEPT !.devices = m.devices]

BridgeState ==
  /\ news /\ news' = FALSE
  /\ gui' = [gui EXCEPT !.connection = IF link.up THEN "up" ELSE "down"]
  /\ RequestRepaint
  /\ UNCHANGED <<link, queue, inbox, troubles, inside>>

BridgeMessage ==
  /\ inbox # <<>> /\ inbox' = Tail(inbox)
  /\ gui' = ApplyMessage(gui, Head(inbox))
  /\ RequestRepaint
  /\ UNCHANGED <<link, news, queue, troubles, inside>>

-----------------------------------------------------------------------------
\* The application.

\* What decides about actions is always taken over, the rest not while paused.
Refresh(r) ==
  IF app.paused THEN [r EXCEPT !.connection = gui.connection, !.allowed = gui.allowed]
                ELSE [gui EXCEPT !.devices = r.devices]

IsConnected(r) == r.connection = "up"

FilteredAnomalies(r) ==
  LET kept == SelectSeq(r.anomalies, LAMBDA a : Level(a) \in app.filter)
      Newer(i, j) == Time(kept[i]) > Time(kept[j]) \/ (Time(kept[i]) = Time(kept[j]) /\ i < j)
      order == SetToSortSeq(DOMAIN kept, Newer)
  IN  [i \in DOMAIN kept |-> kept[order[i]]]

\* The anomaly of the detail panel: the first with the number selected.
Selected(r) ==
  LET hits == {i \in DOMAIN r.anomalies : r.anomalies[i].id = app.selected}
  IN  IF hits = {} THEN None ELSE r.anomalies[CHOOSE i \in hits : \A j \in hits : i <= j]

\* The reply to the request last made for this selection, pending.
MatchingContext(r, pending) ==
  IF Selected(r) # None /\ r.context # None /\ r.context.id = pending THEN r.context.about ELSE None

\* The devices tab reads the shared state itself, paused or not, and sorts by name; a device
\* is its name.
ShownDevices == SortSeq(gui.devices, LAMBDA d, e : d < e)

\* draw_system_panel, draw_detail_panel, draw_central.
Picture(r, pending) ==
  [list |-> FilteredAnomalies(r), selected |-> app.selected, detail |-> Selected(r),
   context |-> MatchingContext(r, pending),
   results |-> Reverse(r.results), log |-> Reverse(r.log), devices |-> ShownDevices]

\* try_send: a full queue takes nothing.
TrySend(request) == queue' = IF Len(queue) < OutboundRoom THEN Append(queue, request) ELSE queue

\* A frame without a click; without a connection the next is asked for at once.
Frame ==
  /\ repaint /\ repaint' = ~IsConnected(Refresh(render))
  /\ render' = Refresh(render) /\ screen' = Picture(Refresh(render), app.pending)
  /\ UNCHANGED <<outside, gui, app, clicks>>

\* A frame with a click: what is clicked is drawn from the state just taken over.
Click(r, pending) ==
  /\ clicks < MaxClicks /\ clicks' = clicks + 1
  /\ r = Refresh(render) /\ render' = r /\ screen' = Picture(r, pending)
  /\ Clicked
  /\ UNCHANGED <<link, news, inbox, troubles, gui>>

Pause ==
  /\ Click(Refresh(render), app.pending)
  /\ app' = [app EXCEPT !.paused = ~@]
  /\ UNCHANGED queue

\* The search and the filters.
Filter(levels) ==
  /\ levels # app.filter
  /\ Click(Refresh(render), app.pending)
  /\ app' = [app EXCEPT !.filter = levels]
  /\ UNCHANGED queue

\* Mutant: a new selection keeps the context.
DetailsKeepingContext(i) ==
  LET r == Refresh(render)
      list == FilteredAnomalies(r)
  IN  /\ i \in DOMAIN list
      /\ Click(r, app.pending)
      /\ app' = [app EXCEPT !.selected = list[i].id]
      /\ UNCHANGED queue

\* A new selection: the context of the old one is of no interest.
Details(i) ==
  LET r == Refresh(render)
      list == FilteredAnomalies(r)
  IN  /\ i \in DOMAIN list
      /\ Click(r, app.pending)
      /\ app' = [app EXCEPT !.selected = list[i].id,
                            !.pending = IF list[i].id = app.selected THEN @ ELSE 0]
      /\ UNCHANGED queue

RequestContext ==
  LET r == Refresh(render)
  IN  /\ IsConnected(r) /\ Selected(r) # None
      /\ Click(r, app.next)
      /\ app' = [app EXCEPT !.pending = app.next, !.next = @ + 1]
      /\ TrySend([kind |-> "context", id |-> app.next, about |-> Selected(r)])

\* A button of an action opens the dialog, also over another one.
ChooseAction(kind) ==
  LET r == Refresh(render)
  IN  /\ IsConnected(r) /\ Selected(r) # None /\ kind \in r.allowed
      /\ Click(r, app.pending)
      /\ app' = [app EXCEPT !.dialog = <<kind>>]
      /\ UNCHANGED queue

Confirm ==
  LET r == Refresh(render)
  IN  /\ app.dialog # None /\ IsConnected(r)
      /\ Click(r, app.pending)
      /\ app' = [app EXCEPT !.dialog = None, !.next = @ + 1]
      /\ TrySend([kind |-> "action", id |-> app.next])

Cancel ==
  /\ app.dialog # None
  /\ Click(Refresh(render), app.pending)
  /\ app' = [app EXCEPT !.dialog = None]
  /\ UNCHANGED queue

DashboardNext ==
  \/ LinkUp \/ LinkDown \/ Raise
  \/ \E kind \in {"error", "lan"} : Tell(kind)
  \/ \E answered \in BOOLEAN : Serve(answered)
  \/ BridgeState \/ BridgeMessage \/ Frame
  \/ Pause \/ (\E levels \in {All} \cup {{l} : l \in Levels} : Filter(levels))
  \/ \E i \in 1..AnomalyCap : Details(i)
  \/ RequestContext \/ (\E kind \in Kinds : ChooseAction(kind)) \/ Confirm \/ Cancel

-----------------------------------------------------------------------------
(* Properties                                                              *)

\* The context in the detail panel is that of the anomaly in it, whatever was selected, asked
\* for or lost before (draw_detail_panel, draw_central); but for one case: the anomaly it was
\* asked for has gone from the list, and a later daemon has given its number to another.
ContextFitsSelection ==
  screen.context # None =>
    \/ screen.context = screen.detail
    \/ /\ screen.context.id = screen.detail.id /\ screen.context.daemon < screen.detail.daemon
       /\ screen.context \notin Range(render.anomalies)

=============================================================================
