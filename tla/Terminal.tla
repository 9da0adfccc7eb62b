------------------------------ MODULE Terminal ------------------------------
(***************************************************************************)
(* The client for the terminal (tui/src/main.rs, app.rs, ui.rs): one task  *)
(* that draws, then waits for the first of a tick, a state of the          *)
(* connection and a message, and at a tick takes all keys pressed since    *)
(* the last.  The daemon, the connection and what comes over it are those  *)
(* of the dashboard, whose client library it has too.                      *)
(***************************************************************************)
EXTENDS Dashboard

CONSTANT TableCap   \* ANOMALY_CAP of the terminal, not that of the dashboard

ASSUME TerminalAssumption == TableCap \in Nat \ {0}

VARIABLES
  tui,      \* App
  keys,     \* pressed, but not taken yet
  shows,    \* what was drawn last
  chosen    \* history: the entry that was selected after the last key, if one was

terminal == <<tui, keys, shows, chosen>>

NewTui == [host |-> "-", connection |-> "unknown", list |-> <<>>, selected |-> 0,
           status |-> "help", quit |-> FALSE]

\* selected_anomaly.
SelectedOf(t) == IF t.selected < Len(t.list) THEN t.list[t.selected + 1] ELSE None

\* draw: the table with its cursor, the detail, the footer.
Drawing(t) == [list |-> t.list, cursor |-> t.selected + 1, detail |-> SelectedOf(t),
               header |-> <<t.host, t.connection>>, footer |-> t.status]

Smaller(a, b) == IF a < b THEN a ELSE b

TerminalInit == tui = NewTui /\ keys = <<>> /\ shows = Drawing(NewTui) /\ chosen = None

\* Mutant: the selection keeps its index.
PushFrontKeepingIndex(t, a) ==
  [t EXCEPT !.list = SubSeq(<<a>> \o @, 1, Smaller(Len(@) + 1, TableCap))]

\* push_anomaly: the newest first; a selection below the first goes down with its entry,
\* and past the end when that is dropped.
PushFront(t, a) ==
  [t EXCEPT !.list = SubSeq(<<a>> \o @, 1, Smaller(Len(@) + 1, TableCap)),
            !.selected = IF @ > 0 THEN @ + 1 ELSE @]

\* A list, one after the other.
PushList(t, list) ==
  LET after[n \in 0..Len(list)] == IF n = 0 THEN t ELSE PushFront(after[n - 1], list[n])
  IN  after[Len(list)]

\* apply_message; what was asked for by nobody is passed over.
Applied(t, m) ==
  CASE m.kind = "hello" -> [t EXCEPT !.host = "daemon"]
    [] m.kind = "recent" -> PushList(t, m.list)
    [] m.kind = "anomaly" -> PushFront(t, m.anomaly)
    [] m.kind \in {"error", "goodbye"} -> [t EXCEPT !.status = m.kind]
    [] OTHER -> t

\* handle_key, with select_next and select_previous.
Handled(t, key) ==
  CASE key = "quit" -> [t EXCEPT !.quit = TRUE]
    [] key = "down" -> [t EXCEPT !.selected = IF @ + 1 < Len(t.list) THEN @ + 1 ELSE @]
    [] key = "up" -> [t EXCEPT !.selected = IF @ > 0 THEN @ - 1 ELSE 0]

HandledAll(t, pressed) ==
  LET after[n \in 0..Len(pressed)] == IF n = 0 THEN t ELSE Handled(after[n - 1], pressed[n])
  IN  after[Len(pressed)]

Press(key) ==
  /\ ~tui.quit /\ clicks < MaxClicks /\ clicks' = clicks + 1
  /\ keys' = Append(keys, key)
  /\ UNCHANGED <<tui, shows, chosen, outside, gui, app, render, screen, repaint>>

\* A round of run: what came first is handled, and unless that was the end the next round
\* begins with a drawing.
Round(after) ==
  /\ ~tui.quit /\ tui' = after
  /\ shows' = IF after.quit THEN shows ELSE Drawing(after)
  /\ UNCHANGED <<gui, inside, repaint>>

\* poll_terminal_events.
TakeKeys ==
  /\ keys # <<>> /\ keys' = <<>>
  /\ Round(HandledAll(tui, keys)) /\ chosen' = SelectedOf(tui')
  /\ UNCHANGED outside

TakeState ==
  /\ news /\ news' = FALSE
  /\ Round([tui EXCEPT !.connection = IF link.up THEN "up" ELSE "down"])
  /\ UNCHANGED <<keys, chosen, link, queue, inbox, troubles>>

TakeMessage ==
  /\ inbox # <<>> /\ inbox' = Tail(inbox)
  /\ Round(Applied(tui, Head(inbox)))
  /\ UNCHANGED <<keys, chosen, link, news, queue, troubles>>

\* The daemon takes its leave.
Farewell ==
  /\ link.up /\ troubles < MaxTroubles /\ troubles' = troubles + 1
  /\ inbox' = Append(inbox, [kind |-> "goodbye"])
  /\ link' = [up |-> FALSE, daemon |-> Smaller(link.daemon + 1, MaxDaemons), raised |-> 0] /\ news' = TRUE
  /\ UNCHANGED <<queue, gui, inside, repaint, terminal>>

TerminalNext ==
  \/ (LinkUp \/ LinkDown \/ Raise \/ Tell("error")) /\ UNCHANGED terminal
  \/ Farewell \/ TakeKeys \/ TakeState \/ TakeMessage
  \/ \E key \in {"up", "down", "quit"} : Press(key)

-----------------------------------------------------------------------------
(* Properties                                                              *)

\* Whatever comes in, in any number and also once more after a reconnect, a line below the
\* first that was selected with the keys goes down with its entry and stays selected, until the
\* entry is dropped as the oldest (push_anomaly).  Nothing is said of the first line: it is the
\* newest entry, whichever that is.
SelectionStays ==
  shows.cursor > 1 /\ ~tui.quit =>
    \/ shows.detail = chosen
    \/ shows.detail = None /\ shows.cursor > TableCap

=============================================================================
