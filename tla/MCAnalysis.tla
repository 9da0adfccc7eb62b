----------------------------- MODULE MCAnalysis -----------------------------
(***************************************************************************)
(* Journals for Analysis, each with one part of the engine in its focus.   *)
(***************************************************************************)
EXTENDS Analysis

MCEnter == <<3, 4, 6>>
MCExit == <<1, 2, 5>>

\* One line, every score: levels, reports, cooldown, learning.
Scores == [lines |-> {<<"a">>}, units |-> {"u"}, steps |-> {0, 1, 3}, scores |-> 0..6,
           filters |-> FALSE, saves |-> FALSE, horizon |-> 100, events |-> 4]

\* Late lines, pauses shorter and longer than the histories, two templates.
Times == [lines |-> {<<"a">>, <<"b">>}, units |-> {"u"}, steps |-> {-4, -1, 1, 5},
          scores |-> {0}, filters |-> FALSE, saves |-> FALSE, horizon |-> 100, events |-> 5]

\* Lines alike and unlike, more than there is room for, two with a wildcard; filters.
Lines == [lines |-> {<<"a", "b", "c">>, <<"a", "b", "x">>, <<"a", "*", "x">>, <<"*">>, <<>>},
          units |-> {"u"}, steps |-> {0, 2}, scores |-> {0},
          filters |-> TRUE, saves |-> FALSE, horizon |-> 4, events |-> 3]

\* Two units, and a store that is cut, saved and restored.
Saves == [lines |-> {<<"a">>, <<"*">>}, units |-> {"u", "v"}, steps |-> {1, 2}, scores |-> {6},
          filters |-> FALSE, saves |-> TRUE, horizon |-> 4, events |-> 4]

MCTraffics == {Scores, Times, Lines, Saves}
=============================================================================
