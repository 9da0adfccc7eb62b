--------------------------- MODULE MCSurroundings ---------------------------
(* Surroundings on a small instance.                                       *)
EXTENDS Surroundings

\* Cores that fit a mask, some more than one; and words that fit none, two of them spelling a
\* placeholder.
MCForms ==
  (<<"aa:bb:cc:dd:ee:ff">> :> {"MAC", "IPV6"}) @@ (<<"fe80::1">> :> {"IPV6"}) @@
  (<<"12:30:00">> :> {"TIMESTAMP", "IPV6"}) @@ (<<"1:02:03">> :> {"IPV6"}) @@
  (<<"ssh", "[7]">> :> {"PID"}) @@ (<<"cron", "[7]">> :> {"PID"})
MCWords == {<<"eth0">>, <<"IPV6">>, <<"ssh", "PID">>}

Message(chars, tokens, rules) == [chars |-> chars, tokens |-> tokens, rules |-> rules]
MCMessages ==
  {Message(chars, <<>>, {}) : chars \in {<<4, 4, 1>>, <<4, 4, 1, 1>>, <<1, 4, 4, 4>>, <<0, 0, 4>>, <<0, 0, 0, 0>>, <<4, 0, 4>>}} \cup
  {Message(<<1>>, <<token>>, {"dhcp", "("}) :
     token \in {<<":", ":">>} \cup MCWords \cup
              {<<"(">> \o core \o <<")", ",">> : core \in DOMAIN MCForms} \cup DOMAIN MCForms}
MCStampTexts == {<<-1>>, <<1>>}
MCStampRange == Nat
MCPidTexts == {<<-1>>, <<3>>, <<4>>}
MCPidRange == -4..3
MCPriorityTexts == {<<2>>}
MCPriorityRange == 0..1
MCLineUnits == {<<>>, <<"u">>}
MCQuietRules == {[unit |-> <<"u">>, pattern |-> "dhcp"], [unit |-> <<>>, pattern |-> "("]}
=============================================================================
