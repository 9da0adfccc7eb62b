----------------------------- MODULE LossyFifo -----------------------------
(***************************************************************************)
(* What a bounded hand-over promises its two ends: a producer is never     *)
(* made to wait, the consumer gets elements oldest first, and when the     *)
(* buffer is full it is the oldest element that is given up, and counted.  *)
(* Elements are named by their position in the order they were put.        *)
(*                                                                         *)
(* This is the contract of the ring channel of core/src/channel.rs;        *)
(* RingChannel implements it, and the modules of the daemon that only      *)
(* need the contract use these actions instead of the channel itself.      *)
(***************************************************************************)
EXTENDS Integers, Sequences

CONSTANT Capacity

VARIABLES
  buf,    \* the elements waiting, oldest first
  put,    \* how many elements were put so far
  out,    \* the elements handed over, in the order of their hand-over
  lost,   \* how many elements were given up
  open,   \* FALSE once the producing side is closed
  over    \* TRUE once the consumer was told that nothing more will come

vars == <<buf, put, out, lost, open, over>>

Init ==
  /\ buf = <<>> /\ put = 0 /\ out = <<>> /\ lost = 0
  /\ open = TRUE /\ over = FALSE

\* Never blocks: a full buffer gives up its oldest element.
Put ==
  LET full == Len(buf) >= Capacity IN
  /\ buf' = Append(IF full THEN Tail(buf) ELSE buf, put + 1)
  /\ put' = put + 1
  /\ lost' = IF full THEN lost + 1 ELSE lost
  /\ UNCHANGED <<out, open, over>>

Take ==
  /\ ~over /\ buf # <<>>
  /\ out' = Append(out, Head(buf))
  /\ buf' = Tail(buf)
  /\ UNCHANGED <<put, lost, open, over>>

Close ==
  /\ open' = FALSE
  /\ UNCHANGED <<buf, put, out, lost, over>>

\* The end is announced only after the close, and only when nothing waits.
End ==
  /\ ~over /\ ~open /\ buf = <<>>
  /\ over' = TRUE
  /\ UNCHANGED <<buf, put, out, lost, open>>

Next == Put \/ Take \/ Close \/ End

\* The consumer keeps asking, so a hand-over that is possible happens.
Spec == Init /\ [][Next]_vars /\ WF_vars(Take \/ End)
=============================================================================
