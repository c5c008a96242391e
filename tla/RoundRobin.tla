------------------------------ MODULE RoundRobin ------------------------------
(***************************************************************************)
(* What a FIFO scheduler promises: the runnable threads take turns in the  *)
(* order in which they became ready.                                       *)
(***************************************************************************)
EXTENDS Sequences

CONSTANTS Thread, NULL

VARIABLES running, ready

vars == <<running, ready>>

Init == running = NULL /\ ready = <<>>

\* Before the first thread runs threads are made ready.
Admit(t) ==
  /\ running = NULL
  /\ ready' = Append(ready, t)
  /\ UNCHANGED running

Begin(t) ==
  /\ running = NULL
  /\ running' = t
  /\ UNCHANGED ready

\* The running thread goes to the end of the line or leaves for good; the
\* first in the line runs.
Rotate ==
  /\ running # NULL
  /\ running' = Head(Append(ready, running))
  /\ ready' = Tail(Append(ready, running))

Leave ==
  /\ running # NULL /\ ready # <<>>
  /\ running' = Head(ready)
  /\ ready' = Tail(ready)

Next == (\E t \in Thread : Admit(t) \/ Begin(t)) \/ Rotate \/ Leave

Spec == Init /\ [][Next]_vars /\ WF_vars(Rotate \/ Leave)
===============================================================================
