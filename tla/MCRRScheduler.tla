---------------------------- MODULE MCRRScheduler ----------------------------
(* Three threads like those of mp5/kernel.C, the first of which returns,   *)
(* and a quantum of two ticks.  Six nodes are always enough for a list     *)
(* that is whole.                                                          *)
EXTENDS RRScheduler

CONSTANTS thread1, thread2, thread3

MCStart == <<thread1, thread2, thread3>>
==============================================================================
