-------------------------- MODULE MCFIFOScheduler --------------------------
(* The four threads of mp5/kernel.C; fun1 and fun2 return.                 *)
EXTENDS FIFOScheduler

CONSTANTS thread1, thread2, thread3, thread4

MCStart == <<thread1, thread2, thread3, thread4>>
=============================================================================
