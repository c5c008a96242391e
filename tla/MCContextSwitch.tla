--------------------------- MODULE MCContextSwitch ---------------------------
(* Two threads, each kernel's interrupt flag and both timers.  28 words hold  *)
(* a function's call, the switch, an interrupt on top of it and the handler's *)
(* own switch.                                                                *)
EXTENDS ContextSwitch
==============================================================================
