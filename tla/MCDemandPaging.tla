---------------------------- MODULE MCDemandPaging ----------------------------
(* Tables of eight entries: 8 frames below "4 MB", the kernel pool in 1 - 7,  *)
(* the process pool in 8 - 13 with its hole at 10.  Two words share a page,   *)
(* two pages share a table, and the array reaches over three tables.          *)
EXTENDS DemandPaging

MCAccess == {0, 1, 9, 63, 64, 130}

\* 0 reads as absent; 51 as a present entry that points to frame 6, a frame the
\* handler uses for a table later; 67 as one that points to frame 8.
MCGarbage == {0, 51, 67}
================================================================================
