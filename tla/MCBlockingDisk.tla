--------------------------- MODULE MCBlockingDisk ---------------------------
(* kernel.C's four threads; fun2 runs as thread2 alone, as in kernel.C, or as *)
(* thread2 and thread3.  Three blocks let both block numbers go round.        *)
EXTENDS BlockingDisk

CONSTANTS t1, t2, t3, t4

MCStart    == <<t1, t2, t3, t4>>
MCUserSets == {{t2}, {t2, t3}}
MCOneUser  == {{t2}}
==============================================================================
