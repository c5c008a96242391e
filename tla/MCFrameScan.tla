----------------------------- MODULE MCFrameScan -----------------------------
(* Every bitmap of a pool of four frames, with the two entries behind it.    *)
EXTENDS FrameScan
==============================================================================
