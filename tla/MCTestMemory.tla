---------------------------- MODULE MCTestMemory ----------------------------
(* TestMemory on small pools: 48 kernel frames from 8, 60 process frames    *)
(* from 72 with a hole of 6, recursion depth 12 (42 frames at the deepest). *)
EXTENDS TestMemory

CONSTANTS kp, pp

MCPool == {kp, pp}
MCBase == [p \in {kp, pp} |-> IF p = kp THEN 8 ELSE 72]
MCFrames == [p \in {kp, pp} |-> IF p = kp THEN 48 ELSE 60]
=============================================================================
