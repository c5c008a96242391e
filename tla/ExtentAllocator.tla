--------------------------- MODULE ExtentAllocator ---------------------------
(***************************************************************************)
(* What a contiguous frame allocator promises (mp2/cont_frame_pool.H): an  *)
(* owner that gets frames gets a run of consecutive frames nobody has, and *)
(* a release gives back exactly the run its owner got.  Frames come into   *)
(* the allocator, or leave it for good, only while nobody owns any.        *)
(***************************************************************************)
EXTENDS Integers

CONSTANTS Owner, Frame,
  MaxRun   \* the longest run an owner is given

VARIABLES free, held

vars == <<free, held>>

Nobody == \A o \in Owner : held[o] = {}

Init ==
  /\ free \in SUBSET Frame
  /\ held = [o \in Owner |-> {}]

Setup ==
  /\ Nobody
  /\ free' \in SUBSET Frame
  /\ UNCHANGED held

Get(o, a, b) ==
  /\ held[o] = {}
  /\ held' = [held EXCEPT ![o] = a .. b]
  /\ a .. b \subseteq free
  /\ free' = free \ (a .. b)

Release(o) ==
  /\ held[o] # {}
  /\ free' = free \cup held[o]
  /\ held' = [held EXCEPT ![o] = {}]

Next ==
  \/ Setup
  \/ \E o \in Owner : Release(o) \/ \E a \in free : \E b \in a .. (a + MaxRun - 1) : Get(o, a, b)

Spec == Init /\ [][Next]_vars
==============================================================================
