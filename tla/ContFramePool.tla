---------------------------- MODULE ContFramePool ----------------------------
(***************************************************************************)
(* The contiguous frame pools of mp2/cont_frame_pool.C: the list of        *)
(* constructed pools, each with its bitmap and its free counter.  A client *)
(* module supplies the calls.  Each operation is one action, because the   *)
(* kernel of mp2 runs one thread and no interrupt handler touches a pool;  *)
(* FrameScan opens up the scanning loop of get_frames.                     *)
(***************************************************************************)
EXTENDS FrameBitmap, Sequences

CONSTANTS
  Pool,           \* the pool objects
  base_frame_no,  \* first frame of each pool
  n_frames,       \* frames of each pool
  MaxRequest,     \* the largest request a client makes
  EntriesPerFrame \* two-bit entries an info frame holds: 16384

ASSUME PoolAssumption ==
  /\ base_frame_no \in [Pool -> Nat]
  /\ n_frames \in [Pool -> Nat \ {0}]
  /\ MaxRequest \in Nat
  /\ EntriesPerFrame \in Nat \ {0}

VARIABLES
  list,         \* the pools in the order head and next link them
  bitmap,       \* bitmap[p][k]: the state of entry k of pool p
  nFreeFrames,  \* nFreeFrames[p]: the pool's free counter
  fault         \* "none", or how the kernel was lost

poolVars == <<list, bitmap, nFreeFrames, fault>>

\* "assert": a failed assertion stops the machine.  "overrun": a loop ran past
\* the entries the model knows about and goes on through unrelated memory.
Fault == {"none", "assert", "overrun"}

\* The entries of p's bitmap a scan of get_frames can reach.
Entry(p) == 0 .. (n_frames[p] + MaxRequest)

\* Before the constructor runs the info frame holds whatever the memory held.
\* What matters afterwards is only what follows the pool's last entry; one
\* value for all of it, for each pool, stands for the possible contents.
PoolInit ==
  /\ list = <<>>
  /\ \E fill \in [Pool -> FrameState] :
       bitmap = [p \in Pool |-> [k \in Entry(p) |-> fill[p]]]
  /\ nFreeFrames = [p \in Pool |-> 0]
  /\ fault = "none"

------------------------------------------------------------------------------

\* The constructor.  With info = 0 the pool keeps its bitmap in its own first
\* frame and marks it.  Otherwise it marks entry i - base_frame_no for every
\* info frame i; when that frame belongs to another pool the subtraction wraps
\* and the write lands far outside the bitmap (no entry of it changes).
InfoEntries(p, info, nInfo) ==
  IF info = 0 THEN {0}
  ELSE {k \in Entry(p) : base_frame_no[p] + k \in info .. (info + nInfo - 1)}

Construct(p, info, nInfo) ==
  LET cleared == Vacate(bitmap[p], 0 .. (n_frames[p] - 1))
      first   == IF info = 0 THEN 0 ELSE info - base_frame_no[p]
      marked  == Occupy(cleared, InfoEntries(p, info, nInfo), first)
  IN  /\ bitmap' = [bitmap EXCEPT ![p] = marked]
      /\ nFreeFrames' =
           [nFreeFrames EXCEPT ![p] = n_frames[p] - (IF info = 0 THEN 1 ELSE nInfo)]
      /\ list' = Append(list, p)
      /\ UNCHANGED fault

needed_info_frames(n) ==
  (n \div EntriesPerFrame) + (IF n % EntriesPerFrame > 0 THEN 1 ELSE 0)

------------------------------------------------------------------------------

\* What get_frames(n) returns: 0 when nothing fits.
FramesFor(p, n) ==
  IF NoFit(bitmap[p], n_frames[p], n) THEN 0
  ELSE base_frame_no[p] + FirstFit(bitmap[p], n_frames[p], n)

\* A successful call takes the whole window, n + 1 entries, and lowers the
\* counter by n.
get_frames(p, n) ==
  LET i == FirstFit(bitmap[p], n_frames[p], n)
  IN  /\ UNCHANGED list
      /\ \/ /\ nFreeFrames[p] = 0
            /\ fault' = "assert"
            /\ UNCHANGED <<bitmap, nFreeFrames>>
         \/ /\ nFreeFrames[p] # 0
            /\ NoFit(bitmap[p], n_frames[p], n)
            /\ UNCHANGED <<bitmap, nFreeFrames, fault>>
         \/ /\ nFreeFrames[p] # 0
            /\ ~NoFit(bitmap[p], n_frames[p], n)
            /\ bitmap' = [bitmap EXCEPT ![p] = Occupy(@, Window(i, n), i)]
            /\ nFreeFrames' = [nFreeFrames EXCEPT ![p] = @ - n]
            /\ UNCHANGED fault

\* mark_inaccessible: both range checks, then allocate() on each frame, which
\* asserts that it is free.
InPool(p, f) == base_frame_no[p] <= f /\ f < base_frame_no[p] + n_frames[p]

mark_inaccessible(p, first, n) ==
  LET i  == first - base_frame_no[p]
      ok == /\ InPool(p, first)
            /\ InPool(p, first + n)
            /\ \A k \in i .. (i + n - 1) : isFree(bitmap[p], k)
  IN  /\ UNCHANGED list
      /\ \/ /\ ~ok
            /\ fault' = "assert"
            /\ UNCHANGED <<bitmap, nFreeFrames>>
         \/ /\ ok
            /\ bitmap' = [bitmap EXCEPT ![p] = Occupy(@, i .. (i + n - 1), i)]
            /\ nFreeFrames' = [nFreeFrames EXCEPT ![p] = @ - n]
            /\ UNCHANGED fault

\* release_frames walks the list and takes the last pool when no earlier one
\* holds the frame.
Holders(f) == {m \in 1 .. (Len(list) - 1) : InPool(list[m], f)}

\* Mutants of PoolOf: the walk stops at the first pool; it goes on to the last.
FirstPool(f) == list[1]

LastPool(f) == list[Len(list)]

PoolOf(f) ==
  IF Holders(f) = {} THEN list[Len(list)]
  ELSE list[CHOOSE m \in Holders(f) : \A l \in Holders(f) : m <= l]

\* release_frames_from_pool frees entries from the first frame on until it
\* meets a free one.
ReleaseEnds(p, i) == {e \in Entry(p) : IsReleaseEnd(bitmap[p], i, e)}

release_frames(f) ==
  LET p == PoolOf(f)
      i == f - base_frame_no[p]
  IN  /\ UNCHANGED list
      /\ \/ /\ ~(i >= 0 /\ ReleaseEnds(p, i) # {})
            /\ fault' = "overrun"
            /\ UNCHANGED <<bitmap, nFreeFrames>>
         \/ /\ i >= 0
            /\ \E e \in ReleaseEnds(p, i) :
                 /\ bitmap' = [bitmap EXCEPT ![p] = Vacate(@, i .. (e - 1))]
                 /\ nFreeFrames' = [nFreeFrames EXCEPT ![p] = @ + (e - i)]
            /\ UNCHANGED fault

------------------------------------------------------------------------------

PoolTypeOK ==
  /\ list \in Seq(Pool)
  /\ DOMAIN bitmap = Pool
  /\ \A p \in Pool : bitmap[p] \in [Entry(p) -> FrameState]
  /\ nFreeFrames \in [Pool -> Int]
  /\ fault \in Fault
==============================================================================
