------------------------------ MODULE TestMemory ------------------------------
(***************************************************************************)
(* mp2/kernel.C: main() builds the kernel pool and the process pool and    *)
(* then runs test_memory on each.  test_memory(pool, go) takes go % 4 + 1  *)
(* frames, fills them with the value go, calls itself with go - 1, and on  *)
(* the way back checks that its frames still hold go and releases them.    *)
(* Level go of the recursion is one activation of the function.            *)
(***************************************************************************)
EXTENDS ContFramePool

CONSTANTS
  kernel_mem_pool, process_mem_pool,  \* the two elements of Pool
  MEM_HOLE_START_FRAME, MEM_HOLE_SIZE,
  Depth                               \* the levels of the recursion: 128

ASSUME BootAssumption ==
  /\ Pool = {kernel_mem_pool, process_mem_pool}
  /\ kernel_mem_pool # process_mem_pool
  /\ MEM_HOLE_START_FRAME \in Nat /\ MEM_HOLE_SIZE \in Nat \ {0}
  /\ Depth \in Nat
  /\ MaxRequest >= 4

VARIABLES
  pc,           \* the statement of main(), or the phase of test_memory
  info_frame,   \* process_mem_pool_info_frame
  pool,         \* the pool under test
  allocs_to_go, \* the level that runs
  frame,        \* frame[g]: the local variable frame of level g
  mem           \* mem[f]: the value in every word of frame f

vars == <<list, bitmap, nFreeFrames, fault, pc, info_frame, pool, allocs_to_go, frame, mem>>

clientVars == <<info_frame, pool, allocs_to_go, frame, mem>>

PC == {"kernel_pool", "info", "process_pool", "hole",
       "descend", "ascend", "failed", "done"}

Level == 1 .. Depth

\* local n_frames of level g
RequestOf(g) == (g % 4) + 1

\* The entries the levels g, g - 1, ..., 1 take together: k % 4 + 2 for level k.
Demand(g) == 14 * (g \div 4) + <<0, 3, 7, 12>>[(g % 4) + 1]

nInfoFrames == needed_info_frames(n_frames[process_mem_pool])

\* kernel.C lays its memory out so that each pool, up to the first frame it may
\* not hand out, is longer than the deepest recursion needs: 451 of 512 kernel
\* frames, 448 of the 2816 process frames below the hole.
ASSUME LayoutAssumption ==
  /\ base_frame_no[kernel_mem_pool] > 0
  /\ base_frame_no[kernel_mem_pool] + n_frames[kernel_mem_pool]
       <= base_frame_no[process_mem_pool]
  /\ nInfoFrames + 2 + Demand(Depth) < n_frames[kernel_mem_pool]
  /\ base_frame_no[process_mem_pool] + Demand(Depth) < MEM_HOLE_START_FRAME
  /\ MEM_HOLE_START_FRAME + MEM_HOLE_SIZE
       < base_frame_no[process_mem_pool] + n_frames[process_mem_pool]
  /\ nInfoFrames + Demand(Depth) <= n_frames[process_mem_pool] - MEM_HOLE_SIZE

\* Every frame a test could write.  Frame 0 is written when get_frames fails.
MemFrame ==
  0 .. (base_frame_no[process_mem_pool] + n_frames[process_mem_pool] + MaxRequest)

Init ==
  /\ PoolInit
  /\ pc = "kernel_pool"
  /\ info_frame = 0
  /\ pool = kernel_mem_pool
  /\ allocs_to_go = Depth
  /\ frame = [g \in Level |-> 0]
  /\ mem = [f \in MemFrame |-> 0]

------------------------------------------------------------------------------

\* A fault ends everything: no statement runs after it.
At(label) == pc = label /\ fault = "none"

BootKernelPool ==
  /\ At("kernel_pool")
  /\ Construct(kernel_mem_pool, 0, 0)
  /\ pc' = "info"
  /\ UNCHANGED clientVars

BootInfoFrames ==
  /\ At("info")
  /\ get_frames(kernel_mem_pool, nInfoFrames)
  /\ info_frame' = FramesFor(kernel_mem_pool, nInfoFrames)
  /\ pc' = "process_pool"
  /\ UNCHANGED <<pool, allocs_to_go, frame, mem>>

BootProcessPool ==
  /\ At("process_pool")
  /\ Construct(process_mem_pool, info_frame, nInfoFrames)
  /\ pc' = "hole"
  /\ UNCHANGED clientVars

BootHole ==
  /\ At("hole")
  /\ mark_inaccessible(process_mem_pool, MEM_HOLE_START_FRAME, MEM_HOLE_SIZE)
  /\ pc' = "descend"
  /\ UNCHANGED clientVars

------------------------------------------------------------------------------

\* Mutant of Allocate: the recursion has no end.
AllocateForever ==
  /\ At("descend")
  /\ LET n == RequestOf(allocs_to_go)
         f == FramesFor(pool, n)
     IN  /\ get_frames(pool, n)
         /\ frame' = [g \in Level |-> IF g = allocs_to_go THEN f ELSE frame[g]]
         /\ mem' = [x \in MemFrame |->
                      IF x \in f .. (f + n - 1) THEN allocs_to_go ELSE mem[x]]
  /\ allocs_to_go' = allocs_to_go - 1
  /\ UNCHANGED <<pc, info_frame, pool>>

\* get_frames and the loop that fills the frames; value_array is frame * 4 KB,
\* so a failed call makes the loop write from frame 0 on.
Allocate ==
  /\ At("descend")
  /\ allocs_to_go > 0
  /\ LET n == RequestOf(allocs_to_go)
         f == FramesFor(pool, n)
     IN  /\ get_frames(pool, n)
         /\ frame' = [frame EXCEPT ![allocs_to_go] = f]
         /\ mem' = [x \in MemFrame |->
                      IF x \in f .. (f + n - 1) THEN allocs_to_go ELSE mem[x]]
  /\ allocs_to_go' = allocs_to_go - 1
  /\ UNCHANGED <<pc, info_frame, pool>>

\* The innermost call returns at once.
TurnBack ==
  /\ At("descend")
  /\ allocs_to_go = 0
  /\ pc' = "ascend"
  /\ UNCHANGED <<list, bitmap, nFreeFrames, fault, info_frame, pool, allocs_to_go, frame, mem>>

\* The level that resumes when level allocs_to_go has returned.
Caller == allocs_to_go + 1

Intact(g) == \A x \in frame[g] .. (frame[g] + RequestOf(g) - 1) : mem[x] = g

\* A level that finds its frames overwritten prints MEMORY TEST FAILED and
\* loops for ever.
CheckAndRelease ==
  /\ At("ascend")
  /\ allocs_to_go < Depth
  /\ \/ /\ Intact(Caller)
        /\ release_frames(frame[Caller])
        /\ allocs_to_go' = Caller
        /\ UNCHANGED pc
     \/ /\ ~Intact(Caller)
        /\ pc' = "failed"
        /\ UNCHANGED <<list, bitmap, nFreeFrames, fault, allocs_to_go>>
  /\ UNCHANGED <<info_frame, pool, frame, mem>>

\* The outermost call returns: main() tests the next pool or is done.
NextTest ==
  /\ At("ascend")
  /\ allocs_to_go = Depth
  /\ \/ /\ pool = kernel_mem_pool
        /\ pool' = process_mem_pool
        /\ pc' = "descend"
     \/ /\ pool = process_mem_pool
        /\ pool' = pool
        /\ pc' = "done"
  /\ UNCHANGED <<list, bitmap, nFreeFrames, fault, info_frame, allocs_to_go, frame, mem>>

Next ==
  \/ BootKernelPool \/ BootInfoFrames \/ BootProcessPool \/ BootHole
  \/ Allocate \/ TurnBack \/ CheckAndRelease \/ NextTest

\* main() runs on and on; nothing ever takes the processor from it.
Fairness == WF_vars(Next)

Spec == Init /\ [][Next]_vars /\ Fairness

------------------------------------------------------------------------------

\* The levels that have got frames and not yet released them.
Live(g) == pc \in {"descend", "ascend", "failed"} /\ g > allocs_to_go

\* The frames get_frames took for level g: one more than were asked for.
Extent(g) == Window(frame[g], RequestOf(g))

FrameSet(p) == base_frame_no[p] .. (base_frame_no[p] + n_frames[p] - 1)

FreeFrames ==
  {f \in MemFrame : \E p \in Pool : f \in FrameSet(p) /\ isFree(bitmap[p], f - base_frame_no[p])}

\* The frames that main() takes out of the pools and no test may be given: the
\* kernel pool's own bitmap, the process pool's, and the hole.
Reserved ==
  {base_frame_no[kernel_mem_pool]}
    \cup Window(info_frame, nInfoFrames)
    \cup MEM_HOLE_START_FRAME .. (MEM_HOLE_START_FRAME + MEM_HOLE_SIZE - 1)

TypeOK ==
  /\ PoolTypeOK
  /\ pc \in PC
  /\ info_frame \in Nat
  /\ pool \in Pool
  /\ allocs_to_go \in 0 .. Depth
  /\ frame \in [Level -> Nat]
  /\ mem \in [MemFrame -> 0 .. Depth]

(***************************************************************************)
(* No assertion fails, no loop runs off a bitmap and no level finds its    *)
(* frames overwritten: the message MEMORY TEST FAILED is never printed.    *)
(***************************************************************************)
TestNeverFails == fault = "none" /\ pc # "failed"

(***************************************************************************)
(* After the tests every frame is free again except the reserved ones: the *)
(* one frame too many that each get_frames takes comes back although the   *)
(* client never learns of it, and no release gave the reserved ones away.  *)
(* That is what the bitmaps say; the counter nFreeFrames goes down by n    *)
(* and up by n + 1 each time, and is not as it was.                        *)
(***************************************************************************)
PoolsRestored ==
  pc = "done" => FreeFrames = (UNION {FrameSet(p) : p \in Pool}) \ Reserved

(***************************************************************************)
(* The bitmaps live in frames of the kernel pool: no test ever writes into *)
(* one of them, nor into low memory through the 0 of a failed get_frames.  *)
(***************************************************************************)
BitmapsUntouched ==
  /\ mem[base_frame_no[kernel_mem_pool]] = 0
  /\ \A f \in info_frame .. (info_frame + nInfoFrames - 1) : mem[f] = 0

\* The refinement: a level owns its extent while it is live.
Extents ==
  INSTANCE ExtentAllocator WITH
    Owner <- Level, Frame <- MemFrame, MaxRun <- MaxRequest + 1, free <- FreeFrames,
    held <- [g \in Level |-> IF Live(g) THEN Extent(g) ELSE {}]

(***************************************************************************)
(* The pools keep the allocator's promise towards test_memory: extents of  *)
(* different levels never overlap, and a release frees the whole extent of *)
(* its level and no other frame, although release_frames_from_pool looks   *)
(* for a free entry and not for the head of the next sequence.             *)
(***************************************************************************)
ImplementsExtents == Extents!Spec

(***************************************************************************)
(* The kernel gets through both tests.                                     *)
(***************************************************************************)
TestsComplete == <>(pc = "done")
==============================================================================
