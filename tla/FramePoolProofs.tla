---------------------------- MODULE FramePoolProofs ----------------------------
(***************************************************************************)
(* Proofs about the contiguous frame pools of mp2.  First FrameScan, the   *)
(* loops of get_frames: what they find and what they pass over, for every  *)
(* pool size, request and bitmap.  Then TestMemory, the pools under *)
(* the client that main() runs: for every pool layout that                 *)
(* LayoutAssumption admits and every recursion depth.                      *)
(***************************************************************************)
EXTENDS TestMemory, FrameScan, TLAPS

\* No run starts below k.
NoneBelow(k) == \A m \in 0 .. (k - 1) : ~FitsAt(before, m, request)

FreeBetween(lo, hi) == \A k \in lo .. hi : isFree(before, k)

\* The loops compute what ContFramePool's get_frames takes in one step.
FindsFirstFit ==
  /\ loop # "assert"
  /\ loop = "done" /\ allocated =>
       /\ IsFirstFit(before, PoolSize, i, request)
       /\ entries = Occupy(before, Window(i, request), i)
  /\ loop = "done" /\ ~allocated =>
       NoFit(before, PoolSize, request) /\ entries = before

\* What the loops know at each point.  The restart at j + 1 is sound because
\* entry j lies in the window of every start between i and j.
SearchInv ==
  /\ loop \in {"outer", "inner", "judge"} => NoneBelow(i) /\ entries = before /\ ~allocated
  /\ loop \in {"outer", "inner"} => free_frames_flag
  /\ loop \in {"inner", "judge"} =>
       /\ i < PoolSize
       /\ j \in i .. (i + request + 1)
       /\ FreeBetween(i, j - 1)
  /\ loop = "judge" =>
       IF free_frames_flag THEN j = i + request + 1
       ELSE j <= i + request /\ ~isFree(before, j)

MarkInv ==
  /\ loop = "mark" =>
       /\ allocated
       /\ j \in i .. (i + request + 1)
       /\ IsFirstFit(before, PoolSize, i, request)
       /\ entries = Occupy(before, i .. (j - 1), i)
  /\ FindsFirstFit

ScanInv == ScanTypeOK /\ SearchInv /\ MarkInv

LEMMA ScanInitInv == ScanInit => ScanInv
<1> SUFFICES ASSUME ScanInit PROVE ScanInv
  OBVIOUS
<1>1. ScanTypeOK
  BY ScanAssumption DEF ScanInit, ScanTypeOK
<1>2. SearchInv /\ MarkInv
  BY DEF ScanInit, SearchInv, MarkInv, FindsFirstFit, NoneBelow
<1>3. QED
  BY <1>1, <1>2 DEF ScanInv

LEMMA SkipTakenInv == ScanInv /\ SkipTaken => ScanInv'
<1> SUFFICES ASSUME ScanInv, SkipTaken PROVE ScanInv'
  OBVIOUS
<1> USE DEF ScanInv
<1>1. i \in Nat /\ request \in Nat /\ ~isFree(before, i) /\ NoneBelow(i)
  BY ScanAssumption DEF ScanTypeOK, SkipTaken, SearchInv
<1>2. ~FitsAt(before, i, request)
  BY <1>1 DEF FitsAt, Window
<1>3. NoneBelow(i + 1)
  BY <1>1, <1>2 DEF NoneBelow
<1>4. ScanTypeOK' /\ MarkInv'
  BY DEF SkipTaken, ScanTypeOK, MarkInv, FindsFirstFit
<1>5. SearchInv'
  BY <1>3 DEF SkipTaken, SearchInv, NoneBelow
<1>6. QED
  BY <1>4, <1>5

LEMMA StartRunInv == ScanInv /\ StartRun => ScanInv'
<1> SUFFICES ASSUME ScanInv, StartRun PROVE ScanInv'
  OBVIOUS
<1> USE DEF ScanInv
<1>1. ScanTypeOK' /\ MarkInv'
  BY DEF StartRun, ScanTypeOK, MarkInv, FindsFirstFit
<1>2. SearchInv'
  BY ScanAssumption DEF StartRun, SearchInv, ScanTypeOK, NoneBelow, FreeBetween
<1>3. QED
  BY <1>1, <1>2

LEMMA ExtendRunInv == ScanInv /\ ExtendRun => ScanInv'
<1> SUFFICES ASSUME ScanInv, ExtendRun PROVE ScanInv'
  OBVIOUS
<1> USE DEF ScanInv
<1>1. i \in Nat /\ j \in Nat /\ request \in Nat /\ entries = before
  BY ScanAssumption DEF ScanTypeOK, ExtendRun, SearchInv
<1>2. /\ loop = "inner" /\ j <= i + request /\ UNCHANGED <<before, request, entries, i, allocated>>
      /\ NoneBelow(i) /\ ~allocated /\ free_frames_flag /\ i < PoolSize
      /\ j \in i .. (i + request + 1) /\ FreeBetween(i, j - 1)
  BY DEF ExtendRun, SearchInv
<1>3. CASE isFree(entries, j)
  <2>1. j' = j + 1 /\ UNCHANGED <<free_frames_flag, loop>>
    BY <1>3 DEF ExtendRun
  <2>2. ScanTypeOK' /\ MarkInv'
    BY <1>1, <1>2, <2>1 DEF ScanTypeOK, MarkInv, FindsFirstFit
  <2>3. FreeBetween(i, j)
    BY <1>1, <1>2, <1>3 DEF FreeBetween
  <2>4. SearchInv'
    BY <1>1, <1>2, <2>1, <2>3 DEF SearchInv, NoneBelow, FreeBetween
  <2>5. QED
    BY <2>2, <2>4
<1>4. CASE ~isFree(entries, j)
  <2>1. free_frames_flag' = FALSE /\ loop' = "judge" /\ UNCHANGED j
    BY <1>4 DEF ExtendRun
  <2>2. ScanTypeOK' /\ MarkInv'
    BY <1>1, <1>2, <2>1 DEF ScanTypeOK, MarkInv, FindsFirstFit
  <2>3. SearchInv'
    BY <1>1, <1>2, <1>4, <2>1 DEF SearchInv, NoneBelow, FreeBetween, isFree
  <2>4. QED
    BY <2>2, <2>3
<1>5. QED
  BY <1>3, <1>4

LEMMA RunCompleteInv == ScanInv /\ RunComplete => ScanInv'
<1> SUFFICES ASSUME ScanInv, RunComplete PROVE ScanInv'
  OBVIOUS
<1> USE DEF ScanInv
<1>1. i \in Nat /\ j \in Nat /\ request \in Nat
  BY ScanAssumption DEF ScanTypeOK
<1>2. ScanTypeOK' /\ MarkInv'
  BY DEF RunComplete, ScanTypeOK, MarkInv, FindsFirstFit
<1>3. SearchInv'
  BY <1>1 DEF RunComplete, SearchInv, NoneBelow, FreeBetween
<1>4. QED
  BY <1>2, <1>3

LEMMA JudgeInv == ScanInv /\ Judge => ScanInv'
<1> SUFFICES ASSUME ScanInv, Judge PROVE ScanInv'
  OBVIOUS
<1> USE DEF ScanInv
<1>1. /\ i \in Nat /\ j \in Nat /\ request \in Nat /\ loop = "judge" /\ entries = before
      /\ NoneBelow(i) /\ i < PoolSize /\ j \in i .. (i + request + 1)
      /\ FreeBetween(i, j - 1) /\ PoolSize \in Nat
  BY ScanAssumption DEF ScanTypeOK, Judge, SearchInv
<1>2. CASE free_frames_flag
  <2>1. j = i + request + 1
    BY <1>1, <1>2 DEF SearchInv
  <2>2. FitsAt(before, i, request)
    BY <1>1, <2>1 DEF FreeBetween, FitsAt, Window
  <2>3. IsFirstFit(before, PoolSize, i, request)
    BY <1>1, <2>2 DEF IsFirstFit, NoneBelow
  <2>4. before = Occupy(before, i .. (i - 1), i)
    BY <1>1 DEF Occupy, ScanTypeOK
  <2>5. /\ allocated' = TRUE /\ j' = i /\ loop' = "mark"
        /\ UNCHANGED <<i, free_frames_flag, before, request, entries>>
    BY <1>2 DEF Judge
  <2>6. ScanTypeOK'
    BY <2>5 DEF ScanTypeOK
  <2>7. MarkInv'
    BY <1>1, <2>3, <2>4, <2>5 DEF MarkInv, FindsFirstFit
  <2>8. QED
    BY <2>5, <2>6, <2>7 DEF SearchInv
<1>3. CASE ~free_frames_flag
  <2>1. j <= i + request /\ ~isFree(before, j)
    BY <1>1, <1>3 DEF SearchInv
  <2>2. \A m \in i .. j : ~FitsAt(before, m, request)
    BY <1>1, <2>1 DEF FitsAt, Window
  <2>3. NoneBelow(j + 1)
    BY <1>1, <2>2 DEF NoneBelow
  <2>4. /\ free_frames_flag' = TRUE /\ i' = j + 1 /\ loop' = "outer"
        /\ UNCHANGED <<j, allocated, before, request, entries>>
    BY <1>3 DEF Judge
  <2>5. ScanTypeOK' /\ MarkInv'
    BY <2>4 DEF ScanTypeOK, MarkInv, FindsFirstFit
  <2>6. SearchInv'
    BY <1>1, <2>3, <2>4 DEF SearchInv, NoneBelow
  <2>7. QED
    BY <2>5, <2>6
<1>4. QED
  BY <1>2, <1>3

LEMMA GiveUpInv == ScanInv /\ GiveUp => ScanInv'
<1> SUFFICES ASSUME ScanInv, GiveUp PROVE ScanInv'
  OBVIOUS
<1> USE DEF ScanInv
<1>1. NoFit(before, PoolSize, request)
  BY ScanAssumption DEF GiveUp, SearchInv, NoneBelow, NoFit, ScanTypeOK
<1>2. ScanTypeOK' /\ SearchInv'
  BY DEF GiveUp, ScanTypeOK, SearchInv
<1>3. MarkInv'
  BY <1>1 DEF GiveUp, MarkInv, FindsFirstFit, SearchInv
<1>4. QED
  BY <1>2, <1>3

LEMMA MarkKeepsInv == ScanInv /\ Mark => ScanInv'
<1> SUFFICES ASSUME ScanInv, Mark PROVE ScanInv'
  OBVIOUS
<1> USE DEF ScanInv
<1>1. /\ i \in Nat /\ j \in Nat /\ request \in 0 .. LargestRequest /\ loop = "mark" /\ allocated
      /\ j \in i .. (i + request + 1)
      /\ IsFirstFit(before, PoolSize, i, request)
      /\ entries = Occupy(before, i .. (j - 1), i)
      /\ before \in [ScanEntry -> FrameState]
      /\ UNCHANGED <<before, request, i, free_frames_flag, allocated>>
  BY ScanAssumption DEF ScanTypeOK, Mark, MarkInv
<1>2. j <= i + request => j \in ScanEntry /\ isFree(before, j) /\ isFree(entries, j)
  <2> SUFFICES ASSUME j <= i + request
               PROVE  j \in ScanEntry /\ isFree(before, j) /\ isFree(entries, j)
    OBVIOUS
  <2>1. j \in ScanEntry /\ isFree(before, j)
    BY <1>1, ScanAssumption DEF IsFirstFit, FitsAt, Window, ScanEntry
  <2>2. entries[j] = before[j]
    BY <1>1, <2>1 DEF Occupy
  <2>3. QED
    BY <2>1, <2>2 DEF isFree
<1>3. CASE j <= i + request
  <2>1. entries' = Occupy(entries, {j}, i) /\ j' = j + 1 /\ loop' = "mark"
    BY <1>1, <1>2, <1>3 DEF Mark
  <2>2. entries' = Occupy(before, i .. ((j + 1) - 1), i)
    BY <1>1, <2>1 DEF Occupy
  <2>3. entries' \in [ScanEntry -> FrameState]
    BY <1>1, <2>2 DEF Occupy, FrameState, ALLOCATE_AND_HEAD, ALLOCATE_BUT_NOT_HEAD
  <2>4. j' \in i' .. (i' + request' + 1)
    BY <1>1, <1>3, <2>1
  <2>5. ScanTypeOK'
    <3>1. UNCHANGED <<before, request, i, free_frames_flag, allocated>>
      BY <1>1
    <3>2. j' \in Nat
      BY <1>1, <2>1
    <3>3. QED
      BY <2>1, <2>3, <3>1, <3>2 DEF ScanTypeOK
  <2>6. MarkInv'
    BY <1>1, <2>1, <2>2, <2>4 DEF MarkInv, FindsFirstFit
  <2>7. QED
    BY <2>1, <2>5, <2>6 DEF SearchInv
<1>4. CASE ~(j <= i + request)
  <2>1. /\ loop' = "done" /\ UNCHANGED <<entries, j>>
        /\ j = i + request + 1
    BY <1>1, <1>4 DEF Mark
  <2>2. i .. (j - 1) = Window(i, request)
    BY <1>1, <2>1 DEF Window
  <2>3. QED
    BY <1>1, <2>1, <2>2 DEF ScanTypeOK, SearchInv, MarkInv, FindsFirstFit
<1>5. QED
  BY <1>3, <1>4

LEMMA ScanInvHolds == ScanSpec => []ScanInv
<1>1. ScanInv /\ [ScanNext]_scanVars => ScanInv'
  <2> SUFFICES ASSUME ScanInv, [ScanNext]_scanVars PROVE ScanInv'
    OBVIOUS
  <2>1. CASE UNCHANGED scanVars
    BY <2>1 DEF scanVars, ScanInv, ScanTypeOK, SearchInv, MarkInv, FindsFirstFit, NoneBelow, FreeBetween
  <2>2. QED
    BY <2>1, SkipTakenInv, StartRunInv, ExtendRunInv, RunCompleteInv, JudgeInv, GiveUpInv,
       MarkKeepsInv DEF ScanNext
<1>2. QED
  BY ScanInitInv, <1>1, PTL DEF ScanSpec

\* A run of n free entries that is followed by a free one fits the loops.
LEMMA RunThatFits ==
  ASSUME ScanTypeOK, NEW k \in 0 .. (PoolSize - 1), IsRun(before, k, request),
         ~FitsAt(before, k, request)
  PROVE  IsExactFit(before, k, request)
<1>1. request \in Nat /\ PoolSize \in Nat
  BY ScanAssumption DEF ScanTypeOK
<1>2. \A e \in k .. (k + request - 1) : isFree(before, e)
  BY DEF IsRun
<1>3. PICK e \in k .. (k + request) : ~isFree(before, e)
  BY DEF FitsAt, Window
<1>4. e = k + request
  BY <1>1, <1>2, <1>3
<1>5. QED
  BY <1>3, <1>4 DEF IsExactFit

(***************************************************************************)
(* For every pool size, bitmap and request: the runs that get_frames       *)
(* passes over are exact fits, and a call that succeeds marks n entries as *)
(* its comment says and takes the one that follows.                        *)
(***************************************************************************)
THEOREM ScanCorrect == ScanSpec => []OnlyExactFitsMissed
<1>1. ScanInv => OnlyExactFitsMissed
  <2> SUFFICES ASSUME ScanInv PROVE OnlyExactFitsMissed
    OBVIOUS
  <2>1. ScanTypeOK /\ FindsFirstFit
    BY DEF ScanInv, MarkInv
  <2>2. request \in 0 .. LargestRequest /\ PoolSize \in Nat /\ LargestRequest \in Nat
    BY <2>1, ScanAssumption DEF ScanTypeOK
  <2>3. ASSUME loop = "done", allocated
        PROVE  /\ \A k \in 0 .. (i - 1) :
                    IsRun(before, k, request) => IsExactFit(before, k, request)
               /\ \A e \in Window(i, request) : isFree(before, e)
               /\ entries = Occupy(before, Window(i, request), i)
               /\ (\A e \in ScanEntry : e >= PoolSize => ~isFree(before, e))
                    => i + request < PoolSize
    <3>1. i \in 0 .. (PoolSize - 1)
      BY <2>1, <2>3 DEF FindsFirstFit, IsFirstFit
    <3>2. FitsAt(before, i, request)
      BY <2>1, <2>3 DEF FindsFirstFit, IsFirstFit
    <3>3. \A k \in 0 .. (i - 1) : ~FitsAt(before, k, request)
      BY <2>1, <2>3 DEF FindsFirstFit, IsFirstFit
    <3>4. entries = Occupy(before, Window(i, request), i)
      BY <2>1, <2>3 DEF FindsFirstFit
    <3>5. \A k \in 0 .. (i - 1) : IsRun(before, k, request) => IsExactFit(before, k, request)
      BY <2>1, <2>2, <3>1, <3>3, RunThatFits
    <3>6. \A e \in Window(i, request) : isFree(before, e)
      BY <3>2 DEF FitsAt
    <3>7. i + request \in ScanEntry /\ isFree(before, i + request)
      BY <2>2, <3>1, <3>6 DEF ScanEntry, Window
    <3>8. (\A e \in ScanEntry : e >= PoolSize => ~isFree(before, e)) => i + request < PoolSize
      BY <2>2, <3>1, <3>7
    <3>9. QED
      BY <3>4, <3>5, <3>6, <3>8
  <2>4. ASSUME loop = "done", ~allocated
        PROVE  /\ \A k \in 0 .. (PoolSize - 1) :
                    IsRun(before, k, request) => IsExactFit(before, k, request)
               /\ entries = before
    <3>1. NoFit(before, PoolSize, request) /\ entries = before
      BY <2>1, <2>4 DEF FindsFirstFit
    <3>2. \A k \in 0 .. (PoolSize - 1) : ~FitsAt(before, k, request)
      BY <3>1 DEF NoFit
    <3>3. QED
      BY <2>1, <3>1, <3>2, RunThatFits
  <2>5. loop # "assert"
    BY <2>1 DEF FindsFirstFit
  <2>6. QED
    BY <2>3, <2>4, <2>5 DEF OnlyExactFitsMissed
<1>2. QED
  BY <1>1, ScanInvHolds, PTL

(***************************************************************************)
(* Type correctness of the search: the bitmap keeps two-bit states and the *)
(* loop counters never go below 0, whatever the bitmap and the request.    *)
(***************************************************************************)
THEOREM ScanTypeCorrect == ScanSpec => []ScanTypeOK
<1>1. ScanInv => ScanTypeOK
  BY DEF ScanInv
<1>2. QED
  BY <1>1, ScanInvHolds, PTL

------------------------------------------------------------------------------

LEMMA DemandStep ==
  ASSUME NEW g \in Nat
  PROVE  /\ Demand(g) \in Nat
         /\ Demand(g + 1) = Demand(g) + RequestOf(g + 1) + 1
<1>1. CASE g % 4 = 0
  BY <1>1 DEF Demand, RequestOf
<1>2. CASE g % 4 = 1
  BY <1>2 DEF Demand, RequestOf
<1>3. CASE g % 4 = 2
  BY <1>3 DEF Demand, RequestOf
<1>4. CASE g % 4 = 3
  BY <1>4 DEF Demand, RequestOf
<1>5. QED
  BY <1>1, <1>2, <1>3, <1>4

LEMMA DemandMonotone ==
  ASSUME NEW g \in Nat, NEW h \in Nat, g <= h
  PROVE  Demand(g) <= Demand(h)
<1>1. CASE g \div 4 = h \div 4
  BY <1>1 DEF Demand
<1>2. CASE g \div 4 < h \div 4
  BY <1>2 DEF Demand
<1>3. QED
  BY <1>1, <1>2

------------------------------------------------------------------------------
(***************************************************************************)
(* The inductive invariant.  Each pool looks like a stack that grows       *)
(* upwards: below a top entry everything is taken, from the top on         *)
(* everything but the hole is free, and the extents of the live levels are *)
(* the consecutive segments between the start of the stack and its top.    *)
(* The other invariants follow because the stack never reaches Limit.      *)
(***************************************************************************)

\* The lowest entry of p that a test may be given.
Start(p) == IF p = kernel_mem_pool THEN nInfoFrames + 2 ELSE 0

\* The first entry above Start(p) that is not p's to give.
Limit(p) ==
  IF p = kernel_mem_pool THEN n_frames[p] ELSE MEM_HOLE_START_FRAME - base_frame_no[p]

HoleEntries(p) ==
  {k \in 0 .. (n_frames[p] - 1) :
     /\ p = process_mem_pool
     /\ base_frame_no[p] + k
          \in MEM_HOLE_START_FRAME .. (MEM_HOLE_START_FRAME + MEM_HOLE_SIZE - 1)}

\* A lower bound of p's free counter when its test begins.
Room(p) ==
  IF p = kernel_mem_pool THEN n_frames[p] - 1 - nInfoFrames
  ELSE n_frames[p] - nInfoFrames - MEM_HOLE_SIZE

\* The entries the live levels g + 1 .. Depth hold together.
Used(g) == Demand(Depth) - Demand(g)

UsedOf(p) == IF p = pool THEN Used(allocs_to_go) ELSE 0

TakenBelow(p, t) ==
  \A k \in 0 .. (n_frames[p] - 1) :
    isFree(bitmap[p], k) <=> k >= t /\ k \notin HoleEntries(p)

TwoPools == Len(list) = 2 /\ list[1] = kernel_mem_pool /\ list[2] = process_mem_pool

BootPC == {"kernel_pool", "info", "process_pool", "hole"}

ListInv ==
  /\ pc = "kernel_pool" => list = <<>>
  /\ pc \in {"info", "process_pool"} => list = <<kernel_mem_pool>>
  /\ pc \notin {"kernel_pool", "info", "process_pool"} => TwoPools

BootInv ==
  /\ pc \in BootPC =>
       /\ pool = kernel_mem_pool
       /\ allocs_to_go = Depth
       /\ mem = [f \in MemFrame |-> 0]
  /\ pc = "done" => pool = process_mem_pool /\ allocs_to_go = Depth
  /\ pc \in {"kernel_pool", "info"} => info_frame = 0
  /\ pc \notin {"kernel_pool", "info"} => info_frame = base_frame_no[kernel_mem_pool] + 1
  /\ pc = "info" => TakenBelow(kernel_mem_pool, 1)
  /\ pc = "hole" =>
       \A k \in 0 .. (n_frames[process_mem_pool] - 1) : isFree(bitmap[process_mem_pool], k)

StackInv ==
  /\ pc \notin {"kernel_pool", "info"} =>
       TakenBelow(kernel_mem_pool, Start(kernel_mem_pool) + UsedOf(kernel_mem_pool))
  /\ pc \notin BootPC =>
       TakenBelow(process_mem_pool, Start(process_mem_pool) + UsedOf(process_mem_pool))
  /\ \A g \in Level :
       g > allocs_to_go => frame[g] = base_frame_no[pool] + Start(pool) + Used(g)

CounterInv ==
  /\ pc = "info" => nFreeFrames[kernel_mem_pool] = n_frames[kernel_mem_pool] - 1
  /\ pc \notin {"kernel_pool", "info"} =>
       nFreeFrames[kernel_mem_pool] >= Room(kernel_mem_pool) - UsedOf(kernel_mem_pool)
  /\ pc = "hole" =>
       nFreeFrames[process_mem_pool] = n_frames[process_mem_pool] - nInfoFrames
  /\ pc \notin BootPC =>
       nFreeFrames[process_mem_pool] >= Room(process_mem_pool) - UsedOf(process_mem_pool)

MemInv ==
  /\ \A g \in Level : g > allocs_to_go => Intact(g)
  /\ \A f \in 0 .. (base_frame_no[kernel_mem_pool] + nInfoFrames) : mem[f] = 0

IInv ==
  /\ TypeOK
  /\ TestNeverFails
  /\ ListInv
  /\ BootInv
  /\ StackInv
  /\ CounterInv
  /\ MemInv

------------------------------------------------------------------------------
(* Facts about the layout and about the allocator's questions.             *)

LEMMA Sizes ==
  /\ nInfoFrames \in Nat
  /\ Demand(Depth) \in Nat
  /\ kernel_mem_pool \in Pool /\ process_mem_pool \in Pool
  /\ \A p \in Pool :
       /\ base_frame_no[p] \in Nat /\ n_frames[p] \in Nat
       /\ Start(p) \in Nat /\ Limit(p) \in Nat /\ Room(p) \in Nat
       /\ Start(p) + Demand(Depth) < Limit(p)
       /\ Limit(p) <= n_frames[p]
       /\ Demand(Depth) <= Room(p)
       /\ \A k \in 0 .. (Limit(p) - 1) : k \notin HoleEntries(p)
<1>1. nInfoFrames \in Nat
  BY PoolAssumption, BootAssumption DEF nInfoFrames, needed_info_frames
<1>2. Demand(Depth) \in Nat
  BY DemandStep, BootAssumption
<1>3. QED
  BY <1>1, <1>2, PoolAssumption, BootAssumption, LayoutAssumption
  DEF Start, Limit, Room, HoleEntries

LEMMA UsedRange ==
  ASSUME NEW g \in 0 .. Depth
  PROVE  /\ Used(g) \in 0 .. Demand(Depth)
         /\ g > 0 => /\ Used(g - 1) = Used(g) + RequestOf(g) + 1
                     /\ RequestOf(g) \in 1 .. 4
<1>1. Demand(g) \in Nat /\ Demand(g) <= Demand(Depth)
  BY DemandStep, DemandMonotone, BootAssumption
<1>2. Demand(Depth) \in Nat /\ Depth \in Nat
  BY DemandStep, BootAssumption
<1>3. g > 0 => Demand(g) = Demand(g - 1) + RequestOf(g) + 1 /\ Demand(g - 1) \in Nat
  <2> SUFFICES ASSUME g > 0 PROVE Demand(g) = Demand(g - 1) + RequestOf(g) + 1 /\ Demand(g - 1) \in Nat
    OBVIOUS
  <2>1. g - 1 \in Nat /\ (g - 1) + 1 = g
    BY <1>2
  <2>2. QED
    BY <2>1, DemandStep
<1>4. RequestOf(g) \in 1 .. 4
  BY <1>2 DEF RequestOf
<1>5. QED
  BY <1>1, <1>2, <1>3, <1>4 DEF Used

LEMMA UsedMonotone ==
  ASSUME NEW g \in 0 .. Depth, NEW h \in g .. Depth
  PROVE  Used(h) <= Used(g)
<1>1. Demand(g) \in Nat /\ Demand(h) \in Nat /\ Demand(g) <= Demand(h) /\ Demand(Depth) \in Nat
  BY DemandStep, DemandMonotone, BootAssumption
<1>2. QED
  BY <1>1 DEF Used

\* Below the limit of a pool that is a stack up to t there is no hole.
LEMMA StackBelowLimit ==
  ASSUME NEW p \in Pool, NEW t \in Nat, TakenBelow(p, t)
  PROVE  \A k \in 0 .. (Limit(p) - 1) : isFree(bitmap[p], k) <=> k >= t
<1> SUFFICES ASSUME NEW k \in 0 .. (Limit(p) - 1)
             PROVE  isFree(bitmap[p], k) <=> k >= t
  OBVIOUS
<1>1. n_frames[p] \in Nat /\ Limit(p) \in Nat /\ Limit(p) <= n_frames[p]
  BY Sizes
<1>2. k \in 0 .. (n_frames[p] - 1)
  BY <1>1
<1>3. k \notin HoleEntries(p)
  BY Sizes
<1>4. QED
  BY <1>2, <1>3 DEF TakenBelow

\* In a pool that is a stack up to t, a request that fits below the limit is
\* given the entries from t on.
LEMMA FirstFitIsTop ==
  ASSUME NEW p \in Pool, NEW t \in Nat, NEW n \in Nat,
         TakenBelow(p, t), t + n < Limit(p)
  PROVE  /\ ~NoFit(bitmap[p], n_frames[p], n)
         /\ FirstFit(bitmap[p], n_frames[p], n) = t
<1>1. \A k \in 0 .. (Limit(p) - 1) : isFree(bitmap[p], k) <=> k >= t
  BY StackBelowLimit
<1>2. FitsAt(bitmap[p], t, n)
  BY <1>1, Sizes DEF FitsAt, Window
<1>3. \A k \in 0 .. (t - 1) : ~FitsAt(bitmap[p], k, n)
  BY <1>1, Sizes DEF FitsAt, Window
<1>4. t \in 0 .. (n_frames[p] - 1)
  BY Sizes
<1>5. IsFirstFit(bitmap[p], n_frames[p], t, n)
  BY <1>2, <1>3, <1>4 DEF IsFirstFit
<1>6. \A s \in 0 .. (n_frames[p] - 1) : IsFirstFit(bitmap[p], n_frames[p], s, n) => s = t
  BY <1>2, <1>3, <1>4 DEF IsFirstFit
<1>7. QED
  BY <1>2, <1>4, <1>5, <1>6 DEF FirstFit, NoFit

LEMMA ReleaseEndIsTop ==
  ASSUME NEW p \in Pool, NEW s \in Nat, NEW t \in Nat,
         TakenBelow(p, t), s <= t, t < Limit(p)
  PROVE  ReleaseEnds(p, s) = {t}
<1>1. \A k \in 0 .. (Limit(p) - 1) : isFree(bitmap[p], k) <=> k >= t
  BY StackBelowLimit
<1>2. t \in Entry(p)
  BY Sizes, BootAssumption, PoolAssumption DEF Entry
<1>3. IsReleaseEnd(bitmap[p], s, t)
  BY <1>1, Sizes DEF IsReleaseEnd
<1>4. ASSUME NEW e \in Entry(p), IsReleaseEnd(bitmap[p], s, e)
      PROVE  e = t
  BY <1>1, <1>4, Sizes, BootAssumption, PoolAssumption DEF IsReleaseEnd, Entry
<1>5. QED
  BY <1>2, <1>3, <1>4 DEF ReleaseEnds

LEMMA PoolOfItsFrame ==
  ASSUME TwoPools,
         NEW p \in Pool, NEW s \in 0 .. (n_frames[p] - 1)
  PROVE  PoolOf(base_frame_no[p] + s) = p
<1> DEFINE f == base_frame_no[p] + s
<1>1. Len(list) = 2 /\ list[1] = kernel_mem_pool /\ list[2] = process_mem_pool
  BY DEF TwoPools
<1>2. CASE p = kernel_mem_pool
  <2>1. Holders(f) = {1}
    BY <1>1, <1>2, Sizes DEF Holders, InPool
  <2>2. QED
    BY <1>1, <1>2, <2>1 DEF PoolOf
<1>3. CASE p = process_mem_pool
  <2>1. Holders(f) = {}
    BY <1>1, <1>3, Sizes, LayoutAssumption DEF Holders, InPool
  <2>2. QED
    BY <1>1, <1>3, <2>1 DEF PoolOf
<1>4. QED
  BY <1>2, <1>3, BootAssumption

------------------------------------------------------------------------------
(* What the pool operations do to a pool that is a stack.                  *)

LEMMA GetStep ==
  ASSUME TypeOK, NEW p \in Pool, NEW t \in Nat, NEW n \in Nat,
         TakenBelow(p, t), t + n < Limit(p), nFreeFrames[p] > 0,
         get_frames(p, n)
  PROVE  /\ FramesFor(p, n) = base_frame_no[p] + t
         /\ UNCHANGED <<list, fault>>
         /\ PoolTypeOK'
         /\ nFreeFrames' = [nFreeFrames EXCEPT ![p] = @ - n]
         /\ TakenBelow(p, t + n + 1)'
         /\ \A q \in Pool \ {p} : bitmap'[q] = bitmap[q]
<1>1. /\ ~NoFit(bitmap[p], n_frames[p], n)
      /\ FirstFit(bitmap[p], n_frames[p], n) = t
  BY FirstFitIsTop
<1>2. /\ bitmap' = [bitmap EXCEPT ![p] = Occupy(bitmap[p], Window(t, n), t)]
      /\ nFreeFrames' = [nFreeFrames EXCEPT ![p] = @ - n]
      /\ UNCHANGED <<list, fault>>
  BY <1>1 DEF get_frames, TypeOK, PoolTypeOK
<1>3. bitmap[p] \in [Entry(p) -> FrameState] /\ DOMAIN bitmap = Pool
  BY DEF TypeOK, PoolTypeOK
<1>4. bitmap'[p] = Occupy(bitmap[p], Window(t, n), t)
  BY <1>2, <1>3
<1>5. bitmap'[p] \in [Entry(p) -> FrameState]
  BY <1>3, <1>4 DEF Occupy, FrameState, ALLOCATE_AND_HEAD, ALLOCATE_BUT_NOT_HEAD
<1>6. 0 .. (n_frames[p] - 1) \subseteq Entry(p)
  BY Sizes, PoolAssumption DEF Entry
<1>7. \A k \in Entry(p) : isFree(bitmap'[p], k) <=> isFree(bitmap[p], k) /\ k \notin t .. (t + n)
  BY <1>3, <1>4 DEF Occupy, Window, isFree, FREE, ALLOCATE_AND_HEAD, ALLOCATE_BUT_NOT_HEAD
<1>8. TakenBelow(p, t + n + 1)'
  BY <1>6, <1>7, Sizes DEF TakenBelow
<1>9. \A q \in Pool \ {p} : bitmap'[q] = bitmap[q]
  BY <1>2, <1>3
<1>10. PoolTypeOK'
  BY <1>2, <1>3, <1>5, <1>9 DEF TypeOK, PoolTypeOK
<1>11. QED
  BY <1>1, <1>2, <1>8, <1>9, <1>10 DEF FramesFor

LEMMA ReleaseStep ==
  ASSUME TypeOK, NEW p \in Pool, NEW s \in Nat, NEW t \in Nat,
         TwoPools,
         TakenBelow(p, t), s <= t, t < Limit(p),
         release_frames(base_frame_no[p] + s)
  PROVE  /\ UNCHANGED <<list, fault>>
         /\ PoolTypeOK'
         /\ nFreeFrames' = [nFreeFrames EXCEPT ![p] = @ + (t - s)]
         /\ TakenBelow(p, s)'
         /\ \A q \in Pool \ {p} : bitmap'[q] = bitmap[q]
<1>1. PoolOf(base_frame_no[p] + s) = p
  BY PoolOfItsFrame, Sizes
<1>2. ReleaseEnds(p, s) = {t}
  BY ReleaseEndIsTop
<1>3. (base_frame_no[p] + s) - base_frame_no[p] = s
  BY Sizes
<1>4. /\ bitmap' = [bitmap EXCEPT ![p] = Vacate(bitmap[p], s .. (t - 1))]
      /\ nFreeFrames' = [nFreeFrames EXCEPT ![p] = @ + (t - s)]
      /\ UNCHANGED <<list, fault>>
  <2>1. /\ UNCHANGED list
        /\ \/ ~(s >= 0 /\ ReleaseEnds(p, s) # {})
           \/ /\ \E e \in ReleaseEnds(p, s) :
                   /\ bitmap' = [bitmap EXCEPT ![p] = Vacate(@, s .. (e - 1))]
                   /\ nFreeFrames' = [nFreeFrames EXCEPT ![p] = @ + (e - s)]
              /\ UNCHANGED fault
    BY <1>1, <1>3, Zenon DEF release_frames
  <2>2. s >= 0
    OBVIOUS
  <2>3. QED
    BY <1>2, <2>1, <2>2, Zenon
<1>5. bitmap[p] \in [Entry(p) -> FrameState] /\ DOMAIN bitmap = Pool
  BY DEF TypeOK, PoolTypeOK
<1>6. bitmap'[p] = Vacate(bitmap[p], s .. (t - 1))
  BY <1>4, <1>5
<1>7. bitmap'[p] \in [Entry(p) -> FrameState]
  BY <1>5, <1>6 DEF Vacate, FrameState, FREE
<1>8. 0 .. (n_frames[p] - 1) \subseteq Entry(p)
  BY Sizes, PoolAssumption DEF Entry
<1>9. \A k \in Entry(p) : isFree(bitmap'[p], k) <=> isFree(bitmap[p], k) \/ k \in s .. (t - 1)
  BY <1>5, <1>6 DEF Vacate, isFree, FREE
<1>10. TakenBelow(p, s)'
  BY <1>8, <1>9, Sizes DEF TakenBelow
<1>11. \A q \in Pool \ {p} : bitmap'[q] = bitmap[q]
  BY <1>4, <1>5
<1>12. PoolTypeOK'
  BY <1>4, <1>5, <1>7, <1>11 DEF TypeOK, PoolTypeOK
<1>13. QED
  BY <1>4, <1>10, <1>11, <1>12

\* A pool whose bitmap a step leaves alone is still the same stack.
LEMMA TakenUnchanged ==
  ASSUME NEW p \in Pool, NEW t \in Nat, TakenBelow(p, t), bitmap'[p] = bitmap[p]
  PROVE  TakenBelow(p, t)'
BY DEF TakenBelow, isFree, HoleEntries

------------------------------------------------------------------------------
(* The invariant holds initially and every action keeps it.                *)

LEMMA InitInv == Init => IInv
<1> SUFFICES ASSUME Init PROVE IInv
  OBVIOUS
<1>1. PoolTypeOK /\ fault = "none" /\ list = <<>>
  BY BootAssumption DEF Init, PoolInit, PoolTypeOK, Fault
<1>2. TypeOK
  BY <1>1, BootAssumption DEF Init, TypeOK, PC, Level
<1>3. MemInv
  <2>1. 0 .. (base_frame_no[kernel_mem_pool] + nInfoFrames) \subseteq MemFrame
    BY Sizes, LayoutAssumption, BootAssumption, PoolAssumption DEF MemFrame
  <2>2. QED
    BY <2>1, BootAssumption DEF Init, MemInv, Level
<1>4. QED
  BY <1>1, <1>2, <1>3, BootAssumption
  DEF Init, IInv, TestNeverFails, ListInv, BootInv, StackInv, CounterInv, BootPC, Level

LEMMA BootKernelPoolInv == IInv /\ BootKernelPool => IInv'
<1> SUFFICES ASSUME IInv, BootKernelPool PROVE IInv'
  OBVIOUS
<1> DEFINE kp == kernel_mem_pool
<1> USE DEF IInv, At
<1>1. /\ pc = "kernel_pool" /\ pc' = "info" /\ fault = "none" /\ UNCHANGED <<fault, info_frame, pool, allocs_to_go, frame, mem>>
      /\ list = <<>> /\ info_frame = 0
  BY DEF BootKernelPool, Construct, clientVars, ListInv, BootInv
<1>2. /\ list' = Append(list, kp)
      /\ nFreeFrames' = [nFreeFrames EXCEPT ![kp] = n_frames[kp] - 1]
      /\ bitmap' = [bitmap EXCEPT ![kp] = Occupy(Vacate(bitmap[kp], 0 .. (n_frames[kp] - 1)), {0}, 0)]
  BY DEF BootKernelPool, Construct, InfoEntries
<1>3. bitmap[kp] \in [Entry(kp) -> FrameState] /\ DOMAIN bitmap = Pool /\ kp \in Pool
  BY Sizes DEF TypeOK, PoolTypeOK
<1>4. bitmap'[kp] = Occupy(Vacate(bitmap[kp], 0 .. (n_frames[kp] - 1)), {0}, 0)
  BY <1>2, <1>3
<1>5. bitmap'[kp] \in [Entry(kp) -> FrameState]
  BY <1>3, <1>4 DEF Occupy, Vacate, FrameState, FREE, ALLOCATE_AND_HEAD, ALLOCATE_BUT_NOT_HEAD
<1>6. \A k \in 0 .. (n_frames[kp] - 1) : isFree(bitmap'[kp], k) <=> k >= 1
  <2>1. 0 .. (n_frames[kp] - 1) \subseteq Entry(kp)
    BY Sizes, PoolAssumption DEF Entry
  <2>2. QED
    BY <1>3, <1>4, <2>1 DEF Occupy, Vacate, isFree, FREE, ALLOCATE_AND_HEAD, ALLOCATE_BUT_NOT_HEAD
<1>7. TakenBelow(kp, 1)'
  BY <1>6, BootAssumption DEF TakenBelow, HoleEntries
<1>8. PoolTypeOK'
  <2>1. list' \in Seq(Pool)
    BY <1>1, <1>2, <1>3
  <2>2. nFreeFrames' \in [Pool -> Int]
    <3>1. n_frames[kp] - 1 \in Int
      BY Sizes
    <3>2. nFreeFrames \in [Pool -> Int]
      BY DEF TypeOK, PoolTypeOK
    <3>3. QED
      BY <1>2, <3>1, <3>2
  <2>3. DOMAIN bitmap' = Pool /\ \A p \in Pool : bitmap'[p] \in [Entry(p) -> FrameState]
    BY <1>2, <1>3, <1>5 DEF TypeOK, PoolTypeOK
  <2>4. QED
    BY <1>1, <2>1, <2>2, <2>3 DEF TypeOK, PoolTypeOK
<1>9. TypeOK'
  BY <1>1, <1>8 DEF TypeOK, PC
<1>10. MemInv'
  BY <1>1 DEF MemInv, Intact
<1>11. StackInv'
  BY <1>1 DEF StackInv, BootPC, Used
<1>12. CounterInv'
  BY <1>1, <1>2, <1>3 DEF CounterInv, BootPC, TypeOK, PoolTypeOK
<1>13. ListInv' /\ BootInv' /\ TestNeverFails'
  BY <1>1, <1>2, <1>7 DEF ListInv, BootInv, BootPC, TestNeverFails
<1>14. QED
  BY <1>9, <1>10, <1>11, <1>12, <1>13

LEMMA BootInfoFramesInv == IInv /\ BootInfoFrames => IInv'
<1> SUFFICES ASSUME IInv, BootInfoFrames PROVE IInv'
  OBVIOUS
<1> DEFINE kp == kernel_mem_pool
<1> USE DEF IInv, At
<1>1. /\ pc = "info" /\ pc' = "process_pool" /\ fault = "none"
      /\ UNCHANGED <<pool, allocs_to_go, frame, mem>>
      /\ get_frames(kp, nInfoFrames)
      /\ info_frame' = FramesFor(kp, nInfoFrames)
  BY DEF BootInfoFrames
<1>2. /\ TakenBelow(kp, 1) /\ pool = kp /\ allocs_to_go = Depth
      /\ mem = [f \in MemFrame |-> 0]
      /\ nFreeFrames[kp] = n_frames[kp] - 1 /\ list = <<kp>>
  BY <1>1 DEF BootInv, BootPC, CounterInv, ListInv
<1>3. 1 + nInfoFrames < Limit(kp) /\ nFreeFrames[kp] > 0
  BY <1>2, Sizes, LayoutAssumption DEF Limit
<1>4. /\ FramesFor(kp, nInfoFrames) = base_frame_no[kp] + 1
      /\ UNCHANGED <<list, fault>>
      /\ PoolTypeOK'
      /\ nFreeFrames' = [nFreeFrames EXCEPT ![kp] = @ - nInfoFrames]
      /\ TakenBelow(kp, 1 + nInfoFrames + 1)'
  BY <1>1, <1>2, <1>3, Sizes, GetStep
<1>5. Used(Depth) = 0 /\ Start(kp) = 1 + nInfoFrames + 1
  BY Sizes DEF Used, Start
<1>6. TypeOK'
  BY <1>1, <1>4, Sizes DEF TypeOK, PC
<1>7. MemInv'
  BY <1>1 DEF MemInv, Intact
<1>8. StackInv'
  BY <1>1, <1>2, <1>4, <1>5, Sizes, BootAssumption DEF StackInv, BootPC, UsedOf, Level, Used, Start
<1>9. CounterInv'
  BY <1>1, <1>2, <1>4, <1>5, Sizes, BootAssumption
  DEF CounterInv, BootPC, UsedOf, Room, TypeOK, PoolTypeOK, Used
<1>10. ListInv' /\ BootInv' /\ TestNeverFails'
  BY <1>1, <1>2, <1>4 DEF ListInv, BootInv, BootPC, TestNeverFails
<1>11. QED
  BY <1>6, <1>7, <1>8, <1>9, <1>10

LEMMA BootProcessPoolInv == IInv /\ BootProcessPool => IInv'
<1> SUFFICES ASSUME IInv, BootProcessPool PROVE IInv'
  OBVIOUS
<1> DEFINE kp == kernel_mem_pool
           pp == process_mem_pool
           cleared == Vacate(bitmap[pp], 0 .. (n_frames[pp] - 1))
           first == info_frame - base_frame_no[pp]
<1> USE DEF IInv, At
<1>1. /\ pc = "process_pool" /\ pc' = "hole" /\ fault = "none"
      /\ UNCHANGED <<fault, info_frame, pool, allocs_to_go, frame, mem>>
      /\ list = <<kp>> /\ info_frame = base_frame_no[kp] + 1 /\ info_frame # 0
      /\ pool = kp /\ allocs_to_go = Depth
  BY Sizes DEF BootProcessPool, Construct, clientVars, ListInv, BootInv, BootPC
<1>2. InfoEntries(pp, info_frame, nInfoFrames) = {}
  BY <1>1, Sizes, LayoutAssumption, PoolAssumption, BootAssumption DEF InfoEntries, Entry
<1>3. /\ list' = Append(list, pp)
      /\ nFreeFrames' = [nFreeFrames EXCEPT ![pp] = n_frames[pp] - nInfoFrames]
      /\ bitmap' = [bitmap EXCEPT ![pp] = Occupy(cleared, {}, first)]
  BY <1>1, <1>2 DEF BootProcessPool, Construct
<1>4. bitmap[pp] \in [Entry(pp) -> FrameState] /\ DOMAIN bitmap = Pool /\ pp \in Pool /\ kp \in Pool /\ kp # pp
  BY Sizes, BootAssumption DEF TypeOK, PoolTypeOK
<1>5. bitmap'[pp] = Occupy(cleared, {}, first) /\ bitmap'[kp] = bitmap[kp]
  BY <1>3, <1>4
<1>6. bitmap'[pp] \in [Entry(pp) -> FrameState]
  BY <1>4, <1>5 DEF Occupy, Vacate, FrameState, FREE
<1>7. \A k \in 0 .. (n_frames[pp] - 1) : isFree(bitmap'[pp], k)
  <2>1. 0 .. (n_frames[pp] - 1) \subseteq Entry(pp)
    BY Sizes, PoolAssumption DEF Entry
  <2>2. QED
    BY <1>4, <1>5, <2>1 DEF Occupy, Vacate, isFree, FREE
<1>8. PoolTypeOK'
  <2>1. list' \in Seq(Pool)
    BY <1>1, <1>3, <1>4
  <2>2. nFreeFrames' \in [Pool -> Int]
    <3>1. n_frames[pp] - nInfoFrames \in Int
      BY Sizes
    <3>2. nFreeFrames \in [Pool -> Int]
      BY DEF TypeOK, PoolTypeOK
    <3>3. QED
      BY <1>3, <3>1, <3>2
  <2>3. DOMAIN bitmap' = Pool /\ \A p \in Pool : bitmap'[p] \in [Entry(p) -> FrameState]
    BY <1>3, <1>4, <1>6 DEF TypeOK, PoolTypeOK
  <2>4. QED
    BY <1>1, <2>1, <2>2, <2>3 DEF TypeOK, PoolTypeOK
<1>9. TypeOK'
  BY <1>1, <1>8 DEF TypeOK, PC
<1>10. MemInv'
  BY <1>1 DEF MemInv, Intact
<1>11. StackInv'
  <2>1. TakenBelow(kp, Start(kp) + UsedOf(kp))
    BY <1>1 DEF StackInv
  <2>2. UsedOf(kp)' = UsedOf(kp) /\ Start(kp) + UsedOf(kp) \in Nat
    BY <1>1, <1>4, Sizes DEF UsedOf, Used
  <2>3. TakenBelow(kp, Start(kp) + UsedOf(kp))'
    BY <1>4, <1>5, <2>1, <2>2 DEF TakenBelow, isFree, HoleEntries, Start
  <2>4. QED
    BY <1>1, <2>3, BootAssumption DEF StackInv, BootPC, Level
<1>12. CounterInv'
  <2>1. nFreeFrames'[pp] = n_frames[pp] - nInfoFrames /\ nFreeFrames'[kp] = nFreeFrames[kp]
    BY <1>3, <1>4 DEF TypeOK, PoolTypeOK
  <2>2. QED
    BY <1>1, <2>1 DEF CounterInv, BootPC, UsedOf, Room, Used
<1>13. ListInv'
  <2>1. TwoPools'
    BY <1>1, <1>3, <1>4 DEF TwoPools
  <2>2. QED
    BY <1>1, <2>1 DEF ListInv
<1>14. BootInv' /\ TestNeverFails'
  BY <1>1, <1>7 DEF BootInv, BootPC, TestNeverFails
<1>15. QED
  BY <1>9, <1>10, <1>11, <1>12, <1>13, <1>14

LEMMA BootHoleInv == IInv /\ BootHole => IInv'
<1> SUFFICES ASSUME IInv, BootHole PROVE IInv'
  OBVIOUS
<1> DEFINE kp == kernel_mem_pool
           pp == process_mem_pool
           s == MEM_HOLE_START_FRAME - base_frame_no[pp]
           hole == s .. (s + MEM_HOLE_SIZE - 1)
<1> USE DEF IInv, At
<1>1. /\ pc = "hole" /\ pc' = "descend" /\ fault = "none"
      /\ UNCHANGED <<list, info_frame, pool, allocs_to_go, frame, mem>>
      /\ TwoPools /\ info_frame = base_frame_no[kp] + 1
      /\ pool = kp /\ allocs_to_go = Depth
      /\ mark_inaccessible(pp, MEM_HOLE_START_FRAME, MEM_HOLE_SIZE)
      /\ \A k \in 0 .. (n_frames[pp] - 1) : isFree(bitmap[pp], k)
      /\ nFreeFrames[pp] = n_frames[pp] - nInfoFrames
  BY DEF BootHole, mark_inaccessible, clientVars, ListInv, BootInv, BootPC, CounterInv
<1>2. /\ s \in Nat /\ s + MEM_HOLE_SIZE < n_frames[pp] /\ MEM_HOLE_SIZE \in Nat \ {0}
      /\ hole \subseteq 0 .. (n_frames[pp] - 1)
  BY Sizes, LayoutAssumption, BootAssumption
<1>3. /\ InPool(pp, MEM_HOLE_START_FRAME)
      /\ InPool(pp, MEM_HOLE_START_FRAME + MEM_HOLE_SIZE)
      /\ \A k \in hole : isFree(bitmap[pp], k)
  BY <1>1, <1>2, Sizes, BootAssumption DEF InPool
<1>4. /\ bitmap' = [bitmap EXCEPT ![pp] = Occupy(@, hole, s)]
      /\ nFreeFrames' = [nFreeFrames EXCEPT ![pp] = @ - MEM_HOLE_SIZE]
      /\ UNCHANGED fault
  BY <1>1, <1>3 DEF mark_inaccessible
<1>5. bitmap[pp] \in [Entry(pp) -> FrameState] /\ DOMAIN bitmap = Pool /\ pp \in Pool /\ kp \in Pool /\ kp # pp
  BY Sizes, BootAssumption DEF TypeOK, PoolTypeOK
<1>6. bitmap'[pp] = Occupy(bitmap[pp], hole, s) /\ bitmap'[kp] = bitmap[kp]
  BY <1>4, <1>5
<1>7. bitmap'[pp] \in [Entry(pp) -> FrameState]
  BY <1>5, <1>6 DEF Occupy, FrameState, ALLOCATE_AND_HEAD, ALLOCATE_BUT_NOT_HEAD
<1>8. \A k \in 0 .. (n_frames[pp] - 1) : isFree(bitmap'[pp], k) <=> k \notin hole
  <2>1. 0 .. (n_frames[pp] - 1) \subseteq Entry(pp)
    BY Sizes, PoolAssumption DEF Entry
  <2>2. QED
    BY <1>1, <1>5, <1>6, <2>1 DEF Occupy, isFree, FREE, ALLOCATE_AND_HEAD, ALLOCATE_BUT_NOT_HEAD
<1>9. \A k \in 0 .. (n_frames[pp] - 1) : k \in HoleEntries(pp) <=> k \in hole
  BY Sizes, BootAssumption DEF HoleEntries
<1>10. TakenBelow(pp, 0)'
  BY <1>8, <1>9 DEF TakenBelow, HoleEntries
<1>11. PoolTypeOK'
  <2>1. nFreeFrames' \in [Pool -> Int]
    <3>1. nFreeFrames \in [Pool -> Int]
      BY DEF TypeOK, PoolTypeOK
    <3>2. QED
      BY <1>2, <1>4, <1>5, <3>1
  <2>2. DOMAIN bitmap' = Pool /\ \A p \in Pool : bitmap'[p] \in [Entry(p) -> FrameState]
    BY <1>4, <1>5, <1>7 DEF TypeOK, PoolTypeOK
  <2>3. QED
    BY <1>1, <1>4, <2>1, <2>2 DEF TypeOK, PoolTypeOK
<1>12. TypeOK'
  BY <1>1, <1>11 DEF TypeOK, PC
<1>13. MemInv'
  BY <1>1 DEF MemInv, Intact
<1>14. StackInv'
  <2>1. TakenBelow(kp, Start(kp) + UsedOf(kp))
    BY <1>1 DEF StackInv
  <2>2. UsedOf(kp)' = UsedOf(kp) /\ UsedOf(pp)' = 0 /\ Start(pp) = 0
    BY <1>1, <1>5 DEF UsedOf, Used, Start
  <2>3. TakenBelow(kp, Start(kp) + UsedOf(kp))'
    BY <1>5, <1>6, <2>1, <2>2 DEF TakenBelow, isFree, HoleEntries, Start
  <2>4. QED
    BY <1>1, <1>10, <2>2, <2>3, BootAssumption DEF StackInv, BootPC, Level
<1>15. CounterInv'
  <2>1. nFreeFrames'[pp] = nFreeFrames[pp] - MEM_HOLE_SIZE /\ nFreeFrames'[kp] = nFreeFrames[kp]
    BY <1>4, <1>5 DEF TypeOK, PoolTypeOK
  <2>2. UsedOf(kp)' = UsedOf(kp) /\ UsedOf(pp)' = 0
    BY <1>1, <1>5 DEF UsedOf, Used
  <2>3. QED
    BY <1>1, <1>2, <1>5, <2>1, <2>2, Sizes DEF CounterInv, BootPC, Room
<1>16. ListInv' /\ BootInv' /\ TestNeverFails'
  BY <1>1, <1>4 DEF ListInv, TwoPools, BootInv, BootPC, TestNeverFails
<1>17. QED
  BY <1>12, <1>13, <1>14, <1>15, <1>16

LEMMA AllocateInv == IInv /\ Allocate => IInv'
<1> SUFFICES ASSUME IInv, Allocate PROVE IInv'
  OBVIOUS
<1>0. PICK p \in Pool, g \in 0 .. Depth : p = pool /\ g = allocs_to_go
  BY DEF IInv, TypeOK
<1> DEFINE n == RequestOf(g)
           t == Start(p) + Used(g)
           f == base_frame_no[p] + t
<1> USE DEF IInv, At
<1>1. /\ pc = "descend" /\ UNCHANGED <<pc, info_frame, pool>> /\ fault = "none"
      /\ g > 0 /\ allocs_to_go' = g - 1
      /\ get_frames(p, n)
      /\ TwoPools
      /\ pool = p /\ allocs_to_go = g /\ Depth \in Nat
  BY <1>0, BootAssumption DEF Allocate, TypeOK, ListInv
<1>2. /\ Used(g) \in 0 .. Demand(Depth) /\ Used(g - 1) \in 0 .. Demand(Depth)
      /\ Used(g - 1) = Used(g) + n + 1 /\ n \in 1 .. 4
  <2>1. g \in 0 .. Depth /\ g - 1 \in 0 .. Depth
    BY <1>1
  <2>2. QED
    BY <1>1, <2>1, UsedRange
<1>3. t \in Nat /\ t + n < Limit(p) /\ f \in Nat /\ f + n \in MemFrame
  BY <1>1, <1>2, Sizes, BootAssumption, LayoutAssumption, PoolAssumption DEF MemFrame
<1>4. TakenBelow(p, t)
  BY <1>1, BootAssumption DEF StackInv, UsedOf, BootPC
<1>5. nFreeFrames[p] >= Room(p) - Used(g) /\ nFreeFrames[p] > 0
  <2>1. nFreeFrames[p] >= Room(p) - Used(g)
    BY <1>1, BootAssumption DEF CounterInv, UsedOf, BootPC
  <2>2. nFreeFrames[p] \in Int
    BY <1>1 DEF TypeOK, PoolTypeOK
  <2>3. QED
    BY <1>1, <1>2, <2>1, <2>2, Sizes
<1>6. /\ FramesFor(p, n) = f
      /\ UNCHANGED <<list, fault>>
      /\ PoolTypeOK'
      /\ nFreeFrames' = [nFreeFrames EXCEPT ![p] = @ - n]
      /\ TakenBelow(p, t + n + 1)'
      /\ \A q \in Pool \ {p} : bitmap'[q] = bitmap[q]
  BY <1>1, <1>2, <1>3, <1>4, <1>5, GetStep
<1>7. /\ frame' = [frame EXCEPT ![g] = f]
      /\ mem' = [x \in MemFrame |-> IF x \in f .. (f + n - 1) THEN g ELSE mem[x]]
      /\ frame \in [Level -> Nat] /\ g \in Level
      /\ mem \in [MemFrame -> 0 .. Depth]
  BY <1>1, <1>6 DEF Allocate, TypeOK, Level
<1>8. /\ UsedOf(p)' = UsedOf(p) + n + 1 /\ UsedOf(p) = Used(g)
      /\ \A q \in Pool \ {p} : UsedOf(q)' = UsedOf(q) /\ UsedOf(q) = 0
  BY <1>1, <1>2 DEF UsedOf, Used
<1>9. TypeOK'
  BY <1>1, <1>3, <1>6, <1>7 DEF TypeOK
<1>10. StackInv'
  <2>1. \A q \in Pool : TakenBelow(q, Start(q) + UsedOf(q))
    BY <1>1, BootAssumption DEF StackInv, BootPC
  <2>2. ASSUME NEW q \in Pool PROVE TakenBelow(q, Start(q) + UsedOf(q))'
    <3>1. CASE q = p
      <4>1. Start(q) + UsedOf(q)' = t + n + 1
        BY <1>2, <1>8, <3>1, Sizes
      <4>2. QED
        BY <1>6, <3>1, <4>1 DEF TakenBelow, HoleEntries, Start
    <3>2. CASE q # p
      BY <1>6, <1>8, <2>1, <3>2 DEF TakenBelow, isFree, HoleEntries, Start
    <3>3. QED
      BY <3>1, <3>2
  <2>3. ASSUME NEW h \in Level, h > g - 1
        PROVE  frame'[h] = base_frame_no[p] + Start(p) + Used(h)
    <3>1. CASE h = g
      BY <1>2, <1>7, <3>1, <1>1, Sizes
    <3>2. CASE h # g
      <4>1. h > g
        BY <1>1, <2>3, <3>2 DEF Level
      <4>2. QED
        BY <1>1, <1>7, <4>1 DEF StackInv
    <3>3. QED
      BY <3>1, <3>2
  <2>4. QED
    BY <1>1, <2>2, <2>3, BootAssumption DEF StackInv, Used, Start
<1>11. CounterInv'
  <2>1. nFreeFrames \in [Pool -> Int]
    BY DEF TypeOK, PoolTypeOK
  <2>2. ASSUME NEW q \in Pool PROVE nFreeFrames'[q] >= Room(q) - UsedOf(q)'
    <3>1. nFreeFrames[q] >= Room(q) - UsedOf(q)
      BY <1>1, BootAssumption DEF CounterInv, BootPC
    <3>2. CASE q = p
      BY <1>1, <1>2, <1>6, <1>8, <2>1, <3>1, <3>2, Sizes
    <3>3. CASE q # p
      BY <1>6, <1>8, <2>1, <3>1, <3>3
    <3>4. QED
      BY <3>2, <3>3
  <2>3. QED
    BY <1>1, <2>2, BootAssumption DEF CounterInv, BootPC, Room
<1>12. MemInv'
  <2>0. /\ \A x \in 0 .. (f + n) : mem'[x] = IF x \in f .. (f + n - 1) THEN g ELSE mem[x]
        /\ n \in Nat
    <3>1. 0 .. (f + n) \subseteq MemFrame
      BY <1>2, <1>3, Sizes, PoolAssumption DEF MemFrame
    <3>2. QED
      BY <1>2, <1>7, <3>1
  <2>1. ASSUME NEW h \in Level, h > g - 1
        PROVE  Intact(h)'
    <3>1. CASE h = g
      <4>1. frame'[h] = f
        BY <1>7, <3>1
      <4>2. \A x \in f .. (f + n - 1) : mem'[x] = g
        BY <1>3, <2>0
      <4>3. QED
        BY <3>1, <4>1, <4>2 DEF Intact, RequestOf
    <3>2. CASE h # g
      <4>1. h > g /\ h \in 0 .. Depth /\ h - 1 \in g .. Depth /\ h > 0
        BY <1>1, <2>1, <3>2 DEF Level
      <4>2. /\ frame'[h] = frame[h]
            /\ frame[h] = base_frame_no[p] + Start(p) + Used(h)
            /\ Intact(h)
        BY <1>1, <1>7, <4>1 DEF StackInv, MemInv
      <4>3. /\ Used(h) + RequestOf(h) + 1 <= Used(g)
            /\ Used(h) \in Nat /\ RequestOf(h) \in Nat
        BY <4>1, <1>1, <1>2, UsedRange, UsedMonotone
      <4>4. frame[h] \in Nat /\ frame[h] + RequestOf(h) - 1 < f
        BY <1>1, <1>2, <4>2, <4>3, Sizes
      <4>5. \A x \in frame[h] .. (frame[h] + RequestOf(h) - 1) : mem'[x] = mem[x]
        BY <1>3, <2>0, <4>3, <4>4
      <4>6. QED
        BY <4>2, <4>5 DEF Intact, RequestOf
    <3>3. QED
      BY <3>1, <3>2
  <2>2. f > base_frame_no[kernel_mem_pool] + nInfoFrames
    BY <1>1, <1>2, Sizes, LayoutAssumption, BootAssumption DEF Start
  <2>3. \A x \in 0 .. (base_frame_no[kernel_mem_pool] + nInfoFrames) : mem'[x] = 0
    <3>1. base_frame_no[kernel_mem_pool] + nInfoFrames \in Nat
      BY Sizes
    <3>2. \A x \in 0 .. (base_frame_no[kernel_mem_pool] + nInfoFrames) : mem'[x] = mem[x]
      BY <1>3, <2>0, <2>2, <3>1
    <3>3. QED
      BY <3>2 DEF MemInv
  <2>4. QED
    BY <1>1, <2>1, <2>3 DEF MemInv
<1>13. ListInv' /\ BootInv' /\ TestNeverFails'
  BY <1>1, <1>6 DEF ListInv, TwoPools, BootInv, BootPC, TestNeverFails
<1>14. QED
  BY <1>9, <1>10, <1>11, <1>12, <1>13

LEMMA TurnBackInv == IInv /\ TurnBack => IInv'
<1> SUFFICES ASSUME IInv, TurnBack PROVE IInv'
  OBVIOUS
<1>1. /\ pc = "descend" /\ pc' = "ascend"
      /\ UNCHANGED <<list, bitmap, nFreeFrames, fault, info_frame, pool, allocs_to_go, frame, mem>>
  BY DEF TurnBack, At
<1>2. TypeOK'
  BY <1>1 DEF IInv, TypeOK, PoolTypeOK, PC
<1>3. StackInv'
  BY <1>1 DEF IInv, StackInv, BootPC, UsedOf, TakenBelow, isFree
<1>4. CounterInv'
  BY <1>1 DEF IInv, CounterInv, BootPC, UsedOf
<1>5. MemInv' /\ ListInv' /\ BootInv' /\ TestNeverFails'
  BY <1>1 DEF IInv, MemInv, Intact, ListInv, TwoPools, BootInv, BootPC, TestNeverFails
<1>6. QED
  BY <1>2, <1>3, <1>4, <1>5 DEF IInv

LEMMA CheckAndReleaseInv == IInv /\ CheckAndRelease => IInv'
<1> SUFFICES ASSUME IInv, CheckAndRelease PROVE IInv'
  OBVIOUS
<1>0. PICK p \in Pool, g \in 0 .. Depth : p = pool /\ g = allocs_to_go
  BY DEF IInv, TypeOK
<1> DEFINE c == g + 1
           s == Start(p) + Used(c)
           t == Start(p) + Used(g)
<1> USE DEF IInv, At
<1>1. /\ pc = "ascend" /\ fault = "none" /\ g < Depth /\ c \in Level /\ c \in 0 .. Depth
      /\ pool = p /\ allocs_to_go = g /\ Depth \in Nat /\ Caller = c
      /\ UNCHANGED <<info_frame, pool, frame, mem>>
      /\ TwoPools
  BY <1>0, BootAssumption DEF CheckAndRelease, ListInv, Level, Caller
<1>2. Intact(c) /\ frame[c] = base_frame_no[p] + s
  <2>1. frame[c] = base_frame_no[p] + Start(p) + Used(c) /\ Intact(c)
    BY <1>1 DEF StackInv, MemInv
  <2>2. Used(c) \in Nat
    BY <1>1, UsedRange, Sizes
  <2>3. QED
    BY <2>1, <2>2, Sizes
<1>3. /\ release_frames(base_frame_no[p] + s)
      /\ allocs_to_go' = c
      /\ UNCHANGED pc
  BY <1>1, <1>2 DEF CheckAndRelease
<1>4. /\ Used(c) \in 0 .. Demand(Depth) /\ Used(g) \in 0 .. Demand(Depth)
      /\ Used(g) = Used(c) + RequestOf(c) + 1 /\ RequestOf(c) \in 1 .. 4
  <2>1. c > 0 /\ c - 1 = g
    OBVIOUS
  <2>2. QED
    BY <1>1, <2>1, UsedRange
<1>5. s \in Nat /\ t \in Nat /\ s <= t /\ t < Limit(p) /\ t - s = Used(g) - Used(c)
  BY <1>1, <1>4, Sizes
<1>6. TakenBelow(p, t)
  BY <1>1, BootAssumption DEF StackInv, UsedOf, BootPC
<1>7. /\ UNCHANGED <<list, fault>>
      /\ PoolTypeOK'
      /\ nFreeFrames' = [nFreeFrames EXCEPT ![p] = @ + (t - s)]
      /\ TakenBelow(p, s)'
      /\ \A q \in Pool \ {p} : bitmap'[q] = bitmap[q]
  BY <1>1, <1>3, <1>5, <1>6, ReleaseStep
<1>8. /\ UsedOf(p) = Used(g) /\ UsedOf(p)' = Used(c)
      /\ \A q \in Pool \ {p} : UsedOf(q)' = UsedOf(q) /\ UsedOf(q) = 0
  BY <1>1, <1>3 DEF UsedOf, Used
<1>9. TypeOK'
  BY <1>1, <1>3, <1>7 DEF TypeOK
<1>10. StackInv'
  <2>1. \A q \in Pool : TakenBelow(q, Start(q) + UsedOf(q))
    BY <1>1, BootAssumption DEF StackInv, BootPC
  <2>2. ASSUME NEW q \in Pool PROVE TakenBelow(q, Start(q) + UsedOf(q))'
    <3>1. CASE q = p
      BY <1>7, <1>8, <3>1 DEF TakenBelow, HoleEntries, Start
    <3>2. CASE q # p
      BY <1>7, <1>8, <2>1, <3>2 DEF TakenBelow, isFree, HoleEntries, Start
    <3>3. QED
      BY <3>1, <3>2
  <2>3. \A h \in Level : h > c => h > g
    BY <1>1 DEF Level
  <2>4. QED
    BY <1>1, <1>3, <2>2, <2>3, BootAssumption DEF StackInv, Used, Start
<1>11. CounterInv'
  <2>1. nFreeFrames \in [Pool -> Int]
    BY DEF TypeOK, PoolTypeOK
  <2>2. ASSUME NEW q \in Pool PROVE nFreeFrames'[q] >= Room(q) - UsedOf(q)'
    <3>1. nFreeFrames[q] >= Room(q) - UsedOf(q)
      BY <1>1, BootAssumption DEF CounterInv, BootPC
    <3>2. CASE q = p
      BY <1>1, <1>4, <1>5, <1>7, <1>8, <2>1, <3>1, <3>2, Sizes
    <3>3. CASE q # p
      BY <1>7, <1>8, <2>1, <3>1, <3>3
    <3>4. QED
      BY <3>2, <3>3
  <2>3. QED
    BY <1>1, <1>3, <2>2, BootAssumption DEF CounterInv, BootPC, Room
<1>12. MemInv'
  <2>1. \A h \in Level : h > c => h > g
    BY <1>1 DEF Level
  <2>2. QED
    BY <1>1, <1>3, <2>1 DEF MemInv, Intact
<1>13. ListInv' /\ BootInv' /\ TestNeverFails'
  BY <1>1, <1>3, <1>7 DEF ListInv, TwoPools, BootInv, BootPC, TestNeverFails
<1>14. QED
  BY <1>9, <1>10, <1>11, <1>12, <1>13

LEMMA NextTestInv == IInv /\ NextTest => IInv'
<1> SUFFICES ASSUME IInv, NextTest PROVE IInv'
  OBVIOUS
<1> USE DEF IInv, At
<1>1. /\ pc = "ascend" /\ pc' \in {"descend", "done"} /\ allocs_to_go = Depth
      /\ pool' = process_mem_pool
      /\ UNCHANGED <<list, bitmap, nFreeFrames, fault, info_frame, allocs_to_go, frame, mem>>
  BY DEF NextTest
<1>2. Used(Depth) = 0 /\ process_mem_pool \in Pool
  BY Sizes DEF Used
<1>3. \A q \in Pool : UsedOf(q) = 0 /\ UsedOf(q)' = 0
  BY <1>1, <1>2 DEF UsedOf, Used
<1>4. TypeOK'
  BY <1>1, <1>2 DEF TypeOK, PoolTypeOK, PC
<1>5. StackInv'
  BY <1>1, <1>3, BootAssumption DEF StackInv, BootPC, Level, TakenBelow, isFree
<1>6. CounterInv'
  BY <1>1, <1>3, BootAssumption DEF CounterInv, BootPC
<1>7. MemInv' /\ ListInv' /\ BootInv' /\ TestNeverFails'
  BY <1>1 DEF MemInv, Intact, ListInv, TwoPools, BootInv, BootPC, TestNeverFails
<1>8. QED
  BY <1>4, <1>5, <1>6, <1>7

\* IInv is an invariant of the specification.
THEOREM Inductive == Spec => []IInv
<1>1. Init => IInv
  BY InitInv
<1>2. IInv /\ [Next]_vars => IInv'
  <2> SUFFICES ASSUME IInv, [Next]_vars PROVE IInv'
    OBVIOUS
  <2>1. CASE UNCHANGED vars
    BY <2>1 DEF vars, IInv, TypeOK, PoolTypeOK, TestNeverFails, ListInv, TwoPools, BootInv,
       StackInv, CounterInv, MemInv, TakenBelow, isFree, UsedOf, Intact
  <2>2. QED
    BY <2>1, BootKernelPoolInv, BootInfoFramesInv, BootProcessPoolInv, BootHoleInv,
       AllocateInv, TurnBackInv, CheckAndReleaseInv, NextTestInv DEF Next
<1>3. QED
  BY <1>1, <1>2, PTL DEF Spec

------------------------------------------------------------------------------
(* What follows from the invariant.                                        *)

(***************************************************************************)
(* For every layout and depth every variable keeps its type.               *)
(***************************************************************************)
THEOREM TypeCorrect == Spec => []TypeOK
<1>1. IInv => TypeOK
  BY DEF IInv
<1>2. QED
  BY <1>1, Inductive, PTL

(***************************************************************************)
(* For every layout and depth test_memory never fails, no assertion of the *)
(* pools fires and no release runs past a bitmap.                          *)
(***************************************************************************)
THEOREM TestSucceeds == Spec => []TestNeverFails
<1>1. IInv => TestNeverFails
  BY DEF IInv
<1>2. QED
  BY <1>1, Inductive, PTL

(***************************************************************************)
(* For every layout and depth no test writes into a bitmap or into low     *)
(* memory.                                                                 *)
(***************************************************************************)
THEOREM BitmapsSafe == Spec => []BitmapsUntouched
<1>1. IInv => BitmapsUntouched
  <2> SUFFICES ASSUME IInv PROVE BitmapsUntouched
    OBVIOUS
  <2>1. info_frame \in {0, base_frame_no[kernel_mem_pool] + 1}
    BY DEF IInv, BootInv
  <2>2. QED
    BY <2>1, Sizes DEF IInv, MemInv, BitmapsUntouched
<1>2. QED
  BY <1>1, Inductive, PTL

(***************************************************************************)
(* For every layout and depth the tests give back every frame, and only    *)
(* what the pools had to give, as far as the bitmaps say.                  *)
(***************************************************************************)
THEOREM Restored == Spec => []PoolsRestored
<1>1. IInv => PoolsRestored
  <2> SUFFICES ASSUME IInv, pc = "done"
               PROVE  FreeFrames = (UNION {FrameSet(p) : p \in Pool}) \ Reserved
    BY DEF PoolsRestored
  <2> DEFINE kp == kernel_mem_pool
             pp == process_mem_pool
  <2>1. /\ TakenBelow(kp, nInfoFrames + 2) /\ TakenBelow(pp, 0)
        /\ info_frame = base_frame_no[kp] + 1
    <3>1. UsedOf(kp) = 0 /\ UsedOf(pp) = 0
      BY Sizes DEF IInv, BootInv, UsedOf, Used
    <3>2. Start(kp) + 0 = nInfoFrames + 2 /\ Start(pp) + 0 = 0
      BY Sizes, BootAssumption DEF Start
    <3>3. QED
      BY <3>1, <3>2 DEF IInv, StackInv, BootInv, BootPC
  <2>2. \A f \in FrameSet(kp) : isFree(bitmap[kp], f - base_frame_no[kp]) <=> f \notin Reserved
    <3> SUFFICES ASSUME NEW f \in FrameSet(kp)
                 PROVE  isFree(bitmap[kp], f - base_frame_no[kp]) <=> f \notin Reserved
      OBVIOUS
    <3>1. f \in Nat /\ f - base_frame_no[kp] \in 0 .. (n_frames[kp] - 1)
      BY Sizes DEF FrameSet
    <3>2. isFree(bitmap[kp], f - base_frame_no[kp]) <=> f - base_frame_no[kp] >= nInfoFrames + 2
      BY <2>1, <3>1, BootAssumption DEF TakenBelow, HoleEntries
    <3>3. f \notin MEM_HOLE_START_FRAME .. (MEM_HOLE_START_FRAME + MEM_HOLE_SIZE - 1)
      BY <3>1, Sizes, LayoutAssumption, BootAssumption
    <3>4. QED
      BY <2>1, <3>1, <3>2, <3>3, Sizes DEF Reserved, Window
  <2>3. \A f \in FrameSet(pp) : isFree(bitmap[pp], f - base_frame_no[pp]) <=> f \notin Reserved
    <3> SUFFICES ASSUME NEW f \in FrameSet(pp)
                 PROVE  isFree(bitmap[pp], f - base_frame_no[pp]) <=> f \notin Reserved
      OBVIOUS
    <3>1. f \in Nat /\ f - base_frame_no[pp] \in 0 .. (n_frames[pp] - 1)
      BY Sizes DEF FrameSet
    <3>2. isFree(bitmap[pp], f - base_frame_no[pp])
            <=> f \notin MEM_HOLE_START_FRAME .. (MEM_HOLE_START_FRAME + MEM_HOLE_SIZE - 1)
      BY <2>1, <3>1, Sizes DEF TakenBelow, HoleEntries
    <3>3. f # base_frame_no[kp] /\ f \notin Window(info_frame, nInfoFrames)
      BY <2>1, <3>1, Sizes, LayoutAssumption DEF Window, FrameSet
    <3>4. QED
      BY <3>2, <3>3 DEF Reserved
  <2>4. FrameSet(kp) \subseteq MemFrame /\ FrameSet(pp) \subseteq MemFrame
    BY Sizes, LayoutAssumption, PoolAssumption DEF FrameSet, MemFrame
  <2>5. Pool = {kp, pp}
    BY BootAssumption
  <2>6. QED
    BY <2>2, <2>3, <2>4, <2>5 DEF FreeFrames
<1>2. QED
  BY <1>1, Inductive, PTL

------------------------------------------------------------------------------
(* The refinement.                                                         *)

heldBar == [g \in Level |-> IF Live(g) THEN Extent(g) ELSE {}]

LEMMA BootRefines ==
  ASSUME IInv, pc \in BootPC, allocs_to_go' = allocs_to_go
  PROVE  Extents!Setup
<1>1. \A g \in Level : ~(g > allocs_to_go)
  BY BootAssumption DEF IInv, BootInv, Level
<1>2. heldBar = [g \in Level |-> {}] /\ heldBar' = [g \in Level |-> {}]
  BY <1>1 DEF heldBar, Live
<1>3. FreeFrames' \in SUBSET MemFrame
  BY DEF FreeFrames
<1>4. QED
  BY <1>2, <1>3 DEF Extents!Setup, Extents!Nobody, heldBar

LEMMA IdleRefines ==
  ASSUME UNCHANGED <<bitmap, frame, allocs_to_go>>,
         \A g \in Level : Live(g)' <=> Live(g)
  PROVE  UNCHANGED Extents!vars
<1>1. FreeFrames' = FreeFrames
  BY DEF FreeFrames, isFree
<1>2. heldBar' = heldBar
  BY DEF heldBar, Extent
<1>3. QED
  BY <1>1, <1>2 DEF Extents!vars, heldBar

\* While the tests run the free frames are exactly those above the stacks.
AboveStack(p, f) ==
  /\ f - base_frame_no[p] >= Start(p) + UsedOf(p)
  /\ f - base_frame_no[p] \notin HoleEntries(p)

FreeAboveStacks ==
  \A p \in Pool : \A f \in FrameSet(p) : f \in FreeFrames <=> AboveStack(p, f)

LEMMA FrameSets ==
  /\ \A p \in Pool : FrameSet(p) \subseteq MemFrame
  /\ \A p, q \in Pool : \A f \in FrameSet(p) : f \in FrameSet(q) => p = q
<1>1. FrameSet(kernel_mem_pool) \cap FrameSet(process_mem_pool) = {}
  BY Sizes, LayoutAssumption DEF FrameSet
<1>2. \A p \in Pool : FrameSet(p) \subseteq MemFrame
  BY Sizes, LayoutAssumption, BootAssumption, PoolAssumption DEF FrameSet, MemFrame
<1>3. QED
  BY <1>1, <1>2, BootAssumption

LEMMA FreeFramesAre == IInv /\ pc \notin BootPC => FreeAboveStacks
<1> SUFFICES ASSUME IInv, pc \notin BootPC, NEW p \in Pool, NEW f \in FrameSet(p)
             PROVE  f \in FreeFrames <=> AboveStack(p, f)
  BY DEF FreeAboveStacks
<1>1. TakenBelow(p, Start(p) + UsedOf(p))
  BY BootAssumption DEF IInv, StackInv, BootPC
<1>2. f - base_frame_no[p] \in 0 .. (n_frames[p] - 1)
  BY Sizes DEF FrameSet
<1>3. f \in FreeFrames <=> isFree(bitmap[p], f - base_frame_no[p])
  BY FrameSets DEF FreeFrames
<1>4. QED
  BY <1>1, <1>2, <1>3 DEF TakenBelow, AboveStack

LEMMA FreeFramesNext == (IInv /\ pc \notin BootPC)' => FreeAboveStacks'
BY FreeFramesAre, PTL

\* The entries between an old and a new top, as frames.
LEMMA Segment ==
  ASSUME NEW p \in Pool, NEW lo \in Nat, NEW hi \in Nat, lo < hi, hi < Limit(p),
         NEW f \in FrameSet(p)
  PROVE  f \in (base_frame_no[p] + lo) .. (base_frame_no[p] + hi - 1) <=>
           /\ f - base_frame_no[p] >= lo
           /\ f - base_frame_no[p] \notin HoleEntries(p)
           /\ ~(f - base_frame_no[p] >= hi /\ f - base_frame_no[p] \notin HoleEntries(p))
<1>1. f \in Nat /\ f - base_frame_no[p] \in 0 .. (n_frames[p] - 1) /\ base_frame_no[p] \in Nat
  BY Sizes DEF FrameSet
<1>2. f - base_frame_no[p] < hi => f - base_frame_no[p] \notin HoleEntries(p)
  BY <1>1, Sizes
<1>3. QED
  BY <1>1, <1>2

LEMMA AllocateRefines ==
  ASSUME IInv, IInv', Allocate
  PROVE  Extents!Next
<1>0. PICK p \in Pool, g \in 0 .. Depth : p = pool /\ g = allocs_to_go
  BY DEF IInv, TypeOK
<1> DEFINE n == RequestOf(g)
           t == Start(p) + Used(g)
           f == base_frame_no[p] + t
<1>1. /\ pc = "descend" /\ pc' = pc /\ pool' = pool /\ pool = p /\ allocs_to_go = g
      /\ g > 0 /\ allocs_to_go' = g - 1 /\ g \in Level
      /\ frame \in [Level -> Nat] /\ frame' = [frame EXCEPT ![g] = FramesFor(p, n)]
  BY <1>0, BootAssumption DEF Allocate, At, IInv, TypeOK, Level
<1>2. /\ Used(g) \in 0 .. Demand(Depth) /\ Used(g - 1) \in 0 .. Demand(Depth)
      /\ Used(g - 1) = Used(g) + n + 1 /\ n \in 1 .. 4
  <2>1. g \in 0 .. Depth /\ g - 1 \in 0 .. Depth
    BY <1>1, BootAssumption
  <2>2. QED
    BY <1>1, <2>1, UsedRange
<1>3. /\ t \in Nat /\ t + n + 1 < Limit(p) /\ t < t + n + 1
      /\ Start(p) + Used(g - 1) = t + n + 1
  BY <1>2, Sizes
<1>4. frame'[g] = f
  BY <1>1, <1>2, Sizes DEF IInv, StackInv
<1>5. /\ \A h \in Level : Live(h) <=> h > g
      /\ \A h \in Level : Live(h)' <=> h > g - 1
      /\ \A h \in Level : h > g - 1 <=> h > g \/ h = g
  BY <1>1, BootAssumption DEF Live, Level
<1>6. /\ heldBar[g] = {}
      /\ heldBar' = [heldBar EXCEPT ![g] = f .. (f + n)]
  <2>1. heldBar[g] = {}
    BY <1>1, <1>5 DEF heldBar
  <2>2. \A h \in Level : h # g => frame'[h] = frame[h]
    BY <1>1
  <2>3. \A h \in Level : heldBar'[h] = IF h = g THEN f .. (f + n) ELSE heldBar[h]
    BY <1>4, <1>5, <2>2 DEF heldBar, Extent, Window, RequestOf
  <2>4. QED
    BY <1>1, <2>1, <2>3 DEF heldBar
<1>7. FreeAboveStacks /\ FreeAboveStacks'
  BY <1>1, FreeFramesAre, FreeFramesNext DEF BootPC
<1>8. \A q \in Pool : \A x \in FrameSet(q) :
        /\ x \in FreeFrames <=> AboveStack(q, x)
        /\ x \in FreeFrames' <=> AboveStack(q, x)'
  BY <1>7 DEF FreeAboveStacks, FrameSet
<1>9. /\ \A x \in FrameSet(p) : x \in f .. (f + n) <=> x \in FreeFrames /\ x \notin FreeFrames'
      /\ \A x \in FrameSet(p) : x \in FreeFrames' => x \in FreeFrames
  <2> SUFFICES ASSUME NEW x \in FrameSet(p)
               PROVE  /\ x \in f .. (f + n) <=> x \in FreeFrames /\ x \notin FreeFrames'
                      /\ x \in FreeFrames' => x \in FreeFrames
    OBVIOUS
  <2>1. x - base_frame_no[p] \in Int
    BY Sizes DEF FrameSet
  <2>2. AboveStack(p, x) <=> x - base_frame_no[p] >= t /\ x - base_frame_no[p] \notin HoleEntries(p)
    BY <1>1 DEF AboveStack, UsedOf
  <2>3. AboveStack(p, x)' <=> x - base_frame_no[p] >= t + n + 1 /\ x - base_frame_no[p] \notin HoleEntries(p)
    BY <1>1, <1>3 DEF AboveStack, UsedOf, Used, Start, HoleEntries
  <2>4. x \in f .. (base_frame_no[p] + (t + n + 1) - 1) <=> AboveStack(p, x) /\ ~AboveStack(p, x)'
    BY <1>2, <1>3, <2>2, <2>3, Segment
  <2>5. base_frame_no[p] + (t + n + 1) - 1 = f + n
    BY <1>2, <1>3, Sizes
  <2>6. QED
    BY <1>2, <1>3, <1>8, <2>1, <2>2, <2>3, <2>4, <2>5
<1>10. \A q \in Pool \ {p} : \A x \in FrameSet(q) : x \in FreeFrames' <=> x \in FreeFrames
  <2> SUFFICES ASSUME NEW q \in Pool \ {p}, NEW x \in FrameSet(q)
               PROVE  AboveStack(q, x)' <=> AboveStack(q, x)
    BY <1>8
  <2>1. QED
    BY <1>1 DEF AboveStack, UsedOf, Start, HoleEntries
<1>11. f .. (f + n) \subseteq FrameSet(p)
  BY <1>2, <1>3, Sizes DEF FrameSet
<1>12. /\ \A x \in FreeFrames : \E q \in Pool : x \in FrameSet(q)
       /\ \A x \in FreeFrames' : \E q \in Pool : x \in FrameSet(q)
  BY DEF FreeFrames
<1>13. f .. (f + n) \subseteq FreeFrames /\ FreeFrames' = FreeFrames \ (f .. (f + n))
  BY <1>9, <1>10, <1>11, <1>12, FrameSets
<1>14. f \in FreeFrames /\ f + n \in f .. (f + (MaxRequest + 1) - 1)
  BY <1>2, <1>3, <1>13, Sizes, BootAssumption, PoolAssumption
<1>15. Extents!Get(g, f, f + n)
  BY <1>6, <1>13 DEF Extents!Get, heldBar
<1>16. QED
  BY <1>1, <1>14, <1>15 DEF Extents!Next

LEMMA ReleaseRefines ==
  ASSUME IInv, IInv', CheckAndRelease
  PROVE  Extents!Next
<1>0. PICK p \in Pool, g \in 0 .. Depth : p = pool /\ g = allocs_to_go
  BY DEF IInv, TypeOK
<1> DEFINE c == g + 1
           n == RequestOf(c)
           t == Start(p) + Used(c)
           f == base_frame_no[p] + t
<1>1. /\ pc = "ascend" /\ pool' = pool /\ pool = p /\ allocs_to_go = g /\ g < Depth
      /\ c \in Level /\ UNCHANGED frame /\ Caller = c /\ Depth \in Nat
  BY <1>0, BootAssumption DEF CheckAndRelease, At, Level, Caller
<1>2. pc' = pc /\ allocs_to_go' = c
  BY <1>1 DEF CheckAndRelease, IInv, MemInv
<1>3. /\ Used(g) \in 0 .. Demand(Depth) /\ Used(c) \in 0 .. Demand(Depth)
      /\ Used(g) = Used(c) + n + 1 /\ n \in 1 .. 4
  <2>1. c \in 0 .. Depth /\ c - 1 = g /\ c > 0
    BY <1>1
  <2>2. QED
    BY <1>1, <2>1, UsedRange
<1>4. /\ t \in Nat /\ t + n + 1 < Limit(p) /\ t < t + n + 1
      /\ Start(p) + Used(g) = t + n + 1
  BY <1>3, Sizes
<1>5. frame[c] = f
  BY <1>1, <1>3, Sizes DEF IInv, StackInv
<1>6. /\ \A h \in Level : Live(h) <=> h > g
      /\ \A h \in Level : Live(h)' <=> h > c
      /\ \A h \in Level : h > g <=> h > c \/ h = c
  BY <1>1, <1>2 DEF Live, Level
<1>7. /\ heldBar[c] = f .. (f + n) /\ heldBar[c] # {}
      /\ heldBar' = [heldBar EXCEPT ![c] = {}]
  <2>1. heldBar[c] = f .. (f + n)
    BY <1>1, <1>5, <1>6 DEF heldBar, Extent, Window, RequestOf
  <2>2. f \in f .. (f + n)
    BY <1>3, <1>4, Sizes
  <2>3. \A h \in Level : heldBar'[h] = IF h = c THEN {} ELSE heldBar[h]
    BY <1>1, <1>6 DEF heldBar, Extent, Level
  <2>4. QED
    BY <1>1, <2>1, <2>2, <2>3 DEF heldBar
<1>8. FreeAboveStacks /\ FreeAboveStacks'
  BY <1>1, <1>2, FreeFramesAre, FreeFramesNext DEF BootPC
<1>9. \A q \in Pool : \A x \in FrameSet(q) :
        /\ x \in FreeFrames <=> AboveStack(q, x)
        /\ x \in FreeFrames' <=> AboveStack(q, x)'
  BY <1>8 DEF FreeAboveStacks, FrameSet
<1>10. /\ \A x \in FrameSet(p) : x \in f .. (f + n) <=> x \in FreeFrames' /\ x \notin FreeFrames
       /\ \A x \in FrameSet(p) : x \in FreeFrames => x \in FreeFrames'
  <2> SUFFICES ASSUME NEW x \in FrameSet(p)
               PROVE  /\ x \in f .. (f + n) <=> x \in FreeFrames' /\ x \notin FreeFrames
                      /\ x \in FreeFrames => x \in FreeFrames'
    OBVIOUS
  <2>1. x - base_frame_no[p] \in Int
    BY Sizes DEF FrameSet
  <2>2. AboveStack(p, x)' <=> x - base_frame_no[p] >= t /\ x - base_frame_no[p] \notin HoleEntries(p)
    BY <1>1, <1>2 DEF AboveStack, UsedOf, Used, Start, HoleEntries
  <2>3. AboveStack(p, x) <=> x - base_frame_no[p] >= t + n + 1 /\ x - base_frame_no[p] \notin HoleEntries(p)
    BY <1>1, <1>4 DEF AboveStack, UsedOf
  <2>4. x \in f .. (base_frame_no[p] + (t + n + 1) - 1) <=> AboveStack(p, x)' /\ ~AboveStack(p, x)
    BY <1>3, <1>4, <2>2, <2>3, Segment
  <2>5. base_frame_no[p] + (t + n + 1) - 1 = f + n
    BY <1>3, <1>4, Sizes
  <2>6. QED
    BY <1>3, <1>4, <1>9, <2>1, <2>2, <2>3, <2>4, <2>5
<1>11. \A q \in Pool \ {p} : \A x \in FrameSet(q) : x \in FreeFrames' <=> x \in FreeFrames
  <2> SUFFICES ASSUME NEW q \in Pool \ {p}, NEW x \in FrameSet(q)
               PROVE  AboveStack(q, x)' <=> AboveStack(q, x)
    BY <1>9
  <2>1. QED
    BY <1>1 DEF AboveStack, UsedOf, Start, HoleEntries
<1>12. f .. (f + n) \subseteq FrameSet(p)
  BY <1>3, <1>4, Sizes DEF FrameSet
<1>13. /\ \A x \in FreeFrames : \E q \in Pool : x \in FrameSet(q)
       /\ \A x \in FreeFrames' : \E q \in Pool : x \in FrameSet(q)
  BY DEF FreeFrames
<1>14. FreeFrames' = FreeFrames \cup f .. (f + n)
  BY <1>10, <1>11, <1>12, <1>13, FrameSets
<1>15. Extents!Release(c)
  BY <1>7, <1>14 DEF Extents!Release, heldBar
<1>16. QED
  BY <1>1, <1>15 DEF Extents!Next

(***************************************************************************)
(* For every layout and depth test_memory sees an allocator that keeps its *)
(* promise: each level owns its extent alone and gives back exactly it.    *)
(***************************************************************************)
THEOREM Refinement == Spec => ImplementsExtents
<1>1. Init => Extents!Init
  <2> SUFFICES ASSUME Init PROVE Extents!Init
    OBVIOUS
  <2>1. FreeFrames \in SUBSET MemFrame
    BY DEF FreeFrames
  <2>2. \A g \in Level : ~Live(g)
    BY DEF Init, Live
  <2>3. QED
    BY <2>1, <2>2 DEF Extents!Init
<1>2. IInv /\ IInv' /\ [Next]_vars => [Extents!Next]_(Extents!vars)
  <2> SUFFICES ASSUME IInv, IInv', [Next]_vars
               PROVE  Extents!Next \/ UNCHANGED Extents!vars
    OBVIOUS
  <2>1. CASE BootKernelPool \/ BootInfoFrames \/ BootProcessPool \/ BootHole
    <3>1. pc \in BootPC /\ allocs_to_go' = allocs_to_go
      BY <2>1 DEF BootKernelPool, BootInfoFrames, BootProcessPool, BootHole, At, BootPC, clientVars
    <3>2. QED
      BY <3>1, BootRefines DEF Extents!Next
  <2>2. CASE Allocate
    BY <2>2, AllocateRefines
  <2>3. CASE CheckAndRelease
    BY <2>3, ReleaseRefines
  <2>4. CASE TurnBack
    <3>1. \A g \in Level : Live(g)' <=> Live(g)
      BY <2>4 DEF TurnBack, At, Live
    <3>2. QED
      BY <2>4, <3>1, IdleRefines DEF TurnBack
  <2>5. CASE NextTest
    <3>1. \A g \in Level : Live(g)' <=> Live(g)
      BY <2>5, BootAssumption DEF NextTest, At, Live, Level
    <3>2. QED
      BY <2>5, <3>1, IdleRefines DEF NextTest
  <2>6. CASE UNCHANGED vars
    <3>1. \A g \in Level : Live(g)' <=> Live(g)
      BY <2>6 DEF vars, Live
    <3>2. QED
      BY <2>6, <3>1, IdleRefines DEF vars
  <2>7. QED
    BY <2>1, <2>2, <2>3, <2>4, <2>5, <2>6 DEF Next
<1>3. QED
  BY <1>1, <1>2, Inductive, PTL DEF Spec, ImplementsExtents, Extents!Spec
=============================================================================
