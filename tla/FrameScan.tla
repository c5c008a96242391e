------------------------------ MODULE FrameScan ------------------------------
(***************************************************************************)
(* ContFramePool::get_frames of mp2/cont_frame_pool.C, one loop iteration  *)
(* at a time: the search for a run of free entries, which restarts behind  *)
(* the entry that broke a run, and the loop that takes the run it found.   *)
(* ContFramePool uses the whole call as one action; this module shows what *)
(* that action may rely on.                                                *)
(***************************************************************************)
EXTENDS FrameBitmap

CONSTANTS PoolSize, LargestRequest

ASSUME ScanAssumption == PoolSize \in Nat \ {0} /\ LargestRequest \in Nat

\* The entries the loops read: the pool's and the LargestRequest that follow.
ScanEntry == 0 .. (PoolSize - 1 + LargestRequest)

VARIABLES
  before,            \* the bitmap when the call began (never changes)
  request,           \* the argument _n_frames
  entries,
  i, j,
  free_frames_flag,
  allocated,
  loop

scanVars == <<before, request, entries, i, j, free_frames_flag, allocated, loop>>

ScanInit ==
  /\ before \in [ScanEntry -> FrameState]
  /\ entries = before
  /\ request \in 0 .. LargestRequest
  /\ i = 0 /\ j = 0
  /\ free_frames_flag = TRUE
  /\ allocated = FALSE
  /\ loop = "outer"

\* Mutants of SkipTaken: i moves by two entries; i does not move.
SkipTwo ==
  /\ loop = "outer" /\ i < PoolSize /\ ~isFree(entries, i)
  /\ i' = i + 2
  /\ UNCHANGED <<before, request, entries, j, free_frames_flag, allocated, loop>>

SkipNone ==
  /\ loop = "outer" /\ i < PoolSize /\ ~isFree(entries, i)
  /\ UNCHANGED scanVars

\* while (i < n_frames), at an entry that is taken
SkipTaken ==
  /\ loop = "outer"
  /\ i < PoolSize
  /\ ~isFree(entries, i)
  /\ i' = i + 1
  /\ UNCHANGED <<before, request, entries, j, free_frames_flag, allocated, loop>>

\* Mutant of StartRun: the inner loop starts one entry early.
StartRunEarly ==
  /\ loop = "outer" /\ i < PoolSize /\ isFree(entries, i)
  /\ j' = i - 1
  /\ loop' = "inner"
  /\ UNCHANGED <<before, request, entries, i, free_frames_flag, allocated>>

\* while (i < n_frames), at a free entry: enter the inner loop
StartRun ==
  /\ loop = "outer"
  /\ i < PoolSize
  /\ isFree(entries, i)
  /\ j' = i
  /\ loop' = "inner"
  /\ UNCHANGED <<before, request, entries, i, free_frames_flag, allocated>>

\* for (j = i; j <= i + _n_frames; j++)
ExtendRun ==
  /\ loop = "inner"
  /\ j <= i + request
  /\ \/ /\ isFree(entries, j)
        /\ j' = j + 1
        /\ UNCHANGED <<free_frames_flag, loop>>
     \/ /\ ~isFree(entries, j)
        /\ free_frames_flag' = FALSE
        /\ loop' = "judge"
        /\ UNCHANGED j
  /\ UNCHANGED <<before, request, entries, i, allocated>>

RunComplete ==
  /\ loop = "inner"
  /\ j > i + request
  /\ loop' = "judge"
  /\ UNCHANGED <<before, request, entries, i, j, free_frames_flag, allocated>>

\* the two tests of free_frames_flag behind the inner loop
Judge ==
  /\ loop = "judge"
  /\ \/ /\ free_frames_flag
        /\ allocated' = TRUE
        /\ j' = i
        /\ loop' = "mark"
        /\ UNCHANGED <<i, free_frames_flag>>
     \/ /\ ~free_frames_flag
        /\ free_frames_flag' = TRUE
        /\ i' = j + 1
        /\ loop' = "outer"
        /\ UNCHANGED <<j, allocated>>
  /\ UNCHANGED <<before, request, entries>>

GiveUp ==
  /\ loop = "outer"
  /\ i >= PoolSize
  /\ loop' = "done"
  /\ UNCHANGED <<before, request, entries, i, j, free_frames_flag, allocated>>

\* for (j = i; j <= i + _n_frames; j++) allocate(j, j == i); allocate asserts
\* that the entry is free
Mark ==
  /\ loop = "mark"
  /\ \/ /\ j <= i + request
        /\ isFree(entries, j)
        /\ entries' = Occupy(entries, {j}, i)
        /\ j' = j + 1
        /\ UNCHANGED loop
     \/ /\ j <= i + request
        /\ ~isFree(entries, j)
        /\ loop' = "assert"
        /\ UNCHANGED <<entries, j>>
     \/ /\ j > i + request
        /\ loop' = "done"
        /\ UNCHANGED <<entries, j>>
  /\ UNCHANGED <<before, request, i, free_frames_flag, allocated>>

ScanNext ==
  \/ SkipTaken \/ StartRun \/ ExtendRun \/ RunComplete \/ Judge \/ GiveUp \/ Mark

\* One processor runs the loops and nothing preempts them.
ScanSpec == ScanInit /\ [][ScanNext]_scanVars /\ WF_scanVars(ScanNext)

------------------------------------------------------------------------------

ScanTypeOK ==
  /\ before \in [ScanEntry -> FrameState]
  /\ entries \in [ScanEntry -> FrameState]
  /\ request \in 0 .. LargestRequest
  /\ i \in Nat /\ j \in Nat
  /\ free_frames_flag \in BOOLEAN
  /\ allocated \in BOOLEAN
  /\ loop \in {"outer", "inner", "judge", "mark", "done", "assert"}

\* What the comment of get_frames asks the search for: n free entries of the
\* pool, here those from k on.
IsRun(bm, k, n) == k + n <= PoolSize /\ \A e \in k .. (k + n - 1) : isFree(bm, e)

\* A run that ends right before a taken entry.  The loops want one free entry
\* more and pass over it.
IsExactFit(bm, k, n) == IsRun(bm, k, n) /\ ~isFree(bm, k + n)

(***************************************************************************)
(* How far the search departs from the comment at cont_frame_pool.C:59-62, *)
(* which wants n free entries, the first marked as head and the n - 1 that *)
(* follow as allocated.  Although the search restarts behind the entry     *)
(* that broke a run, the runs it passes over, or fails in spite of, are    *)
(* exact fits and no others.  When it succeeds the n entries were free and *)
(* are marked as the comment says, the one that follows was free and is    *)
(* taken as well, and no other entry changes; a failed call changes none.  *)
(* The extent lies in the pool if the memory behind the pool's entries     *)
(* does not read as free; without that, its end may not.  The assertion in *)
(* allocate never fires.                                                   *)
(***************************************************************************)
OnlyExactFitsMissed ==
  /\ loop # "assert"
  /\ loop = "done" /\ allocated =>
       /\ \A k \in 0 .. (i - 1) : IsRun(before, k, request) => IsExactFit(before, k, request)
       /\ \A e \in Window(i, request) : isFree(before, e)
       /\ entries = Occupy(before, Window(i, request), i)
       /\ (\A e \in ScanEntry : e >= PoolSize => ~isFree(before, e)) => i + request < PoolSize
  /\ loop = "done" /\ ~allocated =>
       /\ \A k \in 0 .. (PoolSize - 1) :
            IsRun(before, k, request) => IsExactFit(before, k, request)
       /\ entries = before

(***************************************************************************)
(* The restart always moves i forward, so the two loops end.               *)
(***************************************************************************)
ScanTerminates == <>(loop = "done")
==============================================================================
