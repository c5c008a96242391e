----------------------------- MODULE FrameBitmap -----------------------------
(***************************************************************************)
(* The two-bit frame states of mp2/cont_frame_pool.C and the pure          *)
(* questions its functions ask of a bitmap.  A bitmap is a function from   *)
(* entry numbers to two-bit states.  Its domain is longer than the pool:   *)
(* the loops of get_frames and release_frames_from_pool read entries that  *)
(* follow the pool's last one in the info frame.                           *)
(***************************************************************************)
EXTENDS Integers

ALLOCATE_BUT_NOT_HEAD == 0
FREE                  == 1
ALLOCATE_AND_HEAD     == 2

\* What two bits can hold.  3 is never written, but memory that no
\* constructor initialised may hold it.
FrameState == 0 .. 3

\* isFree masks the state with FREE, so 3 reads as free as well.
isFree(bm, k) == bm[k] \in {FREE, 3}

\* The entries both loops of get_frames visit: their bound is j <= i + n, one
\* entry more than the n that were asked for, and it may lie behind the pool.
Window(i, n) == i .. (i + n)

\* The loops stop at i.
FitsAt(bm, i, n) == \A j \in Window(i, n) : isFree(bm, j)

\* i is the lowest of the pool's entries at which the loops of get_frames stop.
IsFirstFit(bm, size, i, n) ==
  /\ i \in 0 .. (size - 1)
  /\ FitsAt(bm, i, n)
  /\ \A k \in 0 .. (i - 1) : ~FitsAt(bm, k, n)

NoFit(bm, size, n) == \A i \in 0 .. (size - 1) : ~FitsAt(bm, i, n)

FirstFit(bm, size, n) == CHOOSE i \in 0 .. (size - 1) : IsFirstFit(bm, size, i, n)

\* Mutant of Occupy: only the first entry is marked.
OccupyFirstOnly(bm, S, first) ==
  [k \in DOMAIN bm |-> IF k \in S /\ k = first THEN ALLOCATE_AND_HEAD ELSE bm[k]]

\* bm after the entries of S are taken and the first of them marked as the head.
Occupy(bm, S, first) ==
  [k \in DOMAIN bm |->
     IF k \notin S THEN bm[k]
     ELSE IF k = first THEN ALLOCATE_AND_HEAD ELSE ALLOCATE_BUT_NOT_HEAD]

\* Mutants of IsReleaseEnd: the release leaves the last entry taken; it stops at
\* any head, so at the first entry already.
IsReleaseEndEarly(bm, i, e) ==
  /\ i <= e /\ e + 1 \in DOMAIN bm
  /\ isFree(bm, e + 1)
  /\ \A k \in i .. e : ~isFree(bm, k)

IsReleaseEndAtHead(bm, i, e) ==
  /\ i <= e
  /\ bm[e] # ALLOCATE_BUT_NOT_HEAD
  /\ \A k \in i .. (e - 1) : bm[k] = ALLOCATE_BUT_NOT_HEAD

\* e is the entry at which a release that starts at i stops: the first free one.
IsReleaseEnd(bm, i, e) ==
  /\ i <= e
  /\ isFree(bm, e)
  /\ \A k \in i .. (e - 1) : ~isFree(bm, k)

Vacate(bm, S) == [k \in DOMAIN bm |-> IF k \in S THEN FREE ELSE bm[k]]
==============================================================================
