---------------------------- MODULE FIFOScheduler ----------------------------
(***************************************************************************)
(* mp5 with the FIFO scheduler: scheduler.C, thread.C, threads_low.asm and *)
(* the thread functions of kernel.C.  One processor runs current_thread;   *)
(* every other thread has its context saved inside dispatch_to.  The timer *)
(* handler (SimpleTimer) touches none of this state, so interrupts appear  *)
(* only as the flag IF that yield sets and clears and asserts about.       *)
(***************************************************************************)
EXTENDS ReadyList

CONSTANTS
  Start,        \* thread1, thread2, ...: the order of kernel.C's main()
  Terminating,  \* the threads whose function returns
  Bursts        \* most bursts of a terminating function (10 in kernel.C)

ASSUME FIFOAssumption ==
  /\ Start \in Seq(Thread) /\ Len(Start) > 0
  /\ \A t \in Thread : \E k \in 1 .. Len(Start) : Start[k] = t
  /\ \A k, l \in 1 .. Len(Start) : Start[k] = Start[l] => k = l
  /\ Terminating \subseteq Thread
  /\ Bursts \in Nat

VARIABLES
  added,           \* how many of Start main() has handled
  current_thread,
  IF_flag,         \* the processor's interrupt flag
  saved_IF,        \* the flag in each thread's saved EFLAGS
  pc,              \* where each thread is
  node,            \* the local variable node of each thread's yield
  returned,        \* the threads whose function has returned
  burst,           \* the bursts a terminating thread has behind it
  fault            \* "none" or the assertion that stopped the machine

threadVars == <<saved_IF, pc, node, returned, burst>>
vars == <<listVars, added, current_thread, IF_flag, threadVars, fault>>

\* "new": never ran.  "burst": in its function.  "yield" .. "dispatch": the
\* statements of FIFOScheduler::yield.  "away": switched out in dispatch_to.
\* "back": dispatch_to has returned.
PC == {"new", "burst", "yield", "dequeue", "enable", "dispatch", "away", "back"}

Fault == {"none", "no ready thread", "interrupts", "dead thread runs"}

\* The nodes local variables point to.
Held == {node[t] : t \in Thread} \ {NULL}

Init ==
  /\ ListInit
  /\ added = 1
  /\ current_thread = NULL
  /\ IF_flag = FALSE
  /\ saved_IF = [t \in Thread |-> TRUE]    \* setup_context pushes EFLAGS with IF set
  /\ pc = [t \in Thread |-> "new"]
  /\ node = [t \in Thread |-> NULL]
  /\ returned = {}
  /\ burst = [t \in Thread |-> 0]
  /\ fault = "none"

------------------------------------------------------------------------------
(* main(): add thread2, thread3, ... and start thread1.                     *)

BootAdd ==
  /\ current_thread = NULL
  /\ added < Len(Start)
  /\ add(Start[added + 1], Held)
  /\ added' = added + 1
  /\ UNCHANGED <<current_thread, IF_flag, threadVars, fault>>

\* enable_interrupts, then dispatch_to(thread1): nothing to save, iret loads the
\* flag of the new thread.
KickOff ==
  /\ current_thread = NULL
  /\ added = Len(Start)
  /\ current_thread' = Start[1]
  /\ IF_flag' = saved_IF[Start[1]]
  /\ pc' = [pc EXCEPT ![Start[1]] = "burst"]
  /\ UNCHANGED <<listVars, added, saved_IF, node, returned, burst, fault>>

------------------------------------------------------------------------------

\* t runs at label l.
Runs(t, l) == current_thread = t /\ pc[t] = l /\ fault = "none"

\* Mutant of PassOn: the function makes one burst too many.
PassOnAgain(t) ==
  /\ Runs(t, "burst")
  /\ t \in Terminating => burst[t] <= Bursts
  /\ add(t, Held)
  /\ pc' = [pc EXCEPT ![t] = "yield"]
  /\ burst' = [burst EXCEPT ![t] = IF t \in Terminating THEN @ + 1 ELSE @]
  /\ UNCHANGED <<added, current_thread, IF_flag, saved_IF, node, returned, fault>>

\* pass_on_CPU: resume(CurrentThread()), then yield().
PassOn(t) ==
  /\ Runs(t, "burst")
  /\ t \in Terminating => burst[t] < Bursts
  /\ add(t, Held)
  /\ pc' = [pc EXCEPT ![t] = "yield"]
  /\ burst' = [burst EXCEPT ![t] = IF t \in Terminating THEN @ + 1 ELSE @]
  /\ UNCHANGED <<added, current_thread, IF_flag, saved_IF, node, returned, fault>>

\* Mutant of Finish: the thread that ends resumes itself.
FinishAndResume(t) ==
  /\ Runs(t, "burst")
  /\ t \in Terminating
  /\ add(t, Held)
  /\ returned' = returned \cup {t}
  /\ pc' = [pc EXCEPT ![t] = "yield"]
  /\ UNCHANGED <<added, current_thread, IF_flag, saved_IF, node, burst, fault>>

\* The function returns into thread_shutdown: terminate(CurrentThread()), which
\* yields without resuming the thread.
Finish(t) ==
  /\ Runs(t, "burst")
  /\ t \in Terminating
  /\ returned' = returned \cup {t}
  /\ pc' = [pc EXCEPT ![t] = "yield"]
  /\ UNCHANGED <<listVars, added, current_thread, IF_flag, saved_IF, node, burst, fault>>

\* Machine::disable_interrupts asserts that they are enabled.
YieldDisable(t) ==
  /\ Runs(t, "yield")
  /\ \/ /\ IF_flag
        /\ IF_flag' = FALSE
        /\ pc' = [pc EXCEPT ![t] = "dequeue"]
        /\ UNCHANGED fault
     \/ /\ ~IF_flag
        /\ fault' = "interrupts"
        /\ UNCHANGED <<IF_flag, pc>>
  /\ UNCHANGED <<listVars, added, current_thread, saved_IF, node, returned, burst>>

YieldDequeue(t) ==
  /\ Runs(t, "dequeue")
  /\ \/ /\ head = NULL
        /\ fault' = "no ready thread"
        /\ UNCHANGED <<listVars, node, pc>>
     \/ /\ node' = [node EXCEPT ![t] = head]
        /\ dequeue
        /\ pc' = [pc EXCEPT ![t] = "enable"]
        /\ UNCHANGED fault
  /\ UNCHANGED <<added, current_thread, IF_flag, saved_IF, returned, burst>>

\* Machine::enable_interrupts asserts that they are disabled.
YieldEnable(t) ==
  /\ Runs(t, "enable")
  /\ \/ /\ ~IF_flag
        /\ IF_flag' = TRUE
        /\ pc' = [pc EXCEPT ![t] = "dispatch"]
        /\ UNCHANGED fault
     \/ /\ IF_flag
        /\ fault' = "interrupts"
        /\ UNCHANGED <<IF_flag, pc>>
  /\ UNCHANGED <<listVars, added, current_thread, saved_IF, node, returned, burst>>

\* threads_low_switch_to: save t's flags, load those of the node's thread.  A
\* thread that never ran starts its function, any other one comes back from
\* its own dispatch_to.
Dispatch(t) ==
  /\ Runs(t, "dispatch")
  /\ LET to == thread[node[t]]
     IN  /\ current_thread' = to
         /\ saved_IF' = [saved_IF EXCEPT ![t] = IF_flag]
         /\ IF_flag' = saved_IF'[to]
         /\ pc' = [pc EXCEPT ![t] = "away",
                             ![to] = IF pc[to] = "new" THEN "burst" ELSE "back"]
  /\ UNCHANGED <<listVars, added, node, returned, burst, fault>>

\* Back from dispatch_to: release(node) does nothing.  A thread whose function
\* has returned would now go on in thread_shutdown, on a stack that has no
\* caller.
YieldReturn(t) ==
  /\ Runs(t, "back")
  /\ node' = [node EXCEPT ![t] = NULL]
  /\ \/ /\ t \notin returned
        /\ pc' = [pc EXCEPT ![t] = "burst"]
        /\ UNCHANGED fault
     \/ /\ t \in returned
        /\ fault' = "dead thread runs"
        /\ UNCHANGED pc
  /\ UNCHANGED <<listVars, added, current_thread, IF_flag, saved_IF, returned, burst>>

Step(t) ==
  \/ PassOn(t) \/ Finish(t) \/ YieldDisable(t) \/ YieldDequeue(t) \/ YieldEnable(t)
  \/ Dispatch(t) \/ YieldReturn(t)

Next == BootAdd \/ KickOff \/ \E t \in Thread : Step(t)

\* The processor always executes something: main() first, then the current
\* thread, whose bursts are finite loops.
Spec == Init /\ [][Next]_vars /\ WF_vars(Next)

------------------------------------------------------------------------------

TypeOK ==
  /\ ListTypeOK
  /\ added \in 1 .. Len(Start)
  /\ current_thread \in Thread \cup {NULL}
  /\ IF_flag \in BOOLEAN
  /\ saved_IF \in [Thread -> BOOLEAN]
  /\ pc \in [Thread -> PC]
  /\ node \in [Thread -> Node \cup {NULL}]
  /\ returned \subseteq Terminating
  /\ burst \in [Thread -> 0 .. Bursts]
  /\ fault \in Fault

\* The thread that runs has put itself on the list.
Resumed(t) ==
  current_thread = t /\ t \notin returned /\ pc[t] \in {"yield", "dequeue", "enable", "dispatch"}

\* The thread that the running one has taken off the list to dispatch it.
Picked(t) ==
  /\ current_thread # NULL
  /\ pc[current_thread] \in {"enable", "dispatch"}
  /\ thread[node[current_thread]] = t

Queued(t) == \E k \in DOMAIN queue : ReadyThreads[k] = t

(***************************************************************************)
(* No interleaving of bursts, yields and terminations loses a thread or    *)
(* makes it ready twice: once main() has started the threads, each one     *)
(* that has not returned is in exactly one of three places - running and   *)
(* not yet made ready again, on the list, or picked to run next - and on   *)
(* the list at most once.  tail is the last node whenever the list has one.*)
(***************************************************************************)
EachThreadOnce ==
  /\ IsList
  /\ queue # <<>> => tail = queue[Len(queue)]
  /\ \A k, l \in DOMAIN queue : ReadyThreads[k] = ReadyThreads[l] => k = l
  /\ \A t \in Thread : Picked(t) => ~Queued(t)
  /\ \A t \in returned : ~Queued(t) /\ ~Picked(t)
  /\ current_thread # NULL =>
       \A t \in Thread \ returned :
         IF t = current_thread /\ ~Resumed(t) THEN ~Queued(t) /\ ~Picked(t)
         ELSE Queued(t) \/ Picked(t)

(***************************************************************************)
(* While two threads never return no assertion of the kernel fails: yield  *)
(* always finds a thread, interrupts are enabled when it disables them,    *)
(* and no terminated thread is ever switched in again.                     *)
(***************************************************************************)
NoFault == fault = "none"

\* The refinement.  Between resume() and the context switch the running thread
\* is already on the list and the next one already off it; the abstract queue
\* changes with the context switch.
WithoutLast(s) == SubSeq(s, 1, Len(s) - 1)

PickedFirst ==
  IF current_thread # NULL /\ pc[current_thread] \in {"enable", "dispatch"}
  THEN <<thread[node[current_thread]]>> \o ReadyThreads
  ELSE ReadyThreads

readyBar ==
  IF current_thread # NULL /\ Resumed(current_thread) THEN WithoutLast(PickedFirst)
  ELSE PickedFirst

Turns == INSTANCE RoundRobin WITH running <- current_thread, ready <- readyBar

(***************************************************************************)
(* Threads run strictly in the order in which they became ready, and the   *)
(* turns never stop.                                                       *)
(***************************************************************************)
ImplementsRoundRobin == Turns!Spec

(***************************************************************************)
(* No thread that never returns starves, and every thread whose function   *)
(* returns gets to its end.                                                *)
(***************************************************************************)
NobodyStarves ==
  /\ \A t \in Thread \ Terminating : []<>(current_thread = t /\ pc[t] = "burst")
  /\ \A t \in Terminating : <>(t \in returned)
==============================================================================
