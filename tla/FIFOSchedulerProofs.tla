------------------------ MODULE FIFOSchedulerProofs ------------------------
(***************************************************************************)
(* Safety of the FIFO scheduler for any number of threads, any bursts and  *)
(* any supply of nodes, provided that two threads never return.            *)
(*                                                                         *)
(* EachThreadOnce alone is not inductive: add() hangs a node behind tail,  *)
(* and tail is the last node of the list only as long as the list has one. *)
(* The strengthening says that the list is never empty while threads run:  *)
(* of the two threads that never return at most one is running or picked,  *)
(* so the other one is on the list.                                        *)
(*                                                                         *)
(* For the turns of RoundRobin one more fact is needed, ResumedIsLast: a   *)
(* thread that has resumed itself and not yet been switched out is the     *)
(* last one on the list, so its turn ends where the abstract one does.     *)
(***************************************************************************)
EXTENDS FIFOScheduler, ReadyListProofs, SequenceTheorems

\* The condition all theorems need, two threads that stay.
TwoStay == \E u, v \in Thread \ Terminating : u # v

\* main() adds the threads in the order of Start.
Booting ==
  /\ queue = <<>> => tail = NULL
  /\ Len(queue) = added - 1
  /\ \A k \in 1 .. Len(queue) : thread[queue[k]] = Start[k + 1]
  /\ \A t \in Thread : pc[t] = "new"
  /\ returned = {}

InYield == {"yield", "dequeue", "enable", "dispatch"}

\* The threads run.
Running ==
  /\ added = Len(Start)
  /\ queue # <<>>
  /\ pc[current_thread] \in {"burst", "back"} \cup InYield
  /\ \A t \in Thread : t # current_thread => pc[t] \in {"new", "away"}
  /\ IF_flag = (pc[current_thread] \notin {"dequeue", "enable"})
  /\ current_thread \in returned => pc[current_thread] \in InYield
  /\ pc[current_thread] \in {"enable", "dispatch"} =>
       /\ node[current_thread] \in Node
       /\ thread[node[current_thread]] \in Thread

Places ==
  /\ \A t \in Thread : Picked(t) => ~Queued(t)
  /\ \A t \in returned : ~Queued(t) /\ ~Picked(t)
  /\ current_thread # NULL =>
       \A t \in Thread \ returned :
         IF t = current_thread /\ ~Resumed(t) THEN ~Queued(t) /\ ~Picked(t)
         ELSE Queued(t) \/ Picked(t)

IInv ==
  /\ TypeOK
  /\ NoFault
  /\ ListInv
  /\ \A t \in Thread : saved_IF[t] = TRUE
  /\ Places
  /\ current_thread = NULL => Booting
  /\ current_thread # NULL => Running

------------------------------------------------------------------------------
(* Who is where.                                                            *)

LEMMA QueuedIs ==
  ASSUME ListInv, NEW s
  PROVE  Queued(s) <=> \E k \in 1 .. Len(queue) : thread[queue[k]] = s
BY DEF ListInv, ListTypeOK, Queued, ReadyThreads

LEMMA QueuedIsNext ==
  ASSUME ListInv', NEW s
  PROVE  Queued(s)' <=> \E k \in 1 .. Len(queue') : thread'[queue'[k]] = s
BY DEF ListInv, ListTypeOK, Queued, ReadyThreads

LEMMA ListUnchanged ==
  ASSUME ListInv, UNCHANGED listVars
  PROVE  ListInv' /\ \A s : Queued(s)' <=> Queued(s)
BY DEF listVars, ListInv, ListTypeOK, IsList, TailIsLast, ThreadsOnList, Queued, ReadyThreads

\* What IInv says of a running thread.
LEMMA RunningThread ==
  ASSUME IInv, NEW t \in Thread, NEW l, Runs(t, l)
  PROVE  /\ current_thread = t /\ t # NULL /\ pc[t] = l /\ Running
         /\ pc \in [Thread -> PC] /\ node \in [Thread -> Node \cup {NULL}]
         /\ \A s \in Thread : s # t => pc[s] \in {"new", "away"}
BY ListAssumption DEF IInv, Runs, Running, TypeOK

\* A thread that runs, is not resumed and has not returned is nowhere else; any
\* other one that has not returned is on the list, when none is picked.
LEMMA AtBurst ==
  ASSUME IInv, NEW t \in Thread, Runs(t, "burst") \/ Runs(t, "back")
  PROVE  /\ t \notin returned
         /\ ~Queued(t)
         /\ \A s : ~Picked(s)
         /\ \A s \in Thread \ returned : s # t => Queued(s)
<1>1. PICK l \in {"burst", "back"} : Runs(t, l)
  OBVIOUS
<1>2. current_thread = t /\ t # NULL /\ pc[t] = l /\ Running
  BY <1>1, RunningThread
<1>3. t \notin returned
  BY <1>2 DEF Running, InYield
<1>4. \A s : ~Picked(s)
  BY <1>2 DEF Picked
<1>5. ~Resumed(t)
  BY <1>2 DEF Resumed
<1> QED
  BY <1>2, <1>3, <1>4, <1>5 DEF IInv, Places

LEMMA AtYield ==
  ASSUME IInv, NEW t \in Thread, Runs(t, "yield") \/ Runs(t, "dequeue")
  PROVE  /\ \A s : ~Picked(s)
         /\ \A s \in Thread \ returned : Queued(s)
<1>1. PICK l \in {"yield", "dequeue"} : Runs(t, l)
  OBVIOUS
<1>2. current_thread = t /\ t # NULL /\ pc[t] = l
  BY <1>1, RunningThread
<1>3. \A s : ~Picked(s)
  BY <1>2 DEF Picked
<1>4. t \notin returned => Resumed(t)
  BY <1>2 DEF Resumed
<1> QED
  BY <1>2, <1>3, <1>4 DEF IInv, Places

\* Of the two threads that stay both are on the list here.
LEMMA TwoOnList ==
  ASSUME TwoStay, IInv, NEW t \in Thread, Runs(t, "dequeue")
  PROVE  Len(queue) > 1
<1>1. PICK u \in Thread \ Terminating, v \in Thread \ Terminating : u # v
  BY DEF TwoStay
<1>2. returned \subseteq Terminating /\ ListInv
  BY DEF IInv, TypeOK
<1>3. Queued(u) /\ Queued(v)
  BY <1>1, <1>2, AtYield
<1>4. PICK k \in 1 .. Len(queue) : thread[queue[k]] = u
  BY <1>2, <1>3, QueuedIs
<1>5. PICK l \in 1 .. Len(queue) : thread[queue[l]] = v
  BY <1>2, <1>3, QueuedIs
<1>6. k # l /\ Len(queue) \in Nat
  BY <1>1, <1>2, <1>4, <1>5 DEF ListInv, ListTypeOK
<1> QED
  BY <1>6

------------------------------------------------------------------------------
(* IInv is inductive.                                                       *)

LEMMA InitOK == Init => IInv
<1> SUFFICES ASSUME Init PROVE IInv
  OBVIOUS
<1> USE DEF Init, ListInit
<1>1. TypeOK
  <2>1. ListTypeOK
    BY DEF ListTypeOK
  <2>2. added \in 1 .. Len(Start)
    BY FIFOAssumption
  <2>3. burst \in [Thread -> 0 .. Bursts]
    BY FIFOAssumption
  <2> QED
    BY <2>1, <2>2, <2>3 DEF TypeOK, PC, Fault
<1>2. ListInv
  BY <1>1 DEF TypeOK, ListInv, IsList, TailIsLast, ThreadsOnList
<1>3. \A s : ~Picked(s)
  BY DEF Picked
<1>4. Places
  BY <1>3 DEF Places
<1> QED
  BY <1>1, <1>2, <1>4 DEF IInv, NoFault, Booting

LEMMA BootAddOK == ASSUME IInv, BootAdd PROVE IInv'
<1>1. /\ current_thread = NULL /\ current_thread' = NULL
      /\ added < Len(Start) /\ added' = added + 1
      /\ add(Start[added + 1], Held)
      /\ UNCHANGED <<IF_flag, threadVars, fault>>
  BY DEF BootAdd
<1>2. TypeOK /\ ListInv /\ Booting /\ queue \in Seq(Node)
  BY <1>1 DEF IInv, ListInv, ListTypeOK
<1>3. /\ added \in Nat /\ added >= 1 /\ Len(queue) = added - 1 /\ Start \in Seq(Thread)
      /\ Start[added + 1] \in Thread
      /\ \A k, l \in 1 .. Len(Start) : Start[k] = Start[l] => k = l
      /\ \A k \in 1 .. Len(queue) : thread[queue[k]] = Start[k + 1]
  <2>1. added \in 1 .. Len(Start) /\ Start \in Seq(Thread)
    BY <1>2, FIFOAssumption DEF TypeOK
  <2>2. added + 1 \in 1 .. Len(Start)
    BY <2>1, <1>1
  <2>3. Start[added + 1] \in Thread
    BY <2>1, <2>2
  <2> QED
    BY <2>1, <2>3, <1>2, FIFOAssumption DEF Booting
<1>4. \A k \in 1 .. Len(queue) : thread[queue[k]] # Start[added + 1]
  BY <1>1, <1>3
<1>5. queue # <<>> \/ (head = NULL /\ tail = NULL)
  BY <1>2 DEF Booting, ListInv, IsList
<1>6. /\ ListInv' /\ Len(queue') = Len(queue) + 1
      /\ \A k \in 1 .. Len(queue) : thread'[queue'[k]] = thread[queue[k]]
      /\ thread'[queue'[Len(queue) + 1]] = Start[added + 1]
  BY <1>1, <1>2, <1>3, <1>4, <1>5, AddAppends
<1>7. TypeOK'
  <2>1. added' \in 1 .. Len(Start)
    BY <1>1, <1>3
  <2> QED
    BY <2>1, <1>1, <1>2, <1>6 DEF TypeOK, ListInv, threadVars
<1>8. Booting'
  <2>1. Len(queue') = added' - 1 /\ queue' # <<>>
    BY <1>1, <1>3, <1>6
  <2>2. ASSUME NEW k \in 1 .. Len(queue')
        PROVE  thread'[queue'[k]] = Start[k + 1]
    <3>1. k \in 1 .. Len(queue) \/ k = Len(queue) + 1
      BY <1>3, <1>6
    <3> QED
      BY <3>1, <1>3, <1>6
  <2> QED
    BY <2>1, <2>2, <1>1, <1>2 DEF Booting, threadVars
<1>9. Places'
  BY <1>1, <1>2 DEF Places, Picked, Booting, threadVars
<1> QED
  BY <1>1, <1>6, <1>7, <1>8, <1>9 DEF IInv, NoFault, threadVars

LEMMA KickOffOK == ASSUME TwoStay, IInv, KickOff PROVE IInv'
<1>1. /\ current_thread = NULL /\ added = Len(Start)
      /\ current_thread' = Start[1]
      /\ IF_flag' = saved_IF[Start[1]]
      /\ pc' = [pc EXCEPT ![Start[1]] = "burst"]
      /\ UNCHANGED <<listVars, added, saved_IF, node, returned, burst, fault>>
  BY DEF KickOff
<1>2. TypeOK /\ ListInv /\ Booting /\ queue \in Seq(Node) /\ Places
  BY <1>1 DEF IInv, ListInv, ListTypeOK
<1>3. /\ Start \in Seq(Thread) /\ Len(Start) \in Nat /\ Len(Start) > 0
      /\ \A t \in Thread : \E k \in 1 .. Len(Start) : Start[k] = t
      /\ \A k, l \in 1 .. Len(Start) : Start[k] = Start[l] => k = l
  BY FIFOAssumption
<1>4. Start[1] \in Thread /\ Start[1] # NULL
  BY <1>3, ListAssumption
<1>5. /\ Len(queue) = Len(Start) - 1
      /\ \A k \in 1 .. Len(queue) : thread[queue[k]] = Start[k + 1]
      /\ returned = {} /\ \A t \in Thread : pc[t] = "new"
  BY <1>1, <1>2 DEF Booting
<1>6. ListInv' /\ \A s : Queued(s)' <=> Queued(s)
  BY <1>1, <1>2, ListUnchanged
<1>7. pc'[Start[1]] = "burst" /\ \A t \in Thread : t # Start[1] => pc'[t] = "new"
  BY <1>1, <1>2, <1>4, <1>5 DEF TypeOK
<1>8. ~Queued(Start[1])
  <2>1. \A k \in 1 .. Len(queue) : k + 1 \in 1 .. Len(Start) /\ k + 1 # 1
    BY <1>3, <1>5
  <2>2. 1 \in 1 .. Len(Start)
    BY <1>3
  <2>3. \A k \in 1 .. Len(queue) : thread[queue[k]] # Start[1]
    BY <2>1, <2>2, <1>3, <1>5
  <2> QED
    BY <2>3, <1>2, QueuedIs
<1>9. ASSUME NEW s \in Thread, s # Start[1] PROVE Queued(s)
  <2>1. PICK k \in 1 .. Len(Start) : Start[k] = s
    BY <1>3
  <2>2. k # 1 /\ k - 1 \in 1 .. Len(queue)
    BY <2>1, <1>3, <1>5, <1>9
  <2>3. thread[queue[k - 1]] = s
    BY <2>1, <2>2, <1>5
  <2> QED
    BY <2>2, <2>3, <1>2, QueuedIs
<1>10. queue # <<>>
  <2>1. PICK u \in Thread, v \in Thread : u # v
    BY DEF TwoStay
  <2>2. PICK w \in Thread : w # Start[1]
    BY <2>1
  <2>3. PICK k \in 1 .. Len(queue) : thread[queue[k]] = w
    BY <2>2, <1>2, <1>9, QueuedIs
  <2> QED
    BY <2>3
<1>11. \A s : ~Picked(s)'
  BY <1>1, <1>7 DEF Picked
<1>12. Places'
  <2>1. ~Resumed(Start[1])'
    BY <1>1, <1>7 DEF Resumed
  <2> QED
    BY <2>1, <1>1, <1>5, <1>6, <1>8, <1>9, <1>11 DEF Places
<1>13. TypeOK'
  <2>1. IF_flag' \in BOOLEAN
    BY <1>1, <1>2, <1>4 DEF TypeOK
  <2>2. pc' \in [Thread -> PC]
    BY <1>1, <1>2 DEF TypeOK, PC
  <2> QED
    BY <2>1, <2>2, <1>1, <1>2, <1>4, <1>6 DEF TypeOK, ListInv
<1>14. Running'
  <2>1. IF_flag' = TRUE
    BY <1>1, <1>4 DEF IInv
  <2> QED
    BY <2>1, <1>1, <1>5, <1>7, <1>10 DEF Running, InYield, listVars
<1> QED
  BY <1>1, <1>4, <1>6, <1>12, <1>13, <1>14 DEF IInv, NoFault

LEMMA PassOnOK ==
  ASSUME IInv, NEW t \in Thread, PassOn(t)
  PROVE  IInv'
<1>1. /\ Runs(t, "burst")
      /\ t \in Terminating => burst[t] < Bursts
      /\ add(t, Held)
      /\ pc' = [pc EXCEPT ![t] = "yield"]
      /\ burst' = [burst EXCEPT ![t] = IF t \in Terminating THEN @ + 1 ELSE @]
      /\ UNCHANGED <<added, current_thread, IF_flag, saved_IF, node, returned, fault>>
  BY DEF PassOn
<1>2. /\ current_thread = t /\ t # NULL /\ pc[t] = "burst" /\ Running
      /\ pc \in [Thread -> PC]
      /\ \A s \in Thread : s # t => pc[s] \in {"new", "away"}
  BY <1>1, RunningThread
<1>3. t \notin returned /\ ~Queued(t) /\ \A s \in Thread \ returned : s # t => Queued(s)
  BY <1>1, AtBurst
<1>4. TypeOK /\ ListInv /\ Places
  BY DEF IInv
<1>5. queue # <<>> /\ \A k \in 1 .. Len(queue) : thread[queue[k]] # t
  BY <1>2, <1>3, <1>4, QueuedIs DEF Running
<1>6. /\ ListInv' /\ Len(queue') = Len(queue) + 1 /\ Len(queue) \in Nat
      /\ \A k \in 1 .. Len(queue) : thread'[queue'[k]] = thread[queue[k]]
      /\ thread'[queue'[Len(queue) + 1]] = t
  BY <1>1, <1>4, <1>5, AddAppends DEF ListInv, ListTypeOK
<1>7. \A s : Queued(s)' <=> Queued(s) \/ s = t
  <2> SUFFICES ASSUME NEW s PROVE Queued(s)' <=> Queued(s) \/ s = t
    OBVIOUS
  <2>1. \A k \in 1 .. Len(queue') : k \in 1 .. Len(queue) \/ k = Len(queue) + 1
    BY <1>6
  <2>2. \A k \in 1 .. Len(queue) : k \in 1 .. Len(queue')
    BY <1>6
  <2>3. Len(queue) + 1 \in 1 .. Len(queue')
    BY <1>6
  <2> QED
    BY <2>1, <2>2, <2>3, <1>4, <1>6, QueuedIs, QueuedIsNext
<1>8. pc'[t] = "yield" /\ \A s \in Thread : s # t => pc'[s] = pc[s]
  BY <1>1, <1>2
<1>9. \A s : ~Picked(s)'
  BY <1>1, <1>2, <1>8 DEF Picked
<1>10. Places'
  <2>1. \A s \in returned : ~Queued(s)'
    BY <1>3, <1>4, <1>7 DEF Places
  <2>2. Resumed(t)'
    BY <1>1, <1>2, <1>3, <1>8 DEF Resumed
  <2> QED
    BY <2>1, <2>2, <1>1, <1>2, <1>3, <1>7, <1>9 DEF Places
<1>11. TypeOK'
  <2>1. burst' \in [Thread -> 0 .. Bursts]
    <3>1. Bursts \in Nat /\ burst \in [Thread -> 0 .. Bursts]
      BY <1>4, FIFOAssumption DEF TypeOK
    <3>2. (IF t \in Terminating THEN burst[t] + 1 ELSE burst[t]) \in 0 .. Bursts
      BY <3>1, <1>1
    <3> QED
      BY <3>1, <3>2, <1>1
  <2>2. pc' \in [Thread -> PC]
    BY <1>1, <1>2 DEF PC
  <2> QED
    BY <2>1, <2>2, <1>1, <1>4, <1>6 DEF TypeOK, ListInv
<1>12. Running'
  <2>1. queue' # <<>>
    BY <1>6
  <2> QED
    BY <2>1, <1>1, <1>2, <1>3, <1>8 DEF Running, InYield
<1> QED
  BY <1>1, <1>2, <1>6, <1>10, <1>11, <1>12 DEF IInv, NoFault

LEMMA FinishOK ==
  ASSUME IInv, NEW t \in Thread, Finish(t)
  PROVE  IInv'
<1>1. /\ Runs(t, "burst") /\ t \in Terminating
      /\ returned' = returned \cup {t}
      /\ pc' = [pc EXCEPT ![t] = "yield"]
      /\ UNCHANGED <<listVars, added, current_thread, IF_flag, saved_IF, node, burst, fault>>
  BY DEF Finish
<1>2. /\ current_thread = t /\ t # NULL /\ pc[t] = "burst" /\ Running
      /\ pc \in [Thread -> PC]
      /\ \A s \in Thread : s # t => pc[s] \in {"new", "away"}
  BY <1>1, RunningThread
<1>3. t \notin returned /\ ~Queued(t) /\ \A s \in Thread \ returned : s # t => Queued(s)
  BY <1>1, AtBurst
<1>4. TypeOK /\ ListInv /\ Places
  BY DEF IInv
<1>5. ListInv' /\ \A s : Queued(s)' <=> Queued(s)
  BY <1>1, <1>4, ListUnchanged
<1>6. pc'[t] = "yield" /\ \A s \in Thread : s # t => pc'[s] = pc[s]
  BY <1>1, <1>2
<1>7. \A s : ~Picked(s)'
  BY <1>1, <1>2, <1>6 DEF Picked
<1>8. Places'
  BY <1>1, <1>2, <1>3, <1>4, <1>5, <1>7 DEF Places
<1>9. TypeOK'
  <2>1. pc' \in [Thread -> PC]
    BY <1>1, <1>2 DEF PC
  <2> QED
    BY <2>1, <1>1, <1>4, <1>5 DEF TypeOK, ListInv
<1>10. Running'
  BY <1>1, <1>2, <1>6 DEF Running, InYield, listVars
<1> QED
  BY <1>1, <1>2, <1>5, <1>8, <1>9, <1>10 DEF IInv, NoFault

\* The flag is set where yield disables interrupts and clear where it enables
\* them: the assertions hold.
LEMMA YieldDisableOK ==
  ASSUME IInv, NEW t \in Thread, YieldDisable(t)
  PROVE  IInv'
<1>1. /\ Runs(t, "yield")
      /\ UNCHANGED <<listVars, added, current_thread, saved_IF, node, returned, burst>>
  BY DEF YieldDisable
<1>2. /\ current_thread = t /\ t # NULL /\ pc[t] = "yield" /\ Running
      /\ pc \in [Thread -> PC]
      /\ \A s \in Thread : s # t => pc[s] \in {"new", "away"}
  BY <1>1, RunningThread
<1>3. IF_flag
  BY <1>2 DEF Running
<1>4. IF_flag' = FALSE /\ pc' = [pc EXCEPT ![t] = "dequeue"] /\ fault' = fault
  BY <1>3 DEF YieldDisable
<1>5. (\A s : ~Picked(s)) /\ \A s \in Thread \ returned : Queued(s)
  BY <1>1, AtYield
<1>6. TypeOK /\ ListInv /\ Places
  BY DEF IInv
<1>7. ListInv' /\ \A s : Queued(s)' <=> Queued(s)
  BY <1>1, <1>6, ListUnchanged
<1>8. pc'[t] = "dequeue" /\ \A s \in Thread : s # t => pc'[s] = pc[s]
  BY <1>2, <1>4
<1>9. \A s : ~Picked(s)'
  BY <1>1, <1>2, <1>8 DEF Picked
<1>10. Places'
  <2>1. t \notin returned => Resumed(t)'
    BY <1>1, <1>2, <1>8 DEF Resumed
  <2> QED
    BY <2>1, <1>1, <1>2, <1>5, <1>6, <1>7, <1>9 DEF Places
<1>11. TypeOK'
  <2>1. pc' \in [Thread -> PC]
    BY <1>2, <1>4 DEF PC
  <2> QED
    BY <2>1, <1>1, <1>4, <1>6, <1>7 DEF TypeOK, ListInv
<1>12. Running'
  BY <1>1, <1>2, <1>4, <1>8 DEF Running, InYield, listVars
<1> QED
  BY <1>1, <1>2, <1>4, <1>7, <1>10, <1>11, <1>12 DEF IInv, NoFault

LEMMA YieldDequeueOK ==
  ASSUME TwoStay, IInv, NEW t \in Thread, YieldDequeue(t)
  PROVE  IInv'
<1>1. /\ Runs(t, "dequeue")
      /\ UNCHANGED <<added, current_thread, IF_flag, saved_IF, returned, burst>>
  BY DEF YieldDequeue
<1>2. /\ current_thread = t /\ t # NULL /\ pc[t] = "dequeue" /\ Running
      /\ pc \in [Thread -> PC] /\ node \in [Thread -> Node \cup {NULL}]
      /\ \A s \in Thread : s # t => pc[s] \in {"new", "away"}
  BY <1>1, RunningThread
<1>3. (\A s : ~Picked(s)) /\ \A s \in Thread \ returned : Queued(s)
  BY <1>1, AtYield
<1>4. TypeOK /\ ListInv /\ Places /\ Len(queue) \in Nat
  BY DEF IInv, ListInv, ListTypeOK
<1>5. Len(queue) > 1
  BY <1>1, TwoOnList
<1> DEFINE p == thread[queue[1]]
<1>6. queue[1] \in Node /\ p \in Thread /\ head = queue[1] /\ head # NULL
  <2>1. 1 \in 1 .. Len(queue) /\ queue # <<>> /\ queue \in Seq(Node)
    BY <1>4, <1>5 DEF ListInv, ListTypeOK
  <2> QED
    BY <2>1, <1>4, ListAssumption DEF ListInv, IsList, ThreadsOnList
<1>7. /\ node' = [node EXCEPT ![t] = head] /\ dequeue
      /\ pc' = [pc EXCEPT ![t] = "enable"] /\ fault' = fault
  BY <1>6 DEF YieldDequeue
<1>8. /\ ListInv' /\ queue' # <<>> /\ Len(queue') = Len(queue) - 1
      /\ \A k \in 1 .. Len(queue') : queue'[k] = queue[k + 1]
      /\ thread' = thread
  BY <1>4, <1>5, <1>7, DequeueTakes
<1>9. Queued(p) /\ \A s : Queued(s)' <=> Queued(s) /\ s # p
  <2>1. 1 \in 1 .. Len(queue)
    BY <1>4, <1>5
  <2>2. Queued(p)
    BY <2>1, <1>4, QueuedIs
  <2>3. ASSUME NEW s, Queued(s)' PROVE Queued(s) /\ s # p
    <3>1. PICK k \in 1 .. Len(queue') : thread'[queue'[k]] = s
      BY <2>3, <1>8, QueuedIsNext
    <3>2. k + 1 \in 1 .. Len(queue) /\ k + 1 # 1 /\ thread[queue[k + 1]] = s
      BY <3>1, <1>4, <1>5, <1>8
    <3> QED
      BY <3>2, <2>1, <1>4, QueuedIs DEF ListInv, ThreadsOnList
  <2>4. ASSUME NEW s, Queued(s), s # p PROVE Queued(s)'
    <3>1. PICK k \in 1 .. Len(queue) : thread[queue[k]] = s
      BY <2>4, <1>4, QueuedIs
    <3>2. k # 1
      BY <3>1, <2>4
    <3>3. k - 1 \in 1 .. Len(queue') /\ (k - 1) + 1 = k
      BY <3>2, <1>4, <1>5, <1>8
    <3>4. thread'[queue'[k - 1]] = s
      BY <3>1, <3>3, <1>8
    <3> QED
      BY <3>3, <3>4, <1>8, QueuedIsNext
  <2> QED
    BY <2>2, <2>3, <2>4
<1>10. /\ pc'[t] = "enable" /\ \A s \in Thread : s # t => pc'[s] = pc[s]
       /\ node'[t] = queue[1]
  BY <1>2, <1>6, <1>7
<1>11. \A s : Picked(s)' <=> s = p
  BY <1>1, <1>2, <1>8, <1>10 DEF Picked
<1>12. Places'
  <2>1. \A s \in returned : ~Queued(s) /\ s # p
    BY <1>4, <1>9 DEF Places
  <2>2. t \notin returned => Resumed(t)'
    BY <1>1, <1>2, <1>10 DEF Resumed
  <2> QED
    BY <2>1, <2>2, <1>1, <1>2, <1>3, <1>9, <1>11 DEF Places
<1>13. TypeOK'
  <2>1. pc' \in [Thread -> PC] /\ node' \in [Thread -> Node \cup {NULL}]
    BY <1>2, <1>6, <1>7 DEF PC
  <2> QED
    BY <2>1, <1>1, <1>4, <1>7, <1>8 DEF TypeOK, ListInv
<1>14. Running'
  BY <1>1, <1>2, <1>6, <1>8, <1>10 DEF Running, InYield
<1> QED
  BY <1>1, <1>2, <1>7, <1>8, <1>12, <1>13, <1>14 DEF IInv, NoFault

LEMMA YieldEnableOK ==
  ASSUME IInv, NEW t \in Thread, YieldEnable(t)
  PROVE  IInv'
<1>1. /\ Runs(t, "enable")
      /\ UNCHANGED <<listVars, added, current_thread, saved_IF, node, returned, burst>>
  BY DEF YieldEnable
<1>2. /\ current_thread = t /\ t # NULL /\ pc[t] = "enable" /\ Running
      /\ pc \in [Thread -> PC]
      /\ \A s \in Thread : s # t => pc[s] \in {"new", "away"}
  BY <1>1, RunningThread
<1>3. ~IF_flag
  BY <1>2 DEF Running
<1>4. IF_flag' = TRUE /\ pc' = [pc EXCEPT ![t] = "dispatch"] /\ fault' = fault
  BY <1>3 DEF YieldEnable
<1>5. TypeOK /\ ListInv /\ Places
  BY DEF IInv
<1>6. ListInv' /\ \A s : Queued(s)' <=> Queued(s)
  BY <1>1, <1>5, ListUnchanged
<1>7. pc'[t] = "dispatch" /\ \A s \in Thread : s # t => pc'[s] = pc[s]
  BY <1>2, <1>4
<1>8. \A s : Picked(s)' <=> Picked(s)
  BY <1>1, <1>2, <1>7 DEF Picked, listVars
<1>9. \A s : Resumed(s)' <=> Resumed(s)
  BY <1>1, <1>2, <1>7 DEF Resumed
<1>10. Places'
  BY <1>1, <1>5, <1>6, <1>8, <1>9 DEF Places
<1>11. TypeOK'
  <2>1. pc' \in [Thread -> PC]
    BY <1>2, <1>4 DEF PC
  <2> QED
    BY <2>1, <1>1, <1>4, <1>5, <1>6 DEF TypeOK, ListInv
<1>12. Running'
  BY <1>1, <1>2, <1>4, <1>7 DEF Running, InYield, listVars
<1> QED
  BY <1>1, <1>2, <1>4, <1>6, <1>10, <1>11, <1>12 DEF IInv, NoFault

LEMMA DispatchOK ==
  ASSUME IInv, NEW t \in Thread, Dispatch(t)
  PROVE  IInv'
<1>0. PICK to \in Thread : to = thread[node[t]]
  BY RunningThread DEF Running, Dispatch, Runs
<1>1. /\ Runs(t, "dispatch")
      /\ current_thread' = to
      /\ saved_IF' = [saved_IF EXCEPT ![t] = IF_flag]
      /\ IF_flag' = saved_IF'[to]
      /\ pc' = [pc EXCEPT ![t] = "away",
                          ![to] = IF pc[to] = "new" THEN "burst" ELSE "back"]
      /\ UNCHANGED <<listVars, added, node, returned, burst, fault>>
  BY <1>0 DEF Dispatch
<1>2. /\ current_thread = t /\ t # NULL /\ pc[t] = "dispatch" /\ Running
      /\ pc \in [Thread -> PC]
      /\ \A s \in Thread : s # t => pc[s] \in {"new", "away"}
  BY <1>1, RunningThread
<1>3. TypeOK /\ ListInv /\ Places
  BY DEF IInv
<1>4. to # NULL /\ IF_flag = TRUE
  BY <1>0, <1>2, ListAssumption DEF Running
<1>5. \A s : Picked(s) <=> s = to
  BY <1>0, <1>2 DEF Picked
<1>6. to \notin returned /\ ~Queued(to)
  BY <1>3, <1>4, <1>5 DEF Places
<1>7. \A s \in Thread \ returned : s # to => Queued(s)
  <2>1. t \notin returned => Resumed(t)
    BY <1>2 DEF Resumed
  <2> QED
    BY <2>1, <1>2, <1>3, <1>5 DEF Places
<1>8. ListInv' /\ \A s : Queued(s)' <=> Queued(s)
  BY <1>1, <1>3, ListUnchanged
<1>9. /\ pc'[to] \in {"burst", "back"}
      /\ \A s \in Thread : s # to => pc'[s] \in {"new", "away"}
  BY <1>1, <1>2, <1>4
<1>10. (\A s : ~Picked(s)') /\ ~Resumed(to)'
  BY <1>1, <1>9 DEF Picked, Resumed
<1>11. Places'
  BY <1>1, <1>3, <1>6, <1>7, <1>8, <1>10 DEF Places
<1>12. saved_IF' \in [Thread -> BOOLEAN] /\ \A s \in Thread : saved_IF'[s] = TRUE
  BY <1>1, <1>3, <1>4 DEF IInv, TypeOK
<1>13. IF_flag' = TRUE
  BY <1>1, <1>4, <1>12
<1>14. TypeOK'
  <2>1. pc' \in [Thread -> PC]
    BY <1>1, <1>2, <1>4 DEF PC
  <2> QED
    BY <2>1, <1>1, <1>3, <1>4, <1>8, <1>12, <1>13 DEF TypeOK, ListInv
<1>15. Running'
  BY <1>1, <1>2, <1>6, <1>9, <1>13 DEF Running, InYield, listVars
<1> QED
  BY <1>1, <1>4, <1>8, <1>11, <1>12, <1>14, <1>15 DEF IInv, NoFault

LEMMA YieldReturnOK ==
  ASSUME IInv, NEW t \in Thread, YieldReturn(t)
  PROVE  IInv'
<1>1. /\ Runs(t, "back")
      /\ node' = [node EXCEPT ![t] = NULL]
      /\ UNCHANGED <<listVars, added, current_thread, IF_flag, saved_IF, returned, burst>>
  BY DEF YieldReturn
<1>2. /\ current_thread = t /\ t # NULL /\ pc[t] = "back" /\ Running
      /\ pc \in [Thread -> PC] /\ node \in [Thread -> Node \cup {NULL}]
      /\ \A s \in Thread : s # t => pc[s] \in {"new", "away"}
  BY <1>1, RunningThread
<1>3. t \notin returned /\ ~Queued(t) /\ \A s \in Thread \ returned : s # t => Queued(s)
  BY <1>1, AtBurst
<1>4. pc' = [pc EXCEPT ![t] = "burst"] /\ fault' = fault
  BY <1>3 DEF YieldReturn
<1>5. TypeOK /\ ListInv /\ Places
  BY DEF IInv
<1>6. ListInv' /\ \A s : Queued(s)' <=> Queued(s)
  BY <1>1, <1>5, ListUnchanged
<1>7. pc'[t] = "burst" /\ \A s \in Thread : s # t => pc'[s] = pc[s]
  BY <1>2, <1>4
<1>8. (\A s : ~Picked(s)') /\ ~Resumed(t)'
  BY <1>1, <1>2, <1>7 DEF Picked, Resumed
<1>9. Places'
  BY <1>1, <1>2, <1>3, <1>5, <1>6, <1>8 DEF Places
<1>10. TypeOK'
  <2>1. pc' \in [Thread -> PC] /\ node' \in [Thread -> Node \cup {NULL}]
    BY <1>1, <1>2, <1>4 DEF PC
  <2> QED
    BY <2>1, <1>1, <1>4, <1>5, <1>6 DEF TypeOK, ListInv
<1>11. Running'
  BY <1>1, <1>2, <1>3, <1>7 DEF Running, InYield, listVars
<1> QED
  BY <1>1, <1>2, <1>4, <1>6, <1>9, <1>10, <1>11 DEF IInv, NoFault

LEMMA StutterOK == ASSUME IInv, UNCHANGED vars PROVE IInv'
<1>1. ListInv' /\ \A s : Queued(s)' <=> Queued(s)
  BY ListUnchanged DEF IInv, vars
<1>2. \A s : (Picked(s)' <=> Picked(s)) /\ (Resumed(s)' <=> Resumed(s))
  BY DEF Picked, Resumed, vars, listVars, threadVars
<1>3. Places'
  BY <1>1, <1>2 DEF IInv, Places, vars, threadVars
<1> QED
  BY <1>1, <1>3 DEF IInv, TypeOK, ListInv, NoFault, Booting, Running, vars, listVars, threadVars

\* IInv holds in every reachable state when two threads stay.
THEOREM Inductive == ASSUME TwoStay PROVE Spec => []IInv
<1>1. Init => IInv
  BY InitOK
<1>2. IInv /\ [Next]_vars => IInv'
  <2> SUFFICES ASSUME IInv, [Next]_vars PROVE IInv'
    OBVIOUS
  <2>1. CASE BootAdd
    BY <2>1, BootAddOK
  <2>2. CASE KickOff
    BY <2>2, KickOffOK
  <2>3. ASSUME NEW t \in Thread, Step(t) PROVE IInv'
    BY <2>3, PassOnOK, FinishOK, YieldDisableOK, YieldDequeueOK, YieldEnableOK, DispatchOK,
       YieldReturnOK DEF Step
  <2>4. CASE UNCHANGED vars
    BY <2>4, StutterOK
  <2> QED
    BY <2>1, <2>2, <2>3, <2>4 DEF Next
<1> QED
  BY <1>1, <1>2, PTL DEF Spec

\* Type correctness of the scheduler's state (FIFOScheduler, Thread, yield).
THEOREM TypeCorrect == ASSUME TwoStay PROVE Spec => []TypeOK
<1>1. IInv => TypeOK
  BY DEF IInv
<1> QED
  BY <1>1, Inductive, PTL

\* No run of resume, yield and terminate loses a thread or queues it twice.
THEOREM NoThreadLost == ASSUME TwoStay PROVE Spec => []EachThreadOnce
<1>1. IInv => EachThreadOnce
  <2> SUFFICES ASSUME IInv PROVE EachThreadOnce
    OBVIOUS
  <2>1. queue \in Seq(Node) /\ ListInv /\ Places
    BY DEF IInv, ListInv, ListTypeOK
  <2>2. \A k, l \in DOMAIN queue : ReadyThreads[k] = ReadyThreads[l] => k = l
    BY <2>1 DEF ListInv, ThreadsOnList, ReadyThreads
  <2> QED
    BY <2>1, <2>2 DEF EachThreadOnce, ListInv, TailIsLast, Places
<1> QED
  BY <1>1, Inductive, PTL

\* yield always finds a ready thread, its interrupt assertions hold, and a
\* thread that has terminated is never switched in again.
THEOREM Assertions == ASSUME TwoStay PROVE Spec => []NoFault
<1>1. IInv => NoFault
  BY DEF IInv
<1> QED
  BY <1>1, Inductive, PTL

------------------------------------------------------------------------------
(* The threads take turns.                                                  *)

\* A thread that has resumed itself is the last one on the list.
ResumedIsLast == \A t \in Thread : Resumed(t) => thread[queue[Len(queue)]] = t

TInv == IInv /\ ResumedIsLast

\* The threads of the nodes of a list.
LEMMA ThreadsOf ==
  ASSUME NEW q \in Seq(Node), NEW th, \A k \in 1 .. Len(q) : th[q[k]] \in Thread,
         NEW r, r = [k \in DOMAIN q |-> th[q[k]]]
  PROVE  /\ r \in Seq(Thread) /\ Len(r) = Len(q) /\ Len(q) \in Nat
         /\ \A k \in 1 .. Len(q) : r[k] = th[q[k]]
<1>1. Len(q) \in Nat /\ DOMAIN q = 1 .. Len(q)
  BY LenProperties
<1> DEFINE n == Len(q)
           f == [k \in 1 .. n |-> th[q[k]]]
<1>2. r = f
  BY <1>1
<1> HIDE DEF n
<1>3. n \in Nat /\ \A k \in 1 .. n : th[q[k]] \in Thread
  BY <1>1 DEF n
<1>4. f \in Seq(Thread) /\ Len(f) = n /\ \A k \in 1 .. n : f[k] = th[q[k]]
  BY <1>3
<1> QED
  BY <1>1, <1>2, <1>4 DEF n

LEMMA ReadySeq ==
  ASSUME ListInv
  PROVE  /\ ReadyThreads \in Seq(Thread) /\ Len(ReadyThreads) = Len(queue) /\ Len(queue) \in Nat
         /\ \A k \in 1 .. Len(queue) : ReadyThreads[k] = thread[queue[k]]
BY ThreadsOf DEF ReadyThreads, ListInv, ListTypeOK, ThreadsOnList

LEMMA ReadySeqNext ==
  ASSUME ListInv'
  PROVE  /\ ReadyThreads' \in Seq(Thread) /\ Len(ReadyThreads') = Len(queue') /\ Len(queue') \in Nat
         /\ \A k \in 1 .. Len(queue') : ReadyThreads'[k] = thread'[queue'[k]]
BY ThreadsOf DEF ReadyThreads, ListInv, ListTypeOK, ThreadsOnList

\* add() appends to the ready threads.
LEMMA Appended ==
  ASSUME ListInv, ListInv', NEW t \in Thread, Len(queue') = Len(queue) + 1,
         \A k \in 1 .. Len(queue) : thread'[queue'[k]] = thread[queue[k]],
         thread'[queue'[Len(queue) + 1]] = t
  PROVE  ReadyThreads' = Append(ReadyThreads, t)
<1>1. /\ ReadyThreads \in Seq(Thread) /\ Len(ReadyThreads) = Len(queue) /\ Len(queue) \in Nat
      /\ \A k \in 1 .. Len(queue) : ReadyThreads[k] = thread[queue[k]]
  BY ReadySeq
<1>2. /\ ReadyThreads' \in Seq(Thread) /\ Len(ReadyThreads') = Len(queue')
      /\ \A k \in 1 .. Len(queue') : ReadyThreads'[k] = thread'[queue'[k]]
  BY ReadySeqNext
<1> DEFINE a == Append(ReadyThreads, t)
<1>3. /\ a \in Seq(Thread) /\ Len(a) = Len(queue) + 1 /\ a[Len(queue) + 1] = t
      /\ \A k \in 1 .. Len(queue) : a[k] = ReadyThreads[k]
  BY <1>1, AppendProperties
<1> HIDE DEF a
<1>4. ASSUME NEW k \in 1 .. Len(a) PROVE a[k] = ReadyThreads'[k]
  <2>1. k \in 1 .. Len(queue) \/ k = Len(queue) + 1
    BY <1>1, <1>3
  <2>2. k \in 1 .. Len(queue')
    BY <1>3
  <2> QED
    BY <2>1, <2>2, <1>1, <1>2, <1>3
<1> QED
  BY <1>2, <1>3, <1>4, SeqEqual DEF a

\* A sequence without its last element, and with it again.
LEMMA LastOff ==
  ASSUME NEW S, NEW s \in Seq(S), NEW e \in S
  PROVE  /\ s # <<>> /\ s[Len(s)] = e => s = Append(WithoutLast(s), e)
         /\ WithoutLast(Append(s, e)) = s
<1>1. WithoutLast(Append(s, e)) = s
  <2>1. /\ Append(s, e) \in Seq(S) /\ Len(Append(s, e)) = Len(s) + 1 /\ Len(s) \in Nat
        /\ \A i \in 1 .. Len(s) : Append(s, e)[i] = s[i]
    BY AppendProperties, LenProperties
  <2>2. /\ WithoutLast(Append(s, e)) \in Seq(S)
        /\ Len(WithoutLast(Append(s, e))) = Len(s)
        /\ \A i \in 1 .. Len(s) : WithoutLast(Append(s, e))[i] = s[i]
    BY <2>1 DEF WithoutLast
  <2> QED
    BY <2>2, SeqEqual
<1>2. ASSUME s # <<>>, s[Len(s)] = e PROVE s = Append(WithoutLast(s), e)
  <2>1. PICK u \in Seq(S), f \in S : s = Append(u, f)
    BY <1>2, SequenceEmptyOrAppend
  <2>2. f = e /\ WithoutLast(s) = u
    <3>1. Append(u, f)[Len(u) + 1] = f /\ Len(Append(u, f)) = Len(u) + 1
      BY AppendProperties
    <3>2. /\ Append(u, f) \in Seq(S) /\ Len(u) \in Nat
          /\ \A i \in 1 .. Len(u) : Append(u, f)[i] = u[i]
      BY AppendProperties, LenProperties
    <3>3. /\ WithoutLast(Append(u, f)) \in Seq(S)
          /\ Len(WithoutLast(Append(u, f))) = Len(u)
          /\ \A i \in 1 .. Len(u) : WithoutLast(Append(u, f))[i] = u[i]
      BY <3>1, <3>2 DEF WithoutLast
    <3>4. WithoutLast(Append(u, f)) = u
      BY <3>3, SeqEqual
    <3> QED
      BY <2>1, <3>1, <3>4, <1>2
  <2> QED
    BY <2>1, <2>2
<1> QED
  BY <1>1, <1>2

\* An element in front of a sequence.
LEMMA InFront ==
  ASSUME NEW S, NEW s \in Seq(S), NEW e \in S
  PROVE  /\ <<e>> \o s \in Seq(S) /\ <<e>> \o s # <<>>
         /\ Head(<<e>> \o s) = e /\ Tail(<<e>> \o s) = s
         /\ Len(<<e>> \o s) = Len(s) + 1
         /\ \A i \in 1 .. Len(s) : (<<e>> \o s)[i + 1] = s[i]
<1>1. <<e>> \in Seq(S) /\ Len(<<e>>) = 1 /\ <<e>>[1] = e /\ Len(s) \in Nat
  BY LenProperties
<1>2. /\ <<e>> \o s \in Seq(S) /\ Len(<<e>> \o s) = 1 + Len(s)
      /\ \A i \in 1 .. 1 + Len(s) : (<<e>> \o s)[i] = IF i <= 1 THEN <<e>>[i] ELSE s[i - 1]
  BY <1>1, ConcatProperties
<1> DEFINE c == <<e>> \o s
<1>3. c \in Seq(S) /\ Len(c) = Len(s) + 1 /\ c[1] = e /\ \A i \in 1 .. Len(s) : c[i + 1] = s[i]
  BY <1>1, <1>2
<1> HIDE DEF c
<1>4. c # <<>>
  BY <1>1, <1>3
<1>5. Head(c) = e
  BY <1>3, <1>4
<1>6. Tail(c) = s
  <2>1. /\ Tail(c) \in Seq(S) /\ Len(Tail(c)) = Len(s)
        /\ \A i \in 1 .. Len(s) : Tail(c)[i] = s[i]
    BY <1>1, <1>3, <1>4, HeadTailProperties
  <2> QED
    BY <2>1, SeqEqual
<1> QED
  BY <1>3, <1>4, <1>5, <1>6 DEF c

LEMMA InFrontOfTail ==
  ASSUME NEW S, NEW s \in Seq(S), s # <<>>
  PROVE  s = <<Head(s)>> \o Tail(s)
<1>1. Len(s) \in Nat \ {0}
  BY EmptySeq
<1>2. 1 \in 1 .. Len(s) /\ Len(s) \in 1 .. Len(s) /\ s[1] = Head(s)
  BY <1>1
<1>3. SubSeq(s, 1, Len(s)) = <<s[1]>> \o SubSeq(s, 2, Len(s))
  BY <1>1, <1>2, SubSeqRecursiveFirst
<1> QED
  BY <1>2, <1>3, SubSeqFull, TailIsSubSeq

\* A step of t that leaves the list and the running thread alone, and t
\* resumed or not as it was.
LEMMA SameTurn ==
  ASSUME TInv, NEW t \in Thread, current_thread = t,
         UNCHANGED <<listVars, current_thread>>, Resumed(t)' <=> Resumed(t),
         \A s \in Thread : s # t => pc'[s] = pc[s],
         pc[t] \in {"enable", "dispatch"} <=> pc'[t] \in {"enable", "dispatch"},
         node'[t] = node[t] \/ pc[t] \notin {"enable", "dispatch"}
  PROVE  ResumedIsLast' /\ readyBar' = readyBar
<1>1. \A s \in Thread : s # t => ~Resumed(s)'
  BY DEF Resumed
<1>2. ResumedIsLast'
  BY <1>1 DEF TInv, ResumedIsLast, listVars
<1>3. ReadyThreads' = ReadyThreads
  BY DEF ReadyThreads, listVars
<1>4. PickedFirst' = PickedFirst
  BY <1>3 DEF PickedFirst, listVars
<1> QED
  BY <1>2, <1>4 DEF readyBar

\* Before the threads run the abstract queue is the list.
LEMMA BootAddTurn ==
  ASSUME TInv, BootAdd
  PROVE  ResumedIsLast' /\ Turns!Admit(Start[added + 1]) /\ Start[added + 1] \in Thread
<1>1. /\ current_thread = NULL /\ current_thread' = NULL
      /\ added < Len(Start)
      /\ add(Start[added + 1], Held)
  BY DEF BootAdd
<1>2. TypeOK /\ ListInv /\ Booting /\ queue \in Seq(Node)
  BY <1>1 DEF TInv, IInv, ListInv, ListTypeOK
<1>3. /\ Start[added + 1] \in Thread
      /\ \A k \in 1 .. Len(queue) : thread[queue[k]] # Start[added + 1]
  <2>1. added \in 1 .. Len(Start) /\ Start \in Seq(Thread) /\ Len(queue) = added - 1
    BY <1>2, FIFOAssumption DEF TypeOK, Booting
  <2>2. added + 1 \in 1 .. Len(Start)
    BY <2>1, <1>1
  <2>3. \A k \in 1 .. Len(queue) : k + 1 \in 1 .. Len(Start) /\ k + 1 # added + 1
    BY <2>1, <2>2
  <2>4. \A k \in 1 .. Len(queue) : thread[queue[k]] = Start[k + 1]
    BY <1>2 DEF Booting
  <2> QED
    BY <2>1, <2>2, <2>3, <2>4, FIFOAssumption
<1>4. queue # <<>> \/ (head = NULL /\ tail = NULL)
  BY <1>2 DEF Booting, ListInv, IsList
<1>5. /\ ListInv' /\ Len(queue') = Len(queue) + 1
      /\ \A k \in 1 .. Len(queue) : thread'[queue'[k]] = thread[queue[k]]
      /\ thread'[queue'[Len(queue) + 1]] = Start[added + 1]
  BY <1>1, <1>2, <1>3, <1>4, AddAppends
<1>6. ReadyThreads' = Append(ReadyThreads, Start[added + 1])
  BY <1>2, <1>3, <1>5, Appended
<1>7. readyBar = ReadyThreads /\ readyBar' = ReadyThreads'
  BY <1>1 DEF readyBar, PickedFirst
<1>8. ResumedIsLast'
  BY <1>1, ListAssumption DEF ResumedIsLast, Resumed
<1> QED
  BY <1>1, <1>3, <1>6, <1>7, <1>8 DEF Turns!Admit

LEMMA KickOffTurn ==
  ASSUME TInv, KickOff
  PROVE  ResumedIsLast' /\ Turns!Begin(Start[1]) /\ Start[1] \in Thread
<1>1. /\ current_thread = NULL /\ current_thread' = Start[1]
      /\ pc' = [pc EXCEPT ![Start[1]] = "burst"]
      /\ UNCHANGED listVars
  BY DEF KickOff
<1>2. Start[1] \in Thread /\ pc \in [Thread -> PC]
  <2>1. Start \in Seq(Thread) /\ Len(Start) > 0 /\ Len(Start) \in Nat
    BY FIFOAssumption
  <2> QED
    BY <2>1 DEF TInv, IInv, TypeOK
<1>3. pc'[Start[1]] = "burst"
  BY <1>1, <1>2
<1>4. readyBar = ReadyThreads /\ readyBar' = ReadyThreads'
  BY <1>1, <1>3 DEF readyBar, PickedFirst, Resumed
<1>5. ReadyThreads' = ReadyThreads
  BY <1>1 DEF ReadyThreads, listVars
<1>6. ResumedIsLast'
  BY <1>1, <1>3 DEF ResumedIsLast, Resumed
<1> QED
  BY <1>1, <1>2, <1>4, <1>5, <1>6 DEF Turns!Begin

\* resume() puts the running thread on the list, and the abstract queue does
\* not change yet.
LEMMA PassOnTurn ==
  ASSUME TInv, NEW t \in Thread, PassOn(t)
  PROVE  ResumedIsLast' /\ UNCHANGED <<current_thread, readyBar>>
<1>1. /\ Runs(t, "burst") /\ add(t, Held)
      /\ pc' = [pc EXCEPT ![t] = "yield"]
      /\ UNCHANGED <<current_thread, returned>>
  BY DEF PassOn
<1>2. /\ current_thread = t /\ t # NULL /\ pc[t] = "burst" /\ Running
      /\ pc \in [Thread -> PC] /\ ListInv
  BY <1>1, RunningThread DEF TInv, IInv
<1>3. t \notin returned /\ ~Queued(t)
  BY <1>1, AtBurst DEF TInv
<1>4. queue # <<>> /\ \A k \in 1 .. Len(queue) : thread[queue[k]] # t
  BY <1>2, <1>3, QueuedIs DEF Running
<1>5. /\ ListInv' /\ Len(queue') = Len(queue) + 1
      /\ \A k \in 1 .. Len(queue) : thread'[queue'[k]] = thread[queue[k]]
      /\ thread'[queue'[Len(queue) + 1]] = t
  BY <1>1, <1>2, <1>4, AddAppends
<1>6. ReadyThreads' = Append(ReadyThreads, t)
  BY <1>2, <1>5, Appended
<1>7. pc'[t] = "yield"
  BY <1>1, <1>2
<1>8. readyBar = ReadyThreads
  BY <1>2 DEF readyBar, PickedFirst, Resumed
<1>9. readyBar' = WithoutLast(ReadyThreads')
  BY <1>1, <1>2, <1>3, <1>7 DEF readyBar, PickedFirst, Resumed
<1>10. readyBar' = readyBar
  BY <1>2, <1>6, <1>8, <1>9, ReadySeq, LastOff
<1>11. ResumedIsLast'
  BY <1>1, <1>2, <1>5 DEF ResumedIsLast, Resumed
<1> QED
  BY <1>1, <1>10, <1>11

\* yield takes the first thread off the list, and the abstract queue keeps it.
LEMMA DequeueTurn ==
  ASSUME TwoStay, TInv, NEW t \in Thread, YieldDequeue(t)
  PROVE  ResumedIsLast' /\ UNCHANGED <<current_thread, readyBar>>
<1>1. /\ Runs(t, "dequeue")
      /\ UNCHANGED <<current_thread, returned>>
  BY DEF YieldDequeue
<1>2. /\ current_thread = t /\ t # NULL /\ pc[t] = "dequeue" /\ ListInv
      /\ pc \in [Thread -> PC] /\ node \in [Thread -> Node \cup {NULL}]
  BY <1>1, RunningThread DEF TInv, IInv
<1>3. Len(queue) > 1 /\ Len(queue) \in Nat
  BY <1>1, <1>2, TwoOnList DEF TInv, ListInv, ListTypeOK
<1> DEFINE p == thread[queue[1]]
<1>4. queue[1] \in Node /\ p \in Thread /\ head = queue[1] /\ head # NULL
  <2>1. 1 \in 1 .. Len(queue) /\ queue # <<>> /\ queue \in Seq(Node)
    BY <1>2, <1>3 DEF ListInv, ListTypeOK
  <2> QED
    BY <2>1, <1>2, ListAssumption DEF ListInv, IsList, ThreadsOnList
<1>5. /\ node' = [node EXCEPT ![t] = head] /\ dequeue
      /\ pc' = [pc EXCEPT ![t] = "enable"]
  BY <1>4 DEF YieldDequeue
<1>6. /\ ListInv' /\ queue' # <<>> /\ Len(queue') = Len(queue) - 1
      /\ \A k \in 1 .. Len(queue') : queue'[k] = queue[k + 1]
      /\ thread' = thread
  BY <1>2, <1>3, <1>5, DequeueTakes
<1>7. pc'[t] = "enable" /\ node'[t] = queue[1]
  BY <1>2, <1>4, <1>5
<1> HIDE DEF p
<1>8. <<p>> \o ReadyThreads' = ReadyThreads
  <2>1. /\ ReadyThreads \in Seq(Thread) /\ Len(ReadyThreads) = Len(queue)
        /\ \A k \in 1 .. Len(queue) : ReadyThreads[k] = thread[queue[k]]
    BY <1>2, ReadySeq
  <2>2. /\ ReadyThreads' \in Seq(Thread) /\ Len(ReadyThreads') = Len(queue')
        /\ \A k \in 1 .. Len(queue') : ReadyThreads'[k] = thread'[queue'[k]]
    BY <1>6, ReadySeqNext
  <2>3. /\ ReadyThreads # <<>> /\ Head(ReadyThreads) = p
        /\ Tail(ReadyThreads) \in Seq(Thread)
        /\ Len(Tail(ReadyThreads)) = Len(queue')
        /\ \A k \in 1 .. Len(queue') : Tail(ReadyThreads)[k] = ReadyThreads[k + 1]
    BY <2>1, <1>3, <1>6, HeadTailProperties DEF p
  <2>4. \A k \in 1 .. Len(queue') : Tail(ReadyThreads)[k] = ReadyThreads'[k]
    <3> SUFFICES ASSUME NEW k \in 1 .. Len(queue')
                 PROVE  Tail(ReadyThreads)[k] = ReadyThreads'[k]
      OBVIOUS
    <3>1. k + 1 \in 1 .. Len(queue)
      BY <1>3, <1>6
    <3> QED
      BY <3>1, <2>1, <2>2, <2>3, <1>6
  <2>5. ReadyThreads' = Tail(ReadyThreads)
    BY <2>2, <2>3, <2>4, SeqEqual
  <2>6. ReadyThreads = <<Head(ReadyThreads)>> \o Tail(ReadyThreads)
    BY <2>1, <2>3, InFrontOfTail
  <2> QED
    BY <2>3, <2>5, <2>6
<1>9. PickedFirst' = PickedFirst
  BY <1>1, <1>2, <1>6, <1>7, <1>8 DEF PickedFirst, p
<1>10. Resumed(t)' <=> Resumed(t)
  BY <1>1, <1>2, <1>7 DEF Resumed
<1>11. readyBar' = readyBar
  BY <1>1, <1>2, <1>9, <1>10 DEF readyBar
<1>12. ResumedIsLast'
  <2>1. queue'[Len(queue')] = queue[Len(queue)]
    <3>1. Len(queue') \in 1 .. Len(queue') /\ Len(queue') + 1 = Len(queue)
      BY <1>3, <1>6
    <3> QED
      BY <3>1, <1>6
  <2> QED
    BY <2>1, <1>1, <1>2, <1>6, <1>10 DEF TInv, ResumedIsLast, Resumed
<1> QED
  BY <1>1, <1>11, <1>12

\* The context switch is the abstract turn.
LEMMA DispatchTurn ==
  ASSUME TInv, NEW t \in Thread, Dispatch(t)
  PROVE  ResumedIsLast' /\ (Turns!Rotate \/ Turns!Leave)
<1>0. PICK to \in Thread : to = thread[node[t]]
  BY RunningThread DEF TInv, Running, Dispatch, Runs
<1>1. /\ Runs(t, "dispatch")
      /\ current_thread' = to
      /\ pc' = [pc EXCEPT ![t] = "away",
                          ![to] = IF pc[to] = "new" THEN "burst" ELSE "back"]
      /\ UNCHANGED <<listVars, returned>>
  BY <1>0 DEF Dispatch
<1>2. /\ current_thread = t /\ t # NULL /\ pc[t] = "dispatch" /\ Running
      /\ pc \in [Thread -> PC] /\ ListInv /\ to # NULL
  BY <1>1, RunningThread, ListAssumption DEF TInv, IInv
<1>3. pc'[to] \in {"burst", "back"}
  BY <1>1, <1>2
<1>4. ReadyThreads' = ReadyThreads
  BY <1>1 DEF ReadyThreads, listVars
<1>5. readyBar' = ReadyThreads
  BY <1>1, <1>3, <1>4 DEF readyBar, PickedFirst, Resumed
<1>6. ResumedIsLast'
  BY <1>1, <1>3 DEF ResumedIsLast, Resumed
<1> DEFINE r == ReadyThreads
           c == <<to>> \o r
<1>7. /\ r \in Seq(Thread) /\ Len(r) = Len(queue) /\ Len(queue) \in Nat /\ queue # <<>>
      /\ Len(queue) > 0
      /\ \A k \in 1 .. Len(queue) : r[k] = thread[queue[k]]
  <2>1. queue # <<>> /\ queue \in Seq(Node)
    BY <1>2 DEF Running, ListInv, ListTypeOK
  <2>2. Len(queue) > 0
    BY <2>1, EmptySeq
  <2> QED
    BY <2>1, <2>2, <1>2, ReadySeq
<1>8. PickedFirst = c
  BY <1>0, <1>2 DEF PickedFirst
<1> HIDE DEF r
<1>9. /\ c \in Seq(Thread) /\ c # <<>> /\ Head(c) = to /\ Tail(c) = r
      /\ Len(c) = Len(r) + 1 /\ c[Len(r) + 1] = r[Len(r)]
  BY <1>7, InFront
<1> HIDE DEF c
<1>10. CASE t \in returned
  <2>1. readyBar = c
    BY <1>2, <1>8, <1>10 DEF readyBar, Resumed
  <2> QED
    BY <2>1, <1>1, <1>2, <1>5, <1>6, <1>9 DEF Turns!Leave, r
<1>11. CASE t \notin returned
  <2>1. Resumed(t)
    BY <1>2, <1>11 DEF Resumed
  <2>2. readyBar = WithoutLast(c)
    BY <2>1, <1>2, <1>8 DEF readyBar
  <2>3. c[Len(c)] = t
    BY <2>1, <1>7, <1>9 DEF TInv, ResumedIsLast
  <2>4. Append(readyBar, t) = c
    BY <2>2, <2>3, <1>9, LastOff
  <2> QED
    BY <2>4, <1>1, <1>2, <1>5, <1>6, <1>9 DEF Turns!Rotate, r
<1> QED
  BY <1>10, <1>11

\* Threads run strictly in the order in which they became ready: the safety
\* part of ImplementsRoundRobin.
THEOREM TurnsInOrder ==
  ASSUME TwoStay
  PROVE  Spec => Turns!Init /\ [][Turns!Next]_(Turns!vars)
<1>1. Init => TInv /\ Turns!Init
  <2> SUFFICES ASSUME Init PROVE TInv /\ Turns!Init
    OBVIOUS
  <2>1. current_thread = NULL /\ queue = <<>>
    BY DEF Init, ListInit
  <2>2. ResumedIsLast
    BY <2>1, ListAssumption DEF ResumedIsLast, Resumed
  <2>3. readyBar = ReadyThreads
    BY <2>1 DEF readyBar, PickedFirst
  <2>4. ReadyThreads = <<>>
    BY <2>1 DEF ReadyThreads
  <2> QED
    BY <2>1, <2>2, <2>3, <2>4, InitOK DEF TInv, Turns!Init
<1>2. TInv /\ [Next]_vars => ResumedIsLast' /\ [Turns!Next]_(Turns!vars)
  <2> SUFFICES ASSUME TInv, [Next]_vars
               PROVE  ResumedIsLast' /\ (Turns!Next \/ UNCHANGED <<current_thread, readyBar>>)
    BY DEF Turns!vars
  <2>1. CASE BootAdd
    BY <2>1, BootAddTurn DEF Turns!Next
  <2>2. CASE KickOff
    BY <2>2, KickOffTurn DEF Turns!Next
  <2>3. ASSUME NEW t \in Thread, Step(t)
        PROVE  ResumedIsLast' /\ (Turns!Next \/ UNCHANGED <<current_thread, readyBar>>)
    <3>1. CASE PassOn(t)
      BY <3>1, PassOnTurn
    <3>2. CASE YieldDequeue(t)
      BY <3>2, DequeueTurn
    <3>3. CASE Dispatch(t)
      BY <3>3, DispatchTurn DEF Turns!Next
    <3>4. CASE Finish(t) \/ YieldDisable(t) \/ YieldEnable(t) \/ YieldReturn(t)
      <4>1. /\ current_thread = t /\ pc \in [Thread -> PC] /\ node \in [Thread -> Node \cup {NULL}]
        BY <3>4, RunningThread DEF TInv, Finish, YieldDisable, YieldEnable, YieldReturn
      <4>2. UNCHANGED <<listVars, current_thread>>
        BY <3>4 DEF Finish, YieldDisable, YieldEnable, YieldReturn
      <4>3. \A s \in Thread : s # t => pc'[s] = pc[s]
        BY <3>4, <4>1 DEF Finish, YieldDisable, YieldEnable, YieldReturn
      <4>4. /\ Resumed(t)' <=> Resumed(t)
            /\ pc[t] \in {"enable", "dispatch"} <=> pc'[t] \in {"enable", "dispatch"}
            /\ node'[t] = node[t] \/ pc[t] \notin {"enable", "dispatch"}
        <5>1. CASE Finish(t)
          BY <5>1, <4>1 DEF Finish, Runs, Resumed
        <5>2. CASE YieldDisable(t)
          BY <5>2, <4>1 DEF YieldDisable, Runs, Resumed
        <5>3. CASE YieldEnable(t)
          BY <5>3, <4>1 DEF YieldEnable, Runs, Resumed
        <5>4. CASE YieldReturn(t)
          BY <5>4, <4>1 DEF YieldReturn, Runs, Resumed
        <5> QED
          BY <3>4, <5>1, <5>2, <5>3, <5>4
      <4> QED
        BY <4>1, <4>2, <4>3, <4>4, SameTurn
    <3> QED
      BY <2>3, <3>1, <3>2, <3>3, <3>4 DEF Step
  <2>4. CASE UNCHANGED vars
    BY <2>4 DEF vars, listVars, threadVars, TInv, ResumedIsLast, Resumed, readyBar, PickedFirst,
       ReadyThreads
  <2> QED
    BY <2>1, <2>2, <2>3, <2>4 DEF Next
<1>3. IInv /\ IInv' /\ ResumedIsLast' => TInv'
  BY DEF TInv
<1>4. TInv => IInv
  BY DEF TInv
<1> QED
  BY <1>1, <1>2, <1>3, <1>4, Inductive, PTL DEF Spec
=============================================================================
