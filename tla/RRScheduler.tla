----------------------------- MODULE RRScheduler -----------------------------
(***************************************************************************)
(* mp5 with the round-robin scheduler: RRScheduler (scheduler.C), EOQTimer *)
(* (simple_timer.C), MemPool::allocate (mem_pool.C) and the end-of-        *)
(* interrupt of interrupts.C.  resume, allocate and yield run with         *)
(* interrupts enabled, so each of their accesses to the ready list and to  *)
(* the pool's pointer is a step of its own and a quantum may end between   *)
(* any two. The interrupt handler runs with interrupts disabled: from the  *)
(* tick to the context switch it is one step.                              *)
(*                                                                         *)
(* main() has added the threads before it enables interrupts; a run begins *)
(* when it has started the first one.  The list is never empty before, so  *)
(* the branch of add() for an empty list is never taken here.              *)
(***************************************************************************)
EXTENDS Integers, Sequences, FiniteSets, Functions

CONSTANTS
  Thread,
  Start,        \* thread1, thread2, ...: the order of kernel.C's main()
  Terminating,  \* the threads whose function may return
  Quantum,      \* hz / 20, the ticks of a quantum: 5
  MaxNode,      \* bound: list nodes in use at a time
  MaxTorn       \* bound: quanta and resumes once the list may be damaged

NULL == 0
Node == 1 .. MaxNode

ASSUME RRAssumption ==
  /\ NULL \notin Thread
  /\ Start \in Seq(Thread) /\ Len(Start) > 1 /\ Len(Start) <= MaxNode
  /\ \A t \in Thread : \E k \in 1 .. Len(Start) : Start[k] = t
  /\ \A k, l \in 1 .. Len(Start) : Start[k] = Start[l] => k = l
  /\ Terminating \subseteq Thread
  /\ Quantum \in Nat \ {0} /\ MaxNode \in Nat /\ MaxTorn \in Nat

VARIABLES
  head, tail,      \* of the ready list
  thread, next,    \* the members of its nodes
  start_address,   \* of MemPool: where the next node will lie
  current_thread,
  ticks,           \* of the EOQ timer
  rr_yield_flag,
  in_service,      \* the PIC still waits for the end-of-interrupt of a tick
  pc,              \* where each thread is
  interrupted,     \* where a preempted thread was
  local,           \* each thread's local variables and registers
  returned,        \* the threads whose function has returned
  torn,            \* history: how many quanta ended, and threads resumed
                   \* themselves, since a quantum ended where that may damage
                   \* the list, with that one
  fault            \* a terminated thread ran, or yield found no thread

listVars == <<head, tail, thread, next, start_address>>
timerVars == <<ticks, rr_yield_flag, in_service>>
history == <<returned, torn, fault>>
vars == <<listVars, current_thread, timerVars, pc, interrupted, local, history>>

\* In its function; the statements of allocate(): "load", "move"; of add():
\* "fill", "last", "link", "set_tail"; of yield(): "yield", "take", "peek",
\* "store", "dispatch"; switched out and back in; the same inside the timer
\* interrupt.
Preemptible ==
  {"burst", "load", "move", "fill", "last", "link", "set_tail",
   "yield", "take", "peek", "store", "dispatch", "back"}

PC == Preemptible \cup {"new", "away", "preempted", "handler"}

\* A quantum that ends here finds the list whole, the thread not on it, and no
\* value read that will be written back.
Harmless == {"burst", "load", "fill", "last", "back"}

\* new: allocate's return_address, then add's local node.  pool: the
\* start_address that += read.  last: the tail that add read.  node: yield's
\* local node.  rest: the head->next it read.
NoLocals == [new |-> NULL, pool |-> <<>>, last |-> NULL, node |-> NULL, rest |-> NULL]

Init ==
  /\ head = 1 /\ tail = Len(Start) - 1
  /\ thread = [n \in Node |-> IF n < Len(Start) THEN Start[n + 1] ELSE Start[1]]
  /\ next = [n \in Node |-> IF n < Len(Start) - 1 THEN n + 1 ELSE NULL]
  /\ start_address = <<Len(Start)>>
  /\ current_thread = Start[1]
  /\ ticks = 0
  /\ rr_yield_flag = FALSE
  /\ in_service = FALSE
  /\ pc = [t \in Thread |-> IF t = Start[1] THEN "burst" ELSE "new"]
  /\ interrupted = [t \in Thread |-> "burst"]
  /\ local = [t \in Thread |-> NoLocals]
  /\ returned = {} /\ torn = 0 /\ fault = FALSE

------------------------------------------------------------------------------
(* The list.                                                                *)

\* The k-th node that a pointer r reaches.
Path(r) ==
  LET p[k \in 1 .. MaxNode] ==
        IF k = 1 THEN r ELSE IF p[k - 1] = NULL THEN NULL ELSE next[p[k - 1]]
  IN  p

Reach == Path(head)

------------------------------------------------------------------------------
(* MemPool.  An address of the pool is the sequence of the nodes that lie   *)
(* there and behind, up to the first that was never handed out: only a      *)
(* pointer that was moved back sees more than one.                          *)

\* Where t is, or was when it was preempted.
Place(t) == IF pc[t] \in {"preempted", "handler"} THEN interrupted[t] ELSE pc[t]

\* The nodes that somebody will write, read or be given.
Held ==
  {tail} \cup Range(start_address)
  \cup UNION {{local[t].new, local[t].last, local[t].node} \cup Range(local[t].pool) : t \in Thread}

\* The pointers from which somebody may still go on to a node's next.
Followed ==
  {head} \cup {local[t].rest : t \in Thread}
  \cup {local[t].new : t \in {u \in Thread : Place(u) \in {"last", "link", "set_tail"}}}

\* The pool has no end.  Here it takes memory again that nobody holds or can
\* reach, and makes it blank.
Unused == Node \ (Held \cup {Path(r)[k] : r \in Followed, k \in 1 .. MaxNode})

Wiped(member, blank) ==
  LET free == Unused IN [n \in Node |-> IF n \in free THEN blank ELSE member[n]]

Fresh == CHOOSE n \in Unused : TRUE

\* There is a node behind address a.
Room(a) == Len(a) < 2 => Unused # {}

Behind(a) == IF Len(a) > 1 THEN Tail(a) ELSE <<Fresh>>

\* The locals l when start_address becomes Behind(a): who holds an older
\* address will hand out this node, too.
Seen(l, a) ==
  [t \in Thread |-> IF Len(a) = 1 /\ l[t].pool # <<>>
                      THEN [l[t] EXCEPT !.pool = Append(@, Fresh)] ELSE l[t]]

------------------------------------------------------------------------------
(* A thread.                                                                *)

Runs(t, l) == current_thread = t /\ pc[t] = l /\ ~fault

Goto(t, l) == pc' = [pc EXCEPT ![t] = l]

\* pass_on_CPU: resume(CurrentThread()) calls add, and add calls allocate, which
\* reads start_address to return it.
PassOn(t) ==
  /\ Runs(t, "burst")
  /\ local' = [local EXCEPT ![t].new = Head(start_address)]
  /\ Goto(t, "load")
  /\ torn = 0 \/ torn < MaxTorn
  /\ torn' = IF torn = 0 THEN 0 ELSE torn + 1
  /\ UNCHANGED <<listVars, current_thread, timerVars, interrupted, returned, fault>>

\* start_address += _size: start_address is read again, and what was read is
\* written back with the size added.
LoadAddress(t) ==
  /\ Runs(t, "load")
  /\ local' = [local EXCEPT ![t].pool = start_address]
  /\ Goto(t, "move")
  /\ UNCHANGED <<listVars, current_thread, timerVars, interrupted, history>>

MoveAddress(t) ==
  LET a == local[t].pool
  IN  /\ Runs(t, "move")
      /\ Room(a)
      /\ start_address' = Behind(a)
      /\ thread' = Wiped(thread, Start[1])
      /\ next' = Wiped(next, NULL)
      /\ local' = Seen([local EXCEPT ![t].pool = <<>>], a)
      /\ Goto(t, "fill")
      /\ UNCHANGED <<head, tail, current_thread, timerVars, interrupted, history>>

Fill(t) ==
  /\ Runs(t, "fill")
  /\ thread' = [thread EXCEPT ![local[t].new] = t]
  /\ next' = [next EXCEPT ![local[t].new] = NULL]
  /\ Goto(t, "last")
  /\ UNCHANGED <<head, tail, start_address, current_thread, timerVars, interrupted, local, history>>

\* tail->next = node: tail is read, then the node it points to is written.
ReadTail(t) ==
  /\ Runs(t, "last")
  /\ local' = [local EXCEPT ![t].last = tail]
  /\ Goto(t, "link")
  /\ UNCHANGED <<listVars, current_thread, timerVars, interrupted, history>>

Link(t) ==
  /\ Runs(t, "link")
  /\ next' = [next EXCEPT ![local[t].last] = local[t].new]
  /\ local' = [local EXCEPT ![t].last = NULL]
  /\ Goto(t, "set_tail")
  /\ UNCHANGED <<head, tail, thread, start_address, current_thread, timerVars, interrupted, history>>

\* Mutant of SetTail: tail stays.
KeepTail(t) ==
  /\ Runs(t, "set_tail")
  /\ local' = [local EXCEPT ![t].new = NULL]
  /\ Goto(t, "yield")
  /\ UNCHANGED <<listVars, current_thread, timerVars, interrupted, history>>

SetTail(t) ==
  /\ Runs(t, "set_tail")
  /\ tail' = local[t].new
  /\ local' = [local EXCEPT ![t].new = NULL]
  /\ Goto(t, "yield")
  /\ UNCHANGED <<head, thread, next, start_address, current_thread, timerVars, interrupted, history>>

\* The function returns: terminate(CurrentThread()) yields.
Finish(t) ==
  /\ Runs(t, "burst")
  /\ t \in Terminating
  /\ returned' = returned \cup {t}
  /\ Goto(t, "yield")
  /\ UNCHANGED <<listVars, current_thread, timerVars, interrupted, local, torn, fault>>

\* yield tells a voluntary call by the flag, which nothing ever clears
\* (rr_yield_flag == false is a comparison), and resets a quantum that is
\* almost over.
CheckFlag(t) ==
  /\ Runs(t, "yield")
  /\ ticks' = IF ~rr_yield_flag /\ ticks = Quantum - 1 THEN 0 ELSE ticks
  /\ Goto(t, "take")
  /\ UNCHANGED <<listVars, current_thread, rr_yield_flag, in_service, interrupted, local, history>>

TakeHead(t) ==
  /\ Runs(t, "take")
  /\ local' = [local EXCEPT ![t].node = head]
  /\ fault' = (head = NULL)
  /\ Goto(t, "peek")
  /\ UNCHANGED <<listVars, current_thread, timerVars, interrupted, returned, torn>>

\* head = head->next: head and the next of its node are read, then head is
\* written.
PeekNext(t) ==
  /\ Runs(t, "peek")
  /\ local' = [local EXCEPT ![t].rest = IF head = NULL THEN NULL ELSE next[head]]
  /\ fault' = (head = NULL)
  /\ Goto(t, "store")
  /\ UNCHANGED <<listVars, current_thread, timerVars, interrupted, returned, torn>>

StoreHead(t) ==
  /\ Runs(t, "store")
  /\ head' = local[t].rest
  /\ local' = [local EXCEPT ![t].rest = NULL]
  /\ Goto(t, "dispatch")
  /\ UNCHANGED <<tail, thread, next, start_address, current_thread, timerVars, interrupted, history>>

\* Mutant of LoadedAt: a preempted thread goes on in yield.
LoadedInYield(l) == IF l = "new" THEN "burst" ELSE "back"

\* The context that is loaded goes on where it was saved: at the start of the
\* thread's function, after its dispatch_to in yield, or inside the handler.
LoadedAt(l) == CASE l = "new" -> "burst" [] l = "preempted" -> "handler" [] OTHER -> "back"

SwitchTo(t, to, saved) ==
  LET out == [pc EXCEPT ![t] = saved]
  IN  /\ current_thread' = to
      /\ pc' = [out EXCEPT ![to] = LoadedAt(out[to])]

\* Afterwards node is only passed to MemPool::release, which ignores it.
Dispatch(t) ==
  /\ Runs(t, "dispatch")
  /\ SwitchTo(t, thread[local[t].node], "away")
  /\ local' = [local EXCEPT ![t].node = NULL]
  /\ UNCHANGED <<listVars, timerVars, interrupted, history>>

\* dispatch_to has returned.  A thread whose function has returned has no
\* caller to go back to.
Back(t) ==
  /\ Runs(t, "back")
  /\ fault' = (t \in returned)
  /\ Goto(t, "burst")
  /\ UNCHANGED <<listVars, current_thread, timerVars, interrupted, local, returned, torn>>

------------------------------------------------------------------------------
(* The timer interrupt.                                                     *)

\* t executes with interrupts enabled and the PIC may deliver a tick.
Interruptible(t) ==
  current_thread = t /\ pc[t] \in Preemptible /\ ~in_service /\ ~fault

\* Mutant of Tick: the quantum is one tick longer.
TickLonger(t) ==
  /\ Interruptible(t)
  /\ ticks + 1 <= Quantum
  /\ ticks' = ticks + 1
  /\ UNCHANGED <<listVars, current_thread, rr_yield_flag, in_service, pc, interrupted, local, history>>

\* A tick within the quantum: counted, acknowledged, done.
Tick(t) ==
  /\ Interruptible(t)
  /\ ticks + 1 < Quantum
  /\ ticks' = ticks + 1
  /\ UNCHANGED <<listVars, current_thread, rr_yield_flag, in_service, pc, interrupted, local, history>>

\* The tick that ends the quantum: handle_rr_quantum resumes the current thread
\* and yields.  The end-of-interrupt comes after the handler, and the handler
\* returns only when the thread is switched in again.
Preempt(t) ==
  LET n      == Head(start_address)
      linked == [Wiped(next, NULL) EXCEPT ![n] = NULL, ![tail] = n]
      filled == [Wiped(thread, Start[1]) EXCEPT ![n] = t]
  IN  /\ Interruptible(t)
      /\ ticks + 1 >= Quantum
      /\ Room(start_address)
      /\ ticks' = 0
      /\ rr_yield_flag' = TRUE
      /\ start_address' = Behind(start_address)
      /\ local' = Seen(local, start_address)
      /\ thread' = filled
      /\ next' = linked
      /\ tail' = n
      /\ torn < MaxTorn
      /\ torn' = IF torn = 0 /\ pc[t] \in Harmless THEN 0 ELSE torn + 1
      /\ interrupted' = [interrupted EXCEPT ![t] = pc[t]]
      /\ in_service' = TRUE
      /\ \/ /\ head = NULL
            /\ fault' = TRUE
            /\ UNCHANGED <<head, current_thread, pc>>
         \/ /\ head # NULL
            /\ head' = linked[head]
            /\ SwitchTo(t, filled[head], "preempted")
            /\ UNCHANGED fault
      /\ UNCHANGED returned

\* Mutant of HandlerReturn: the end-of-interrupt is not sent.
ReturnUnacknowledged(t) ==
  /\ Runs(t, "handler")
  /\ Goto(t, interrupted[t])
  /\ UNCHANGED <<listVars, current_thread, timerVars, interrupted, local, history>>

\* Back in the handler: end-of-interrupt, then iret.
HandlerReturn(t) ==
  /\ Runs(t, "handler")
  /\ in_service' = FALSE
  /\ Goto(t, interrupted[t])
  /\ interrupted' = [interrupted EXCEPT ![t] = "burst"]
  /\ UNCHANGED <<listVars, current_thread, ticks, rr_yield_flag, local, history>>

------------------------------------------------------------------------------

Execute(t) ==
  \/ PassOn(t) \/ LoadAddress(t) \/ MoveAddress(t)
  \/ Fill(t) \/ ReadTail(t) \/ Link(t) \/ SetTail(t) \/ Finish(t)
  \/ CheckFlag(t) \/ TakeHead(t) \/ PeekNext(t) \/ StoreHead(t) \/ Dispatch(t) \/ Back(t)

Next == \E t \in Thread : Execute(t) \/ Tick(t) \/ Preempt(t) \/ HandlerReturn(t)

\* A tick comes every 10 ms, so a thread that is switched in executes something
\* before its quantum ends; it is not enough that some thread does.  That a tick
\* arrives is not assumed: a voluntary yield may always come before.
Spec ==
  /\ Init /\ [][Next]_vars
  /\ \A t \in Thread : SF_vars(Execute(t)) /\ WF_vars(HandlerReturn(t))

------------------------------------------------------------------------------

Local == [new : Node \cup {NULL}, pool : Seq(Node), last : Node \cup {NULL},
          node : Node \cup {NULL}, rest : Node \cup {NULL}]

TypeOK ==
  /\ head \in Node \cup {NULL} /\ tail \in Node
  /\ start_address \in Seq(Node) \ {<<>>}
  /\ thread \in [Node -> Thread] /\ next \in [Node -> Node \cup {NULL}]
  /\ current_thread \in Thread
  /\ ticks \in 0 .. (Quantum - 1)
  /\ rr_yield_flag \in BOOLEAN /\ in_service \in BOOLEAN
  /\ pc \in [Thread -> PC] /\ interrupted \in [Thread -> Preemptible]
  /\ local \in [Thread -> Local]
  /\ returned \subseteq Terminating /\ torn \in 0 .. MaxTorn /\ fault \in BOOLEAN

\* The threads that are in the timer interrupt, switched out or not.
Inside == {t \in Thread : pc[t] \in {"preempted", "handler"}}

(***************************************************************************)
(* However often quanta end, and even when the list is already damaged, at *)
(* most one thread is inside the timer interrupt, and exactly while one is *)
(* the PIC holds back further ticks: no quantum handler ever nests.        *)
(***************************************************************************)
OneInHandler ==
  ~fault => IF in_service THEN \E t \in Thread : Inside = {t} ELSE Inside = {}

\* How often t is on the list, and whether the running thread holds it to be
\* dispatched.
TimesQueued(t) == Cardinality({k \in DOMAIN Reach : Reach[k] # NULL /\ thread[Reach[k]] = t})

Picked(t) ==
  pc[current_thread] = "dispatch" /\ thread[local[current_thread].node] = t

\* The running thread has put itself on the list.
Resumed(t) ==
  t \notin returned /\ pc[t] \in {"set_tail", "yield", "take", "peek", "store", "dispatch"}

(***************************************************************************)
(* Preemption as such is safe: each thread is in exactly one place -       *)
(* running, once on the list, or picked - and no yield fails, as long as   *)
(* no quantum has ended where the thread has read something that it will   *)
(* write back, or has the list half changed: between the load and the      *)
(* store of allocate's +=, and from add's read of tail to the context      *)
(* switch (whose masking of interrupts is commented out).  Quanta may end  *)
(* everywhere else: in the threads' functions, between allocate's two      *)
(* reads of the pool's pointer - the handler then gets the same node -,    *)
(* before and after add fills its node, and behind the switch.             *)
(***************************************************************************)
WholeUnlessTorn ==
  torn = 0 =>
    /\ ~fault
    /\ \A t \in Thread :
         TimesQueued(t) + (IF Picked(t) THEN 1 ELSE 0) =
           IF t \in returned \/ (t = current_thread /\ ~Resumed(t)) THEN 0 ELSE 1

(***************************************************************************)
(* Unless a quantum ends where that may damage the list, every thread that *)
(* does not return runs again and again, and a preempted one always comes  *)
(* back to acknowledge its tick: preemption never switches itself off.     *)
(***************************************************************************)
TimerAndThreadsGoOn ==
  [](torn = 0) =>
    /\ []<>~in_service
    /\ \A t \in Thread \ Terminating : []<>(current_thread = t /\ pc[t] = "burst")

(***************************************************************************)
(* scheduler.H:87-90: yield "selects the next thread from the ready queue  *)
(* to load onto the CPU": the node whose thread it dispatches is the one   *)
(* it takes off the list.                                                  *)
(***************************************************************************)
TakesWhatItDispatches ==
  [][\A t \in Thread : StoreHead(t) => local[t].node = head]_vars
==============================================================================
