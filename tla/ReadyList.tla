------------------------------ MODULE ReadyList ------------------------------
(***************************************************************************)
(* The ready list of class Scheduler (mp5/scheduler.C): nodes linked by    *)
(* next, with the members head and tail.  The list has no count and no     *)
(* sentinel, so head = NULL alone says that it is empty.                   *)
(*                                                                         *)
(* add() takes a new node for every call and nothing ever takes a node     *)
(* back (MemPool::release does nothing), so a run of the kernel uses ever  *)
(* new nodes.  Here a node that no pointer reaches any more is used again; *)
(* nothing can tell the difference.                                        *)
(***************************************************************************)
EXTENDS Integers, Sequences

CONSTANTS Thread, Node, NULL

ASSUME ListAssumption == NULL \notin Node /\ NULL \notin Thread

VARIABLES
  head, tail,
  thread,     \* thread[n]: member thread of node n
  next,       \* next[n]: member next of node n
  queue       \* auxiliary: the nodes that head reaches, in their order

listVars == <<head, tail, thread, next, queue>>

ListInit ==
  /\ head = NULL /\ tail = NULL
  /\ thread \in [Node -> {NULL}]
  /\ next = [n \in Node |-> NULL]
  /\ queue = <<>>

InList(n) == \E k \in DOMAIN queue : queue[k] = n

\* The threads on the list, in its order.
ReadyThreads == [k \in DOMAIN queue |-> thread[queue[k]]]

\* n stands for the memory MEMORY_POOL->allocate returns; held holds the nodes
\* the callers' local variables point to.
Unused(n, held) == n \in Node /\ ~InList(n) /\ n # tail /\ n \notin held

FreshNode(held) == CHOOSE n \in Node : Unused(n, held)

\* Mutants of add: the new node goes in front; tail is not moved.
addInFront(t, held) ==
  LET n == FreshNode(held)
  IN  /\ Unused(n, held)
      /\ thread' = [thread EXCEPT ![n] = t]
      /\ head' = n
      /\ next' = [next EXCEPT ![n] = head]
      /\ queue' = <<n>> \o queue
      /\ tail' = IF head = NULL THEN n ELSE tail

addBehindOldTail(t, held) ==
  LET n == FreshNode(held)
  IN  /\ Unused(n, held)
      /\ thread' = [thread EXCEPT ![n] = t]
      /\ \/ /\ head = NULL
            /\ head' = n /\ tail' = n
            /\ next' = [next EXCEPT ![n] = NULL]
            /\ queue' = <<n>>
         \/ /\ head # NULL
            /\ next' = [next EXCEPT ![n] = NULL, ![tail] = n]
            /\ queue' = IF InList(tail) THEN Append(queue, n) ELSE queue
            /\ UNCHANGED <<head, tail>>

\* Scheduler::add.  The new node hangs behind tail.  It is on the list only
\* when tail is: when the list is empty but tail still points to a node that
\* has left it, the new node hangs behind that one and head stays NULL.
add(t, held) ==
  LET n == FreshNode(held)
  IN  /\ Unused(n, held)
      /\ thread' = [thread EXCEPT ![n] = t]
      /\ \/ /\ head = NULL /\ tail = NULL
            /\ head' = n
            /\ next' = [next EXCEPT ![n] = NULL]
            /\ queue' = <<n>>
         \/ /\ ~(head = NULL /\ tail = NULL)
            /\ next' = [next EXCEPT ![n] = NULL, ![tail] = n]
            /\ queue' = IF InList(tail) THEN Append(queue, n) ELSE queue
            /\ UNCHANGED head
      /\ tail' = n

\* Mutant of dequeue: head stays where it is.
peek == head # NULL /\ UNCHANGED listVars

\* The part of yield that takes the first node: head = head->next, tail stays.
dequeue ==
  /\ head # NULL
  /\ head' = next[head]
  /\ queue' = Tail(queue)
  /\ UNCHANGED <<tail, thread, next>>

\* head, next and queue describe the same list, and no node is on it twice.
IsList ==
  /\ head = IF queue = <<>> THEN NULL ELSE queue[1]
  /\ \A k \in 1 .. Len(queue) :
       next[queue[k]] = IF k < Len(queue) THEN queue[k + 1] ELSE NULL
  /\ \A k, l \in 1 .. Len(queue) : queue[k] = queue[l] => k = l

ListTypeOK ==
  /\ head \in Node \cup {NULL}
  /\ tail \in Node \cup {NULL}
  /\ thread \in [Node -> Thread \cup {NULL}]
  /\ next \in [Node -> Node \cup {NULL}]
  /\ queue \in Seq(Node)
==============================================================================
