--------------------------- MODULE ReadyListProofs ---------------------------
(***************************************************************************)
(* Lemmas on the ready list: with the list nonempty, or never used, add()  *)
(* appends its thread, and taking the first node of two or more leaves the *)
(* others in their order.  Both keep head, tail, next and queue one list.  *)
(***************************************************************************)
EXTENDS ReadyList, TLAPS

TailIsLast == queue # <<>> => tail = queue[Len(queue)]

\* Every node of the list carries a thread, and no two the same.
ThreadsOnList ==
  /\ \A k \in 1 .. Len(queue) : thread[queue[k]] \in Thread
  /\ \A k, l \in 1 .. Len(queue) : thread[queue[k]] = thread[queue[l]] => k = l

ListInv == ListTypeOK /\ IsList /\ TailIsLast /\ ThreadsOnList

------------------------------------------------------------------------------
(* The list operations.                                                     *)

\* With the list nonempty, or never used, add() appends t to it.
LEMMA AddAppends ==
  ASSUME ListInv, queue # <<>> \/ (head = NULL /\ tail = NULL),
         NEW t \in Thread, NEW held, add(t, held),
         \A k \in 1 .. Len(queue) : thread[queue[k]] # t
  PROVE  /\ ListInv'
         /\ tail' # NULL
         /\ Len(queue') = Len(queue) + 1
         /\ \A k \in 1 .. Len(queue) : thread'[queue'[k]] = thread[queue[k]]
         /\ thread'[queue'[Len(queue) + 1]] = t
<1> DEFINE n == FreshNode(held)
<1>1. /\ n \in Node
      /\ \A k \in 1 .. Len(queue) : queue[k] # n
      /\ n # tail
      /\ thread' = [thread EXCEPT ![n] = t]
      /\ tail' = n
      /\ \/ /\ head = NULL /\ tail = NULL
            /\ head' = n
            /\ next' = [next EXCEPT ![n] = NULL]
            /\ queue' = <<n>>
         \/ /\ ~(head = NULL /\ tail = NULL)
            /\ next' = [next EXCEPT ![n] = NULL, ![tail] = n]
            /\ queue' = IF InList(tail) THEN Append(queue, n) ELSE queue
            /\ UNCHANGED head
  BY DEF add, Unused, InList, ListInv, ListTypeOK
<1> HIDE DEF n
<1>2. NULL \notin Node /\ NULL \notin Thread
  BY ListAssumption
<1>3. /\ queue \in Seq(Node) /\ next \in [Node -> Node \cup {NULL}]
      /\ thread \in [Node -> Thread \cup {NULL}]
      /\ \A k \in 1 .. Len(queue) : queue[k] \in Node
  BY DEF ListInv, ListTypeOK
<1>4. /\ head = IF queue = <<>> THEN NULL ELSE queue[1]
      /\ \A k \in 1 .. Len(queue) :
           next[queue[k]] = IF k < Len(queue) THEN queue[k + 1] ELSE NULL
      /\ \A k, l \in 1 .. Len(queue) : queue[k] = queue[l] => k = l
      /\ queue # <<>> => tail = queue[Len(queue)]
      /\ \A k \in 1 .. Len(queue) : thread[queue[k]] \in Thread
      /\ \A k, l \in 1 .. Len(queue) : thread[queue[k]] = thread[queue[l]] => k = l
  BY DEF ListInv, IsList, TailIsLast, ThreadsOnList
<1>5. CASE queue = <<>>
  <2>1. head' = n /\ next' = [next EXCEPT ![n] = NULL] /\ queue' = <<n>>
    BY <1>1, <1>4, <1>5
  <2>2. Len(queue) = 0 /\ Len(queue') = 1 /\ queue'[1] = n
    BY <2>1, <1>5
  <2>3. next'[n] = NULL /\ thread'[n] = t
    BY <2>1, <1>1, <1>3
  <2>4. ListTypeOK'
    BY <2>1, <1>1, <1>3 DEF ListTypeOK
  <2>5. IsList'
    BY <2>1, <2>2, <2>3 DEF IsList
  <2>6. TailIsLast' /\ ThreadsOnList'
    BY <2>1, <2>2, <2>3, <1>1 DEF TailIsLast, ThreadsOnList
  <2> QED
    BY <2>2, <2>3, <2>4, <2>5, <2>6, <1>1, <1>2 DEF ListInv
<1>6. CASE queue # <<>>
  <2> DEFINE L == Len(queue)
  <2>1. /\ L \in Nat /\ L >= 1
        /\ tail = queue[L] /\ head = queue[1] /\ head # NULL /\ tail \in Node
    BY <1>2, <1>3, <1>4, <1>6
  <2>2. InList(tail)
    BY <2>1, <1>3 DEF InList
  <2>3. /\ next' = [next EXCEPT ![n] = NULL, ![tail] = n]
        /\ queue' = Append(queue, n)
        /\ head' = head
    BY <1>1, <2>1, <2>2
  <2>4. /\ queue' \in Seq(Node)
        /\ Len(queue') = L + 1
        /\ \A k \in 1 .. L : queue'[k] = queue[k]
        /\ queue'[L + 1] = n
    BY <2>3, <1>1, <1>3
  <2>5. /\ next'[n] = NULL /\ next'[tail] = n
        /\ \A x \in Node : x # n /\ x # tail => next'[x] = next[x]
    BY <2>3, <2>1, <1>1, <1>3
  <2>6. thread'[n] = t /\ \A x \in Node : x # n => thread'[x] = thread[x]
    BY <1>1, <1>3
  <2>7. ListTypeOK'
    <3>1. next' \in [Node -> Node \cup {NULL}] /\ thread' \in [Node -> Thread \cup {NULL}]
      BY <2>3, <1>1, <1>3
    <3> QED
      BY <3>1, <2>4, <2>3, <2>1, <1>1 DEF ListTypeOK, ListInv
  <2>8. IsList'
    <3>1. head' = IF queue' = <<>> THEN NULL ELSE queue'[1]
      BY <2>1, <2>3, <2>4
    <3>2. ASSUME NEW k \in 1 .. Len(queue')
          PROVE  next'[queue'[k]] = IF k < Len(queue') THEN queue'[k + 1] ELSE NULL
      <4>1. CASE k = L + 1
        BY <4>1, <2>4, <2>5
      <4>2. CASE k = L
        BY <4>2, <2>1, <2>4, <2>5
      <4>3. CASE k \in 1 .. (L - 1)
        <5>1. queue'[k] = queue[k] /\ queue'[k + 1] = queue[k + 1]
          BY <4>3, <2>1, <2>4
        <5>2. queue[k] # tail /\ queue[k] # n /\ queue[k] \in Node
          BY <4>3, <2>1, <1>1, <1>3, <1>4
        <5>3. next[queue[k]] = queue[k + 1]
          BY <4>3, <2>1, <1>4
        <5> QED
          BY <5>1, <5>2, <5>3, <4>3, <2>1, <2>4, <2>5
      <4> QED
        BY <4>1, <4>2, <4>3, <2>1, <2>4
    <3>3. ASSUME NEW k \in 1 .. Len(queue'), NEW l \in 1 .. Len(queue'), queue'[k] = queue'[l]
          PROVE  k = l
      <4>1. \A m \in 1 .. Len(queue') : m \in 1 .. L \/ m = L + 1
        BY <2>1, <2>4
      <4> QED
        BY <4>1, <3>3, <2>4, <1>1, <1>4
    <3> QED
      BY <3>1, <3>2, <3>3 DEF IsList
  <2>9. \A k \in 1 .. L : thread'[queue'[k]] = thread[queue[k]]
    BY <2>4, <2>6, <1>1, <1>3
  <2>10. ThreadsOnList'
    <3>1. \A m \in 1 .. Len(queue') : m \in 1 .. L \/ m = L + 1
      BY <2>1, <2>4
    <3>2. \A k \in 1 .. Len(queue') : thread'[queue'[k]] \in Thread
      BY <3>1, <2>4, <2>6, <2>9, <1>4
    <3>3. ASSUME NEW k \in 1 .. Len(queue'), NEW l \in 1 .. Len(queue'),
                 thread'[queue'[k]] = thread'[queue'[l]]
          PROVE  k = l
      BY <3>1, <3>3, <2>4, <2>6, <2>9, <1>4
    <3> QED
      BY <3>2, <3>3 DEF ThreadsOnList
  <2>11. TailIsLast' /\ tail' # NULL
    BY <2>1, <2>4, <1>1, <1>2 DEF TailIsLast
  <2> QED
    BY <2>4, <2>6, <2>7, <2>8, <2>9, <2>10, <2>11 DEF ListInv
<1> QED
  BY <1>5, <1>6

\* Taking the first node leaves the others in their order.
LEMMA DequeueTakes ==
  ASSUME ListInv, Len(queue) > 1, dequeue
  PROVE  /\ ListInv'
         /\ queue' # <<>>
         /\ Len(queue') = Len(queue) - 1
         /\ head = queue[1]
         /\ \A k \in 1 .. Len(queue') : queue'[k] = queue[k + 1]
         /\ thread' = thread
<1>1. /\ queue \in Seq(Node) /\ next \in [Node -> Node \cup {NULL}]
      /\ queue # <<>> /\ Len(queue) \in Nat
      /\ \A k \in 1 .. Len(queue) : queue[k] \in Node
  BY DEF ListInv, ListTypeOK
<1>2. /\ head = queue[1]
      /\ \A k \in 1 .. Len(queue) :
           next[queue[k]] = IF k < Len(queue) THEN queue[k + 1] ELSE NULL
      /\ \A k, l \in 1 .. Len(queue) : queue[k] = queue[l] => k = l
      /\ tail = queue[Len(queue)]
  BY <1>1 DEF ListInv, IsList, TailIsLast
<1>3. head' = next[head] /\ queue' = Tail(queue) /\ UNCHANGED <<tail, thread, next>>
  BY DEF dequeue
<1>4. /\ queue' \in Seq(Node)
      /\ Len(queue') = Len(queue) - 1
      /\ \A k \in 1 .. Len(queue') : queue'[k] = queue[k + 1]
      /\ queue' # <<>>
  <2>1. /\ Tail(queue) \in Seq(Node)
        /\ Len(Tail(queue)) = Len(queue) - 1
        /\ \A k \in 1 .. (Len(queue) - 1) : Tail(queue)[k] = queue[k + 1]
    BY <1>1
  <2>2. /\ queue' \in Seq(Node)
        /\ Len(queue') = Len(queue) - 1
        /\ \A k \in 1 .. (Len(queue) - 1) : queue'[k] = queue[k + 1]
    BY <2>1, <1>3
  <2>3. queue' # <<>>
    <3>1. Len(queue') # 0
      BY <2>2, <1>1
    <3> QED
      BY <3>1
  <2> QED
    BY <2>2, <2>3
<1>5. head' = queue'[1] /\ tail' = queue'[Len(queue')]
  <2>1. next[queue[1]] = queue[2]
    BY <1>1, <1>2
  <2>2. 1 \in 1 .. Len(queue') /\ Len(queue') \in 1 .. Len(queue')
    BY <1>1, <1>4
  <2>3. queue'[1] = queue[2] /\ queue'[Len(queue')] = queue[Len(queue)]
    BY <2>2, <1>1, <1>4
  <2> QED
    BY <2>1, <2>3, <1>2, <1>3
<1>6. \A k \in 1 .. Len(queue') : k + 1 \in 1 .. Len(queue) /\ k \in 1 .. Len(queue)
  BY <1>1, <1>4
<1>7. ListTypeOK'
  <2>1. head \in Node
    BY <1>1, <1>2
  <2>2. head' \in Node \cup {NULL}
    BY <2>1, <1>1, <1>3
  <2> QED
    BY <2>2, <1>3, <1>4 DEF ListInv, ListTypeOK
<1>8. IsList'
  <2>1. ASSUME NEW k \in 1 .. Len(queue')
        PROVE  next'[queue'[k]] = IF k < Len(queue') THEN queue'[k + 1] ELSE NULL
    <3>1. next[queue[k + 1]] = IF k + 1 < Len(queue) THEN queue[k + 2] ELSE NULL
      BY <1>1, <1>2, <1>6
    <3>2. k < Len(queue') => queue'[k + 1] = queue[k + 2]
      BY <1>1, <1>4
    <3> QED
      BY <3>1, <3>2, <1>1, <1>3, <1>4
  <2>2. \A k, l \in 1 .. Len(queue') : queue'[k] = queue'[l] => k = l
    BY <1>1, <1>2, <1>4, <1>6
  <2> QED
    BY <2>1, <2>2, <1>4, <1>5 DEF IsList
<1>9. TailIsLast'
  BY <1>5 DEF TailIsLast
<1>10. ThreadsOnList'
  <2>1. /\ \A k \in 1 .. Len(queue) : thread[queue[k]] \in Thread
        /\ \A k, l \in 1 .. Len(queue) : thread[queue[k]] = thread[queue[l]] => k = l
    BY DEF ListInv, ThreadsOnList
  <2>2. \A k \in 1 .. Len(queue') : thread'[queue'[k]] = thread[queue[k + 1]]
    BY <1>3, <1>4
  <2>3. \A k, l \in 1 .. Len(queue') : k + 1 = l + 1 => k = l
    BY <1>1, <1>4
  <2> QED
    BY <2>1, <2>2, <2>3, <1>6 DEF ThreadsOnList
<1> QED
  BY <1>2, <1>3, <1>4, <1>7, <1>8, <1>9, <1>10 DEF ListInv
==============================================================================
