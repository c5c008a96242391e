------------------------------ MODULE DiskProofs ------------------------------
(***************************************************************************)
(* Proofs about the disks of mp6 and the file system of mp7.               *)
(***************************************************************************)
EXTENDS BlockingDisk, ReadyListProofs, FileSystem, WellFoundedInduction

(***************************************************************************)
(* Safety of mp6's disks for any number of threads of which any may use    *)
(* the disk, in both builds, provided that there are two threads.          *)
(*                                                                         *)
(* The types alone are not inductive: yield needs a first node, so every   *)
(* thread but the running one must be on the list.  The properties of the  *)
(* disk need three facts more: the drive that answers has the command of   *)
(* the request, the thread the request names is still waiting, and a       *)
(* waiting thread whose operation nobody overlapped made the request.      *)
(***************************************************************************)

TwoThreads == \E u, v \in Thread : u # v

OnList(t) == \E k \in 1 .. Len(queue) : thread[queue[k]] = t

Booting ==
  /\ ~yielding
  /\ queue = <<>> => tail = NULL
  /\ Len(queue) = added - 1
  /\ \A k \in 1 .. Len(queue) : thread[queue[k]] = Start[k + 1]

Running ==
  /\ current_thread \in Thread
  /\ \A t \in Thread : OnList(t) <=> (t # current_thread \/ yielding)

SchedInv ==
  /\ ListInv
  /\ current_thread = NULL => Booting
  /\ current_thread # NULL => Running

OnlyUsers == \A t \in Thread : place[t] # "pass" => t \in users

\* A drive with a command has been selected as the one that answers, and the
\* one that answers has the command of the request.
Commanded ==
  /\ \A d \in Drive : drive[d].drq => drive[d].op # NULL
  /\ \A d \in Drive : drive[d].op # NULL => selected = AnsweringDrive
  /\ drive[AnsweringDrive].op # NULL =>
       /\ drive[AnsweringDrive].op = request.op
       /\ drive[AnsweringDrive].block = request.block
       /\ request.buf \in Thread /\ InDisk(request.buf)

OwnUnlessOverlapped ==
  \A t \in Thread : InDisk(t) => request = OwnRequest(t) \/ t \in overlapped

IInv == TypeOK /\ SchedInv /\ OnlyUsers /\ Commanded /\ OwnUnlessOverlapped

------------------------------------------------------------------------------
(* The scheduler.                                                           *)

LEMMA TwoLong ==
  ASSUME TwoThreads, ListInv, NEW t \in Thread, \A s \in Thread : s # t => OnList(s)
  PROVE  queue # <<>>
<1>1. PICK s \in Thread : s # t
  BY DEF TwoThreads
<1>2. PICK k \in 1 .. Len(queue) : thread[queue[k]] = s
  BY <1>1 DEF OnList
<1> QED
  BY <1>2

\* The running thread makes itself ready.
LEMMA ResumeOK ==
  ASSUME TwoThreads, SchedInv, NEW t \in Thread, current_thread = t, ~yielding,
         add(t, {}), yielding' = TRUE, current_thread' = current_thread
  PROVE  SchedInv'
<1>1. ListInv /\ Running /\ t # NULL
  BY ListAssumption DEF SchedInv
<1>2. /\ \A s \in Thread : s # t => OnList(s)
      /\ ~OnList(t)
  BY <1>1 DEF Running
<1>3. queue # <<>> /\ \A k \in 1 .. Len(queue) : thread[queue[k]] # t
  BY <1>1, <1>2, TwoLong DEF OnList
<1>4. /\ ListInv' /\ Len(queue') = Len(queue) + 1
      /\ \A k \in 1 .. Len(queue) : thread'[queue'[k]] = thread[queue[k]]
      /\ thread'[queue'[Len(queue) + 1]] = t
  BY <1>1, <1>3, AddAppends
<1>5. Len(queue) \in Nat
  BY <1>1 DEF ListInv, ListTypeOK
<1>6. ASSUME NEW s \in Thread PROVE OnList(s)'
  <2>1. CASE s = t
    BY <2>1, <1>4, <1>5 DEF OnList
  <2>2. CASE s # t
    <3>1. PICK k \in 1 .. Len(queue) : thread[queue[k]] = s
      BY <2>2, <1>2 DEF OnList
    <3>2. k \in 1 .. Len(queue')
      BY <1>4, <1>5
    <3> QED
      BY <3>1, <3>2, <1>4 DEF OnList
  <2> QED
    BY <2>1, <2>2
<1> QED
  BY <1>1, <1>4, <1>6 DEF SchedInv, Running

LEMMA YieldOK ==
  ASSUME TwoThreads, SchedInv, Yield
  PROVE  SchedInv' /\ current_thread' \in Thread
<1>1. /\ yielding /\ dequeue
      /\ current_thread' = thread[head] /\ yielding' = FALSE
  BY DEF Yield
<1>2. ListInv /\ Running
  BY <1>1 DEF SchedInv, Booting
<1>3. \A s \in Thread : OnList(s)
  BY <1>1, <1>2 DEF Running
<1>4. Len(queue) \in Nat
  BY <1>2 DEF ListInv, ListTypeOK
<1>5. Len(queue) > 1
  <2>1. PICK u \in Thread, v \in Thread : u # v
    BY DEF TwoThreads
  <2>2. PICK k \in 1 .. Len(queue), l \in 1 .. Len(queue) :
          thread[queue[k]] = u /\ thread[queue[l]] = v
    BY <1>3 DEF OnList
  <2> QED
    BY <2>1, <2>2, <1>4
<1>6. /\ ListInv'
      /\ Len(queue') = Len(queue) - 1
      /\ head = queue[1]
      /\ \A k \in 1 .. Len(queue') : queue'[k] = queue[k + 1]
      /\ thread' = thread
  BY <1>1, <1>2, <1>5, DequeueTakes
<1>7. /\ \A k \in 1 .. Len(queue) : thread[queue[k]] \in Thread
      /\ \A k, l \in 1 .. Len(queue) : thread[queue[k]] = thread[queue[l]] => k = l
  BY <1>2 DEF ListInv, ThreadsOnList
<1>8. current_thread' \in Thread
  BY <1>1, <1>4, <1>5, <1>6, <1>7
<1>9. ASSUME NEW s \in Thread PROVE OnList(s)' <=> s # current_thread'
  <2>1. ASSUME s # current_thread' PROVE OnList(s)'
    <3>1. PICK k \in 1 .. Len(queue) : thread[queue[k]] = s
      BY <1>3 DEF OnList
    <3>2. k # 1
      BY <3>1, <2>1, <1>1, <1>6
    <3>3. k - 1 \in 1 .. Len(queue') /\ (k - 1) + 1 = k
      BY <3>2, <1>4, <1>6
    <3>4. thread'[queue'[k - 1]] = s
      BY <3>1, <3>3, <1>6
    <3> QED
      BY <3>3, <3>4 DEF OnList
  <2>2. ASSUME OnList(s)' PROVE s # current_thread'
    <3>1. PICK k \in 1 .. Len(queue') : thread'[queue'[k]] = s
      BY <2>2 DEF OnList
    <3>2. k + 1 \in 1 .. Len(queue) /\ k + 1 # 1 /\ 1 \in 1 .. Len(queue)
      BY <1>4, <1>5, <1>6
    <3>3. s = thread[queue[k + 1]]
      BY <3>1, <1>6
    <3> QED
      BY <3>2, <3>3, <1>1, <1>6, <1>7
  <2> QED
    BY <2>1, <2>2
<1> QED
  BY <1>1, <1>6, <1>8, <1>9, ListAssumption DEF SchedInv, Running

LEMMA BootAddOK ==
  ASSUME SchedInv, added \in 1 .. Len(Start), BootAdd
  PROVE  SchedInv' /\ added' \in 1 .. Len(Start)
<1>1. /\ current_thread = NULL /\ current_thread' = NULL
      /\ added < Len(Start) /\ added' = added + 1
      /\ add(Start[added + 1], {})
      /\ yielding' = yielding
  BY DEF BootAdd
<1>2. ListInv /\ Booting /\ Len(queue) \in Nat
  BY <1>1 DEF SchedInv, ListInv, ListTypeOK
<1>3. Start \in Seq(Thread) /\ Len(Start) \in Nat
      /\ \A k, l \in 1 .. Len(Start) : Start[k] = Start[l] => k = l
  BY DiskAssumption
<1>4. /\ added' \in 1 .. Len(Start) /\ added \in Nat
      /\ Start[added + 1] \in Thread
      /\ \A k \in 1 .. Len(queue) : k + 1 \in 1 .. Len(Start) /\ k + 1 # added + 1
  BY <1>1, <1>2, <1>3 DEF Booting
<1>5. \A k \in 1 .. Len(queue) : thread[queue[k]] # Start[added + 1]
  BY <1>1, <1>2, <1>3, <1>4 DEF Booting
<1>6. queue # <<>> \/ (head = NULL /\ tail = NULL)
  BY <1>2 DEF Booting, ListInv, IsList
<1>7. /\ ListInv' /\ Len(queue') = Len(queue) + 1
      /\ \A k \in 1 .. Len(queue) : thread'[queue'[k]] = thread[queue[k]]
      /\ thread'[queue'[Len(queue) + 1]] = Start[added + 1]
  BY <1>1, <1>2, <1>4, <1>5, <1>6, AddAppends
<1>8. Booting'
  <2>1. Len(queue') = added' - 1 /\ queue' # <<>>
    BY <1>1, <1>2, <1>4, <1>7 DEF Booting
  <2>2. ASSUME NEW k \in 1 .. Len(queue')
        PROVE  thread'[queue'[k]] = Start[k + 1]
    <3>1. k \in 1 .. Len(queue) \/ k = Len(queue) + 1
      BY <1>2, <1>7
    <3> QED
      BY <3>1, <1>2, <1>4, <1>7 DEF Booting
  <2> QED
    BY <2>1, <2>2, <1>1, <1>2 DEF Booting
<1> QED
  BY <1>1, <1>4, <1>7, <1>8 DEF SchedInv

LEMMA KickOffOK ==
  ASSUME SchedInv, KickOff
  PROVE  SchedInv' /\ current_thread' \in Thread
<1>1. /\ current_thread = NULL /\ added = Len(Start) /\ current_thread' = Start[1]
      /\ UNCHANGED <<head, tail, thread, next, queue, yielding>>
  BY DEF KickOff, listVars
<1>2. ListInv /\ Booting /\ Len(queue) \in Nat
  BY <1>1 DEF SchedInv, ListInv, ListTypeOK
<1>3. /\ Start \in Seq(Thread) /\ Len(Start) \in Nat /\ Len(Start) > 0
      /\ \A t \in Thread : \E k \in 1 .. Len(Start) : Start[k] = t
      /\ \A k, l \in 1 .. Len(Start) : Start[k] = Start[l] => k = l
  BY DiskAssumption
<1>4. Start[1] \in Thread
  BY <1>3
<1>5. ListInv'
  BY <1>1, <1>2 DEF ListInv, ListTypeOK, IsList, TailIsLast, ThreadsOnList
<1>6. ASSUME NEW s \in Thread PROVE OnList(s) <=> s # Start[1]
  <2>1. PICK k \in 1 .. Len(Start) : Start[k] = s
    BY <1>3
  <2>2. ASSUME k # 1 PROVE OnList(s) /\ s # Start[1]
    <3>1. k - 1 \in 1 .. Len(queue) /\ (k - 1) + 1 = k /\ 1 \in 1 .. Len(Start)
      BY <2>2, <1>1, <1>2, <1>3 DEF Booting
    <3>2. thread[queue[k - 1]] = s
      BY <3>1, <2>1, <1>2 DEF Booting
    <3> QED
      BY <3>1, <3>2, <2>1, <2>2, <1>3 DEF OnList
  <2>3. ASSUME k = 1, OnList(s) PROVE FALSE
    <3>1. PICK l \in 1 .. Len(queue) : thread[queue[l]] = s
      BY <2>3 DEF OnList
    <3>2. l + 1 \in 1 .. Len(Start) /\ l + 1 # 1 /\ 1 \in 1 .. Len(Start)
      BY <1>1, <1>2, <1>3 DEF Booting
    <3>3. Start[l + 1] = Start[1]
      BY <3>1, <2>1, <2>3, <1>2 DEF Booting
    <3> QED
      BY <3>2, <3>3, <1>3
  <2> QED
    BY <2>1, <2>2, <2>3
<1>7. Running'
  BY <1>1, <1>2, <1>4, <1>6 DEF Running, OnList, Booting
<1> QED
  BY <1>1, <1>4, <1>5, <1>7, ListAssumption DEF SchedInv

LEMMA SchedUnchanged ==
  ASSUME SchedInv, UNCHANGED <<listVars, added, current_thread, yielding>>
  PROVE  SchedInv'
BY DEF SchedInv, listVars, ListInv, ListTypeOK, IsList, TailIsLast, ThreadsOnList, Booting,
       Running, OnList

------------------------------------------------------------------------------
(* The disk.                                                                *)

\* The part of TypeOK that is not the list's.
DiskTypeOK ==
  /\ users \in UserSets /\ mirrored \in Builds
  /\ added \in 1 .. Len(Start)
  /\ current_thread \in Thread \cup {NULL}
  /\ yielding \in BOOLEAN
  /\ place \in [Thread -> Place]
  /\ buffer \in [Thread -> Data]
  /\ read_block \in [Thread -> DiskBlock] /\ write_block \in [Thread -> DiskBlock]
  /\ request \in [op : Operation, block : DiskBlock, buf : Thread \cup {NULL}]
  /\ drive \in [Drive -> [op : Operation \cup {NULL}, block : DiskBlock, drq : BOOLEAN]]
  /\ selected \in Drive
  /\ medium \in [Drive -> [DiskBlock -> Data]]
  /\ overlapped \subseteq users

DiskInv == DiskTypeOK /\ OnlyUsers /\ Commanded /\ OwnUnlessOverlapped

LEMMA Parts == IInv <=> SchedInv /\ DiskInv
BY DEF IInv, DiskInv, TypeOK, DiskTypeOK, SchedInv, ListInv

LEMMA ConstantFacts ==
  /\ \A us \in UserSets : us \subseteq Thread
  /\ Builds \subseteq BOOLEAN
  /\ Blocks \in Nat /\ Blocks >= 2
  /\ 0 \in DiskBlock /\ 1 \in DiskBlock
  /\ \A b \in DiskBlock : (b + 1) % Blocks \in DiskBlock
  /\ NULL \notin Operation /\ NULL \notin Thread
  /\ "READ" \in Operation /\ "WRITE" \in Operation
  /\ MASTER \in Drive /\ DEPENDENT \in Drive /\ MASTER # DEPENDENT
  /\ NULL \in Data /\ Thread \subseteq Data
  /\ \A d \in Drive, b \in DiskBlock : <<d, b>> \in Data
BY DiskAssumption, ListAssumption DEF DiskBlock, Drive, Data, Operation

\* Nothing of the disk changes.
LEMMA DiskUnchanged ==
  ASSUME DiskInv, added' \in 1 .. Len(Start), current_thread' \in Thread \cup {NULL},
         yielding' \in BOOLEAN,
         UNCHANGED <<buildVars, place, funVars, request, deviceVars, overlapped>>
  PROVE  DiskInv'
<1> USE DEF buildVars, funVars, deviceVars
<1>1. DiskTypeOK'
  BY DEF DiskInv, DiskTypeOK
<1>2. OnlyUsers'
  BY DEF DiskInv, OnlyUsers
<1>3. Commanded'
  BY DEF DiskInv, Commanded, AnsweringDrive, InDisk
<1>4. OwnUnlessOverlapped'
  BY DEF DiskInv, OwnUnlessOverlapped, OwnRequest, InDisk
<1> QED
  BY <1>1, <1>2, <1>3, <1>4 DEF DiskInv

\* A thread goes into read() or write().
LEMMA BeginOK ==
  ASSUME DiskInv, NEW t \in Thread, place[t] # "pass", ~InDisk(t),
         NEW o \in Operation, NEW b \in DiskBlock, NEW l \in {"reading", "writing"},
         o = (IF l = "reading" THEN "READ" ELSE "WRITE"),
         b = (IF l = "reading" THEN read_block[t] ELSE write_block[t]),
         Begin(t, o, b), Goes(t, l),
         UNCHANGED <<buildVars, added, current_thread, yielding, funVars>>
  PROVE  DiskInv'
<1> DEFINE command == [op |-> o, block |-> b, drq |-> FALSE]
           others == {u \in Thread \ {t} : InDisk(u)}
<1>1. /\ request' = [op |-> o, block |-> b, buf |-> t]
      /\ place' = [place EXCEPT ![t] = l]
      /\ medium' = medium
      /\ overlapped' = IF others = {} THEN overlapped \ {t}
                       ELSE overlapped \cup others \cup {t}
      /\ UNCHANGED <<users, mirrored, added, current_thread, yielding, buffer, read_block,
                     write_block>>
  BY DEF Begin, push_request, Goes, buildVars, funVars
<1>2. \/ /\ mirrored
         /\ drive' = [d \in Drive |-> command]
         /\ selected' = DEPENDENT
      \/ /\ ~mirrored
         /\ drive' = [drive EXCEPT ![MASTER] = command]
         /\ selected' = MASTER
  BY DEF Begin, issue_operation
<1>3. DiskTypeOK /\ OnlyUsers /\ Commanded /\ OwnUnlessOverlapped
  BY DEF DiskInv
<1>4. /\ place'[t] = l /\ InDisk(t)'
      /\ \A u \in Thread : u # t => place'[u] = place[u] /\ (InDisk(u)' <=> InDisk(u))
  BY <1>1, <1>3 DEF DiskTypeOK, InDisk
<1>5. OnlyUsers'
  BY <1>1, <1>3, <1>4 DEF OnlyUsers
<1>6. DiskTypeOK'
  <2>1. \A u \in others : u \in users
    BY <1>3 DEF InDisk, OnlyUsers
  <2>2. t \in users
    BY <1>3 DEF OnlyUsers
  <2>3. overlapped' \subseteq users'
    BY <1>1, <1>3, <2>1, <2>2 DEF DiskTypeOK
  <2>4. place' \in [Thread -> Place]
    BY <1>1, <1>3 DEF DiskTypeOK, Place
  <2>5. request' \in [op : Operation, block : DiskBlock, buf : Thread \cup {NULL}]
    BY <1>1
  <2>6. command \in [op : Operation \cup {NULL}, block : DiskBlock, drq : BOOLEAN]
    OBVIOUS
  <2>7. drive' \in [Drive -> [op : Operation \cup {NULL}, block : DiskBlock, drq : BOOLEAN]]
    <3> HIDE DEF command
    <3> QED
      BY <1>2, <1>3, <2>6 DEF DiskTypeOK
  <2>8. selected' \in Drive
    BY <1>2, ConstantFacts
  <2> QED
    BY <2>3, <2>4, <2>5, <2>7, <2>8, <1>1, <1>3 DEF DiskTypeOK
<1>7. Commanded'
  <2>1. /\ mirrored' = mirrored /\ AnsweringDrive' = AnsweringDrive
        /\ selected' = AnsweringDrive'
        /\ drive'[AnsweringDrive'] = command
        /\ \A d \in Drive : drive'[d] = command \/ drive'[d] = drive[d]
    <3> HIDE DEF command
    <3>1. AnsweringDrive' = AnsweringDrive /\ mirrored' = mirrored
      BY <1>1 DEF AnsweringDrive
    <3>2. CASE mirrored
      BY <3>1, <3>2, <1>2, ConstantFacts DEF AnsweringDrive
    <3>3. CASE ~mirrored
      <4>1. drive' = [drive EXCEPT ![MASTER] = command] /\ selected' = MASTER
        BY <3>3, <1>2
      <4>2. AnsweringDrive = MASTER
        BY <3>3 DEF AnsweringDrive
      <4>3. /\ drive'[MASTER] = command
            /\ \A d \in Drive : d # MASTER => drive'[d] = drive[d]
        BY <4>1, <1>3, ConstantFacts DEF DiskTypeOK
      <4> QED
        BY <4>1, <4>2, <4>3, <3>1
    <3> QED
      BY <3>2, <3>3
  <2>2. \A d \in Drive : drive'[d].drq => drive'[d].op # NULL
    BY <2>1, <1>3 DEF Commanded
  <2>3. request'.op = o /\ request'.block = b /\ request'.buf = t
    BY <1>1
  <2> QED
    BY <2>1, <2>2, <2>3, <1>4 DEF Commanded
<1>8. OwnUnlessOverlapped'
  <2> SUFFICES ASSUME NEW u \in Thread, InDisk(u)'
               PROVE  (request = OwnRequest(u))' \/ u \in overlapped'
    BY DEF OwnUnlessOverlapped
  <2>1. CASE u = t
    BY <2>1, <1>1, <1>4 DEF OwnRequest
  <2>2. CASE u # t
    <3>1. u \in others
      BY <2>2, <1>4
    <3> QED
      BY <3>1, <1>1
  <2> QED
    BY <2>1, <2>2
<1> QED
  BY <1>5, <1>6, <1>7, <1>8 DEF DiskInv


\* What a transfer finds: the request and the command of the drive that answers.
LEMMA Finds ==
  ASSUME DiskInv, is_ready
  PROVE  /\ selected = AnsweringDrive /\ AnsweringDrive \in Drive
         /\ drive[AnsweringDrive].op = request.op
         /\ drive[AnsweringDrive].block = request.block
         /\ request.op \in Operation /\ request.block \in DiskBlock
         /\ request.buf \in Thread
         /\ slotBar = request
         /\ PortIn = medium[AnsweringDrive][request.block]
<1>1. DiskTypeOK /\ Commanded
  BY DEF DiskInv
<1>2. selected \in Drive /\ drive[selected].drq
  BY <1>1 DEF DiskTypeOK, is_ready
<1>3. drive[selected].op # NULL /\ selected = AnsweringDrive
  BY <1>1, <1>2 DEF Commanded
<1>4. /\ drive[AnsweringDrive].op = request.op
      /\ drive[AnsweringDrive].block = request.block
      /\ request.buf \in Thread
  BY <1>1, <1>3 DEF Commanded
<1>5. /\ request.op \in Operation /\ request.block \in DiskBlock
      /\ request = [op |-> request.op, block |-> request.block, buf |-> request.buf]
  BY <1>1 DEF DiskTypeOK
<1> QED
  BY <1>2, <1>3, <1>4, <1>5 DEF slotBar, PortIn, is_ready

\* The words are moved, the drive is done, and the thread leaves the disk.
LEMMA TransferOK ==
  ASSUME DiskInv, NEW t \in Thread, InDisk(t), is_ready, Transfer,
         NEW l \in {"fill", "pass"}, Goes(t, l),
         read_block' \in [Thread -> DiskBlock], write_block' \in [Thread -> DiskBlock],
         \A u \in Thread : u # t => /\ read_block'[u] = read_block[u]
                                    /\ write_block'[u] = write_block[u],
         UNCHANGED <<buildVars, added, current_thread, yielding, request, selected,
                     overlapped>>
  PROVE  DiskInv'
<1> DEFINE done == [op |-> NULL, block |-> 0, drq |-> FALSE]
<1>1. /\ DiskTypeOK /\ OnlyUsers /\ Commanded /\ OwnUnlessOverlapped
      /\ UNCHANGED <<users, mirrored>>
  BY DEF DiskInv, buildVars
<1>2. /\ selected = AnsweringDrive /\ selected \in Drive
      /\ request.block \in DiskBlock /\ request.buf \in Thread
      /\ drive[selected].block \in DiskBlock
  BY Finds
<1>3. /\ place' = [place EXCEPT ![t] = l]
      /\ drive' = [drive EXCEPT ![selected] = done]
  BY DEF Goes, Transfer
<1>4. done \in [op : Operation \cup {NULL}, block : DiskBlock, drq : BOOLEAN]
  BY ConstantFacts
<1>5. /\ drive' \in [Drive -> [op : Operation \cup {NULL}, block : DiskBlock, drq : BOOLEAN]]
      /\ drive'[selected] = done
      /\ \A d \in Drive : d # selected => drive'[d] = drive[d]
  <2> HIDE DEF done
  <2> QED
    BY <1>1, <1>2, <1>3, <1>4 DEF DiskTypeOK
<1>6. /\ place'[t] = l /\ ~InDisk(t)'
      /\ \A u \in Thread : u # t => place'[u] = place[u] /\ (InDisk(u)' <=> InDisk(u))
      /\ place' \in [Thread -> Place]
  BY <1>1, <1>3 DEF DiskTypeOK, InDisk, Place
<1>7. buffer' \in [Thread -> Data] /\ medium' \in [Drive -> [DiskBlock -> Data]]
  <2>1. medium[selected][drive[selected].block] \in Data /\ buffer[request.buf] \in Data
    BY <1>1, <1>2 DEF DiskTypeOK
  <2>2. buffer' = buffer \/ buffer' = [buffer EXCEPT ![request.buf] = PortIn]
    BY DEF Transfer
  <2>3. PortIn \in Data
    BY <2>1, ConstantFacts DEF PortIn
  <2>4. \/ medium' = medium
        \/ medium' = [medium EXCEPT ![selected][drive[selected].block] = buffer[request.buf]]
    BY DEF Transfer, PortOut
  <2>5. buffer \in [Thread -> Data] /\ medium \in [Drive -> [DiskBlock -> Data]]
    BY <1>1 DEF DiskTypeOK
  <2>6. buffer' \in [Thread -> Data]
    BY <2>2, <2>3, <2>5
  <2>7. medium' \in [Drive -> [DiskBlock -> Data]]
    <3> DEFINE s == selected
               b == drive[selected].block
               v == buffer[request.buf]
    <3>1. s \in Drive /\ b \in DiskBlock /\ v \in Data
      BY <1>1, <1>2, <2>1, <2>5 DEF DiskTypeOK
    <3>2. medium' = medium \/ medium' = [medium EXCEPT ![s][b] = v]
      BY <2>4
    <3>3. medium \in [Drive -> [DiskBlock -> Data]]
      BY <2>5
    <3> HIDE DEF s, b, v
    <3>4. CASE medium' = [medium EXCEPT ![s][b] = v]
      <4>1. medium[s] \in [DiskBlock -> Data]
        BY <3>1, <3>3
      <4>2. [medium[s] EXCEPT ![b] = v] \in [DiskBlock -> Data]
        BY <3>1, <4>1
      <4>3. QED
        BY <3>1, <3>3, <3>4, <4>2
    <3>5. QED
      BY <3>2, <3>3, <3>4
  <2> QED
    BY <2>6, <2>7
<1>8. DiskTypeOK'
  BY <1>1, <1>5, <1>6, <1>7 DEF DiskTypeOK
<1>9. OnlyUsers'
  BY <1>1, <1>6 DEF OnlyUsers, InDisk
<1>10. Commanded'
  <2>1. AnsweringDrive' = AnsweringDrive
    BY <1>1 DEF AnsweringDrive
  <2> QED
    BY <2>1, <1>1, <1>2, <1>5 DEF Commanded
<1>11. OwnUnlessOverlapped'
  BY <1>1, <1>6 DEF OwnUnlessOverlapped, OwnRequest
<1> QED
  BY <1>8, <1>9, <1>10, <1>11 DEF DiskInv

LEMMA DeviceReadyOK ==
  ASSUME DiskInv, NEW d \in Drive, DeviceReady(d)
  PROVE  DiskInv'
<1>1. /\ DiskTypeOK /\ OnlyUsers /\ Commanded /\ OwnUnlessOverlapped
      /\ drive[d].op # NULL
      /\ drive' = [drive EXCEPT ![d].drq = TRUE]
      /\ UNCHANGED <<users, mirrored, added, current_thread, yielding, place, buffer,
                     read_block, write_block, request, selected, medium, overlapped>>
  BY DEF DiskInv, DeviceReady, buildVars, funVars
<1>2. DiskTypeOK'
  BY <1>1 DEF DiskTypeOK
<1>3. \A e \in Drive : drive'[e].op = drive[e].op /\ drive'[e].block = drive[e].block
                       /\ (e # d => drive'[e] = drive[e])
  BY <1>1 DEF DiskTypeOK
<1>4. AnsweringDrive' = AnsweringDrive /\ AnsweringDrive \in Drive
  BY <1>1, ConstantFacts DEF AnsweringDrive
<1>5. Commanded'
  BY <1>1, <1>3, <1>4 DEF Commanded, InDisk
<1>6. OnlyUsers' /\ OwnUnlessOverlapped'
  BY <1>1 DEF OnlyUsers, OwnUnlessOverlapped, OwnRequest, InDisk
<1> QED
  BY <1>2, <1>5, <1>6 DEF DiskInv

LEMMA FillBufferOK ==
  ASSUME DiskInv, NEW t \in Thread, FillBuffer(t)
  PROVE  DiskInv'
<1>1. /\ DiskTypeOK /\ OnlyUsers /\ Commanded /\ OwnUnlessOverlapped
      /\ place[t] = "fill" /\ place' = [place EXCEPT ![t] = "write"]
      /\ buffer' = [buffer EXCEPT ![t] = t]
      /\ UNCHANGED <<users, mirrored, added, current_thread, yielding, drive,
                     read_block, write_block, request, selected, medium, overlapped>>
  BY DEF DiskInv, FillBuffer, Runs, Goes, buildVars, deviceVars
<1>2. DiskTypeOK'
  BY <1>1, ConstantFacts DEF DiskTypeOK, Place
<1>3. \A u \in Thread : (InDisk(u)' <=> InDisk(u)) /\ (u # t => place'[u] = place[u])
  BY <1>1 DEF DiskTypeOK, InDisk
<1>4. AnsweringDrive' = AnsweringDrive
  BY <1>1 DEF AnsweringDrive
<1>5. Commanded'
  BY <1>1, <1>3, <1>4 DEF Commanded
<1>6. OnlyUsers'
  BY <1>1, <1>3 DEF OnlyUsers
<1>7. OwnUnlessOverlapped'
  BY <1>1, <1>3 DEF OwnUnlessOverlapped, OwnRequest, DiskTypeOK, InDisk
<1> QED
  BY <1>2, <1>5, <1>6, <1>7 DEF DiskInv

LEMMA PassOnOK ==
  ASSUME TwoThreads, SchedInv, DiskInv, NEW t \in Thread, PassOn(t)
  PROVE  SchedInv' /\ DiskInv'
<1>1. /\ DiskTypeOK /\ OnlyUsers /\ Commanded /\ OwnUnlessOverlapped
      /\ current_thread = t /\ ~yielding /\ place[t] = "pass"
      /\ add(t, {}) /\ yielding' = TRUE
      /\ place' = [place EXCEPT ![t] = IF t \in users THEN "read" ELSE "pass"]
      /\ UNCHANGED <<users, mirrored, added, current_thread, buffer, drive, read_block,
                     write_block, request, selected, medium, overlapped>>
  BY DEF DiskInv, PassOn, Runs, Goes, buildVars, deviceVars, funVars
<1>2. SchedInv'
  BY <1>1, ResumeOK
<1>3. DiskTypeOK'
  BY <1>1 DEF DiskTypeOK, Place
<1>4. \A u \in Thread : (InDisk(u)' <=> InDisk(u)) /\ (u # t => place'[u] = place[u])
  BY <1>1 DEF DiskTypeOK, InDisk
<1>5. AnsweringDrive' = AnsweringDrive
  BY <1>1 DEF AnsweringDrive
<1>6. Commanded'
  BY <1>1, <1>4, <1>5 DEF Commanded
<1>7. OnlyUsers'
  BY <1>1, <1>4 DEF OnlyUsers, DiskTypeOK
<1>8. OwnUnlessOverlapped'
  BY <1>1, <1>4 DEF OwnUnlessOverlapped, OwnRequest, DiskTypeOK, InDisk
<1> QED
  BY <1>2, <1>3, <1>6, <1>7, <1>8 DEF DiskInv


------------------------------------------------------------------------------
(* The invariant.                                                           *)

LEMMA InitOK == Init => IInv
<1> SUFFICES ASSUME Init PROVE IInv
  OBVIOUS
<1> USE DEF Init, ListInit
<1>1. SchedInv
  <2>1. /\ queue = <<>> /\ Len(queue) = 0 /\ head = NULL /\ tail = NULL
        /\ current_thread = NULL /\ ~yielding /\ added = 1
    OBVIOUS
  <2>2. ListTypeOK
    BY DEF ListTypeOK
  <2>3. IsList /\ TailIsLast /\ ThreadsOnList
    BY <2>1 DEF IsList, TailIsLast, ThreadsOnList
  <2> QED
    BY <2>1, <2>2, <2>3 DEF SchedInv, ListInv, Booting
<1>2. /\ \A d \in Drive : drive[d].op = NULL /\ ~drive[d].drq
      /\ \A t \in Thread : place[t] = IF t \in users THEN "read" ELSE "pass"
  OBVIOUS
<1>3. AnsweringDrive \in Drive
  BY ConstantFacts DEF AnsweringDrive
<1>4. OnlyUsers /\ Commanded /\ OwnUnlessOverlapped
  BY <1>2, <1>3 DEF OnlyUsers, Commanded, OwnUnlessOverlapped, InDisk
<1>5. DiskTypeOK
  <2>1. Len(Start) \in Nat /\ Len(Start) > 0
    BY DiskAssumption
  <2>2. place \in [Thread -> Place]
    BY DEF Place
  <2>3. /\ request \in [op : Operation, block : DiskBlock, buf : Thread \cup {NULL}]
        /\ drive \in [Drive -> [op : Operation \cup {NULL}, block : DiskBlock, drq : BOOLEAN]]
    BY ConstantFacts
  <2>4. medium \in [Drive -> [DiskBlock -> Data]]
    BY ConstantFacts
  <2>5. buffer \in [Thread -> Data] /\ overlapped \subseteq users
    BY ConstantFacts
  <2>6. read_block \in [Thread -> DiskBlock] /\ write_block \in [Thread -> DiskBlock]
    BY ConstantFacts
  <2>7. users \in UserSets /\ mirrored \in Builds
    OBVIOUS
  <2>8. added \in 1 .. Len(Start) /\ selected \in Drive
    BY <2>1, ConstantFacts
  <2>9. current_thread \in Thread \cup {NULL} /\ yielding \in BOOLEAN
    OBVIOUS
  <2> HIDE DEF Init
  <2> QED
    BY <2>2, <2>3, <2>4, <2>5, <2>6, <2>7, <2>8, <2>9 DEF DiskTypeOK
<1> QED
  BY <1>1, <1>4, <1>5, Parts DEF DiskInv

LEMMA ReadOK ==
  ASSUME SchedInv, DiskInv, NEW t \in Thread, Read(t)
  PROVE  SchedInv' /\ DiskInv'
<1>1. /\ place[t] = "read" /\ Begin(t, "READ", read_block[t]) /\ Goes(t, "reading")
      /\ UNCHANGED <<listVars, buildVars, added, current_thread, yielding, funVars>>
  BY DEF Read, Runs
<1>2. read_block[t] \in DiskBlock /\ ~InDisk(t) /\ "READ" \in Operation
  BY <1>1, ConstantFacts DEF DiskInv, DiskTypeOK, InDisk
<1>3. DiskInv'
  BY <1>1, <1>2, BeginOK
<1> QED
  BY <1>1, <1>3, SchedUnchanged

LEMMA WriteOK ==
  ASSUME SchedInv, DiskInv, NEW t \in Thread, Write(t)
  PROVE  SchedInv' /\ DiskInv'
<1>1. /\ place[t] = "write" /\ Begin(t, "WRITE", write_block[t]) /\ Goes(t, "writing")
      /\ UNCHANGED <<listVars, buildVars, added, current_thread, yielding, funVars>>
  BY DEF Write, Runs
<1>2. write_block[t] \in DiskBlock /\ ~InDisk(t) /\ "WRITE" \in Operation
  BY <1>1, ConstantFacts DEF DiskInv, DiskTypeOK, InDisk
<1>3. DiskInv'
  BY <1>1, <1>2, BeginOK
<1> QED
  BY <1>1, <1>3, SchedUnchanged

LEMMA ReadDoneOK ==
  ASSUME SchedInv, DiskInv, NEW t \in Thread, ReadDone(t)
  PROVE  SchedInv' /\ DiskInv'
<1>1. /\ place[t] = "reading" /\ is_ready /\ Transfer /\ Goes(t, "fill")
      /\ UNCHANGED <<listVars, buildVars, added, current_thread, yielding, read_block,
                     write_block, request, selected, overlapped>>
  BY DEF ReadDone, Runs
<1>2. /\ InDisk(t)
      /\ read_block' \in [Thread -> DiskBlock] /\ write_block' \in [Thread -> DiskBlock]
  BY <1>1 DEF DiskInv, DiskTypeOK, InDisk
<1>3. DiskInv'
  BY <1>1, <1>2, TransferOK
<1> QED
  BY <1>1, <1>3, SchedUnchanged

LEMMA WriteDoneOK ==
  ASSUME SchedInv, DiskInv, NEW t \in Thread, WriteDone(t)
  PROVE  SchedInv' /\ DiskInv'
<1>1. /\ place[t] = "writing" /\ is_ready /\ Transfer /\ Goes(t, "pass")
      /\ write_block' = [write_block EXCEPT ![t] = read_block[t]]
      /\ read_block' = [read_block EXCEPT ![t] = (@ + 1) % Blocks]
      /\ UNCHANGED <<listVars, buildVars, added, current_thread, yielding, request,
                     selected, overlapped>>
  BY DEF WriteDone, Runs
<1>2. read_block \in [Thread -> DiskBlock] /\ write_block \in [Thread -> DiskBlock] /\ InDisk(t)
  BY <1>1 DEF DiskInv, DiskTypeOK, InDisk
<1>3. /\ read_block' \in [Thread -> DiskBlock] /\ write_block' \in [Thread -> DiskBlock]
      /\ \A u \in Thread : u # t => /\ read_block'[u] = read_block[u]
                                    /\ write_block'[u] = write_block[u]
  BY <1>1, <1>2, ConstantFacts
<1>4. DiskInv'
  BY <1>1, <1>2, <1>3, TransferOK
<1> QED
  BY <1>1, <1>4, SchedUnchanged

LEMMA PollOK ==
  ASSUME TwoThreads, SchedInv, DiskInv, NEW t \in Thread, Poll(t)
  PROVE  SchedInv' /\ DiskInv'
<1>1. /\ current_thread = t /\ ~yielding /\ add(t, {}) /\ yielding' = TRUE
      /\ UNCHANGED <<buildVars, added, current_thread, place, funVars, request, deviceVars,
                     overlapped>>
  BY DEF Poll, Runs
<1>2. SchedInv'
  BY <1>1, ResumeOK
<1>3. added' \in 1 .. Len(Start) /\ current_thread' \in Thread \cup {NULL}
      /\ yielding' \in BOOLEAN
  BY <1>1 DEF DiskInv, DiskTypeOK
<1> QED
  BY <1>1, <1>2, <1>3, DiskUnchanged

\* IInv is inductive.
THEOREM Inductive == ASSUME TwoThreads PROVE Spec => []IInv
<1>1. Init => IInv
  BY InitOK
<1>2. IInv /\ [Next]_vars => IInv'
  <2>0. SchedInv' /\ DiskInv' => IInv'
    BY DEF IInv, DiskInv, TypeOK, DiskTypeOK, SchedInv, ListInv
  <2> SUFFICES ASSUME SchedInv, DiskInv, [Next]_vars PROVE SchedInv' /\ DiskInv'
    BY <2>0, Parts
  <2>1. DiskTypeOK
    BY DEF DiskInv
  <2>2. CASE BootAdd
    <3>1. SchedInv' /\ added' \in 1 .. Len(Start)
      BY <2>1, <2>2, BootAddOK DEF DiskTypeOK
    <3>2. /\ current_thread' \in Thread \cup {NULL} /\ yielding' \in BOOLEAN
          /\ UNCHANGED <<buildVars, place, funVars, request, deviceVars, overlapped>>
      BY <2>1, <2>2 DEF BootAdd, DiskTypeOK
    <3> QED
      BY <3>1, <3>2, DiskUnchanged
  <2>3. CASE KickOff
    <3>1. SchedInv' /\ current_thread' \in Thread
      BY <2>3, KickOffOK
    <3>2. /\ added' \in 1 .. Len(Start) /\ yielding' \in BOOLEAN
          /\ UNCHANGED <<buildVars, place, funVars, request, deviceVars, overlapped>>
      BY <2>1, <2>3 DEF KickOff, DiskTypeOK
    <3> QED
      BY <3>1, <3>2, DiskUnchanged
  <2>4. CASE Yield
    <3>1. SchedInv' /\ current_thread' \in Thread
      BY <2>4, YieldOK
    <3>2. /\ added' \in 1 .. Len(Start) /\ yielding' \in BOOLEAN
          /\ UNCHANGED <<buildVars, place, funVars, request, deviceVars, overlapped>>
      BY <2>1, <2>4 DEF Yield, DiskTypeOK
    <3> QED
      BY <3>1, <3>2, DiskUnchanged
  <2>5. ASSUME NEW t \in Thread, Step(t) PROVE SchedInv' /\ DiskInv'
    <3>1. ASSUME FillBuffer(t) PROVE SchedInv' /\ DiskInv'
      BY <3>1, FillBufferOK, SchedUnchanged DEF FillBuffer
    <3> QED
      BY <2>5, <3>1, ReadOK, WriteOK, PollOK, ReadDoneOK, WriteDoneOK, PassOnOK DEF Step
  <2>6. ASSUME NEW d \in Drive, DeviceReady(d) PROVE SchedInv' /\ DiskInv'
    BY <2>6, DeviceReadyOK, SchedUnchanged DEF DeviceReady
  <2>7. CASE UNCHANGED vars
    <3>1. /\ added' \in 1 .. Len(Start) /\ current_thread' \in Thread \cup {NULL}
          /\ yielding' \in BOOLEAN
      BY <2>1, <2>7 DEF vars, DiskTypeOK
    <3> QED
      BY <3>1, <2>7, SchedUnchanged, DiskUnchanged DEF vars
  <2> QED
    BY <2>2, <2>3, <2>4, <2>5, <2>6, <2>7 DEF Next, CPU
<1> QED
  BY <1>1, <1>2, PTL DEF Spec


\* The types hold: block numbers stay below Blocks, and no operation of a
\* thread outside users is ever overlapped.
THEOREM TypeCorrect == ASSUME TwoThreads PROVE Spec => []TypeOK
<1>1. IInv => TypeOK
  BY DEF IInv
<1> QED
  BY <1>1, Inductive, PTL

\* A thread that leaves read() or write() has had its own operation served,
\* unless another thread's operation shared its time.
THEOREM ServedOrOverlapped == ASSUME TwoThreads PROVE Spec => ServedUnlessOverlapped
<1> DEFINE Served == \A t \in Thread :
             (InDisk(t) /\ ~InDisk(t)') => request = OwnRequest(t) \/ t \in overlapped
<1>1. IInv => Served
  BY DEF IInv, OwnUnlessOverlapped
<1>2. IInv /\ [Next]_vars => [Served]_vars
  BY <1>1
<1> QED
  BY <1>2, Inductive, PTL DEF Spec, ServedUnlessOverlapped

------------------------------------------------------------------------------
(* The refinement.                                                          *)

LEMMA IssueStep ==
  ASSUME DiskInv, NEW t \in Thread, NEW o \in Operation, NEW b \in DiskBlock,
         NEW l \in {"reading", "writing"},
         Begin(t, o, b), Goes(t, l), UNCHANGED <<buildVars, funVars>>
  PROVE  OneSlot!Next
<1> DEFINE c == [op |-> o, block |-> b, buf |-> t]
<1>1. /\ request' = c /\ medium' = medium /\ buffer' = buffer
      /\ AnsweringDrive' = AnsweringDrive
  BY DEF Begin, push_request, buildVars, funVars, AnsweringDrive
<1>2. drive'[AnsweringDrive'] = [op |-> o, block |-> b, drq |-> FALSE]
  <2>1. mirrored' = mirrored /\ drive \in [Drive ->
          [op : Operation \cup {NULL}, block : DiskBlock, drq : BOOLEAN]]
    BY DEF DiskInv, DiskTypeOK, buildVars
  <2> QED
    BY <2>1, ConstantFacts DEF Begin, issue_operation, AnsweringDrive
<1>3. slotBar' = c
  BY <1>1, <1>2, ConstantFacts DEF slotBar
<1>4. c \in OneSlot!Command /\ OneSlot!Issue(c)
  BY <1>1, <1>3 DEF OneSlot!Command, OneSlot!Issue, Operation
<1> QED
  BY <1>4 DEF OneSlot!Next

LEMMA ServeStep ==
  ASSUME DiskInv, is_ready, Transfer, UNCHANGED <<buildVars, request>>
  PROVE  OneSlot!Next
<1>1. /\ selected = AnsweringDrive /\ AnsweringDrive \in Drive
      /\ slotBar = request /\ request.buf \in Thread
      /\ drive[selected].block = request.block
      /\ PortIn = medium[AnsweringDrive][request.block]
      /\ request.block \in DiskBlock
  BY Finds
<1>2. /\ request \in [op : Operation, block : DiskBlock, buf : Thread \cup {NULL}]
      /\ drive \in [Drive -> [op : Operation \cup {NULL}, block : DiskBlock, drq : BOOLEAN]]
      /\ medium \in [Drive -> [DiskBlock -> Data]]
  BY DEF DiskInv, DiskTypeOK
<1>3. request # NULL
  <2>1. request \in [op : Operation, block : DiskBlock, buf : Thread]
    BY <1>1, <1>2
  <2> QED
    BY <2>1, DiskAssumption
<1>4. AnsweringDrive' = AnsweringDrive
  BY DEF buildVars, AnsweringDrive
<1>5. slotBar' = NULL
  <2>1. drive' = [drive EXCEPT ![selected] = [op |-> NULL, block |-> 0, drq |-> FALSE]]
    BY DEF Transfer
  <2>2. drive'[AnsweringDrive'].op = NULL
    BY <2>1, <1>1, <1>2, <1>4
  <2> QED
    BY <2>2 DEF slotBar
<1>6. \/ /\ request.op = "READ"
         /\ buffer' = [buffer EXCEPT ![request.buf] = medium[AnsweringDrive][request.block]]
         /\ medium'[AnsweringDrive'] = medium[AnsweringDrive]
      \/ /\ request.op = "WRITE"
         /\ medium'[AnsweringDrive'] =
              [medium[AnsweringDrive] EXCEPT ![request.block] = buffer[request.buf]]
         /\ buffer' = buffer
  <2>1. CASE request.op = "READ" /\ buffer' = [buffer EXCEPT ![request.buf] = PortIn]
             /\ medium' = medium
    BY <2>1, <1>1, <1>4
  <2>2. CASE request.op = "WRITE" /\ medium' = PortOut(buffer[request.buf])
             /\ buffer' = buffer
    <3>1. medium' = [medium EXCEPT ![AnsweringDrive][request.block] = buffer[request.buf]]
      BY <2>2, <1>1 DEF PortOut
    <3> QED
      BY <3>1, <2>2, <1>1, <1>2, <1>4
  <2> QED
    BY <2>1, <2>2 DEF Transfer
<1>7. OneSlot!Serve
  BY <1>1, <1>3, <1>5, <1>6 DEF OneSlot!Serve
<1> QED
  BY <1>7 DEF OneSlot!Next

LEMMA FillStep ==
  ASSUME DiskInv, NEW t \in Thread, FillBuffer(t)
  PROVE  OneSlot!Next
<1>1. /\ place[t] = "fill" /\ buffer' = [buffer EXCEPT ![t] = t]
      /\ UNCHANGED <<mirrored, drive, request, medium>>
  BY DEF FillBuffer, Runs, buildVars, deviceVars
<1>2. slotBar' = slotBar /\ medium'[AnsweringDrive'] = medium[AnsweringDrive]
  BY <1>1 DEF slotBar, AnsweringDrive
<1>3. slotBar # NULL => slotBar.buf # t
  BY <1>1 DEF slotBar, DiskInv, Commanded, InDisk
<1>4. t \in Data
  BY ConstantFacts
<1>5. OneSlot!Fill(t, t)
  BY <1>1, <1>2, <1>3 DEF OneSlot!Fill
<1> QED
  BY <1>4, <1>5 DEF OneSlot!Next

LEMMA SlotStutters ==
  ASSUME UNCHANGED <<mirrored, drive, request, medium, buffer>>
  PROVE  UNCHANGED OneSlot!slotVars
BY DEF OneSlot!slotVars, slotBar, AnsweringDrive

\* That the drive becomes ready is nothing the slot sees.
LEMMA ReadyStutters ==
  ASSUME DiskInv, NEW d \in Drive, DeviceReady(d)
  PROVE  UNCHANGED OneSlot!slotVars
<1>1. /\ drive \in [Drive -> [op : Operation \cup {NULL}, block : DiskBlock, drq : BOOLEAN]]
      /\ drive' = [drive EXCEPT ![d].drq = TRUE]
      /\ UNCHANGED <<mirrored, request, medium, buffer>>
  BY DEF DiskInv, DiskTypeOK, DeviceReady, buildVars, funVars
<1>2. AnsweringDrive' = AnsweringDrive /\ AnsweringDrive \in Drive
  BY <1>1, ConstantFacts DEF AnsweringDrive
<1>3. /\ drive'[AnsweringDrive].op = drive[AnsweringDrive].op
      /\ drive'[AnsweringDrive].block = drive[AnsweringDrive].block
  BY <1>1, <1>2
<1> QED
  BY <1>1, <1>2, <1>3 DEF OneSlot!slotVars, slotBar

\* Whatever the threads do, the disk serves the command issued last, whole and
\* when the drive is ready, and no buffer is filled under a transfer of it; of a
\* mirror this is said of the drive DEPENDENT, which answers.
THEOREM ImplementsSlot == ASSUME TwoThreads PROVE Spec => ImplementsCommandSlot
<1>1. Init => OneSlot!Init
  <2> SUFFICES ASSUME Init PROVE OneSlot!Init
    OBVIOUS
  <2>1. AnsweringDrive \in Drive
    BY ConstantFacts DEF AnsweringDrive
  <2>2. slotBar = NULL
    BY <2>1 DEF Init, slotBar
  <2>3. medium[AnsweringDrive] \in [DiskBlock -> Data] /\ buffer \in [Thread -> Data]
    BY <2>1, ConstantFacts DEF Init
  <2> QED
    BY <2>2, <2>3 DEF OneSlot!Init
<1>2. IInv /\ [Next]_vars => [OneSlot!Next]_(OneSlot!slotVars)
  <2> SUFFICES ASSUME DiskInv, [Next]_vars
               PROVE  OneSlot!Next \/ UNCHANGED OneSlot!slotVars
    BY Parts
  <2>1. CASE BootAdd \/ KickOff \/ Yield
    BY <2>1, SlotStutters DEF BootAdd, KickOff, Yield, buildVars, deviceVars, funVars
  <2>2. ASSUME NEW t \in Thread, Step(t)
        PROVE  OneSlot!Next \/ UNCHANGED OneSlot!slotVars
    <3>1. read_block[t] \in DiskBlock /\ write_block[t] \in DiskBlock
      BY DEF DiskInv, DiskTypeOK
    <3>2. CASE Read(t)
      BY <3>1, <3>2, IssueStep, ConstantFacts DEF Read
    <3>3. CASE Write(t)
      BY <3>1, <3>3, IssueStep, ConstantFacts DEF Write
    <3>4. CASE ReadDone(t) \/ WriteDone(t)
      BY <3>4, ServeStep DEF ReadDone, WriteDone
    <3>5. CASE FillBuffer(t)
      BY <3>5, FillStep
    <3>6. CASE Poll(t) \/ PassOn(t)
      BY <3>6, SlotStutters DEF Poll, PassOn, buildVars, deviceVars, funVars
    <3> QED
      BY <2>2, <3>2, <3>3, <3>4, <3>5, <3>6 DEF Step
  <2>3. ASSUME NEW d \in Drive, DeviceReady(d)
        PROVE  UNCHANGED OneSlot!slotVars
    BY <2>3, ReadyStutters
  <2>4. CASE UNCHANGED vars
    BY <2>4, SlotStutters DEF vars, buildVars, deviceVars, funVars
  <2> QED
    BY <2>1, <2>2, <2>3, <2>4 DEF Next, CPU
<1> QED
  BY <1>1, <1>2, Inductive, PTL DEF Spec, ImplementsCommandSlot, OneSlot!Spec

------------------------------------------------------------------------------
(***************************************************************************)
(* The file system of mp7 keeps its files apart, for any disk, any number  *)
(* of inodes, files, File objects and mounts: no block has two owners, one *)
(* is lost only by a CreateFile that finds no inode, and what clients see  *)
(* until then is a store of independent files.                             *)
(***************************************************************************)

\* A disk is mounted only when it has been formatted: the reserved blocks are
\* then occupied, and Lowest never finds one of them.
Formatted ==
  IF mounts = 0 THEN Live = {} ELSE \A b \in Reserved : FreeList[b] = 1

\* CloseFile writes the list of the FileSystem object that made the inode.
Owners == \A i \in Live : InodeList[i].fs \in 1 .. mounts

\* After an object was overwritten nothing is mounted again.
FaultEnds == fault => mounted # 0

(***************************************************************************)
(* The inductive invariant: what the runs check, and that the lists a new  *)
(* FileSystem object reads are those of a formatted disk.                  *)
(***************************************************************************)
FileSystemInv ==
  /\ FileSystemTypeOK /\ BlocksOwned /\ HandlesValid
  /\ Formatted /\ Owners /\ FaultEnds

------------------------------------------------------------------------------
(* The lowest and the highest of a set of indices.                          *)

LEMMA LowestOfSet ==
  ASSUME NEW S \in SUBSET Nat, S # {}
  PROVE  Lowest(S) \in S /\ \A y \in S : Lowest(S) <= y
<1> DEFINE Smaller == {p \in Nat \X Nat : p[1] < p[2]}
<1>1. IsWellFoundedOn(Smaller, Nat)
  BY NatLessThanWellFounded DEF OpToRel
<1> HIDE DEF Smaller
<1>2. PICK x \in S : \A y \in S : <<y, x>> \notin Smaller
  BY <1>1, WFMin
<1>3. ASSUME NEW y \in S PROVE x <= y
  <2>1. y < x => <<y, x>> \in Smaller
    BY DEF Smaller
  <2>2. QED
    BY <1>2, <2>1
<1>4. QED
  BY <1>3 DEF Lowest

LEMMA HighestOfRange ==
  ASSUME NEW n \in Nat, NEW S \in SUBSET (0 .. n), S # {}
  PROVE  \E x \in S : \A y \in S : y <= x
<1> DEFINE Mirrored == {k \in 0 .. n : n - k \in S}
<1>1. PICK s \in S : TRUE
  OBVIOUS
<1>2. n - s \in Mirrored
  OBVIOUS
<1>3. Mirrored \in SUBSET Nat /\ Mirrored # {}
  BY <1>2
<1>4. Lowest(Mirrored) \in Mirrored /\ \A y \in Mirrored : Lowest(Mirrored) <= y
  BY <1>3, LowestOfSet
<1>5. PICK l \in Mirrored : \A y \in Mirrored : l <= y
  BY <1>4
<1>6. ASSUME NEW y \in S PROVE y <= n - l
  <2>1. n - y \in Mirrored
    OBVIOUS
  <2>2. l <= n - y
    BY <1>5, <2>1
  <2>3. QED
    BY <2>2
<1>7. n - l \in S
  BY <1>5
<1>8. QED
  BY <1>6, <1>7

------------------------------------------------------------------------------
(* The lookups.                                                             *)

LEMMA SetFacts ==
  /\ Slot \subseteq Nat /\ Block \subseteq Nat
  /\ NONE \notin Slot /\ NONE \notin Block /\ NONE \notin FileId
  /\ Reserved \subseteq Block
BY FileSystemAssumption DEF Slot, Block, Reserved

LEMMA LookupFinds ==
  ASSUME NEW id \in FileId \cup {NONE}
  PROVE  LET i == IF Slots(id) = {} THEN NONE ELSE Lowest(Slots(id))
         IN  /\ i = NONE => \A j \in Slot : inodes[mounted][j].id # id
             /\ i # NONE => i \in Slot /\ inodes[mounted][i].id = id
<1>1. CASE Slots(id) = {}
  BY <1>1 DEF Slots
<1>2. CASE Slots(id) # {}
  <2>1. Lowest(Slots(id)) \in Slots(id)
    BY <1>2, SetFacts, LowestOfSet DEF Slots
  <2>2. Lowest(Slots(id)) \in Slot /\ inodes[mounted][Lowest(Slots(id))].id = id
    BY <2>1 DEF Slots
  <2>3. QED
    BY <1>2, <2>2, SetFacts
<1>3. QED
  BY <1>1, <1>2

LEMMA LookupFileFinds ==
  ASSUME NEW id \in FileId
  PROVE  /\ LookupFile(id) = NONE => \A j \in Slot : inodes[mounted][j].id # id
         /\ LookupFile(id) # NONE => LookupFile(id) \in Slot /\ inodes[mounted][LookupFile(id)].id = id
BY LookupFinds DEF LookupFile

LEMMA GetFreeInodeFinds ==
  ASSUME GetFreeInode # NONE
  PROVE  GetFreeInode \in Slot /\ inodes[mounted][GetFreeInode].id = NONE
BY LookupFinds DEF GetFreeInode

LEMMA GetFreeBlockFinds ==
  ASSUME GetFreeBlock # NONE
  PROVE  GetFreeBlock \in Block /\ free_blocks[mounted][GetFreeBlock] = 0
<1>1. FreeBlocks # {} /\ GetFreeBlock = Lowest(FreeBlocks)
  BY DEF GetFreeBlock
<1>2. Lowest(FreeBlocks) \in FreeBlocks
  BY <1>1, SetFacts, LowestOfSet DEF FreeBlocks
<1>3. QED
  BY <1>1, <1>2 DEF FreeBlocks

------------------------------------------------------------------------------
(* What a write makes of a block.                                           *)

LEMMA Positions ==
  ASSUME NEW p \in Nat, NEW k \in Nat
  PROVE  Position(p, k) \in 0 .. (BLOCK_SIZE - 1)
BY FileSystemAssumption DEF Position

LEMMA NextPositions ==
  ASSUME NEW p \in Nat, NEW n \in Nat
  PROVE  NextPosition(p, n) \in 0 .. BLOCK_SIZE
<1>1. Position(p, n) \in 0 .. (BLOCK_SIZE - 1) /\ BLOCK_SIZE \in Nat
  BY Positions, FileSystemAssumption
<1>2. QED
  BY <1>1 DEF NextPosition

LEMMA OverwrittenIsContent ==
  ASSUME NEW cache \in Content, NEW p \in Nat, NEW n \in Nat, NEW buf \in [0 .. n -> Char]
  PROVE  Overwritten(cache, p, n, buf) \in Content
<1> DEFINE Hits(x) == {k \in 0 .. n : Position(p, k) = x}
           Last(x) == CHOOSE k \in Hits(x) : \A l \in Hits(x) : l <= k
<1>1. DOMAIN cache = 0 .. (BLOCK_SIZE - 1)
  BY DEF Content
<1>2. ASSUME NEW x \in 0 .. (BLOCK_SIZE - 1)
      PROVE  (IF Hits(x) = {} THEN cache[x] ELSE buf[Last(x)]) \in Char
  <2>1. CASE Hits(x) = {}
    BY <2>1 DEF Content
  <2>2. CASE Hits(x) # {}
    <3>1. Hits(x) \in SUBSET (0 .. n)
      OBVIOUS
    <3> HIDE DEF Hits
    <3>2. \E k \in Hits(x) : \A l \in Hits(x) : l <= k
      BY <2>2, <3>1, HighestOfRange
    <3>3. Last(x) \in Hits(x)
      BY <3>2
    <3>4. Last(x) \in 0 .. n
      BY <3>1, <3>3
    <3> HIDE DEF Last
    <3>5. QED
      BY <2>2, <3>4
  <2>3. QED
    BY <2>1, <2>2
<1>3. Overwritten(cache, p, n, buf) =
        [x \in 0 .. (BLOCK_SIZE - 1) |-> IF Hits(x) = {} THEN cache[x] ELSE buf[Last(x)]]
  BY <1>1, Zenon DEF Overwritten
<1> HIDE DEF Hits, Last
<1>4. QED
  BY <1>2, <1>3 DEF Content

------------------------------------------------------------------------------
(* The steps.                                                               *)

LEMMA InitInv ==
  ASSUME FileSystemInit
  PROVE  FileSystemInv
<1>1. EmptyInode \in Inode /\ EmptyInode.id = NONE
  BY FileSystemAssumption DEF EmptyInode, Inode, Mounts
<1>2. FileSystemTypeOK
  <2>1. disk_inodes \in [Slot -> Inode] /\ inodes \in [1 .. MaxMounts -> [Slot -> Inode]]
    BY <1>1 DEF FileSystemInit
  <2>2. disk_data \in [Block -> Content]
    BY DEF FileSystemInit, Content, Char
  <2>3. handle \in [Handle -> File \cup {NONE}]
    BY DEF FileSystemInit
  <2>4. disk_free \in [Block -> {0, 1}] /\ free_blocks \in [1 .. MaxMounts -> [Block -> {0, 1}]]
    BY DEF FileSystemInit
  <2>5. mounts \in Mounts /\ mounted \in {0, mounts}
    BY FileSystemAssumption DEF FileSystemInit, Mounts
  <2>6. fault \in BOOLEAN
    BY DEF FileSystemInit
  <2>7. QED
    BY <2>1, <2>2, <2>3, <2>4, <2>5, <2>6 DEF FileSystemTypeOK
<1>3. mounts = 0 /\ Live = {} /\ FreeList = [b \in Block |-> 0]
  BY <1>1 DEF FileSystemInit, Live, InodeList, FreeList
<1>4. BlocksOwned /\ Formatted /\ Owners /\ FaultEnds
  <2>1. ~fault /\ Lost = {}
    BY <1>3 DEF FileSystemInit, Lost
  <2>2. QED
    BY <1>3, <2>1 DEF BlocksOwned, Formatted, Owners, FaultEnds
<1>5. HandlesValid
  BY DEF FileSystemInit, HandlesValid, Open
<1>6. QED
  BY <1>2, <1>4, <1>5 DEF FileSystemInv

\* The parts of the invariant that speak of the lists, where the lists that
\* count stay what they are.
LEMMA SameLists ==
  ASSUME FileSystemInv, InodeList' = InodeList, FreeList' = FreeList, fault' = fault,
         mounts \in Nat, mounts' \in Nat, mounts' >= mounts,
         mounts = 0 /\ mounts' # 0 => \A b \in Reserved : FreeList[b] = 1
  PROVE  BlocksOwned' /\ Formatted' /\ Owners' /\ Live' = Live
<1>1. Live' = Live
  BY DEF Live
<1>2. BlocksOwned'
  <2>1. Lost' = Lost
    BY <1>1 DEF Lost
  <2>2. QED
    BY <1>1, <2>1 DEF FileSystemInv, BlocksOwned
<1>3. Formatted'
  BY <1>1 DEF FileSystemInv, Formatted
<1>4. Owners'
  BY <1>1 DEF FileSystemInv, Owners
<1>5. QED
  BY <1>1, <1>2, <1>3, <1>4

LEMMA FormatKeeps ==
  ASSUME FileSystemInv, Format
  PROVE  FileSystemInv' /\ Live = {} /\ Live' = {}
<1>1. mounts = 0 /\ mounted = 0 /\ Live = {} /\ ~fault /\ ~fault'
  BY DEF Format, FileSystemInv, FileSystemTypeOK, Formatted, FaultEnds
<1>2. EmptyInode \in Inode /\ EmptyInode.id = NONE
  BY FileSystemAssumption DEF EmptyInode, Inode, Mounts
<1>3. FileSystemTypeOK'
  <2>1. disk_inodes' \in [Slot -> Inode] /\ disk_free' \in [Block -> {0, 1}]
    BY <1>2 DEF Format
  <2>2. QED
    BY <2>1 DEF Format, memory, FileSystemInv, FileSystemTypeOK
<1>4. mounts' = 0 /\ mounted' = 0 /\ handle' = handle
  BY <1>1 DEF Format, memory
<1>5. Live' = {}
  BY <1>2, <1>4 DEF Format, Live, InodeList
<1>6. \A b \in Block \ Reserved : FreeList'[b] = 0
  BY <1>4 DEF Format, FreeList
<1>7. BlocksOwned' /\ Formatted' /\ Owners' /\ FaultEnds'
  <2>1. Lost' = {}
    BY <1>6 DEF Lost
  <2>2. QED
    BY <1>1, <1>4, <1>5, <2>1 DEF BlocksOwned, Formatted, Owners, FaultEnds
<1>8. HandlesValid'
  BY <1>1, <1>4 DEF FileSystemInv, HandlesValid, Open
<1>9. QED
  BY <1>1, <1>3, <1>5, <1>7, <1>8 DEF FileSystemInv

LEMMA MountKeeps ==
  ASSUME FileSystemInv, Mount
  PROVE  FileSystemInv' /\ InodeList' = InodeList /\ disk_data' = disk_data
<1> DEFINE m == mounts + 1
<1>1. /\ m \in 1 .. MaxMounts /\ mounts \in Nat /\ mounts' = m /\ mounted' = m
      /\ mounted = 0 /\ mounts' \in Mounts /\ m # 0
  BY FileSystemAssumption DEF Mount, FileSystemInv, FileSystemTypeOK, Mounts
<1>2. /\ inodes' = [inodes EXCEPT ![m] = disk_inodes]
      /\ free_blocks' = [free_blocks EXCEPT ![m] = disk_free]
      /\ UNCHANGED <<disk, handle, fault>>
  BY <1>1 DEF Mount
<1>3. \A b \in Reserved : disk_free[b] = 1
  BY DEF Mount
<1> HIDE DEF m
<1>4. FileSystemTypeOK'
  BY <1>1, <1>2 DEF FileSystemInv, FileSystemTypeOK, disk
<1>5. InodeList' = InodeList /\ FreeList' = FreeList /\ FreeList = disk_free
  BY <1>1, <1>2 DEF FileSystemInv, FileSystemTypeOK, InodeList, FreeList
<1>6. BlocksOwned' /\ Formatted' /\ Owners'
  <2>1. mounts' \in Nat /\ mounts' >= mounts
    BY <1>1 DEF m
  <2>2. fault' = fault
    BY <1>2
  <2>3. QED
    BY <1>1, <1>3, <1>5, <2>1, <2>2, SameLists
<1>7. HandlesValid'
  BY <1>1, <1>2 DEF FileSystemInv, HandlesValid, Open
<1>8. FaultEnds'
  BY <1>1 DEF FaultEnds
<1>9. QED
  BY <1>2, <1>4, <1>5, <1>6, <1>7, <1>8 DEF FileSystemInv, disk

LEMMA UnmountKeeps ==
  ASSUME FileSystemInv, Unmount
  PROVE  FileSystemInv' /\ InodeList' = InodeList /\ disk_data' = disk_data
<1>1. /\ mounted # 0 /\ mounted = mounts /\ mounted \in 1 .. MaxMounts /\ mounts \in Nat
      /\ disk_inodes' = inodes[mounted] /\ disk_free' = free_blocks[mounted] /\ mounted' = 0
      /\ UNCHANGED <<disk_data, inodes, free_blocks, mounts, handle, fault>>
  BY FileSystemAssumption DEF Unmount, IsMounted, FileSystemInv, FileSystemTypeOK, Mounts
<1>2. FileSystemTypeOK'
  BY <1>1 DEF FileSystemInv, FileSystemTypeOK
<1>3. InodeList' = InodeList /\ FreeList' = FreeList
  BY <1>1 DEF InodeList, FreeList
<1>4. BlocksOwned' /\ Formatted' /\ Owners'
  BY <1>1, <1>3, SameLists
<1>5. HandlesValid' /\ FaultEnds'
  BY <1>1 DEF Unmount, IsMounted, HandlesValid, Open, FaultEnds
<1>6. QED
  BY <1>1, <1>2, <1>3, <1>4, <1>5 DEF FileSystemInv

\* What is known while a disk is mounted.
LEMMA MountedFacts ==
  ASSUME FileSystemInv, IsMounted
  PROVE  /\ mounted # 0 /\ mounted = mounts /\ mounted \in 1 .. MaxMounts /\ mounts \in Nat
         /\ InodeList = inodes[mounted] /\ InodeList \in [Slot -> Inode]
         /\ FreeList = free_blocks[mounted] /\ FreeList \in [Block -> {0, 1}]
         /\ \A b \in Reserved : FreeList[b] = 1
BY FileSystemAssumption DEF IsMounted, FileSystemInv, FileSystemTypeOK, Mounts, InodeList, FreeList, Formatted

\* While no CreateFile has found the inodes used up, marked blocks are owned ones.
LEMMA MarkedIsOwned ==
  ASSUME FileSystemInv, ~fault, NEW c \in Block \ Reserved
  PROVE  FreeList[c] = 1 <=> \E j \in Live : InodeList[j].block_no = c
<1>1. c \notin Lost
  BY DEF FileSystemInv, BlocksOwned
<1>2. FreeList[c] = 1 => \E j \in Live : InodeList[j].block_no = c
  BY <1>1 DEF Lost
<1>3. \A j \in Live : FreeList[InodeList[j].block_no] = 1
  BY DEF FileSystemInv, BlocksOwned
<1>4. QED
  BY <1>2, <1>3

\* A new file: id in slot i with block b.
LEMMA CreateFileKeeps ==
  ASSUME FileSystemInv, NEW id \in FileId, CreateFile(id), Creates(id), GetFreeInode # NONE
  PROVE  /\ FileSystemInv'
         /\ id \notin FileNames
         /\ disk_data' = disk_data
         /\ \E i \in Slot, b \in Block :
              /\ i \notin Live /\ Live' = Live \cup {i}
              /\ InodeList'[i].id = id /\ InodeList'[i].block_no = b
              /\ \A j \in Live : InodeList'[j] = InodeList[j]
<1> DEFINE b == GetFreeBlock
           i == GetFreeInode
           new == [id |-> id, block_no |-> b, fs |-> mounted]
<1>1. /\ mounted # 0 /\ mounted = mounts /\ mounted \in 1 .. MaxMounts /\ mounts \in Nat
      /\ InodeList = inodes[mounted] /\ InodeList \in [Slot -> Inode]
      /\ FreeList = free_blocks[mounted] /\ FreeList \in [Block -> {0, 1}]
      /\ \A r \in Reserved : FreeList[r] = 1
  BY MountedFacts DEF CreateFile
<1>2. /\ free_blocks' = [free_blocks EXCEPT ![mounted][b] = 1]
      /\ inodes' = [inodes EXCEPT ![mounted][i] = new]
      /\ SaveLists
      /\ UNCHANGED <<disk_data, fault, mounts, mounted, handle>>
      /\ ~fault /\ ~fault'
  BY DEF CreateFile, IsMounted
<1>3. /\ b \in Block /\ free_blocks[mounted][b] = 0
      /\ i \in Slot /\ inodes[mounted][i].id = NONE
      /\ \A j \in Slot : inodes[mounted][j].id # id
  BY GetFreeBlockFinds, GetFreeInodeFinds, LookupFileFinds DEF Creates
<1> HIDE DEF b, i
<1>4. new \in Inode /\ new.id = id /\ new.block_no = b /\ new.fs = mounted
  BY <1>1, <1>3 DEF Inode, Mounts
<1> HIDE DEF new
<1>5. /\ inodes' \in [1 .. MaxMounts -> [Slot -> Inode]]
      /\ free_blocks' \in [1 .. MaxMounts -> [Block -> {0, 1}]]
      /\ inodes'[mounted] \in [Slot -> Inode] /\ free_blocks'[mounted] \in [Block -> {0, 1}]
      /\ inodes'[mounted][i] = new /\ \A j \in Slot \ {i} : inodes'[mounted][j] = inodes[mounted][j]
      /\ free_blocks'[mounted][b] = 1 /\ \A c \in Block \ {b} : free_blocks'[mounted][c] = free_blocks[mounted][c]
  BY <1>1, <1>2, <1>3, <1>4 DEF FileSystemInv, FileSystemTypeOK
<1>6. InodeList' = inodes'[mounted] /\ FreeList' = free_blocks'[mounted]
  BY <1>1, <1>2 DEF InodeList, FreeList
<1>7. FileSystemTypeOK'
  BY <1>2, <1>5 DEF SaveLists, FileSystemInv, FileSystemTypeOK
<1>8. /\ i \notin Live /\ Live' = Live \cup {i}
      /\ \A j \in Live : j \in Slot \ {i} /\ InodeList'[j] = InodeList[j] /\ InodeList[j].id # id
  <2>1. i \notin Live /\ \A j \in Live : j \in Slot \ {i} /\ InodeList[j].id # id
    BY <1>1, <1>3 DEF Live
  <2>2. \A j \in Slot \ {i} : InodeList'[j] = InodeList[j]
    BY <1>1, <1>5, <1>6
  <2>3. InodeList'[i].id # NONE
    BY <1>4, <1>5, <1>6, SetFacts
  <2>4. Live' = Live \cup {i}
    BY <1>3, <2>2, <2>3 DEF Live
  <2>5. QED
    BY <2>1, <2>2, <2>4
<1>9. \A j \in Live : InodeList[j].block_no # b
  BY <1>1, <1>3 DEF FileSystemInv, BlocksOwned
<1>10. BlocksOwned'
  <2>1. \A j \in Live' : InodeList'[j].block_no \in Block \ Reserved
    BY <1>1, <1>3, <1>4, <1>5, <1>6, <1>8 DEF FileSystemInv, BlocksOwned
  <2>2. \A j, k \in Live' : j # k =>
          InodeList'[j].id # InodeList'[k].id /\ InodeList'[j].block_no # InodeList'[k].block_no
    BY <1>4, <1>5, <1>6, <1>8, <1>9 DEF FileSystemInv, BlocksOwned
  <2>3. ASSUME NEW c \in Block \ Reserved
        PROVE  FreeList'[c] = 1 <=> \E j \in Live' : InodeList'[j].block_no = c
    <3>1. FreeList[c] = 1 <=> \E j \in Live : InodeList[j].block_no = c
      BY <1>2, MarkedIsOwned
    <3>2. (\E j \in Live' : InodeList'[j].block_no = c)
            <=> c = b \/ \E j \in Live : InodeList[j].block_no = c
      BY <1>4, <1>5, <1>6, <1>8
    <3>3. FreeList'[c] = 1 <=> c = b \/ FreeList[c] = 1
      BY <1>1, <1>5, <1>6
    <3>4. QED
      BY <3>1, <3>2, <3>3
  <2>4. Lost' = {}
    BY <2>3 DEF Lost
  <2>5. \A j \in Live' : FreeList'[InodeList'[j].block_no] = 1
    BY <2>1, <2>3
  <2>6. QED
    BY <1>2, <2>1, <2>2, <2>4, <2>5 DEF BlocksOwned
<1>11. HandlesValid'
  BY <1>2, <1>3, <1>1, <1>5, <1>6, SetFacts DEF FileSystemInv, HandlesValid, Open, FileSystemTypeOK, File
<1>12. Formatted'
  <2>1. \A r \in Reserved : FreeList'[r] = 1
    BY <1>1, <1>3, <1>5, <1>6, SetFacts
  <2>2. QED
    BY <1>1, <1>2, <2>1 DEF Formatted
<1>13. Owners'
  BY <1>1, <1>2, <1>4, <1>5, <1>6, <1>8 DEF FileSystemInv, Owners
<1>14. id \notin FileNames /\ FaultEnds'
  BY <1>2, <1>8 DEF FileNames, FaultEnds
<1>15. QED
  BY <1>2, <1>3, <1>4, <1>5, <1>6, <1>7, <1>8, <1>10, <1>11, <1>12, <1>13, <1>14 DEF FileSystemInv

\* A call that is refused.
LEMMA RefusedKeeps ==
  ASSUME FileSystemInv, NEW id \in FileId, CreateFile(id), ~Creates(id)
  PROVE  FileSystemInv' /\ InodeList' = InodeList /\ disk_data' = disk_data
<1>1. UNCHANGED <<disk_inodes, disk_free, disk_data, inodes, free_blocks, mounts, mounted, handle, fault>>
  BY DEF CreateFile
<1>2. FileSystemTypeOK'
  BY <1>1 DEF FileSystemInv, FileSystemTypeOK
<1>3. InodeList' = InodeList /\ FreeList' = FreeList
  BY <1>1 DEF InodeList, FreeList
<1>4. mounts \in Nat
  BY FileSystemAssumption DEF FileSystemInv, FileSystemTypeOK, Mounts
<1>5. BlocksOwned' /\ Formatted' /\ Owners'
  BY <1>1, <1>3, <1>4, SameLists
<1>6. HandlesValid' /\ FaultEnds'
  BY <1>1, <1>3 DEF FileSystemInv, HandlesValid, Open, FaultEnds
<1>7. QED
  BY <1>1, <1>2, <1>3, <1>5, <1>6 DEF FileSystemInv

\* A call that gets block b and finds no inode: b is lost, the inodes are not
\* touched.
LEMMA OverwriteKeeps ==
  ASSUME FileSystemInv, NEW id \in FileId, CreateFile(id), Creates(id), GetFreeInode = NONE
  PROVE  FileSystemInv' /\ InodeList' = InodeList /\ disk_data' = disk_data
<1> DEFINE b == GetFreeBlock
<1>1. /\ mounted # 0 /\ mounted = mounts /\ mounted \in 1 .. MaxMounts /\ mounts \in Nat
      /\ InodeList = inodes[mounted] /\ InodeList \in [Slot -> Inode]
      /\ FreeList = free_blocks[mounted] /\ FreeList \in [Block -> {0, 1}]
      /\ \A r \in Reserved : FreeList[r] = 1
  BY MountedFacts DEF CreateFile
<1>2. /\ free_blocks' = [free_blocks EXCEPT ![mounted][b] = 1]
      /\ ~fault
      /\ UNCHANGED <<disk_data, mounts, mounted, handle>>
      /\ OverwriteObject
  BY DEF CreateFile, IsMounted
<1>3. b \in Block /\ free_blocks[mounted][b] = 0
  BY GetFreeBlockFinds DEF Creates
<1> HIDE DEF b
<1>4. /\ free_blocks' \in [1 .. MaxMounts -> [Block -> {0, 1}]]
      /\ free_blocks'[mounted] \in [Block -> {0, 1}] /\ free_blocks'[mounted][b] = 1
      /\ \A c \in Block \ {b} : free_blocks'[mounted][c] = free_blocks[mounted][c]
  BY <1>1, <1>2, <1>3 DEF FileSystemInv, FileSystemTypeOK
<1>5. fault' /\ inodes' = inodes /\ fault' \in BOOLEAN
  BY <1>2 DEF OverwriteObject
<1>6. FileSystemTypeOK'
  <2>1. disk_inodes' \in [Slot -> Inode]
    BY <1>2, DamageAssumption DEF OverwriteObject, FileSystemInv, FileSystemTypeOK
  <2>2. disk_free' \in [Block -> {0, 1}]
    BY <1>2, <1>4 DEF OverwriteObject, FileSystemInv, FileSystemTypeOK
  <2>3. QED
    BY <1>2, <1>4, <1>5, <2>1, <2>2 DEF FileSystemInv, FileSystemTypeOK
<1>7. InodeList' = InodeList /\ FreeList' = free_blocks'[mounted]
  BY <1>1, <1>2, <1>5 DEF InodeList, FreeList
<1>8. Live' = Live
  BY <1>7 DEF Live
<1>9. BlocksOwned'
  <2>1. b \in Block \ Reserved
    BY <1>1, <1>3
  <2>2. \A j \in Live : InodeList[j].block_no # b
    BY <1>1, <1>3 DEF FileSystemInv, BlocksOwned
  <2>3. ASSUME NEW c \in Block \ Reserved
        PROVE  c \in Lost' <=> c = b
    <3>1. c \in Lost' <=> FreeList'[c] = 1 /\ \A j \in Live : InodeList[j].block_no # c
      BY <1>7, <1>8 DEF Lost
    <3>2. CASE c = b
      BY <1>4, <1>7, <2>2, <3>1, <3>2
    <3>3. CASE c # b
      <4>1. FreeList'[c] = FreeList[c]
        BY <1>1, <1>4, <1>7, <3>3
      <4>2. FreeList[c] = 1 <=> \E j \in Live : InodeList[j].block_no = c
        BY <1>2, MarkedIsOwned
      <4>3. QED
        BY <3>1, <3>3, <4>1, <4>2
    <3>4. QED
      BY <3>2, <3>3
  <2>4. Lost' = {b}
    BY <2>1, <2>3 DEF Lost
  <2>5. \E c \in Block : Lost' = {c}
    BY <2>1, <2>4
  <2>6. \A j \in Live : InodeList[j].block_no \in Block /\ FreeList[InodeList[j].block_no] = 1
    BY DEF FileSystemInv, BlocksOwned
  <2>7. \A j \in Live : FreeList'[InodeList[j].block_no] = 1
    BY <1>1, <1>4, <1>7, <2>6
  <2>8. QED
    BY <1>5, <1>7, <1>8, <2>5, <2>7 DEF FileSystemInv, BlocksOwned
<1>10. Formatted'
  <2>1. \A r \in Reserved : FreeList'[r] = 1
    BY <1>1, <1>3, <1>4, <1>7, SetFacts
  <2>2. QED
    BY <1>1, <1>2, <2>1 DEF Formatted
<1>11. Owners' /\ FaultEnds'
  BY <1>1, <1>2, <1>7, <1>8 DEF FileSystemInv, Owners, FaultEnds
<1>12. HandlesValid'
  BY <1>2, <1>7 DEF FileSystemInv, HandlesValid, Open
<1>13. QED
  BY <1>2, <1>6, <1>7, <1>9, <1>10, <1>11, <1>12 DEF FileSystemInv

\* The file that goes: that of slot i.
LEMMA DeleteFileKeeps ==
  ASSUME FileSystemInv, NEW id \in FileId, DeleteFile(id)
  PROVE  /\ FileSystemInv'
         /\ disk_data' = disk_data
         /\ \E i \in Live :
              /\ InodeList[i].id = id
              /\ Live' = Live \ {i}
              /\ \A j \in Live' : InodeList'[j] = InodeList[j]
<1> DEFINE i == LookupFile(id)
           b == inodes[mounted][i].block_no
           new == [id |-> NONE, block_no |-> NONE, fs |-> inodes[mounted][i].fs]
<1>1. /\ mounted # 0 /\ mounted = mounts /\ mounted \in 1 .. MaxMounts /\ mounts \in Nat
      /\ InodeList = inodes[mounted] /\ InodeList \in [Slot -> Inode]
      /\ FreeList = free_blocks[mounted] /\ FreeList \in [Block -> {0, 1}]
      /\ \A r \in Reserved : FreeList[r] = 1
  BY MountedFacts DEF DeleteFile
<1>2. i \in Slot /\ inodes[mounted][i].id = id
  BY LookupFileFinds DEF DeleteFile
<1>3. i \in Live
  BY <1>1, <1>2, SetFacts DEF Live
<1>4. b \in Block \ Reserved
  BY <1>1, <1>3 DEF FileSystemInv, BlocksOwned
<1>5. /\ free_blocks' = [free_blocks EXCEPT ![mounted][b] = 0]
      /\ inodes' = [inodes EXCEPT ![mounted][i] = new]
      /\ SaveLists
      /\ \A h \in Handle : Open(h) => handle[h].id # id
      /\ UNCHANGED <<disk_data, mounts, mounted, handle, fault>>
      /\ ~fault /\ ~fault'
  BY <1>1, <1>2 DEF DeleteFile, IsMounted, FileSystemInv, FileSystemTypeOK
<1>6. new \in Inode /\ new.id = NONE
  BY <1>1, <1>2 DEF Inode
<1> HIDE DEF i, b, new
<1>7. /\ inodes' \in [1 .. MaxMounts -> [Slot -> Inode]]
      /\ free_blocks' \in [1 .. MaxMounts -> [Block -> {0, 1}]]
      /\ inodes'[mounted][i] = new /\ \A j \in Slot \ {i} : inodes'[mounted][j] = inodes[mounted][j]
      /\ free_blocks'[mounted][b] = 0 /\ \A c \in Block \ {b} : free_blocks'[mounted][c] = free_blocks[mounted][c]
  BY <1>1, <1>2, <1>4, <1>5, <1>6 DEF FileSystemInv, FileSystemTypeOK
<1>8. /\ inodes'[mounted] \in [Slot -> Inode] /\ free_blocks'[mounted] \in [Block -> {0, 1}]
      /\ InodeList' = inodes'[mounted] /\ FreeList' = free_blocks'[mounted]
  BY <1>1, <1>5, <1>7 DEF InodeList, FreeList
<1>9. FileSystemTypeOK'
  BY <1>5, <1>7, <1>8 DEF SaveLists, FileSystemInv, FileSystemTypeOK
<1>10. Live' = Live \ {i} /\ \A j \in Live' : InodeList'[j] = InodeList[j]
  <2>1. \A j \in Slot \ {i} : InodeList'[j] = InodeList[j]
    BY <1>1, <1>7, <1>8
  <2>2. InodeList'[i].id = NONE
    BY <1>6, <1>7, <1>8
  <2>3. QED
    BY <2>1, <2>2 DEF Live
<1>11. InodeList[i].block_no = b /\ \A j \in Live \ {i} : InodeList[j].block_no # b
  BY <1>1, <1>3 DEF FileSystemInv, BlocksOwned, b
<1>12. BlocksOwned'
  <2>1. \A j \in Live' : InodeList'[j].block_no \in Block \ Reserved
    BY <1>10 DEF FileSystemInv, BlocksOwned
  <2>2. \A j, k \in Live' : j # k =>
          InodeList'[j].id # InodeList'[k].id /\ InodeList'[j].block_no # InodeList'[k].block_no
    BY <1>10 DEF FileSystemInv, BlocksOwned
  <2>3. ASSUME NEW c \in Block \ Reserved
        PROVE  FreeList'[c] = 1 <=> \E j \in Live' : InodeList'[j].block_no = c
    <3>1. FreeList[c] = 1 <=> \E j \in Live : InodeList[j].block_no = c
      BY <1>5, MarkedIsOwned
    <3>2. (\E j \in Live' : InodeList'[j].block_no = c)
            <=> c # b /\ \E j \in Live : InodeList[j].block_no = c
      BY <1>3, <1>10, <1>11
    <3>3. FreeList'[c] = 1 <=> c # b /\ FreeList[c] = 1
      BY <1>1, <1>7, <1>8
    <3>4. QED
      BY <3>1, <3>2, <3>3
  <2>4. Lost' = {}
    BY <2>3 DEF Lost
  <2>5. \A j \in Live' : FreeList'[InodeList'[j].block_no] = 1
    BY <2>1, <2>3
  <2>6. QED
    BY <1>5, <2>1, <2>2, <2>4, <2>5 DEF BlocksOwned
<1>13. HandlesValid'
  <2>1. ASSUME NEW h \in Handle, Open(h) PROVE InodeList'[handle[h].inode].id = handle[h].id
    <3>1. handle[h].inode \in Slot /\ InodeList[handle[h].inode].id = handle[h].id /\ handle[h].id # id
      BY <1>5, <2>1 DEF FileSystemInv, HandlesValid, FileSystemTypeOK, File, Open
    <3>2. handle[h].inode # i
      BY <1>1, <1>2, <3>1
    <3>3. QED
      BY <1>1, <1>7, <1>8, <3>1, <3>2
  <2>2. QED
    BY <1>1, <1>5, <2>1 DEF HandlesValid, Open
<1>14. Formatted'
  <2>1. \A r \in Reserved : FreeList'[r] = 1
    BY <1>1, <1>4, <1>7, <1>8, SetFacts
  <2>2. QED
    BY <1>1, <1>5, <2>1 DEF Formatted
<1>15. Owners' /\ FaultEnds'
  BY <1>5, <1>10 DEF FileSystemInv, Owners, FaultEnds
<1>16. QED
  BY <1>1, <1>2, <1>3, <1>5, <1>9, <1>10, <1>12, <1>13, <1>14, <1>15 DEF FileSystemInv

\* A step of File object h that touches no list: it still names its file.
LEMMA HandleStep ==
  ASSUME FileSystemInv, NEW h \in Handle, IsMounted, NEW f \in File,
         handle' = [handle EXCEPT ![h] = f],
         InodeList[f.inode].id = f.id,
         UNCHANGED <<disk, memory, fault>>
  PROVE  FileSystemInv' /\ InodeList' = InodeList /\ disk_data' = disk_data
<1>1. FileSystemTypeOK'
  BY DEF disk, memory, FileSystemInv, FileSystemTypeOK
<1>2. InodeList' = InodeList /\ FreeList' = FreeList
  BY DEF disk, memory, InodeList, FreeList
<1>3. mounts \in Nat /\ mounts' = mounts /\ mounted' = mounted /\ mounted # 0 /\ fault' = fault
  BY FileSystemAssumption DEF memory, FileSystemInv, FileSystemTypeOK, Mounts, IsMounted
<1>4. BlocksOwned' /\ Formatted' /\ Owners'
  BY <1>2, <1>3, SameLists
<1>5. HandlesValid' /\ FaultEnds'
  BY <1>2, <1>3 DEF FileSystemInv, HandlesValid, Open, FileSystemTypeOK, FaultEnds
<1>6. QED
  BY <1>1, <1>2, <1>4, <1>5 DEF FileSystemInv, disk

LEMMA OpenHandle ==
  ASSUME FileSystemInv, NEW h \in Handle, Open(h)
  PROVE  /\ handle[h] \in File /\ handle[h].inode \in Live
         /\ InodeList[handle[h].inode].id = handle[h].id /\ handle[h].id \in FileId
<1>1. handle[h] \in File /\ InodeList[handle[h].inode].id = handle[h].id
  BY DEF FileSystemInv, FileSystemTypeOK, HandlesValid, Open
<1>2. handle[h].inode \in Slot /\ handle[h].id \in FileId
  BY <1>1 DEF File
<1>3. QED
  BY <1>1, <1>2, SetFacts DEF Live

LEMMA FileCallsKeep ==
  ASSUME FileSystemInv, NEW h \in Handle,
         \/ ResetFile(h)
         \/ \E id \in FileId : OpenFile(h, id)
         \/ \E n \in 0 .. (BLOCK_SIZE + 1) : ReadFile(h, n) \/ \E c \in Letter : WriteFile(h, n, c)
  PROVE  FileSystemInv' /\ InodeList' = InodeList /\ disk_data' = disk_data
<1>0. BLOCK_SIZE \in Nat /\ BLOCK_SIZE > 0
  BY FileSystemAssumption
<1>1. CASE ResetFile(h)
  <2> DEFINE f == [handle[h] EXCEPT !.current_position = 0]
  <2>1. /\ handle[h] \in File /\ handle[h].inode \in Live
        /\ InodeList[handle[h].inode].id = handle[h].id
    BY <1>1, OpenHandle DEF ResetFile
  <2>2. f \in File /\ f.inode = handle[h].inode /\ f.id = handle[h].id
    BY <1>0, <2>1 DEF File
  <2>3. handle' = [handle EXCEPT ![h] = f]
    BY <1>1 DEF ResetFile
  <2> HIDE DEF f
  <2>4. QED
    BY <1>1, <2>1, <2>2, <2>3, HandleStep DEF ResetFile
<1>2. ASSUME NEW id \in FileId, OpenFile(h, id)
      PROVE  FileSystemInv' /\ InodeList' = InodeList /\ disk_data' = disk_data
  <2> DEFINE i == LookupFile(id)
             f == [id |-> id, inode |-> i, current_position |-> 0,
                   block_cache |-> disk_data[inodes[mounted][i].block_no]]
  <2>1. IsMounted /\ InodeList = inodes[mounted]
    BY <1>2, MountedFacts DEF OpenFile
  <2>2. i \in Slot /\ InodeList[i].id = id
    BY <1>2, <2>1, LookupFileFinds DEF OpenFile
  <2>3. i \in Live
    BY <2>2, SetFacts DEF Live
  <2>4. InodeList[i].block_no \in Block
    BY <2>3 DEF FileSystemInv, BlocksOwned
  <2>5. disk_data[InodeList[i].block_no] \in Content
    BY <2>4 DEF FileSystemInv, FileSystemTypeOK
  <2>6. f \in File /\ f.inode = i /\ f.id = id
    BY <1>0, <2>1, <2>2, <2>5 DEF File
  <2>7. handle' = [handle EXCEPT ![h] = f]
    BY <1>2 DEF OpenFile
  <2> HIDE DEF f, i
  <2>8. QED
    BY <1>2, <2>1, <2>2, <2>6, <2>7, HandleStep DEF OpenFile
<1>3. ASSUME NEW n \in 0 .. (BLOCK_SIZE + 1), ReadFile(h, n)
      PROVE  FileSystemInv' /\ InodeList' = InodeList /\ disk_data' = disk_data
  <2> DEFINE p == handle[h].current_position
             f == [handle[h] EXCEPT !.current_position = IF p + n + 1 < BLOCK_SIZE THEN p + n + 1 ELSE 0]
  <2>1. /\ handle[h] \in File /\ InodeList[handle[h].inode].id = handle[h].id
    BY <1>3, OpenHandle DEF ReadFile
  <2>2. p \in Nat
    BY <1>0, <2>1 DEF File
  <2>3. (IF p + n + 1 < BLOCK_SIZE THEN p + n + 1 ELSE 0) \in 0 .. BLOCK_SIZE
    BY <1>0, <2>2
  <2>4. f \in File /\ f.inode = handle[h].inode /\ f.id = handle[h].id
    BY <2>1, <2>3 DEF File
  <2>5. handle' = [handle EXCEPT ![h] = f]
    BY <1>3 DEF ReadFile
  <2> HIDE DEF f
  <2>6. QED
    BY <1>3, <2>1, <2>4, <2>5, HandleStep DEF ReadFile
<1>4. ASSUME NEW len \in 0 .. (BLOCK_SIZE + 1), NEW c \in Letter, WriteFile(h, len, c)
      PROVE  FileSystemInv' /\ InodeList' = InodeList /\ disk_data' = disk_data
  <2> DEFINE n == IF len > BLOCK_SIZE THEN BLOCK_SIZE ELSE len
             buf == [k \in 0 .. n |-> IF k < len THEN c ELSE NUL]
             p == handle[h].current_position
             f == [handle[h] EXCEPT !.block_cache = Overwritten(handle[h].block_cache, p, n, buf),
                                    !.current_position = NextPosition(p, n)]
  <2>1. /\ handle[h] \in File /\ InodeList[handle[h].inode].id = handle[h].id
    BY <1>4, OpenHandle DEF WriteFile
  <2>2. p \in Nat /\ handle[h].block_cache \in Content
    BY <1>0, <2>1 DEF File
  <2>3. n \in Nat /\ buf \in [0 .. n -> Char]
    BY <1>0 DEF Char
  <2>4. handle' = [handle EXCEPT ![h] = f]
    BY <1>4, <2>1 DEF WriteFile, FileSystemInv, FileSystemTypeOK, File
  <2> HIDE DEF n, buf, p
  <2>5. Overwritten(handle[h].block_cache, p, n, buf) \in Content /\ NextPosition(p, n) \in 0 .. BLOCK_SIZE
    BY <2>2, <2>3, OverwrittenIsContent, NextPositions
  <2>6. f \in File /\ f.inode = handle[h].inode /\ f.id = handle[h].id
    BY <2>1, <2>5 DEF File
  <2> HIDE DEF f
  <2>7. QED
    BY <1>4, <2>1, <2>4, <2>6, HandleStep DEF WriteFile
<1>5. QED
  BY <1>1, <1>2, <1>3, <1>4

\* The file that is saved is that of slot i, and its block no other file's.
LEMMA CloseFileKeeps ==
  ASSUME FileSystemInv, NEW h \in Handle, CloseFile(h)
  PROVE  /\ FileSystemInv' /\ InodeList' = InodeList
         /\ \E i \in Live :
              /\ handle[h].block_cache \in Content
              /\ disk_data' = [disk_data EXCEPT ![InodeList[i].block_no] = handle[h].block_cache]
<1> DEFINE i == handle[h].inode
           node == inodes[mounted][i]
<1>1. /\ mounted # 0 /\ mounted = mounts /\ mounted \in 1 .. MaxMounts /\ mounts \in Nat
      /\ InodeList = inodes[mounted]
  BY MountedFacts DEF CloseFile
<1>2. handle[h] \in File /\ i \in Live
  BY OpenHandle DEF CloseFile
<1>3. node.block_no \in Block /\ node.fs \in 1 .. MaxMounts /\ handle[h].block_cache \in Content
  <2>1. node.fs \in 1 .. mounts /\ node.block_no \in Block
    BY <1>1, <1>2 DEF FileSystemInv, Owners, BlocksOwned
  <2>2. handle[h].block_cache \in Content
    BY <1>2 DEF File
  <2>3. MaxMounts \in Nat
    BY FileSystemAssumption
  <2>4. QED
    BY <1>1, <2>1, <2>2, <2>3
<1>4. /\ disk_data' = [disk_data EXCEPT ![node.block_no] = handle[h].block_cache]
      /\ disk_inodes' = inodes[node.fs]
      /\ handle' = [handle EXCEPT ![h] = NONE]
      /\ UNCHANGED <<disk_free, memory, fault>>
  BY DEF CloseFile
<1> HIDE DEF i, node
<1>5. FileSystemTypeOK'
  BY <1>3, <1>4 DEF memory, FileSystemInv, FileSystemTypeOK
<1>6. InodeList' = InodeList /\ FreeList' = FreeList
  BY <1>1, <1>4 DEF memory, InodeList, FreeList
<1>7. BlocksOwned' /\ Formatted' /\ Owners'
  BY <1>1, <1>4, <1>6, SameLists DEF memory
<1>8. HandlesValid' /\ FaultEnds'
  BY <1>1, <1>4, <1>6 DEF memory, FileSystemInv, HandlesValid, Open, FileSystemTypeOK, FaultEnds
<1>9. QED
  BY <1>1, <1>2, <1>3, <1>4, <1>5, <1>6, <1>7, <1>8 DEF FileSystemInv, node

LEMMA NextKeeps ==
  ASSUME FileSystemInv, [FileSystemNext]_fileSystemVars
  PROVE  FileSystemInv'
<1>1. ASSUME NEW id \in FileId, CreateFile(id) PROVE FileSystemInv'
  BY <1>1, CreateFileKeeps, RefusedKeeps, OverwriteKeeps
<1>2. ASSUME NEW id \in FileId, DeleteFile(id) PROVE FileSystemInv'
  BY <1>2, DeleteFileKeeps
<1>3. ASSUME NEW h \in Handle,
             \/ ResetFile(h) \/ CloseFile(h)
             \/ \E id \in FileId : OpenFile(h, id)
             \/ \E n \in 0 .. (BLOCK_SIZE + 1) : ReadFile(h, n) \/ \E c \in Letter : WriteFile(h, n, c)
      PROVE  FileSystemInv'
  BY <1>3, FileCallsKeep, CloseFileKeeps
<1>4. CASE UNCHANGED fileSystemVars
  BY <1>4 DEF fileSystemVars, disk, memory, FileSystemInv, FileSystemTypeOK, BlocksOwned, HandlesValid, Open, Formatted, Owners,
              Live, InodeList, FreeList, Lost, FaultEnds
<1>5. QED
  BY <1>1, <1>2, <1>3, <1>4, FormatKeeps, MountKeeps, UnmountKeeps DEF FileSystemNext

------------------------------------------------------------------------------
(* The store that clients see.                                              *)

Files == [id \in FileNames |->
            disk_data[InodeList[CHOOSE i \in Live : InodeList[i].id = id].block_no]]

\* The same for any list L of inodes and any blocks D.
LiveOf(L) == {i \in Slot : L[i].id # NONE}
NamesOf(L) == {L[i].id : i \in LiveOf(L)}
FilesOf(L, D) == [id \in NamesOf(L) |-> D[L[CHOOSE i \in LiveOf(L) : L[i].id = id].block_no]]

LEMMA FilesAreOf ==
  /\ Live = LiveOf(InodeList) /\ FileNames = NamesOf(InodeList)
  /\ Files = FilesOf(InodeList, disk_data)
  /\ Live' = LiveOf(InodeList') /\ Files' = FilesOf(InodeList', disk_data')
BY Zenon DEF Files, FilesOf, FileNames, NamesOf, Live, LiveOf

\* With distinct identifiers the file of slot i holds what its block holds.
LEMMA FileOfSlot ==
  ASSUME NEW L, NEW D, NEW i \in LiveOf(L),
         \A j, k \in LiveOf(L) : j # k => L[j].id # L[k].id
  PROVE  L[i].id \in NamesOf(L) /\ FilesOf(L, D)[L[i].id] = D[L[i].block_no]
<1>1. L[i].id \in NamesOf(L)
  BY DEF NamesOf
<1>2. (CHOOSE j \in LiveOf(L) : L[j].id = L[i].id) = i
  OBVIOUS
<1>3. FilesOf(L, D)[L[i].id] = D[L[CHOOSE j \in LiveOf(L) : L[j].id = L[i].id].block_no]
  BY <1>1 DEF FilesOf
<1>4. QED
  BY <1>1, <1>2, <1>3

\* What a map of files with domain N is, when its value at every file of N is
\* known through the slot that names it.
LEMMA FilesAre ==
  ASSUME NEW L, NEW D, NEW F, NEW N,
         \A j, k \in LiveOf(L) : j # k => L[j].id # L[k].id,
         N = NamesOf(L), F = [x \in N |-> F[x]],
         \A i \in LiveOf(L) : F[L[i].id] = D[L[i].block_no]
  PROVE  F = FilesOf(L, D)
<1>1. FilesOf(L, D) = [x \in N |-> FilesOf(L, D)[x]]
  BY DEF FilesOf
<1>2. ASSUME NEW x \in N PROVE F[x] = FilesOf(L, D)[x]
  <2>1. PICK i \in LiveOf(L) : x = L[i].id
    BY DEF NamesOf
  <2>2. QED
    BY <2>1, FileOfSlot
<1>3. [x \in N |-> F[x]] = [x \in N |-> FilesOf(L, D)[x]]
  BY <1>2, Zenon
<1>4. QED
  BY <1>1, <1>3

LEMMA NoFiles ==
  ASSUME NEW L, NEW D, LiveOf(L) = {}
  PROVE  FilesOf(L, D) = <<>>
<1>1. NamesOf(L) = {}
  BY DEF NamesOf
<1>2. FilesOf(L, D) = [x \in {} |-> 0]
  BY <1>1 DEF FilesOf
<1>3. <<>> = [x \in {} |-> 0]
  OBVIOUS
<1>4. QED
  BY <1>2, <1>3

LEMMA CreateIsCreate ==
  ASSUME FileSystemInv, NEW id \in FileId, CreateFile(id)
  PROVE  Files' = Files \/ \E c \in Content : Store!Create(id, c)
<1>1. CASE ~(Creates(id) /\ GetFreeInode # NONE)
  BY <1>1, RefusedKeeps, OverwriteKeeps, FilesAreOf
<1>2. CASE Creates(id) /\ GetFreeInode # NONE
  <2>1. FileSystemInv' /\ id \notin FileNames /\ disk_data' = disk_data
    BY <1>2, CreateFileKeeps
  <2>2. PICK i \in Slot, b \in Block :
          /\ i \notin Live /\ Live' = Live \cup {i}
          /\ InodeList'[i].id = id /\ InodeList'[i].block_no = b
          /\ \A j \in Live : InodeList'[j] = InodeList[j]
    BY <1>2, CreateFileKeeps
  <2>3. PICK c \in Content : c = disk_data[b]
    BY DEF FileSystemInv, FileSystemTypeOK
  <2> DEFINE L == InodeList'
             N == FileNames \cup {id}
             F == [x \in N |-> IF x = id THEN c ELSE Files[x]]
  <2>4. /\ Live = LiveOf(InodeList) /\ FileNames = NamesOf(InodeList)
        /\ Files = FilesOf(InodeList, disk_data)
        /\ Live' = LiveOf(L) /\ Files' = FilesOf(L, disk_data)
    BY <2>1, FilesAreOf
  <2>5. N = NamesOf(L)
    BY <2>2, <2>4 DEF NamesOf
  <2>6. /\ \A j, k \in LiveOf(L) : j # k => L[j].id # L[k].id
        /\ \A j, k \in Live : j # k => InodeList[j].id # InodeList[k].id
    BY <2>1, <2>4 DEF FileSystemInv, BlocksOwned
  <2>7. ASSUME NEW j \in LiveOf(L)
        PROVE  F[L[j].id] = disk_data[L[j].block_no]
    <3>1. CASE j = i
      BY <2>2, <2>3, <3>1
    <3>2. CASE j \in Live
      <4>1. L[j] = InodeList[j]
        BY <2>2, <3>2
      <4>2. InodeList[j].id \in FileNames /\ Files[InodeList[j].id] = disk_data[InodeList[j].block_no]
        BY <2>4, <2>6, <3>2, FileOfSlot
      <4>3. QED
        BY <2>1, <4>1, <4>2
    <3>3. QED
      BY <2>2, <2>4, <3>1, <3>2
  <2>8. F = [x \in N |-> F[x]] /\ DOMAIN Files = FileNames
    BY DEF Files
  <2> HIDE DEF L, N, F
  <2>9. F = FilesOf(L, disk_data)
    BY <2>5, <2>6, <2>7, <2>8, FilesAre
  <2>10. Files' = F
    BY <2>4, <2>9
  <2>11. Store!Create(id, c)
    BY <2>1, <2>8, <2>10 DEF Store!Create, Files, F, N
  <2>12. QED
    BY <2>11
<1>3. QED
  BY <1>1, <1>2

LEMMA DeleteIsDelete ==
  ASSUME FileSystemInv, NEW id \in FileId, DeleteFile(id)
  PROVE  Store!Delete(id)
<1>1. FileSystemInv' /\ disk_data' = disk_data
  BY DeleteFileKeeps
<1>2. PICK i \in Live : /\ InodeList[i].id = id
                        /\ Live' = Live \ {i}
                        /\ \A j \in Live' : InodeList'[j] = InodeList[j]
  BY DeleteFileKeeps
<1> DEFINE L == InodeList'
           N == FileNames \ {id}
           F == [x \in N |-> Files[x]]
<1>3. /\ Live = LiveOf(InodeList) /\ FileNames = NamesOf(InodeList)
      /\ Files = FilesOf(InodeList, disk_data)
      /\ Live' = LiveOf(L) /\ Files' = FilesOf(L, disk_data)
  BY <1>1, FilesAreOf
<1>4. \A j, k \in Live : j # k => InodeList[j].id # InodeList[k].id
  BY DEF FileSystemInv, BlocksOwned
<1>5. \A j, k \in LiveOf(L) : j # k => L[j].id # L[k].id
  BY <1>1, <1>3 DEF FileSystemInv, BlocksOwned
<1>6. N = NamesOf(L)
  BY <1>2, <1>3, <1>4 DEF NamesOf
<1>7. ASSUME NEW j \in LiveOf(L)
      PROVE  F[L[j].id] = disk_data[L[j].block_no]
  <2>1. j \in Live /\ j # i /\ L[j] = InodeList[j]
    BY <1>2, <1>3
  <2>2. InodeList[j].id \in N /\ Files[InodeList[j].id] = disk_data[InodeList[j].block_no]
    BY <1>2, <1>3, <1>4, <2>1, FileOfSlot
  <2>3. QED
    BY <2>1, <2>2
<1>8. F = [x \in N |-> F[x]] /\ DOMAIN Files = FileNames /\ id \in FileNames
  BY <1>2 DEF Files, FileNames
<1> HIDE DEF L, N, F
<1>9. Files' = F
  BY <1>3, <1>5, <1>6, <1>7, <1>8, FilesAre
<1>10. QED
  BY <1>8, <1>9 DEF Store!Delete, Files, F, N

LEMMA CloseIsSave ==
  ASSUME FileSystemInv, NEW h \in Handle, CloseFile(h)
  PROVE  \E id \in FileId : \E c \in Content : Store!Save(id, c)
<1>1. PICK i \in Live :
        /\ handle[h].block_cache \in Content
        /\ disk_data' = [disk_data EXCEPT ![InodeList[i].block_no] = handle[h].block_cache]
  BY CloseFileKeeps
<1>2. InodeList' = InodeList /\ FileSystemInv'
  BY CloseFileKeeps
<1>3. PICK id, c : id = InodeList[i].id /\ c = handle[h].block_cache
  OBVIOUS
<1>4. id \in FileId /\ c \in Content /\ InodeList[i].block_no \in Block
  <2>1. InodeList \in [Slot -> Inode]
    BY FileSystemAssumption DEF FileSystemInv, FileSystemTypeOK, InodeList, Mounts
  <2>2. QED
    BY <1>1, <1>3, <2>1 DEF Live, Inode, FileSystemInv, BlocksOwned
<1> DEFINE N == FileNames
           F == [Files EXCEPT ![id] = c]
           D == disk_data'
<1>5. /\ Live = LiveOf(InodeList) /\ N = NamesOf(InodeList)
      /\ Files = FilesOf(InodeList, disk_data)
      /\ Files' = FilesOf(InodeList, D)
  BY <1>2, FilesAreOf
<1>6. \A j, k \in LiveOf(InodeList) : j # k => InodeList[j].id # InodeList[k].id
  BY <1>5 DEF FileSystemInv, BlocksOwned
<1>7. DOMAIN Files = N /\ id \in N
  BY <1>3 DEF Files, FileNames
<1>8. ASSUME NEW j \in LiveOf(InodeList)
      PROVE  F[InodeList[j].id] = D[InodeList[j].block_no]
  <2>1. InodeList[j].id \in N /\ Files[InodeList[j].id] = disk_data[InodeList[j].block_no]
    BY <1>5, <1>6, FileOfSlot
  <2>2. InodeList[j].block_no \in Block
    BY <1>5 DEF FileSystemInv, BlocksOwned
  <2>3. CASE j = i
    BY <1>1, <1>3, <1>4, <1>7, <2>3 DEF FileSystemInv, FileSystemTypeOK
  <2>4. CASE j # i
    <3>1. InodeList[j].id # id /\ InodeList[j].block_no # InodeList[i].block_no
      BY <1>3, <1>5, <2>4 DEF FileSystemInv, BlocksOwned
    <3>2. D[InodeList[j].block_no] = disk_data[InodeList[j].block_no]
      BY <1>1, <1>4, <2>2, <3>1 DEF FileSystemInv, FileSystemTypeOK
    <3>3. F[InodeList[j].id] = Files[InodeList[j].id]
      BY <1>7, <2>1, <3>1
    <3>4. QED
      BY <2>1, <3>2, <3>3
  <2>5. QED
    BY <2>3, <2>4
<1>9. F = [x \in N |-> F[x]]
  BY <1>7
<1> HIDE DEF N, F, D
<1>10. Files' = F
  BY <1>5, <1>6, <1>8, <1>9, FilesAre
<1>11. Store!Save(id, c)
  BY <1>7, <1>10 DEF Store!Save, Files, F
<1>12. QED
  BY <1>4, <1>11

LEMMA StoreInit ==
  ASSUME FileSystemInit
  PROVE  Store!Init
<1>1. Live = {}
  BY DEF FileSystemInit, Live, InodeList, EmptyInode
<1>2. Files = <<>>
  BY <1>1, FilesAreOf, NoFiles
<1>3. QED
  BY <1>2 DEF Store!Init, Files

LEMMA StoreStep ==
  ASSUME FileSystemInv, [FileSystemNext]_fileSystemVars
  PROVE  [Store!Next]_Files
<1>1. ASSUME NEW id \in FileId, CreateFile(id) PROVE Files' = Files \/ Store!Next
  BY <1>1, CreateIsCreate DEF Store!Next
<1>2. ASSUME NEW id \in FileId, DeleteFile(id) PROVE Store!Next
  BY <1>2, DeleteIsDelete DEF Store!Next
<1>3. ASSUME NEW h \in Handle, CloseFile(h) PROVE Store!Next
  BY <1>3, CloseIsSave DEF Store!Next
<1>4. ASSUME InodeList' = InodeList, disk_data' = disk_data PROVE Files' = Files
  BY <1>4, FilesAreOf
<1>5. ASSUME NEW h \in Handle,
             \/ ResetFile(h)
             \/ \E id \in FileId : OpenFile(h, id)
             \/ \E n \in 0 .. (BLOCK_SIZE + 1) : ReadFile(h, n) \/ \E c \in Letter : WriteFile(h, n, c)
      PROVE  Files' = Files
  BY <1>4, <1>5, FileCallsKeep
<1>6. CASE Format
  <2>1. Live = {} /\ Live' = {}
    BY <1>6, FormatKeeps
  <2>2. FilesOf(InodeList', disk_data') = <<>> /\ FilesOf(InodeList, disk_data) = <<>>
    BY <2>1, NoFiles DEF Live, LiveOf
  <2>3. QED
    BY <2>2, FilesAreOf
<1>7. CASE UNCHANGED fileSystemVars
  BY <1>4, <1>7 DEF fileSystemVars, disk, memory, InodeList
<1>8. QED
  BY <1>1, <1>2, <1>3, <1>4, <1>5, <1>6, <1>7, MountKeeps, UnmountKeeps DEF FileSystemNext

------------------------------------------------------------------------------

(***************************************************************************)
(* FileSystemInv holds in every state of every instance.                   *)
(***************************************************************************)
THEOREM FileSystemInductive == FileSystemSpec => []FileSystemInv
<1>1. FileSystemInit => FileSystemInv
  BY InitInv
<1>2. FileSystemInv /\ [FileSystemNext]_fileSystemVars => FileSystemInv'
  BY NextKeeps
<1>3. QED
  BY <1>1, <1>2, PTL DEF FileSystemSpec

(***************************************************************************)
(* The lists, the blocks and the File objects keep their types: in         *)
(* particular no File object is opened or saved through an inode that      *)
(* names no block or no FileSystem object.                                 *)
(***************************************************************************)
THEOREM FileSystemTypeCorrect == FileSystemSpec => []FileSystemTypeOK
<1>1. FileSystemInv => FileSystemTypeOK
  BY DEF FileSystemInv
<1>2. QED
  BY <1>1, FileSystemInductive, PTL

(***************************************************************************)
(* No two files share an identifier or a block, and across unmounting and  *)
(* mounting again a block is marked as used exactly when it is reserved or *)
(* some file's - until a CreateFile finds no inode, which loses one block. *)
(***************************************************************************)
THEOREM NoBlockLostOrShared == FileSystemSpec => []BlocksOwned
<1>1. FileSystemInv => BlocksOwned
  BY DEF FileSystemInv
<1>2. QED
  BY <1>1, FileSystemInductive, PTL

(***************************************************************************)
(* A File object writes through an inode that still is its file's.         *)
(***************************************************************************)
THEOREM HandlesStayValid == FileSystemSpec => []HandlesValid
<1>1. FileSystemInv => HandlesValid
  BY DEF FileSystemInv
<1>2. QED
  BY <1>1, FileSystemInductive, PTL

(***************************************************************************)
(* The file system implements the store of independent files: CreateFile,  *)
(* DeleteFile and the destructor of File are its operations, every other   *)
(* call is a stuttering step.  A behaviour ends with a CreateFile that     *)
(* finds no inode, so nothing is said of the calls after it.               *)
(***************************************************************************)
THEOREM FileSystemIsStore == FileSystemSpec => ImplementsFileStore
<1>1. FileSystemInit => Store!Init
  BY StoreInit
<1>2. FileSystemInv /\ [FileSystemNext]_fileSystemVars => [Store!Next]_Files
  BY StoreStep
<1>3. QED
  BY <1>1, <1>2, FileSystemInductive, PTL DEF FileSystemSpec, ImplementsFileStore, Store!Spec, Files
=============================================================================
