---------------------------- MODULE BlockingDisk ----------------------------
(***************************************************************************)
(* mp6: threads that share a disk.  blocking_disk.C and mirrored_disk.C    *)
(* with the FIFO scheduler, the thread functions of kernel.C and the part  *)
(* of the ATA controller the code sees.                                    *)
(*                                                                         *)
(* Threads start with the interrupt flag clear and nothing in mp6 ever     *)
(* sets it again, so what a thread does between two yields is one step;    *)
(* beside it only the drives go on.                                        *)
(*                                                                         *)
(* The controller (external): a command goes to the selected drive and     *)
(* replaces the one that is there; status and data port are those of the   *)
(* drive selected last; 256 words move a block, and only when the drive    *)
(* has set DRQ.  No drive reports an error.                                *)
(***************************************************************************)
EXTENDS ReadyList, FiniteSets

CONSTANTS
  Start,               \* thread1, thread2, ...: the order of kernel.C's main()
  UserSets,            \* which threads may be the ones that run fun2
  Builds,              \* with (TRUE) or without (FALSE) _DISK_MIRRORING
  Blocks,              \* the blocks fun2 goes round: 10
  MASTER, DEPENDENT    \* DISK_ID

Drive == {MASTER, DEPENDENT}
DiskBlock == 0 .. (Blocks - 1)

\* What a block or a buffer holds: what the medium held at first, what a thread
\* fills its buffer with ('a' in kernel.C), or something undefined.
Data == (Drive \X DiskBlock) \cup Thread \cup {NULL}

Operation == {"READ", "WRITE"}

ASSUME DiskAssumption ==
  /\ Start \in Seq(Thread) /\ Len(Start) > 0
  /\ \A t \in Thread : \E k \in 1 .. Len(Start) : Start[k] = t
  /\ \A k, l \in 1 .. Len(Start) : Start[k] = Start[l] => k = l
  /\ UserSets \subseteq SUBSET Thread
  /\ Builds \subseteq BOOLEAN
  /\ Blocks \in Nat /\ Blocks >= 2
  /\ MASTER # DEPENDENT
  /\ NULL \notin Operation
  /\ NULL \notin [op : Operation, block : DiskBlock, buf : Thread]

VARIABLES
  users, mirrored,  \* the thread functions and the build, chosen once
  added,            \* how many of Start main() has handled
  current_thread,
  yielding,         \* the running thread has resumed itself and now yields
  place,            \* where each thread is in its function
  buffer,           \* fun2's buf
  read_block, write_block,
  request,          \* the one request of the disk object
  drive,            \* each drive's command, its block, and DRQ
  selected,         \* the drive bit of port 0x1F6
  medium,           \* medium[d][b]: block b on drive d
  overlapped        \* auxiliary: the threads whose operation shared its time
                    \* with another one's

funVars    == <<buffer, read_block, write_block>>
deviceVars == <<drive, selected, medium>>
buildVars  == <<users, mirrored>>
vars == <<listVars, buildVars, added, current_thread, yielding, place, funVars,
          request, deviceVars, overlapped>>

\* "read" .. "pass": the statements of fun2's loop (the others have only
\* "pass"); "reading", "writing": in the loop of nonblock_wait_and_process.
Place == {"read", "reading", "fill", "write", "writing", "pass"}

Init ==
  /\ ListInit
  /\ users \in UserSets /\ mirrored \in Builds
  /\ added = 1
  /\ current_thread = NULL /\ yielding = FALSE
  /\ place = [t \in Thread |-> IF t \in users THEN "read" ELSE "pass"]
  /\ buffer = [t \in Thread |-> NULL]
  /\ read_block = [t \in Thread |-> 1]
  /\ write_block = [t \in Thread |-> 0]
  /\ request = [op |-> "READ", block |-> 0, buf |-> NULL]
  /\ drive = [d \in Drive |-> [op |-> NULL, block |-> 0, drq |-> FALSE]]
  /\ selected = MASTER
  /\ medium = [d \in Drive |-> [b \in DiskBlock |-> <<d, b>>]]
  /\ overlapped = {}

------------------------------------------------------------------------------
(* main(): add thread2, thread3, ... and dispatch thread1.                  *)

BootAdd ==
  /\ current_thread = NULL
  /\ added < Len(Start)
  /\ add(Start[added + 1], {})
  /\ added' = added + 1
  /\ UNCHANGED <<buildVars, current_thread, yielding, place, funVars, request,
                 deviceVars, overlapped>>

KickOff ==
  /\ current_thread = NULL
  /\ added = Len(Start)
  /\ current_thread' = Start[1]
  /\ UNCHANGED <<listVars, buildVars, added, yielding, place, funVars, request,
                 deviceVars, overlapped>>

------------------------------------------------------------------------------
(* The disk.                                                                *)

\* Mutant of push_request: the buffer is not saved.
push_without_buf(o, b, t) == request' = [request EXCEPT !.op = o, !.block = b]

push_request(o, b, t) == request' = [op |-> o, block |-> b, buf |-> t]

\* issue_operation; issue_mirrored_operation, to MASTER and then to DEPENDENT.
issue_operation(o, b) ==
  LET command == [op |-> o, block |-> b, drq |-> FALSE]
  IN  \/ /\ mirrored
         /\ drive' = [d \in Drive |-> command]
         /\ selected' = DEPENDENT
      \/ /\ ~mirrored
         /\ drive' = [drive EXCEPT ![MASTER] = command]
         /\ selected' = MASTER

\* SimpleDisk::is_ready, of any disk object.
is_ready == drive[selected].drq

InDisk(t) == place[t] \in {"reading", "writing"}

\* read() and write() up to the waiting loop.
Begin(t, o, b) ==
  /\ push_request(o, b, t)
  /\ issue_operation(o, b)
  /\ LET others == {u \in Thread \ {t} : InDisk(u)}
     IN  overlapped' = IF others = {} THEN overlapped \ {t}
                       ELSE overlapped \cup others \cup {t}
  /\ UNCHANGED medium

\* What 256 words from the data port are, and what 256 words to it do.
PortIn == IF is_ready THEN medium[selected][drive[selected].block] ELSE NULL

PortOut(w) ==
  IF is_ready THEN [medium EXCEPT ![selected][drive[selected].block] = w] ELSE medium

------------------------------------------------------------------------------
(* The thread functions.                                                    *)

Runs(t, l) == current_thread = t /\ ~yielding /\ place[t] = l

Goes(t, l) == place' = [place EXCEPT ![t] = l]

Read(t) ==
  /\ Runs(t, "read")
  /\ Begin(t, "READ", read_block[t])
  /\ Goes(t, "reading")
  /\ UNCHANGED <<listVars, buildVars, added, current_thread, yielding, funVars>>

\* buf[i] = 'a'; here each thread has a letter of its own.
FillBuffer(t) ==
  /\ Runs(t, "fill")
  /\ buffer' = [buffer EXCEPT ![t] = t]
  /\ Goes(t, "write")
  /\ UNCHANGED <<listVars, buildVars, added, current_thread, yielding, read_block,
                 write_block, request, deviceVars, overlapped>>

Write(t) ==
  /\ Runs(t, "write")
  /\ Begin(t, "WRITE", write_block[t])
  /\ Goes(t, "writing")
  /\ UNCHANGED <<listVars, buildVars, added, current_thread, yielding, funVars>>

\* Mutant of Poll: the thread is not made ready again.
PollWithoutResume(t) ==
  /\ Runs(t, "reading") \/ Runs(t, "writing")
  /\ ~is_ready
  /\ yielding' = TRUE
  /\ UNCHANGED <<listVars, buildVars, added, current_thread, place, funVars, request,
                 deviceVars, overlapped>>

\* while (!is_ready()) { resume(CurrentThread()); ... yield(); }
Poll(t) ==
  /\ Runs(t, "reading") \/ Runs(t, "writing")
  /\ ~is_ready
  /\ add(t, {})
  /\ yielding' = TRUE
  /\ UNCHANGED <<buildVars, added, current_thread, place, funVars, request,
                 deviceVars, overlapped>>

\* The loop of words moves what the request says, whoever made it, and the drive
\* is done with its command.
Transfer ==
  /\ \/ /\ request.op = "READ"
        /\ buffer' = [buffer EXCEPT ![request.buf] = PortIn]
        /\ UNCHANGED medium
     \/ /\ request.op = "WRITE"
        /\ medium' = PortOut(buffer[request.buf])
        /\ UNCHANGED buffer
  /\ drive' = [drive EXCEPT ![selected] = [op |-> NULL, block |-> 0, drq |-> FALSE]]

\* Mutant of ReadDone: the device is not waited for.
ReadAtOnce(t) ==
  /\ Runs(t, "reading")
  /\ Transfer
  /\ Goes(t, "fill")
  /\ UNCHANGED <<listVars, buildVars, added, current_thread, yielding, read_block,
                 write_block, request, selected, overlapped>>

ReadDone(t) ==
  /\ Runs(t, "reading")
  /\ is_ready
  /\ Transfer
  /\ Goes(t, "fill")
  /\ UNCHANGED <<listVars, buildVars, added, current_thread, yielding, read_block,
                 write_block, request, selected, overlapped>>

\* Mutant of WriteDone: the block number has no end.
WriteDoneNoWrap(t) ==
  /\ Runs(t, "writing")
  /\ is_ready
  /\ Transfer
  /\ write_block' = [write_block EXCEPT ![t] = read_block[t]]
  /\ read_block' = [read_block EXCEPT ![t] = @ + 1]
  /\ Goes(t, "pass")
  /\ UNCHANGED <<listVars, buildVars, added, current_thread, yielding, request,
                 selected, overlapped>>

\* With the move to the next block.
WriteDone(t) ==
  /\ Runs(t, "writing")
  /\ is_ready
  /\ Transfer
  /\ write_block' = [write_block EXCEPT ![t] = read_block[t]]
  /\ read_block' = [read_block EXCEPT ![t] = (@ + 1) % Blocks]
  /\ Goes(t, "pass")
  /\ UNCHANGED <<listVars, buildVars, added, current_thread, yielding, request,
                 selected, overlapped>>

\* pass_on_CPU up to yield().
PassOn(t) ==
  /\ Runs(t, "pass")
  /\ add(t, {})
  /\ yielding' = TRUE
  /\ Goes(t, IF t \in users THEN "read" ELSE "pass")
  /\ UNCHANGED <<buildVars, added, current_thread, funVars, request, deviceVars,
                 overlapped>>

\* FIFOScheduler::yield with dispatch_to: the assertion that there is a ready
\* thread is dequeue's guard.
Yield ==
  /\ yielding
  /\ dequeue
  /\ current_thread' = thread[head]
  /\ yielding' = FALSE
  /\ UNCHANGED <<buildVars, added, place, funVars, request, deviceVars, overlapped>>

Step(t) ==
  \/ Read(t) \/ FillBuffer(t) \/ Write(t) \/ Poll(t) \/ ReadDone(t) \/ WriteDone(t)
  \/ PassOn(t)

CPU == BootAdd \/ KickOff \/ Yield \/ \E t \in Thread : Step(t)

\* The drive has read the block, or is ready to take it: DRQ.
DeviceReady(d) ==
  /\ drive[d].op # NULL
  /\ ~drive[d].drq
  /\ drive' = [drive EXCEPT ![d].drq = TRUE]
  /\ UNCHANGED <<listVars, buildVars, added, current_thread, yielding, place, funVars,
                 request, selected, medium, overlapped>>

Next == CPU \/ \E d \in Drive : DeviceReady(d)

\* The processor always executes something, and a drive answers at some time.
Spec ==
  /\ Init /\ [][Next]_vars
  /\ WF_vars(CPU) /\ \A d \in Drive : WF_vars(DeviceReady(d))

------------------------------------------------------------------------------

TypeOK ==
  /\ ListTypeOK
  /\ users \in UserSets /\ mirrored \in Builds
  /\ added \in 1 .. Len(Start)
  /\ current_thread \in Thread \cup {NULL}
  /\ yielding \in BOOLEAN
  /\ place \in [Thread -> Place]
  /\ buffer \in [Thread -> Data]
  /\ read_block \in [Thread -> DiskBlock] /\ write_block \in [Thread -> DiskBlock]
  /\ request \in [op : Operation, block : DiskBlock, buf : Thread \cup {NULL}]
  /\ drive \in [Drive -> [op : Operation \cup {NULL}, block : DiskBlock, drq : BOOLEAN]]
  /\ selected \in Drive
  /\ medium \in [Drive -> [DiskBlock -> Data]]
  /\ overlapped \subseteq users

\* The refinement.  The store is the drive that answers; the slot is full while
\* that drive has a command.
AnsweringDrive == IF mirrored THEN DEPENDENT ELSE MASTER

slotBar ==
  IF drive[AnsweringDrive].op = NULL THEN NULL
  ELSE [op |-> drive[AnsweringDrive].op, block |-> drive[AnsweringDrive].block,
        buf |-> request.buf]

OneSlot == INSTANCE CommandSlot WITH
  Block <- DiskBlock,
  User <- Thread, Empty <- NULL, store <- medium[AnsweringDrive], slot <- slotBar

(***************************************************************************)
(* However the operations of several threads overlap, every transfer moves *)
(* the block that was asked for last between the medium and the buffer of  *)
(* the thread that asked for it, complete and at a time when the drive is  *)
(* ready; no buffer is overwritten while a transfer of it is outstanding.  *)
(* In the mirrored build the medium is that of DEPENDENT, the drive that   *)
(* answers: nothing is said of what reaches MASTER.                        *)
(***************************************************************************)
ImplementsCommandSlot == OneSlot!Spec

\* The request t has made.
OwnRequest(t) ==
  IF place[t] = "reading" THEN [op |-> "READ", block |-> read_block[t], buf |-> t]
  ELSE [op |-> "WRITE", block |-> write_block[t], buf |-> t]

(***************************************************************************)
(* blocking_disk.C:101, :73.  The disk has one request.  A thread that     *)
(* comes out of read() or write() has had its own operation served, unless *)
(* another thread's operation shared its time.                             *)
(***************************************************************************)
ServedUnlessOverlapped ==
  [][\A t \in Thread :
       (InDisk(t) /\ ~InDisk(t)') => request = OwnRequest(t) \/ t \in overlapped]_vars

(***************************************************************************)
(* A thread that waits for the disk holds nobody up - each thread gets the *)
(* processor again and again - and its operation comes to an end, unless   *)
(* another thread's operation shared its time.                             *)
(***************************************************************************)
OperationsReturn ==
  \A t \in Thread :
    /\ []<>(current_thread = t)
    /\ InDisk(t) ~> (~InDisk(t) \/ t \in overlapped)

(***************************************************************************)
(* mirrored_disk.C:108, "Waits for both of the devices to be ready since   *)
(* it's a mirrored drive".  Both is_ready() calls read the status of the   *)
(* drive that was selected last.                                           *)
(***************************************************************************)
TransferWhenBothReady ==
  [][\A t \in Thread : (mirrored /\ InDisk(t) /\ ~InDisk(t)') =>
       drive[MASTER].drq /\ drive[DEPENDENT].drq]_vars
==============================================================================
