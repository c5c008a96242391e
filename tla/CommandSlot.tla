----------------------------- MODULE CommandSlot -----------------------------
(***************************************************************************)
(* What the disks of mp6 promise all their users together: the disk has    *)
(* room for one command.  Issuing a command replaces the one that is       *)
(* there; serving it moves one whole block between the store and the       *)
(* buffer the command names, and empties the slot.  Nobody touches a       *)
(* buffer while the slot names it.                                         *)
(***************************************************************************)
CONSTANTS Block, User, Data, Empty

VARIABLES
  store,    \* store[b]: the contents of block b
  buffer,   \* buffer[u]: the contents of u's buffer
  slot      \* the command that waits to be served, or Empty

slotVars == <<store, buffer, slot>>

Command == [op : {"READ", "WRITE"}, block : Block, buf : User]

Init ==
  /\ store \in [Block -> Data]
  /\ buffer \in [User -> Data]
  /\ slot = Empty

Issue(c) == slot' = c /\ UNCHANGED <<store, buffer>>

Serve ==
  /\ slot # Empty
  /\ slot' = Empty
  /\ \/ /\ slot.op = "READ"
        /\ buffer' = [buffer EXCEPT ![slot.buf] = store[slot.block]]
        /\ UNCHANGED store
     \/ /\ slot.op = "WRITE"
        /\ store' = [store EXCEPT ![slot.block] = buffer[slot.buf]]
        /\ UNCHANGED buffer

Fill(u, d) ==
  /\ slot # Empty => slot.buf # u
  /\ buffer' = [buffer EXCEPT ![u] = d]
  /\ UNCHANGED <<store, slot>>

Next ==
  \/ \E c \in Command : Issue(c)
  \/ Serve
  \/ \E u \in User, d \in Data : Fill(u, d)

Spec == Init /\ [][Next]_slotVars
==============================================================================
