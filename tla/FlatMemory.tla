----------------------------- MODULE FlatMemory -----------------------------
(***************************************************************************)
(* What demand paging promises a program (mp3/kernel.C writes to an array  *)
(* nobody allocated): every address is a cell of its own.  A cell comes    *)
(* into being when it is first touched and changes only when it is written.*)
(***************************************************************************)
EXTENDS Naturals

CONSTANTS Address, Absent

VARIABLE cell   \* cell[a]: the word at address a, or Absent

Init == cell = [a \in Address |-> Absent]

\* Any number of cells appear, with whatever the memory holds.
Appear ==
  /\ DOMAIN cell' = Address
  /\ \A a \in Address : cell[a] # Absent => cell'[a] = cell[a]

Write(a) ==
  /\ cell[a] # Absent
  /\ cell'[a] \in Nat
  /\ cell' = [cell EXCEPT ![a] = cell'[a]]

Next == Appear \/ \E a \in Address : Write(a)

Spec == Init /\ [][Next]_cell
==============================================================================
