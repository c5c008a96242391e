------------------------------ MODULE FileStore ------------------------------
(***************************************************************************)
(* What the file system of mp7 promises its clients: a set of files, each  *)
(* with its contents.  An operation on one file changes no other, and      *)
(* nothing but these operations changes any.                               *)
(***************************************************************************)
EXTENDS Naturals

CONSTANTS FileId, Content

VARIABLE files   \* files[id]: the contents of file id; its domain: the files

Init == files = <<>>

\* A new file holds what its block held before.
Create(id, c) ==
  /\ id \notin DOMAIN files
  /\ files' = [x \in DOMAIN files \cup {id} |-> IF x = id THEN c ELSE files[x]]

Delete(id) ==
  /\ id \in DOMAIN files
  /\ files' = [x \in DOMAIN files \ {id} |-> files[x]]

Save(id, c) ==
  /\ id \in DOMAIN files
  /\ files' = [files EXCEPT ![id] = c]

Next ==
  \E id \in FileId : Delete(id) \/ \E c \in Content : Create(id, c) \/ Save(id, c)

Spec == Init /\ [][Next]_files
==============================================================================
