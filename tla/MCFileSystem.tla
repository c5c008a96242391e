---------------------------- MODULE MCFileSystem ----------------------------
(* Three files but two inodes, two File objects, blocks of two characters.   *)
EXTENDS FileSystem, TLC

\* What address 0 may read as: an empty list.
MCDamage == {[i \in Slot |-> EmptyInode]}

\* File identifiers and File objects are interchangeable.
MCSymmetry == Permutations(FileId) \cup Permutations(Handle)
=============================================================================
