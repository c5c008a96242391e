------------------------------ MODULE FileSystem ------------------------------
(***************************************************************************)
(* mp7: FileSystem (file_system.C) and File (file.C) on one SimpleDisk,    *)
(* with clients that make any sequence of legal calls.  mp7 has one thread *)
(* and its interrupt handlers touch none of this, so a call is one step.   *)
(*                                                                         *)
(* Left out: Inode::size, which nothing reads, and the blocks' bytes       *)
(* beyond BLOCK_SIZE many.                                                 *)
(***************************************************************************)
EXTENDS Integers

CONSTANTS
  FileId,
  Handle,       \* the File objects
  MAX_INODES,   \* inodes in the inode block: 32
  NBlocks,      \* entries of the free list: 512
  BLOCK_SIZE,   \* characters of a block: 512
  Letter,       \* the characters clients write, without NUL
  MaxMounts,    \* bound: FileSystem objects made
  Damage,       \* inode lists that the memory from address 0 on may read as
  NONE          \* 0xFFFFFFFF: no file, no block; also a File object not open

NUL == 0

ASSUME FileSystemAssumption ==
  /\ MAX_INODES \in Nat \ {0}
  /\ NBlocks \in Nat /\ NBlocks > 2
  /\ BLOCK_SIZE \in Nat \ {0}
  /\ MaxMounts \in Nat \ {0}
  /\ NONE \notin FileId /\ NONE \notin Nat
  /\ NUL \notin Letter

Slot == 0 .. (MAX_INODES - 1)
Block == 0 .. (NBlocks - 1)
Reserved == {0, 1}            \* INODES_BLOCK_NO, FREELIST_BLOCK_NO
Mounts == 0 .. MaxMounts
Char == Letter \cup {NUL}
Content == [0 .. (BLOCK_SIZE - 1) -> Char]

\* An inode names its file, its block and the FileSystem object that made it:
\* the pointer goes to the disk with the rest.
Inode == [id : FileId \cup {NONE}, block_no : Block \cup {NONE}, fs : Mounts]

ASSUME DamageAssumption == Damage \subseteq [Slot -> Inode]

\* All bytes 0xFF.
EmptyInode == [id |-> NONE, block_no |-> NONE, fs |-> 0]

File == [id : FileId, inode : Slot, current_position : 0 .. BLOCK_SIZE, block_cache : Content]

VARIABLES
  disk_inodes, disk_free,  \* the two reserved blocks on the disk
  disk_data,               \* the other blocks
  inodes, free_blocks,     \* of each FileSystem object; its memory is never reused
  mounts,                  \* the FileSystem objects made so far
  mounted,                 \* the one in use, 0 for none
  handle,                  \* handle[h]: the state of File object h
  fault                    \* the FileSystem object was overwritten

disk == <<disk_inodes, disk_free, disk_data>>
memory == <<inodes, free_blocks, mounts, mounted>>
fileSystemVars == <<disk, memory, handle, fault>>

FileSystemInit ==
  /\ disk_inodes = [i \in Slot |-> EmptyInode]
  /\ disk_free = [b \in Block |-> 0]
  /\ disk_data = [b \in Block |-> [k \in 0 .. (BLOCK_SIZE - 1) |-> NUL]]
  /\ inodes = [m \in 1 .. MaxMounts |-> [i \in Slot |-> EmptyInode]]
  /\ free_blocks = [m \in 1 .. MaxMounts |-> [b \in Block |-> 0]]
  /\ mounts = 0 /\ mounted = 0
  /\ handle = [h \in Handle |-> NONE]
  /\ fault = FALSE

Open(h) == handle[h] # NONE
IsMounted == mounted # 0 /\ ~fault

------------------------------------------------------------------------------
(* The disk and the FileSystem object.                                      *)

\* main() formats the disk once, before it mounts it.
Format ==
  /\ mounts = 0 /\ disk_free[0] = 0
  /\ disk_inodes' = [i \in Slot |-> EmptyInode]
  /\ disk_free' = [b \in Block |-> IF b \in Reserved THEN 1 ELSE 0]
  /\ UNCHANGED <<disk_data, memory, handle, fault>>

\* A new FileSystem object and Mount, which returns true on a formatted disk.
Mount ==
  /\ mounted = 0 /\ ~fault /\ mounts < MaxMounts
  /\ \A b \in Reserved : disk_free[b] = 1
  /\ mounts' = mounts + 1
  /\ mounted' = mounts'
  /\ inodes' = [inodes EXCEPT ![mounts'] = disk_inodes]
  /\ free_blocks' = [free_blocks EXCEPT ![mounts'] = disk_free]
  /\ UNCHANGED <<disk, handle, fault>>

\* The destructor, when no client has a file open.
Unmount ==
  /\ IsMounted
  /\ \A h \in Handle : ~Open(h)
  /\ disk_inodes' = inodes[mounted]
  /\ disk_free' = free_blocks[mounted]
  /\ mounted' = 0
  /\ UNCHANGED <<disk_data, inodes, free_blocks, mounts, handle, fault>>

\* The slots at which the loop of LookupFile could stop; it takes the lowest.
Slots(id) == {i \in Slot : inodes[mounted][i].id = id}

Lowest(S) == CHOOSE x \in S : \A y \in S : x <= y

LookupFile(id) == IF Slots(id) = {} THEN NONE ELSE Lowest(Slots(id))

FreeBlocks == {b \in Block : free_blocks[mounted][b] = 0}

\* Mutant of GetFreeBlock: the first block behind the reserved ones.
FirstDataBlock == 2

GetFreeBlock == IF FreeBlocks = {} THEN NONE ELSE Lowest(FreeBlocks)

\* Mutant of GetFreeInode: always the first.
FirstInode == 0

GetFreeInode == IF Slots(NONE) = {} THEN NONE ELSE Lowest(Slots(NONE))

\* Both lists go to the disk at the end of CreateFile and DeleteFile.
SaveLists ==
  /\ disk_inodes' = inodes'[mounted]
  /\ disk_free' = free_blocks'[mounted]

\* CreateFile(id) gets past its tests.
Creates(id) == LookupFile(id) = NONE /\ GetFreeBlock # NONE

\* What CreateFile does with no inode left.  inodes[0xFFFFFFFF] is the FileSystem
\* object, allocated right before its inodes: the writes make its disk pointer
\* the file's number and its inode pointer 0.  Nothing is known of what the two
\* calls of DiskOperation then do; at most they save what lies at 0 and the
\* free list.
OverwriteObject ==
  /\ fault' = TRUE
  /\ disk_inodes' \in {disk_inodes} \cup Damage
  /\ disk_free' \in {disk_free, free_blocks'[mounted]}
  /\ UNCHANGED inodes

\* CreateFile tests the block number a second time where it means the index of
\* the inode, so with a free block and no free inode it goes on.
CreateFile(id) ==
  LET b == GetFreeBlock
      i == GetFreeInode
  IN  /\ IsMounted
      /\ \/ /\ ~Creates(id)
            /\ UNCHANGED <<disk_inodes, disk_free, inodes, free_blocks, fault>>
         \/ /\ Creates(id)
            /\ free_blocks' = [free_blocks EXCEPT ![mounted][b] = 1]
            /\ \/ i = NONE /\ OverwriteObject
               \/ /\ i # NONE
                  /\ inodes' = [inodes EXCEPT ![mounted][i] =
                                  [id |-> id, block_no |-> b, fs |-> mounted]]
                  /\ SaveLists
                  /\ UNCHANGED fault
      /\ UNCHANGED <<disk_data, mounts, mounted, handle>>

\* Mutant of DeleteFile: the block stays occupied.
DeleteAndLeak(id) ==
  /\ IsMounted /\ \A h \in Handle : Open(h) => handle[h].id # id
  /\ LookupFile(id) # NONE
  /\ inodes' = [inodes EXCEPT ![mounted][LookupFile(id)] =
                  [id |-> NONE, block_no |-> NONE, fs |-> @.fs]]
  /\ UNCHANGED free_blocks
  /\ SaveLists
  /\ UNCHANGED <<disk_data, mounts, mounted, handle, fault>>

\* DeleteFile.  No client deletes a file that is open.
DeleteFile(id) ==
  LET i == LookupFile(id)
  IN  /\ IsMounted
      /\ \A h \in Handle : Open(h) => handle[h].id # id
      /\ i # NONE
      /\ free_blocks' = [free_blocks EXCEPT ![mounted][inodes[mounted][i].block_no] = 0]
      /\ inodes' = [inodes EXCEPT ![mounted][i] =
                      [id |-> NONE, block_no |-> NONE, fs |-> @.fs]]
      /\ SaveLists
      /\ UNCHANGED <<disk_data, mounts, mounted, handle, fault>>

------------------------------------------------------------------------------
(* File objects.                                                            *)

\* The constructor.  A client opens files that exist: inode is not checked.
OpenFile(h, id) ==
  /\ IsMounted /\ ~Open(h)
  /\ LookupFile(id) # NONE
  /\ handle' = [handle EXCEPT ![h] =
       [id |-> id, inode |-> LookupFile(id), current_position |-> 0,
        block_cache |-> disk_data[inodes[mounted][LookupFile(id)].block_no]]]
  /\ UNCHANGED <<disk, memory, fault>>

Position(p, k) == (p + k) % BLOCK_SIZE

\* Mutant of NextPosition: one further.
NextPositionPlusOne(p, n) == Position(p, n) + 2

\* Where n + 1 writes that wrap at the end of the block leave the position.
NextPosition(p, n) == Position(p, n) + 1

\* What a write of n + 1 characters at p makes of a block: the last character
\* that falls on a place stays there.
Overwritten(cache, p, n, buf) ==
  [x \in DOMAIN cache |->
     LET hits == {k \in 0 .. n : Position(p, k) = x}
     IN  IF hits = {} THEN cache[x] ELSE buf[CHOOSE k \in hits : \A l \in hits : l <= k]]

\* Write(len, string) of a string of len letters c that ends with NUL.
WriteFile(h, len, c) ==
  LET n   == IF len > BLOCK_SIZE THEN BLOCK_SIZE ELSE len
      buf == [k \in 0 .. n |-> IF k < len THEN c ELSE NUL]
  IN  /\ IsMounted /\ Open(h)
      /\ handle' = [handle EXCEPT
           ![h].block_cache = Overwritten(@, handle[h].current_position, n, buf),
           ![h].current_position = NextPosition(@, n)]
      /\ UNCHANGED <<disk, memory, fault>>

\* Read(n): up to n + 1 characters; a position at the end goes back to 0.
ReadFile(h, n) ==
  LET p == handle[h].current_position
  IN  /\ IsMounted /\ Open(h)
      /\ handle' = [handle EXCEPT ![h].current_position =
                      IF p + n + 1 < BLOCK_SIZE THEN p + n + 1 ELSE 0]
      /\ UNCHANGED <<disk, memory, fault>>

ResetFile(h) ==
  /\ IsMounted /\ Open(h)
  /\ handle' = [handle EXCEPT ![h].current_position = 0]
  /\ UNCHANGED <<disk, memory, fault>>

\* The destructor: the cache goes to the file's block, and the inode list to the
\* disk - the list of the FileSystem object the inode points to.
CloseFile(h) ==
  LET node == inodes[mounted][handle[h].inode]
  IN  /\ IsMounted /\ Open(h)
      /\ disk_data' = [disk_data EXCEPT ![node.block_no] = handle[h].block_cache]
      /\ disk_inodes' = inodes[node.fs]
      /\ handle' = [handle EXCEPT ![h] = NONE]
      /\ UNCHANGED <<disk_free, memory, fault>>

FileSystemNext ==
  \/ Format \/ Mount \/ Unmount
  \/ \E id \in FileId : CreateFile(id) \/ DeleteFile(id)
  \/ \E h \in Handle :
       \/ ResetFile(h) \/ CloseFile(h)
       \/ \E id \in FileId : OpenFile(h, id)
       \/ \E n \in 0 .. (BLOCK_SIZE + 1) : ReadFile(h, n) \/ \E c \in Letter : WriteFile(h, n, c)

FileSystemSpec == FileSystemInit /\ [][FileSystemNext]_fileSystemVars

------------------------------------------------------------------------------

FileSystemTypeOK ==
  /\ disk_inodes \in [Slot -> Inode] /\ disk_free \in [Block -> {0, 1}]
  /\ disk_data \in [Block -> Content]
  /\ inodes \in [1 .. MaxMounts -> [Slot -> Inode]]
  /\ free_blocks \in [1 .. MaxMounts -> [Block -> {0, 1}]]
  /\ mounts \in Mounts /\ mounted \in {0, mounts}
  /\ handle \in [Handle -> File \cup {NONE}]
  /\ fault \in BOOLEAN

\* The lists that count: those in memory while a disk is mounted, those on the
\* disk otherwise.
InodeList == IF mounted = 0 THEN disk_inodes ELSE inodes[mounted]
FreeList == IF mounted = 0 THEN disk_free ELSE free_blocks[mounted]

Live == {i \in Slot : InodeList[i].id # NONE}

\* The blocks that are marked as used and belong to nobody.
Lost == {b \in Block \ Reserved : FreeList[b] = 1 /\ \A i \in Live : InodeList[i].block_no # b}

(***************************************************************************)
(* Whatever clients create, delete, open and close, and across unmounting  *)
(* and mounting again, no two files share an identifier or a block, no     *)
(* file has a reserved block, every file's block is marked as used, and no *)
(* block is lost - until a CreateFile that gets a block finds no inode:    *)
(* that call loses the block.                                              *)
(***************************************************************************)
BlocksOwned ==
  /\ \A i \in Live : InodeList[i].block_no \in Block \ Reserved
  /\ \A i, j \in Live : i # j =>
       /\ InodeList[i].id # InodeList[j].id
       /\ InodeList[i].block_no # InodeList[j].block_no
  /\ \A i \in Live : FreeList[InodeList[i].block_no] = 1
  /\ IF fault THEN \E b \in Block : Lost = {b} ELSE Lost = {}

(***************************************************************************)
(* The inode pointer a File object keeps still names the object's file     *)
(* when the object writes through it, whatever happened to other files     *)
(* since it was opened; a CreateFile that finds no inode does not write    *)
(* into the list, though the FileSystem object loses its pointer to it.    *)
(***************************************************************************)
HandlesValid ==
  \A h \in Handle : Open(h) => mounted # 0 /\ InodeList[handle[h].inode].id = handle[h].id

\* The refinement: a file's contents are those of its block.
FileNames == {InodeList[i].id : i \in Live}

Store ==
  INSTANCE FileStore WITH
    files <- [id \in FileNames |->
                disk_data[InodeList[CHOOSE i \in Live : InodeList[i].id = id].block_no]]

(***************************************************************************)
(* Calls on one file never change another one, an open file's contents     *)
(* change only when it is closed, and unmounting and mounting again keeps  *)
(* every file.  This ends with the CreateFile that finds no inode (fault): *)
(* the FileSystem object then has no list of files any more, and what a    *)
(* later call does is not described.                                       *)
(***************************************************************************)
ImplementsFileStore == Store!Spec
===============================================================================
