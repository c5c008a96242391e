---------------------------- MODULE DemandPaging ----------------------------
(***************************************************************************)
(* Demand paging of mp3: kernel.C's main() with page_table.C.  Directory   *)
(* and page tables lie in frames of physical memory like everything else,  *)
(* and once paging is on the fault handler reaches them only through the   *)
(* mapping they define.  One thread runs and no interrupt handler touches  *)
(* any of this, so a page fault with its handler is one step.              *)
(*                                                                         *)
(* The frame pool is linked as an object file (cont_frame_pool.o): it      *)
(* hands out the lowest free frames.  Where the code asserts, or asks for a *)
(* frame when there is none, the machine stops: no step is enabled.        *)
(***************************************************************************)
EXTENDS Integers, FiniteSetsExt

CONSTANTS
  Entries,          \* entries of a table, and words of a frame: 1024
  KERNEL_POOL_START_FRAME, KERNEL_POOL_SIZE,
  PROCESS_POOL_START_FRAME, PROCESS_POOL_SIZE,
  MEM_HOLE_START_FRAME, MEM_HOLE_SIZE,
  Access,           \* the i of foo[i]: 0 .. NACCESS - 1 in kernel.C
  Garbage           \* what memory may hold before anything is written there

KernelFrame  == KERNEL_POOL_START_FRAME .. (KERNEL_POOL_START_FRAME + KERNEL_POOL_SIZE - 1)
ProcessFrame == PROCESS_POOL_START_FRAME .. (PROCESS_POOL_START_FRAME + PROCESS_POOL_SIZE - 1)
HoleFrame    == MEM_HOLE_START_FRAME .. (MEM_HOLE_START_FRAME + MEM_HOLE_SIZE - 1)
Frame        == 0 .. (PROCESS_POOL_START_FRAME + PROCESS_POOL_SIZE - 1)
Index        == 0 .. (Entries - 1)

\* kernel.C puts the kernel pool into the 4 MB that the constructor maps and
\* the process pool behind them; the array ends before the address space does.
ASSUME PagingAssumption ==
  /\ Entries \in Nat \ {0}
  /\ KERNEL_POOL_START_FRAME \in Nat \ {0} /\ KERNEL_POOL_SIZE \in Nat
  /\ KERNEL_POOL_SIZE >= 4
  /\ KERNEL_POOL_START_FRAME + KERNEL_POOL_SIZE <= Entries
  /\ PROCESS_POOL_START_FRAME \in Nat /\ PROCESS_POOL_SIZE \in Nat
  /\ Entries <= PROCESS_POOL_START_FRAME
  /\ MEM_HOLE_START_FRAME \in Nat /\ MEM_HOLE_SIZE \in Nat
  /\ Access \subseteq Nat
  /\ \A i \in Access : 1 + (i \div Entries) \div Entries < Entries
  /\ Garbage \subseteq Nat

VARIABLES
  kernel_free, process_free,  \* the free frames of the two pools
  mem,             \* mem[f][k]: word k of frame f
  page_directory,  \* the frame of pt's directory
  cr3, paging,     \* the directory the processor uses, and whether it does
  pc,              \* the statement of main()
  accessed         \* the accesses the current loop has behind it

poolVars == <<kernel_free, process_free>>
cpuVars  == <<page_directory, cr3, paging>>
vars == <<poolVars, mem, cpuVars, pc, accessed>>

PC    == {"pools", "page_table", "load", "enable", "write", "test", "failed", "passed"}

Init ==
  /\ kernel_free = {} /\ process_free = {}
  /\ \E g \in Garbage : mem = [f \in Frame |-> [k \in Index |-> g]]
  /\ page_directory = 0 /\ cr3 = 0 /\ paging = FALSE
  /\ pc = "pools"
  /\ accessed = {}

------------------------------------------------------------------------------
(* Addresses and entries.                                                   *)

S_W_P  == 3
S_W_NP == 2

\* frame << PHYSICAL_ADDRESS_START | attributes; three bits are enough here.
Entry(f, attributes) == f * 8 + attributes
Present(w) == w % 2 = 1
Target(w)  == w \div 8

\* A logical page is the pair of its directory and its table index.
Page == Index \X Index
PageOfFrame(f) == <<f \div Entries, f % Entries>>

None == -1

Walks(m, pg) ==
  /\ Present(m[cr3][pg[1]])
  /\ Target(m[cr3][pg[1]]) \in Frame
  /\ Present(m[Target(m[cr3][pg[1]])][pg[2]])

\* What the processor makes of a logical page when memory holds m.
Walk(m, pg) ==
  IF Walks(m, pg) THEN Target(m[Target(m[cr3][pg[1]])][pg[2]]) ELSE None

Mapped(pg) == Walks(mem, pg)

\* A pointer to physical frame f is a logical address, too.
Pointed(m, f) == Walk(m, PageOfFrame(f))

\* foo = (int *) FAULT_ADDR: the array begins at 4 MB, directory entry 1.
AddressPage(i)   == <<1 + (i \div Entries) \div Entries, (i \div Entries) % Entries>>
AddressOffset(i) == i % Entries

------------------------------------------------------------------------------
(* main() up to enable_paging().                                            *)

\* The kernel pool keeps its bitmap in its first frame and gives its second to
\* the process pool's.
BootPools ==
  /\ pc = "pools"
  /\ kernel_free' = KernelFrame \ {KERNEL_POOL_START_FRAME, KERNEL_POOL_START_FRAME + 1}
  /\ process_free' = ProcessFrame \ HoleFrame
  /\ pc' = "page_table"
  /\ UNCHANGED <<mem, cpuVars, accessed>>

\* Mutant of ConstructPageTable: the address of the directory is kept with
\* attribute bits, like those of the tables.
DirectoryWithBits ==
  LET directory == Min(kernel_free)
      table     == Min(kernel_free \ {directory})
  IN  /\ pc = "page_table"
      /\ kernel_free' = kernel_free \ {directory, table}
      /\ mem' = [mem EXCEPT
           ![table] = [k \in Index |-> Entry(k, S_W_P)],
           ![directory] =
             [k \in Index |-> IF k = 0 THEN Entry(table, S_W_P) ELSE Entry(0, S_W_NP)]]
      /\ page_directory' = Entry(directory, S_W_P)
      /\ pc' = "load"
      /\ UNCHANGED <<process_free, cr3, paging, accessed>>

\* PageTable::PageTable: paging is off, the pointers are physical addresses.
ConstructPageTable ==
  LET directory == Min(kernel_free)
      table     == Min(kernel_free \ {directory})
  IN  /\ pc = "page_table"
      /\ kernel_free' = kernel_free \ {directory, table}
      /\ mem' = [mem EXCEPT
           ![table] = [k \in Index |-> Entry(k, S_W_P)],
           ![directory] =
             [k \in Index |-> IF k = 0 THEN Entry(table, S_W_P) ELSE Entry(0, S_W_NP)]]
      /\ page_directory' = directory
      /\ pc' = "load"
      /\ UNCHANGED <<process_free, cr3, paging, accessed>>

Load ==
  /\ pc = "load"
  /\ cr3' = page_directory
  /\ pc' = "enable"
  /\ UNCHANGED <<poolVars, mem, page_directory, paging, accessed>>

EnablePaging ==
  /\ pc = "enable"
  /\ page_directory = cr3
  /\ paging' = TRUE
  /\ pc' = "write"
  /\ UNCHANGED <<poolVars, mem, page_directory, cr3, accessed>>

------------------------------------------------------------------------------
(* The page-fault handler, for a fault with the present bit clear; the      *)
(* other kind cannot be raised, since every mapping is writable.            *)

NoTable(pg) == ~Present(mem[cr3][pg[1]])

TableFor(pg) == IF NoTable(pg) THEN Min(kernel_free) ELSE Target(mem[cr3][pg[1]])

\* The directory entry, if there is no table yet.
Linked(pg) ==
  IF NoTable(pg) THEN [mem EXCEPT ![cr3][pg[1]] = Entry(TableFor(pg), S_W_P)] ELSE mem

\* Mutant of Cleared: a new table keeps what the frame held.
NotCleared(pg) == Linked(pg)

\* The entries of a new table.
Cleared(pg) ==
  IF NoTable(pg)
  THEN [Linked(pg) EXCEPT ![TableFor(pg)] = [k \in Index |-> Entry(0, S_W_NP)]]
  ELSE Linked(pg)

\* Mutant of Filled: the entry of the directory index is set.
FilledAtPDE(pg) == [Cleared(pg) EXCEPT ![TableFor(pg)][pg[1]] = Entry(Min(process_free), S_W_P)]

Filled(pg) == [Cleared(pg) EXCEPT ![TableFor(pg)][pg[2]] = Entry(Min(process_free), S_W_P)]

\* The handler's own accesses, to the directory and to the table; were one not
\* mapped, the handler would fault itself.
Reaches(pg) ==
  /\ Pointed(mem, cr3) = cr3
  /\ Pointed(Linked(pg), TableFor(pg)) = TableFor(pg)

\* Mutant of handle_fault: the frame of the page stays free.
KeepFrame(pg) ==
  /\ process_free # {}
  /\ NoTable(pg) => kernel_free # {}
  /\ Reaches(pg)
  /\ mem' = Filled(pg)
  /\ kernel_free' = IF NoTable(pg) THEN kernel_free \ {TableFor(pg)} ELSE kernel_free
  /\ UNCHANGED process_free

handle_fault(pg) ==
  /\ process_free # {}
  /\ NoTable(pg) => kernel_free # {}
  /\ Reaches(pg)
  /\ mem' = Filled(pg)
  /\ process_free' = process_free \ {Min(process_free)}
  /\ kernel_free' = IF NoTable(pg) THEN kernel_free \ {TableFor(pg)} ELSE kernel_free

PageFault(i) ==
  /\ pc \in {"write", "test"}
  /\ i \in Access \ accessed
  /\ ~Mapped(AddressPage(i))
  /\ handle_fault(AddressPage(i))
  /\ UNCHANGED <<cpuVars, pc, accessed>>

------------------------------------------------------------------------------
(* main()'s two loops.  They run i upwards; here the order is any.          *)

\* foo[i] = i
WriteWord(i) ==
  /\ pc = "write"
  /\ i \in Access \ accessed
  /\ Mapped(AddressPage(i))
  /\ Walk(mem, AddressPage(i)) \in Frame
  /\ mem' = [mem EXCEPT ![Walk(mem, AddressPage(i))][AddressOffset(i)] = i]
  /\ accessed' = accessed \cup {i}
  /\ UNCHANGED <<poolVars, cpuVars, pc>>

StartTest ==
  /\ pc = "write"
  /\ accessed = Access
  /\ pc' = "test"
  /\ accessed' = {}
  /\ UNCHANGED <<poolVars, mem, cpuVars>>

\* if (foo[i] != i): TEST FAILED and out of the loop
TestWord(i) ==
  /\ pc = "test"
  /\ i \in Access \ accessed
  /\ Mapped(AddressPage(i))
  /\ Walk(mem, AddressPage(i)) \in Frame
  /\ accessed' = accessed \cup {i}
  /\ pc' = IF mem[Walk(mem, AddressPage(i))][AddressOffset(i)] = i THEN pc ELSE "failed"
  /\ UNCHANGED <<poolVars, mem, cpuVars>>

TestPassed ==
  /\ pc = "test"
  /\ accessed = Access
  /\ pc' = "passed"
  /\ UNCHANGED <<poolVars, mem, cpuVars, accessed>>

Next ==
  \/ BootPools \/ ConstructPageTable \/ Load \/ EnablePaging
  \/ StartTest \/ TestPassed
  \/ \E i \in Access : PageFault(i) \/ WriteWord(i) \/ TestWord(i)

\* main() runs on and on; the handler returns to the access that faulted.
Spec == Init /\ [][Next]_vars /\ WF_vars(Next)

------------------------------------------------------------------------------

TypeOK ==
  /\ kernel_free \subseteq KernelFrame /\ process_free \subseteq ProcessFrame
  /\ mem \in [Frame -> [Index -> Nat]]
  /\ page_directory \in Frame /\ cr3 \in Frame
  /\ paging \in BOOLEAN
  /\ pc \in PC
  /\ accessed \subseteq Access

\* The pages of the first 4 MB and the others.
SharedPage == {pg \in Page : pg[1] = 0}
UserPage   == {pg \in Page : pg[1] # 0 /\ Mapped(pg)}

\* The directory indices that have a page table.
Tables == {d \in Index : Present(mem[cr3][d])}

(***************************************************************************)
(* page_table.H:77-87, 118-127.  While paging is on, the first 4 MB are    *)
(* mapped onto themselves - only therefore does the handler reach what it  *)
(* changes; every page table has a kernel frame of its own, none of which  *)
(* holds a bitmap or the directory; every other page has a frame of the    *)
(* process pool of its own, outside the hole; and none of these is free.   *)
(***************************************************************************)
PrivateFrames ==
  paging =>
    /\ \A pg \in SharedPage : Mapped(pg) /\ Walk(mem, pg) = pg[2]
    /\ \A d \in Tables :
         /\ Target(mem[cr3][d]) \in KernelFrame \ kernel_free
         /\ Target(mem[cr3][d]) \notin
              {KERNEL_POOL_START_FRAME, KERNEL_POOL_START_FRAME + 1, cr3}
         /\ \A c \in Tables : Target(mem[cr3][c]) = Target(mem[cr3][d]) => c = d
    /\ \A pg \in UserPage :
         /\ Walk(mem, pg) \in (ProcessFrame \ HoleFrame) \ process_free
         /\ \A qg \in UserPage : Walk(mem, qg) = Walk(mem, pg) => qg = pg

\* The refinement: the words of the array as main() sees them.
CellAt(i) ==
  IF paging /\ Walk(mem, AddressPage(i)) \in Frame
  THEN mem[Walk(mem, AddressPage(i))][AddressOffset(i)] ELSE None

Array == INSTANCE FlatMemory WITH
  Address <- Access, Absent <- None, cell <- [i \in Access |-> CellAt(i)]

(***************************************************************************)
(* Every word of the array is a cell of its own: no page fault, whatever   *)
(* tables and frames it takes, changes a word that is there, and a write   *)
(* changes no other.                                                       *)
(***************************************************************************)
ImplementsFlatMemory == Array!Spec

(***************************************************************************)
(* The memory test of main() comes to its end and prints TEST PASSED: no   *)
(* pool runs out, the handler never faults itself, and every word that was *)
(* written is read back, in whatever order the words are accessed.         *)
(***************************************************************************)
TestPasses == <>(pc = "passed")
==============================================================================
