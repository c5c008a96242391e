------------------------------- MODULE VMPool -------------------------------
(***************************************************************************)
(* Virtual memory of mp4: VMPool (vm_pool.C), the part of PageTable it     *)
(* needs (page_table.C) and clients that allocate arrays, write and read   *)
(* their elements and release them, as kernel.C's test does with one array *)
(* at a time.  One thread runs, no interrupt handler touches any of this:  *)
(* every call, with the page fault it may take, is one step.               *)
(*                                                                         *)
(* The frame pool is linked as an object file (cont_frame_pool.o): it      *)
(* hands out the lowest free frame, stops the machine when there is none,  *)
(* and a release frees what was got.                                       *)
(***************************************************************************)
EXTENDS Integers, Sequences, FiniteSetsExt

CONSTANTS
  PageSize,    \* array elements in a page
  TableSize,   \* pages of a page table
  NFrames,     \* frames of the process pool
  Base, Size,  \* base_address and size of the pools, in elements
  MaxEntry,    \* entries of each of the two lists of a pool: 256
  Array,       \* the clients' pointers to arrays
  Request      \* the sizes of arrays, in elements

Pool  == 1 .. Len(Base)
Frame == 1 .. NFrames

NULL == 0

ASSUME VMAssumption ==
  /\ PageSize \in Nat \ {0} /\ TableSize \in Nat \ {0}
  /\ NFrames \in Nat /\ NFrames >= 2
  /\ MaxEntry \in Nat /\ MaxEntry > 1
  /\ Request \subseteq Nat \ {0} /\ \E longest \in Request : \A n \in Request : n <= longest
  /\ Len(Size) = Len(Base) /\ Base \in Seq(Nat \ {0}) /\ Size \in Seq(Nat)
  /\ \A q \in Pool : Base[q] % PageSize = 0 /\ Size[q] % PageSize = 0 /\ Size[q] > PageSize
  /\ \A q, r \in Pool : q < r => Base[q] + Size[q] <= Base[r]

Span(base, size) == base .. (base + size - 1)

Address   == UNION {Span(Base[q], Size[q]) : q \in Pool}
PageOf(a) == a \div PageSize
Page      == {PageOf(a) : a \in Address}
TableOf(pg) == pg \div TableSize
Table     == {TableOf(pg) : pg \in Page}

VARIABLES
  vmpool_list,                   \* the registered pools
  allocated_list, free_list,     \* of each pool; they lie in its first page
  no_of_allocated, no_of_freed,
  pde, pte,       \* the frame of a page table, of a page; NULL: not present
  free,           \* the frame pool
  mem,            \* who wrote the elements of each frame last
  region,         \* what the clients hold
  written,        \* the elements they have written
  fault           \* why the machine stopped; "reads_wrong": TestFailed()

listVars   == <<allocated_list, free_list, no_of_allocated, no_of_freed>>
pageVars   == <<pde, pte, free>>
clientVars == <<region, written>>
vars == <<vmpool_list, listVars, pageVars, mem, clientVars, fault>>

Invalid == [base |-> 0, size |-> 0]
Nothing == [pool |-> 0, base |-> 0, size |-> 0]
Blank   == [o \in 0 .. (PageSize - 1) |-> NULL]

\* The page directory and the table of the first 4 MB.
BootFrames == {1, 2}

Init ==
  /\ vmpool_list = <<>>
  /\ allocated_list = [q \in Pool |-> [i \in 0 .. (MaxEntry - 1) |-> Invalid]]
  /\ free_list = allocated_list
  /\ no_of_allocated = [q \in Pool |-> 0]
  /\ no_of_freed = no_of_allocated
  /\ pde = [t \in Table |-> NULL]
  /\ pte = [pg \in Page |-> NULL]
  /\ free = Frame \ BootFrames
  /\ mem = [f \in Frame |-> Blank]
  /\ region = [x \in Array |-> Nothing]
  /\ written = [x \in Array |-> {}]
  /\ fault = "none"

Running == fault = "none"

------------------------------------------------------------------------------
(* The page table.                                                          *)

\* Mutant of Covers: the address behind the region is legitimate, too.
CoversEnd(r, a) == r.base <= a /\ a <= r.base + r.size

Covers(r, a) == r.base <= a /\ a < r.base + r.size

is_legitimate(q, a) ==
  \E i \in 0 .. (no_of_allocated[q] - 1) : Covers(allocated_list[q][i], a)

Legitimate(a) == \E i \in DOMAIN vmpool_list : is_legitimate(vmpool_list[i], a)

Mapped(pg)  == pte[pg] # NULL
NoTable(pg) == pde[TableOf(pg)] = NULL

\* A fault takes a frame for the page and then, if it has none, one for the
\* page table.
Enough(pg)   == free # {} /\ (NoTable(pg) => free \ {Min(free)} # {})
FrameFor(pg) == IF Mapped(pg) THEN pte[pg] ELSE Min(free)
TableFor(pg) == IF NoTable(pg) THEN Min(free \ {FrameFor(pg)}) ELSE pde[TableOf(pg)]

\* Mutant of handle_fault: the directory entry is not marked present.
LeaveTableAbsent(pg) ==
  IF Mapped(pg) THEN UNCHANGED pageVars
  ELSE /\ pte' = [pte EXCEPT ![pg] = FrameFor(pg)]
       /\ free' = free \ {FrameFor(pg), TableFor(pg)}
       /\ UNCHANGED pde

handle_fault(pg) ==
  IF Mapped(pg) THEN UNCHANGED pageVars
  ELSE /\ pte' = [pte EXCEPT ![pg] = FrameFor(pg)]
       /\ pde' = [pde EXCEPT ![TableOf(pg)] = TableFor(pg)]
       /\ free' = free \ {FrameFor(pg), TableFor(pg)}

\* A new table's entries are written; a page's frame is not cleared.
Cleared(pg) ==
  IF ~Mapped(pg) /\ NoTable(pg) THEN [mem EXCEPT ![TableFor(pg)] = Blank] ELSE mem

\* Mutant of free_page: the entry stays present.
KeepPresent(pg) ==
  /\ free' = IF Mapped(pg) THEN free \cup {pte[pg]} ELSE free
  /\ fault' = IF NoTable(pg) THEN "assert" ELSE fault
  /\ UNCHANGED <<pde, pte>>

\* The entry is read through the recursive mapping: without a page table that
\* is a fault on an address of no pool.
free_page(pg) ==
  /\ free' = IF Mapped(pg) THEN free \cup {pte[pg]} ELSE free
  /\ pte' = IF Mapped(pg) THEN [pte EXCEPT ![pg] = NULL] ELSE pte
  /\ fault' = IF NoTable(pg) THEN "assert" ELSE fault
  /\ UNCHANGED pde

------------------------------------------------------------------------------
(* The pools.                                                               *)

\* VMPool's constructor registers the pool and takes its first page for the
\* lists.  The fault on it is legitimate because the flag is set that only the
\* constructor sets; with too few frames the machine stops.
ConstructPool(q) ==
  LET pg == PageOf(Base[q])
  IN  /\ Running
      /\ q = Len(vmpool_list) + 1
      /\ Enough(pg)
      /\ vmpool_list' = Append(vmpool_list, q)
      /\ allocated_list' = [allocated_list EXCEPT ![q][0] = [base |-> Base[q], size |-> PageSize]]
      /\ free_list' =
           [free_list EXCEPT ![q][0] = [base |-> Base[q] + PageSize, size |-> Size[q] - PageSize]]
      /\ no_of_allocated' = [no_of_allocated EXCEPT ![q] = 1]
      /\ no_of_freed' = [no_of_freed EXCEPT ![q] = 1]
      /\ handle_fault(pg)
      /\ mem' = Cleared(pg)
      /\ UNCHANGED <<clientVars, fault>>

\* Mutant of Fits: the size of the pool is compared.
FitsPool(q, n) == {i \in 0 .. (no_of_freed[q] - 1) : n <= Size[q]}

Fits(q, n) == {i \in 0 .. (no_of_freed[q] - 1) : n <= free_list[q][i].size}

\* Mutant of CutOff: only the size is reduced.
CutOffSize(r, n) == [r EXCEPT !.size = @ - n]

CutOff(r, n) == [base |-> r.base + n, size |-> r.size - n]

\* allocate(n): the first free region that is large enough, from its start.
\* Neither list is bounded in the code: a client makes at most MaxEntry - 1
\* calls to each pool (kernel.C: 49), after main() has constructed them all.
Allocate(x, q, n) ==
  LET i    == Min(Fits(q, n))
      base == free_list[q][i].base
  IN  /\ Running
      /\ region[x] = Nothing
      /\ DOMAIN vmpool_list = Pool
      /\ no_of_allocated[q] < MaxEntry
      /\ Fits(q, n) # {}
      /\ allocated_list' =
           [allocated_list EXCEPT ![q][no_of_allocated[q]] = [base |-> base, size |-> n]]
      /\ no_of_allocated' = [no_of_allocated EXCEPT ![q] = @ + 1]
      /\ free_list' = [free_list EXCEPT ![q][i] = CutOff(@, n)]
      /\ region' = [region EXCEPT ![x] = [pool |-> q, base |-> base, size |-> n]]
      /\ UNCHANGED <<vmpool_list, no_of_freed, pageVars, mem, written, fault>>

Entries(q, base) == {i \in 0 .. (no_of_allocated[q] - 1) : allocated_list[q][i].base = base}

\* Mutant of PageFreed: the start is rounded up, so the page may lie behind it.
RoundedUp(r) == IF PageOf(r.base) + 1 \in Page THEN PageOf(r.base) + 1 ELSE PageOf(r.base)

\* Only the page in which the region begins is freed.
PageFreed(r) == PageOf(r.base)

ReleaseArray(x) ==
  LET q == region[x].pool
      found == Entries(q, region[x].base)
      i == Min(found)
  IN  /\ Running
      /\ region[x] # Nothing
      /\ IF found = {} \/ allocated_list[q][i].size = 0
         THEN /\ fault' = "assert"
              /\ UNCHANGED <<listVars, pageVars, clientVars>>
         ELSE /\ free_list' = [free_list EXCEPT ![q][no_of_freed[q]] = allocated_list[q][i]]
              /\ no_of_freed' = [no_of_freed EXCEPT ![q] = @ + 1]
              /\ allocated_list' = [allocated_list EXCEPT ![q][i] = Invalid]
              /\ free_page(PageFreed(region[x]))
              /\ region' = [region EXCEPT ![x] = Nothing]
              /\ written' = [written EXCEPT ![x] = {}]
              /\ UNCHANGED no_of_allocated
      /\ UNCHANGED <<vmpool_list, mem>>

------------------------------------------------------------------------------
(* The clients' accesses.                                                   *)

At(x, j) == region[x].base + j

\* Element j of x, which the access can reach.
Element(x, j) ==
  LET a == At(x, j)
  IN  /\ Running
      /\ Mapped(PageOf(a)) \/ (Legitimate(a) /\ Enough(PageOf(a)))

Write(x, j) ==
  LET pg == PageOf(At(x, j))
  IN  /\ Element(x, j)
      /\ handle_fault(pg)
      /\ mem' = [Cleared(pg) EXCEPT ![FrameFor(pg)][At(x, j) % PageSize] = x]
      /\ written' = [written EXCEPT ![x] = @ \cup {j}]
      /\ UNCHANGED <<vmpool_list, listVars, region, fault>>

\* The test reads what it wrote.
Read(x, j) ==
  LET pg == PageOf(At(x, j))
  IN  /\ j \in written[x]
      /\ Element(x, j)
      /\ handle_fault(pg)
      /\ mem' = Cleared(pg)
      /\ fault' = IF Cleared(pg)[FrameFor(pg)][At(x, j) % PageSize] = x THEN fault ELSE "reads_wrong"
      /\ UNCHANGED <<vmpool_list, listVars, clientVars>>

\* The handler's assertion, or the frame pool that stops the machine.
AccessFails(x, j) ==
  LET a == At(x, j)
  IN  /\ Running
      /\ ~Mapped(PageOf(a))
      /\ ~Legitimate(a) \/ ~Enough(PageOf(a))
      /\ fault' = IF Legitimate(a) THEN "memory" ELSE "assert"
      /\ UNCHANGED <<vmpool_list, listVars, pageVars, mem, clientVars>>

Next ==
  \/ \E q \in Pool : ConstructPool(q)
  \/ \E x \in Array :
       \/ \E q \in Pool, n \in Request : Allocate(x, q, n)
       \/ ReleaseArray(x)
       \/ \E j \in Span(0, region[x].size) : Write(x, j) \/ Read(x, j) \/ AccessFails(x, j)

Spec == Init /\ [][Next]_vars

------------------------------------------------------------------------------

\* What x refers to.
Elements(x) == Span(region[x].base, region[x].size)

Entry == [base : Nat, size : Nat]

TypeOK ==
  /\ vmpool_list \in Seq(Pool)
  /\ allocated_list \in [Pool -> [0 .. (MaxEntry - 1) -> Entry]]
  /\ free_list \in [Pool -> [0 .. (MaxEntry - 1) -> Entry]]
  /\ no_of_allocated \in [Pool -> 0 .. MaxEntry] /\ no_of_freed \in [Pool -> 0 .. MaxEntry]
  /\ pde \in [Table -> Frame \cup {NULL}] /\ pte \in [Page -> Frame \cup {NULL}]
  /\ free \subseteq Frame
  /\ mem \in [Frame -> [0 .. (PageSize - 1) -> Array \cup {NULL}]]
  /\ region \in [Array -> [pool : Pool \cup {0}, base : Nat, size : Nat]]
  /\ DOMAIN written = Array
  /\ \A x \in Array : Elements(x) \subseteq Address /\ written[x] \subseteq Span(0, region[x].size)
  /\ fault \in {"none", "assert", "memory", "reads_wrong"}

PresentTable == {t \in Table : pde[t] # NULL}
MappedPage   == {pg \in Page : Mapped(pg)}

\* All of its page belongs to x.
InWholePage(x, j) == \A a \in Address : PageOf(a) = PageOf(At(x, j)) => a \in Elements(x)

(***************************************************************************)
(* Over any sequence of calls and faults every frame is either free or in  *)
(* exactly one place: the page directory, one page table, or one page.  No *)
(* frame is lost, and none is mapped twice or after its release - also     *)
(* those of pages a release leaves mapped (free_page, handle_fault).       *)
(***************************************************************************)
FramesAccounted ==
  /\ free = Frame \ (BootFrames \cup {pde[t] : t \in PresentTable} \cup {pte[pg] : pg \in MappedPage})
  /\ \A t \in PresentTable : pde[t] \notin BootFrames
  /\ \A pg \in MappedPage : pte[pg] \notin BootFrames /\ TableOf(pg) \in PresentTable
  /\ \A t, u \in PresentTable : pde[t] = pde[u] => t = u
  /\ \A pg, qg \in MappedPage : pte[pg] = pte[qg] => pg = qg
  /\ \A t \in PresentTable, pg \in MappedPage : pde[t] # pte[pg]

(***************************************************************************)
(* vm_pool.H: an address is legitimate if and only if it is in a region    *)
(* that is currently allocated (or in the page of the lists), through all  *)
(* moves of entries between the two lists (is_legitimate).                 *)
(***************************************************************************)
LegitimateIsAllocated ==
  \A a \in Address :
    Legitimate(a) <=>
      \/ \E q \in DOMAIN vmpool_list : a \in Span(Base[q], PageSize)
      \/ \E x \in Array : a \in Elements(x)

(***************************************************************************)
(* Elements in pages that lie entirely in one region keep what was written *)
(* to them, whatever other regions are allocated, accessed and released:   *)
(* no other release unmaps such a page and nobody else gets its frame.     *)
(***************************************************************************)
WholePagesKept ==
  \A x \in Array : \A j \in written[x] :
    InWholePage(x, j) =>
      /\ Mapped(PageOf(At(x, j)))
      /\ mem[pte[PageOf(At(x, j))]][At(x, j) % PageSize] = x

(***************************************************************************)
(* The handler's assertions never fail for an access, nor for the release  *)
(* of an array of which an element under its first page table was written. *)
(* They can when none was (free_page reads an entry of no table).          *)
(***************************************************************************)
AssertsOnlyWhenUnwritten ==
  [][fault' = "assert" =>
       \E x \in Array :
         /\ ReleaseArray(x)
         /\ \A j \in written[x] : TableOf(PageOf(At(x, j))) # TableOf(PageOf(At(x, 0)))]_vars

\* The regions as extents of the pools' addresses.
FreeExtents == UNION {Span(free_list[q][i].base, free_list[q][i].size) :
                        q \in Pool, i \in 0 .. (MaxEntry - 1)}
HeldExtents == [x \in Array |-> Elements(x)]

Regions == INSTANCE ExtentAllocator WITH
  Owner <- Array, Frame <- Address, MaxRun <- Max(Request),
  free <- FreeExtents, held <- HeldExtents

(***************************************************************************)
(* VMPool is an allocator of extents: a client gets addresses that nobody  *)
(* has, and a release gives back exactly those its region had, even though *)
(* released regions are never merged (allocate, release).                  *)
(***************************************************************************)
ImplementsRegions == Regions!Spec
==============================================================================
