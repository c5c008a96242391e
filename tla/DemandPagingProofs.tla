-------------------------- MODULE DemandPagingProofs --------------------------
(***************************************************************************)
(* Safety of mp3's demand paging for any sizes of tables and pools, any     *)
(* array and whatever memory holds at the start.                           *)
(*                                                                         *)
(* PrivateFrames speaks of what the processor sees once paging is on.  The  *)
(* invariant says the same of the directory from its construction on, of   *)
(* tables and pages instead of walks, and adds what the pools have left.   *)
(***************************************************************************)
EXTENDS DemandPaging, WellFoundedInduction, TLAPS

Memory == [Frame -> [Index -> Nat]]

\* The frames of the kernel pool that no bitmap takes.
TableFrame == KernelFrame \ {KERNEL_POOL_START_FRAME, KERNEL_POOL_START_FRAME + 1}
PageFrame  == ProcessFrame \ HoleFrame

HasTable(m, r, d) == Present(m[r][d])
Table(m, r, d)    == Target(m[r][d])

\* The page with indices d and k, and its frame.
HasPage(m, r, d, k) == HasTable(m, r, d) /\ Present(m[Table(m, r, d)][k])
PageAt(m, r, d, k)  == Target(m[Table(m, r, d)][k])

Identity(m, r) ==
  /\ HasTable(m, r, 0)
  /\ \A k \in Index : m[Table(m, r, 0)][k] = Entry(k, S_W_P)

OwnTables(m, r, kf) ==
  \A d \in Index : HasTable(m, r, d) =>
    /\ Table(m, r, d) \in TableFrame \ kf
    /\ Table(m, r, d) # r
    /\ \A c \in Index : HasTable(m, r, c) /\ Table(m, r, c) = Table(m, r, d) => c = d

OwnPages(m, r, pf) ==
  \A d \in Index \ {0}, k \in Index : HasPage(m, r, d, k) =>
    /\ PageAt(m, r, d, k) \in PageFrame \ pf
    /\ \A c \in Index \ {0}, j \in Index :
         HasPage(m, r, c, j) /\ PageAt(m, r, c, j) = PageAt(m, r, d, k) =>
           c = d /\ j = k

\* What memory m makes of the directory in frame r.
Layout(m, r, kf, pf) ==
  /\ r \in TableFrame \ kf
  /\ Identity(m, r)
  /\ OwnTables(m, r, kf)
  /\ OwnPages(m, r, pf)

\* Memory with an empty table in frame t, and with frame f as a page.
WithTable(m, r, d, t) ==
  [[m EXCEPT ![r][d] = Entry(t, S_W_P)] EXCEPT ![t] = [k \in Index |-> Entry(0, S_W_NP)]]
WithPage(m, r, d, k, f) == [m EXCEPT ![Table(m, r, d)][k] = Entry(f, S_W_P)]

PoolsLeft ==
  /\ kernel_free \subseteq TableFrame /\ process_free \subseteq PageFrame
  /\ pc = "page_table" => kernel_free = TableFrame

Built ==
  pc \notin {"pools", "page_table"} =>
    Layout(mem, page_directory, kernel_free, process_free)

Processor ==
  /\ paging <=> pc \in {"write", "test", "failed", "passed"}
  /\ paging => cr3 = page_directory

IInv == TypeOK /\ PoolsLeft /\ Built /\ Processor

------------------------------------------------------------------------------
(* Entries, frames and addresses.                                           *)

LEMMA MinIsLeast ==
  ASSUME NEW S \in SUBSET Nat, S # {}
  PROVE  Min(S) \in S
<1> DEFINE Smaller == {p \in Nat \X Nat : p[1] < p[2]}
<1>1. IsWellFoundedOn(Smaller, Nat)
  BY NatLessThanWellFounded DEF OpToRel
<1> HIDE DEF Smaller
<1>2. PICK x \in S : \A y \in S : <<y, x>> \notin Smaller
  BY <1>1, WFMin
<1>3. ASSUME NEW y \in S PROVE x =< y
  <2>1. y < x => <<y, x>> \in Smaller
    BY DEF Smaller
  <2> QED
    BY <1>2, <2>1
<1> QED
  BY <1>3 DEF Min

\* Setting the attribute bits and shifting them out again.
LEMMA EntryFields ==
  ASSUME NEW f \in Nat
  PROVE  /\ Entry(f, S_W_P) \in Nat /\ Present(Entry(f, S_W_P)) /\ Target(Entry(f, S_W_P)) = f
         /\ Entry(f, S_W_NP) \in Nat /\ ~Present(Entry(f, S_W_NP))
BY DEF Entry, S_W_P, S_W_NP, Present, Target

LEMMA Frames ==
  /\ KernelFrame \subseteq Frame /\ KernelFrame \subseteq Index
  /\ ProcessFrame \subseteq Frame
  /\ KernelFrame \cap ProcessFrame = {}
  /\ Frame \subseteq Nat /\ Index \subseteq Nat /\ 0 \in Index /\ 0 \in Frame
  /\ \A f \in Index : PageOfFrame(f) = <<0, f>>
BY PagingAssumption DEF KernelFrame, ProcessFrame, Frame, Index, PageOfFrame

LEMMA Divide ==
  ASSUME NEW i \in Nat
  PROVE  /\ i \div Entries \in Nat /\ i % Entries \in Index
         /\ i = Entries * (i \div Entries) + (i % Entries)
BY PagingAssumption DEF Index

LEMMA Addresses ==
  ASSUME NEW i \in Access
  PROVE  /\ AddressPage(i) \in Page /\ AddressPage(i)[1] \in Index \ {0}
         /\ AddressPage(i)[2] \in Index /\ AddressOffset(i) \in Index
<1>1. i \in Nat /\ 1 + (i \div Entries) \div Entries < Entries
  BY PagingAssumption
<1>2. i \div Entries \in Nat /\ i % Entries \in Index
  BY <1>1, Divide
<1>3. (i \div Entries) \div Entries \in Nat /\ (i \div Entries) % Entries \in Index
  BY <1>2, Divide
<1>4. 1 + (i \div Entries) \div Entries \in Index \ {0}
  BY <1>1, <1>3, PagingAssumption DEF Index
<1> QED
  BY <1>2, <1>3, <1>4 DEF AddressPage, AddressOffset, Page

\* The three fields of an address determine it.
LEMMA AddressesDiffer ==
  ASSUME NEW i \in Access, NEW j \in Access,
         AddressPage(i) = AddressPage(j), AddressOffset(i) = AddressOffset(j)
  PROVE  i = j
<1>1. i \in Nat /\ j \in Nat
  BY PagingAssumption
<1> DEFINE a == i \div Entries
           b == j \div Entries
<1>2. a \in Nat /\ b \in Nat /\ i = Entries * a + (i % Entries) /\ j = Entries * b + (j % Entries)
  BY <1>1, Divide
<1>3. a \div Entries \in Nat /\ a = Entries * (a \div Entries) + (a % Entries)
  BY <1>2, Divide
<1>4. b \div Entries \in Nat /\ b = Entries * (b \div Entries) + (b % Entries)
  BY <1>2, Divide
<1>5. 1 + a \div Entries = 1 + b \div Entries /\ a % Entries = b % Entries /\ i % Entries = j % Entries
  BY DEF AddressPage, AddressOffset
<1>6. a \div Entries = b \div Entries
  BY <1>3, <1>4, <1>5
<1> HIDE DEF a, b
<1>7. a = b
  BY <1>3, <1>4, <1>5, <1>6
<1> QED
  BY <1>2, <1>5, <1>7

------------------------------------------------------------------------------
(* What keeps a layout.                                                     *)

\* A write outside the pool of the tables.
LEMMA LayoutOfTables ==
  ASSUME NEW m \in Memory, NEW n \in Memory, \A f \in KernelFrame : n[f] = m[f],
         NEW r, NEW kf, NEW pf, Layout(m, r, kf, pf)
  PROVE  Layout(n, r, kf, pf)
<1>1. r \in KernelFrame /\ n[r] = m[r]
  BY DEF Layout, TableFrame
<1>2. \A d \in Index : HasTable(n, r, d) = HasTable(m, r, d) /\ Table(n, r, d) = Table(m, r, d)
  BY <1>1 DEF HasTable, Table
<1>3. \A d \in Index : HasTable(m, r, d) => n[Table(m, r, d)] = m[Table(m, r, d)]
  BY DEF Layout, OwnTables, TableFrame
<1>4. Identity(n, r)
  BY <1>2, <1>3, Frames DEF Layout, Identity
<1>5. OwnTables(n, r, kf)
  BY <1>2 DEF Layout, OwnTables
<1>6. \A d \in Index, k \in Index :
        /\ HasPage(n, r, d, k) = HasPage(m, r, d, k)
        /\ HasPage(m, r, d, k) => PageAt(n, r, d, k) = PageAt(m, r, d, k)
  BY <1>2, <1>3 DEF HasPage, PageAt
<1>7. OwnPages(n, r, pf)
  BY <1>6 DEF Layout, OwnPages
<1> QED
  BY <1>4, <1>5, <1>7 DEF Layout

\* A cleared table in a free frame.
LEMMA LayoutWithTable ==
  ASSUME NEW m \in Memory, NEW r, NEW kf, NEW pf, Layout(m, r, kf, pf),
         NEW d \in Index, ~HasTable(m, r, d),
         NEW t \in kf, kf \subseteq TableFrame,
         NEW n \in Memory, n = WithTable(m, r, d, t)
  PROVE  /\ Layout(n, r, kf \ {t}, pf)
         /\ HasTable(n, r, d) /\ Table(n, r, d) = t
<1>1. r \in Frame /\ t \in Frame /\ t \in Nat /\ r # t /\ t \in TableFrame
  BY Frames DEF Layout, TableFrame
<1>2. /\ n[t] = [k \in Index |-> Entry(0, S_W_NP)]
      /\ n[r] = [m[r] EXCEPT ![d] = Entry(t, S_W_P)]
      /\ \A f \in Frame \ {r, t} : n[f] = m[f]
  BY <1>1 DEF Memory, WithTable
<1>3. m[r] \in [Index -> Nat]
  BY <1>1 DEF Memory
<1>4. n[r][d] = Entry(t, S_W_P) /\ \A c \in Index \ {d} : n[r][c] = m[r][c]
  BY <1>2, <1>3
<1>5. HasTable(n, r, d) /\ Table(n, r, d) = t
  BY <1>1, <1>4, EntryFields DEF HasTable, Table
<1>6. \A c \in Index \ {d} : HasTable(n, r, c) = HasTable(m, r, c) /\ Table(n, r, c) = Table(m, r, c)
  BY <1>4 DEF HasTable, Table
<1>7. \A c \in Index : HasTable(m, r, c) =>
        c # d /\ Table(m, r, c) \in Frame \ {r, t} /\ n[Table(m, r, c)] = m[Table(m, r, c)]
  BY <1>2, Frames DEF Layout, OwnTables, TableFrame
<1>8. Identity(n, r)
  BY <1>6, <1>7, Frames DEF Layout, Identity
<1>9. OwnTables(n, r, kf \ {t})
  <2> SUFFICES ASSUME NEW c \in Index, HasTable(n, r, c)
               PROVE  /\ Table(n, r, c) \in TableFrame \ (kf \ {t})
                      /\ Table(n, r, c) # r
                      /\ \A e \in Index :
                           HasTable(n, r, e) /\ Table(n, r, e) = Table(n, r, c) => e = c
    BY DEF OwnTables
  <2>1. CASE c = d
    BY <2>1, <1>1, <1>5, <1>6, <1>7
  <2>2. CASE c # d
    BY <2>2, <1>5, <1>6, <1>7 DEF Layout, OwnTables
  <2> QED
    BY <2>1, <2>2
<1>10. \A k \in Index : ~HasPage(n, r, d, k)
  <2> SUFFICES ASSUME NEW k \in Index PROVE ~Present(n[t][k])
    BY <1>5 DEF HasPage
  <2>1. n[t][k] = Entry(0, S_W_NP)
    BY <1>2
  <2> QED
    BY <2>1, EntryFields
<1>11. \A c \in Index \ {d}, k \in Index :
         /\ HasPage(n, r, c, k) = HasPage(m, r, c, k)
         /\ HasPage(m, r, c, k) => PageAt(n, r, c, k) = PageAt(m, r, c, k)
  BY <1>6, <1>7 DEF HasPage, PageAt
<1>12. OwnPages(n, r, pf)
  <2> SUFFICES ASSUME NEW c \in Index \ {0}, NEW k \in Index, HasPage(n, r, c, k)
               PROVE  /\ PageAt(n, r, c, k) \in PageFrame \ pf
                      /\ \A e \in Index \ {0}, i \in Index :
                           HasPage(n, r, e, i) /\ PageAt(n, r, e, i) = PageAt(n, r, c, k) =>
                             e = c /\ i = k
    BY DEF OwnPages
  <2>1. c # d /\ HasPage(m, r, c, k) /\ PageAt(n, r, c, k) = PageAt(m, r, c, k)
    BY <1>10, <1>11
  <2>2. /\ PageAt(m, r, c, k) \in PageFrame \ pf
        /\ \A e \in Index \ {0}, i \in Index :
             HasPage(m, r, e, i) /\ PageAt(m, r, e, i) = PageAt(m, r, c, k) =>
               e = c /\ i = k
    BY <2>1 DEF Layout, OwnPages
  <2>3. ASSUME NEW e \in Index \ {0}, NEW i \in Index,
               HasPage(n, r, e, i), PageAt(n, r, e, i) = PageAt(n, r, c, k)
        PROVE  e = c /\ i = k
    <3>1. e # d /\ HasPage(m, r, e, i) /\ PageAt(n, r, e, i) = PageAt(m, r, e, i)
      BY <2>3, <1>10, <1>11
    <3> QED
      BY <3>1, <2>1, <2>2, <2>3
  <2> QED
    BY <2>1, <2>2, <2>3
<1> QED
  BY <1>1, <1>5, <1>8, <1>9, <1>12 DEF Layout

\* A page in a free frame.
LEMMA LayoutWithPage ==
  ASSUME NEW m \in Memory, NEW r, NEW kf, NEW pf, Layout(m, r, kf, pf),
         NEW d \in Index \ {0}, NEW k \in Index, HasTable(m, r, d),
         NEW f \in pf, pf \subseteq PageFrame,
         NEW n \in Memory, n = WithPage(m, r, d, k, f)
  PROVE  Layout(n, r, kf, pf \ {f})
<1> DEFINE t == Table(m, r, d)
<1>1. /\ r \in Frame /\ t \in Frame /\ r # t /\ f \in Nat
      /\ f \in PageFrame
  BY Frames DEF Layout, OwnTables, TableFrame, PageFrame
<1> HIDE DEF t
<1>2. /\ n[t] = [m[t] EXCEPT ![k] = Entry(f, S_W_P)]
      /\ \A g \in Frame \ {t} : n[g] = m[g]
      /\ m[t] \in [Index -> Nat]
  BY <1>1 DEF Memory, WithPage, t
<1>3. n[t][k] = Entry(f, S_W_P) /\ \A j \in Index \ {k} : n[t][j] = m[t][j]
  BY <1>2
<1>4. \A c \in Index : HasTable(n, r, c) = HasTable(m, r, c) /\ Table(n, r, c) = Table(m, r, c)
  BY <1>1, <1>2 DEF HasTable, Table
<1>5. \A c \in Index \ {d} : HasTable(m, r, c) =>
        Table(m, r, c) \in Frame \ {t} /\ n[Table(m, r, c)] = m[Table(m, r, c)]
  BY <1>2, Frames DEF Layout, OwnTables, TableFrame, t
<1>6. Identity(n, r)
  BY <1>4, <1>5, Frames DEF Layout, Identity
<1>7. OwnTables(n, r, kf)
  BY <1>4 DEF Layout, OwnTables
<1>8. HasPage(n, r, d, k) /\ PageAt(n, r, d, k) = f
  BY <1>1, <1>3, <1>4, EntryFields DEF HasPage, PageAt, t
<1>9. \A c \in Index, j \in Index : c # d \/ j # k =>
        /\ HasPage(n, r, c, j) = HasPage(m, r, c, j)
        /\ HasPage(m, r, c, j) => PageAt(n, r, c, j) = PageAt(m, r, c, j)
  BY <1>3, <1>4, <1>5 DEF HasPage, PageAt, t
<1>10. OwnPages(n, r, pf \ {f})
  <2> SUFFICES ASSUME NEW c \in Index \ {0}, NEW j \in Index, HasPage(n, r, c, j)
               PROVE  /\ PageAt(n, r, c, j) \in PageFrame \ (pf \ {f})
                      /\ \A e \in Index \ {0}, i \in Index :
                           HasPage(n, r, e, i) /\ PageAt(n, r, e, i) = PageAt(n, r, c, j) =>
                             e = c /\ i = j
    BY DEF OwnPages
  <2>1. ASSUME NEW e \in Index \ {0}, NEW i \in Index, HasPage(n, r, e, i), e # d \/ i # k
        PROVE  /\ HasPage(m, r, e, i) /\ PageAt(n, r, e, i) = PageAt(m, r, e, i)
               /\ PageAt(n, r, e, i) \in PageFrame \ pf
               /\ PageAt(n, r, e, i) # f
    <3>1. HasPage(m, r, e, i) /\ PageAt(n, r, e, i) = PageAt(m, r, e, i)
      BY <2>1, <1>9
    <3>2. PageAt(m, r, e, i) \in PageFrame \ pf
      BY <3>1 DEF Layout, OwnPages
    <3> QED
      BY <3>1, <3>2
  <2>2. ASSUME NEW e \in Index \ {0}, NEW i \in Index,
               HasPage(n, r, e, i), PageAt(n, r, e, i) = PageAt(n, r, c, j)
        PROVE  e = c /\ i = j
    <3>1. CASE c = d /\ j = k
      BY <3>1, <2>1, <2>2, <1>8
    <3>2. CASE (c # d \/ j # k) /\ e = d /\ i = k
      BY <3>2, <2>1, <2>2, <1>8
    <3>3. CASE (c # d \/ j # k) /\ (e # d \/ i # k)
      <4>1. /\ HasPage(m, r, c, j) /\ PageAt(n, r, c, j) = PageAt(m, r, c, j)
            /\ HasPage(m, r, e, i) /\ PageAt(n, r, e, i) = PageAt(m, r, e, i)
        BY <3>3, <2>1, <2>2
      <4> QED
        BY <4>1, <2>2 DEF Layout, OwnPages
    <3> QED
      BY <3>1, <3>2, <3>3
  <2>3. PageAt(n, r, c, j) \in PageFrame \ (pf \ {f})
    <3>1. CASE c = d /\ j = k
      BY <3>1, <1>1, <1>8
    <3>2. CASE c # d \/ j # k
      BY <3>2, <2>1
    <3> QED
      BY <3>1, <3>2
  <2> QED
    BY <2>2, <2>3
<1> QED
  BY <1>6, <1>7, <1>10 DEF Layout

\* The entry of a mapped page stays while another one is written.
LEMMA OtherPages ==
  ASSUME NEW m \in Memory, NEW r, NEW kf, NEW pf, Layout(m, r, kf, pf),
         NEW d \in Index, NEW k \in Index, HasTable(m, r, d), NEW f,
         NEW c \in Index, NEW j \in Index, HasPage(m, r, c, j), c # d \/ j # k,
         NEW n, n = WithPage(m, r, d, k, f)
  PROVE  HasPage(n, r, c, j) /\ PageAt(n, r, c, j) = PageAt(m, r, c, j)
<1> DEFINE t == Table(m, r, d)
<1>1. r \in Frame /\ t \in Frame /\ r # t
  BY Frames DEF Layout, OwnTables, TableFrame
<1>2. HasTable(m, r, c) /\ Table(m, r, c) \in Frame
  BY Frames DEF HasPage, Layout, OwnTables, TableFrame
<1>3. c # d => Table(m, r, c) # t
  BY <1>2 DEF Layout, OwnTables
<1> HIDE DEF t
<1>4. n[r] = m[r] /\ n[Table(m, r, c)][j] = m[Table(m, r, c)][j]
  BY <1>1, <1>2, <1>3 DEF Memory, WithPage, t
<1> QED
  BY <1>4 DEF HasPage, PageAt, HasTable, Table

------------------------------------------------------------------------------
(* The page-fault handler.                                                  *)

LEMMA FaultOK ==
  ASSUME TypeOK, PoolsLeft, Layout(mem, cr3, kernel_free, process_free),
         NEW i \in Access, handle_fault(AddressPage(i))
  PROVE  /\ mem' \in Memory
         /\ kernel_free' \subseteq kernel_free /\ process_free' \subseteq process_free
         /\ Layout(mem', cr3, kernel_free', process_free')
         /\ \A f \in ProcessFrame : mem'[f] = mem[f]
         /\ \A c \in Index, j \in Index : HasPage(mem, cr3, c, j) /\ <<c, j>> # AddressPage(i) =>
              HasPage(mem', cr3, c, j) /\ PageAt(mem', cr3, c, j) = PageAt(mem, cr3, c, j)
<1> DEFINE pg == AddressPage(i)
           d  == pg[1]
           k  == pg[2]
           t  == TableFor(pg)
           f  == Min(process_free)
           m  == Cleared(pg)
<1>1. pg = <<d, k>> /\ d \in Index /\ d # 0 /\ k \in Index
  BY Addresses DEF Page
<1>2. mem \in Memory /\ cr3 \in KernelFrame /\ cr3 \in Frame
  BY Frames DEF TypeOK, Memory, Layout, TableFrame
<1>3. /\ process_free # {}
      /\ NoTable(pg) => kernel_free # {}
      /\ mem' = [m EXCEPT ![t][k] = Entry(f, S_W_P)]
      /\ process_free' = process_free \ {f}
      /\ kernel_free' = IF NoTable(pg) THEN kernel_free \ {t} ELSE kernel_free
  BY DEF handle_fault, Filled
<1>4. f \in process_free /\ process_free \subseteq PageFrame /\ f \in Nat
  BY <1>3, MinIsLeast, Frames DEF PoolsLeft, PageFrame
<1>5. Entry(f, S_W_P) \in Nat
  BY <1>4, EntryFields
<1>6. NoTable(pg) <=> ~HasTable(mem, cr3, d)
  BY DEF NoTable, HasTable
<1>7. /\ m \in Memory /\ HasTable(m, cr3, d) /\ Table(m, cr3, d) = t
      /\ Layout(m, cr3, kernel_free', process_free)
      /\ t \in KernelFrame
      /\ \A g \in ProcessFrame : m[g] = mem[g]
      /\ \A c \in Index, j \in Index : HasPage(mem, cr3, c, j) =>
           HasPage(m, cr3, c, j) /\ PageAt(m, cr3, c, j) = PageAt(mem, cr3, c, j)
  <2>1. CASE HasTable(mem, cr3, d)
    <3>1. m = mem /\ t = Table(mem, cr3, d) /\ kernel_free' = kernel_free
      BY <2>1, <1>3, <1>6 DEF Cleared, Linked, TableFor, Table
    <3>2. t \in KernelFrame
      BY <2>1, <3>1, <1>1 DEF Layout, OwnTables, TableFrame
    <3> HIDE DEF m, t, f, d, k, pg
    <3> QED
      BY <2>1, <3>1, <3>2, <1>2
  <2>2. CASE ~HasTable(mem, cr3, d)
    <3>1. t = Min(kernel_free) /\ kernel_free # {} /\ kernel_free' = kernel_free \ {t}
      BY <2>2, <1>3, <1>6 DEF TableFor
    <3>2. t \in kernel_free /\ kernel_free \subseteq TableFrame /\ t \in KernelFrame /\ t \in Nat
      BY <3>1, MinIsLeast, Frames DEF PoolsLeft, TableFrame
    <3>3. m = WithTable(mem, cr3, d, t)
      BY <2>2, <1>6 DEF Cleared, Linked, WithTable
    <3>4. Entry(t, S_W_P) \in Nat /\ Entry(0, S_W_NP) \in Nat
      BY <3>2, EntryFields
    <3> HIDE DEF m, t, f, d, k, pg
    <3>5. [mem EXCEPT ![cr3][d] = Entry(t, S_W_P)] \in Memory
      BY <1>1, <1>2, <3>4 DEF Memory
    <3>6. m \in Memory
      BY <3>3, <3>4, <3>5 DEF Memory, WithTable
    <3>7. /\ Layout(m, cr3, kernel_free \ {t}, process_free)
          /\ HasTable(m, cr3, d) /\ Table(m, cr3, d) = t
      <4>1. d \in Index /\ mem \in Memory /\ t \in kernel_free /\ kernel_free \subseteq TableFrame
        BY <1>1, <1>2, <3>2
      <4> HIDE <1>1, <1>2, <1>3, <1>4, <1>5, <3>1, <3>2, <3>4, <3>5
      <4> QED
        BY <4>1, <2>2, <3>3, <3>6, LayoutWithTable
    <3>8. cr3 # t /\ t \in Frame
      BY <3>2, Frames DEF Layout
    <3>9. \A g \in Frame \ {cr3, t} : m[g] = mem[g]
      BY <1>2, <3>3, <3>8 DEF Memory, WithTable
    <3>10. \A c \in Index \ {d} : m[cr3][c] = mem[cr3][c]
      BY <1>2, <3>3, <3>8 DEF Memory, WithTable
    <3>11. ASSUME NEW c \in Index, NEW j \in Index, HasPage(mem, cr3, c, j)
           PROVE  HasPage(m, cr3, c, j) /\ PageAt(m, cr3, c, j) = PageAt(mem, cr3, c, j)
      <4>1. c # d /\ HasTable(mem, cr3, c)
        BY <2>2, <3>11 DEF HasPage
      <4>2. Table(mem, cr3, c) \in Frame \ {cr3, t}
        BY <4>1, <3>2, Frames DEF Layout, OwnTables, TableFrame
      <4>3. m[cr3][c] = mem[cr3][c] /\ m[Table(mem, cr3, c)] = mem[Table(mem, cr3, c)]
        BY <4>1, <4>2, <3>9, <3>10
      <4> QED
        BY <4>3, <3>11 DEF HasPage, PageAt, HasTable, Table
    <3>12. \A g \in ProcessFrame : m[g] = mem[g]
      BY <3>2, <3>9, Frames DEF Layout, TableFrame
    <3> QED
      BY <3>1, <3>2, <3>6, <3>7, <3>11, <3>12
  <2> QED
    BY <2>1, <2>2
<1> HIDE DEF m, t, f, d, k, pg
<1>8. mem' = WithPage(m, cr3, d, k, f) /\ mem' \in Memory
  BY <1>1, <1>3, <1>5, <1>7 DEF Memory, WithPage
<1>9. Layout(mem', cr3, kernel_free', process_free')
  BY <1>1, <1>3, <1>4, <1>7, <1>8, LayoutWithPage
<1>10. \A g \in ProcessFrame : mem'[g] = mem[g]
  BY <1>3, <1>7, Frames DEF Memory
<1>11. ASSUME NEW c \in Index, NEW j \in Index, HasPage(mem, cr3, c, j), <<c, j>> # pg
       PROVE  HasPage(mem', cr3, c, j) /\ PageAt(mem', cr3, c, j) = PageAt(mem, cr3, c, j)
  <2>1. HasPage(m, cr3, c, j) /\ PageAt(m, cr3, c, j) = PageAt(mem, cr3, c, j)
    BY <1>7, <1>11
  <2>2. c # d \/ j # k
    BY <1>1, <1>11
  <2> QED
    BY <2>1, <2>2, <1>1, <1>7, <1>8, OtherPages
<1>12. kernel_free' \subseteq kernel_free /\ process_free' \subseteq process_free
  BY <1>3
<1> QED
  BY <1>8, <1>9, <1>10, <1>11, <1>12 DEF pg

------------------------------------------------------------------------------
(* The constructor: a new directory with one table, of the first pages.     *)

LEMMA ConstructOK ==
  ASSUME TypeOK, PoolsLeft, ConstructPageTable
  PROVE  /\ mem' \in Memory /\ page_directory' \in Frame
         /\ kernel_free' \subseteq kernel_free
         /\ Layout(mem', page_directory', kernel_free', process_free')
<1> DEFINE r == Min(kernel_free)
           t == Min(kernel_free \ {r})
           n == mem'
<1>1. /\ kernel_free = TableFrame /\ mem \in Memory
      /\ kernel_free' = kernel_free \ {r, t}
      /\ page_directory' = r /\ process_free' = process_free
      /\ n = [mem EXCEPT
           ![t] = [k \in Index |-> Entry(k, S_W_P)],
           ![r] = [k \in Index |-> IF k = 0 THEN Entry(t, S_W_P) ELSE Entry(0, S_W_NP)]]
  BY DEF ConstructPageTable, PoolsLeft, TypeOK, Memory
<1>2. r \in TableFrame /\ t \in TableFrame \ {r}
  <2>1. /\ KERNEL_POOL_START_FRAME + 2 \in TableFrame /\ KERNEL_POOL_START_FRAME + 3 \in TableFrame
        /\ KERNEL_POOL_START_FRAME + 2 # KERNEL_POOL_START_FRAME + 3
        /\ TableFrame \in SUBSET Nat
    BY PagingAssumption DEF TableFrame, KernelFrame
  <2>2. r \in TableFrame
    BY <1>1, <2>1, MinIsLeast
  <2> HIDE DEF r
  <2>3. TableFrame \ {r} # {} /\ TableFrame \ {r} \in SUBSET Nat
    <3>1. CASE r = KERNEL_POOL_START_FRAME + 2
      BY <2>1, <3>1
    <3>2. CASE r # KERNEL_POOL_START_FRAME + 2
      BY <2>1, <3>2
    <3> QED
      BY <3>1, <3>2
  <2> QED
    BY <1>1, <2>2, <2>3, MinIsLeast
<1> HIDE DEF r, t, n
<1>3. r \in Frame /\ t \in Frame /\ r # t /\ t \in Nat
  BY <1>2, Frames DEF TableFrame
<1>4. /\ \A k \in Index : Entry(k, S_W_P) \in Nat
      /\ Entry(t, S_W_P) \in Nat /\ Entry(0, S_W_NP) \in Nat
  BY <1>3, Frames, EntryFields
<1>5. n \in Memory
  BY <1>1, <1>4 DEF Memory
<1>6. /\ \A k \in Index : n[t][k] = Entry(k, S_W_P)
      /\ n[r][0] = Entry(t, S_W_P)
      /\ \A k \in Index \ {0} : n[r][k] = Entry(0, S_W_NP)
  BY <1>1, <1>3, Frames DEF Memory
<1>7. HasTable(n, r, 0) /\ Table(n, r, 0) = t
  BY <1>3, <1>6, EntryFields DEF HasTable, Table
<1>8. \A d \in Index \ {0} : ~HasTable(n, r, d)
  BY <1>6, EntryFields DEF HasTable
<1>9. Identity(n, r)
  BY <1>6, <1>7 DEF Identity
<1>10. OwnTables(n, r, kernel_free')
  BY <1>1, <1>2, <1>7, <1>8 DEF OwnTables
<1>11. OwnPages(n, r, process_free')
  BY <1>8 DEF OwnPages, HasPage
<1>12. r \in TableFrame \ kernel_free' /\ kernel_free' \subseteq kernel_free
  BY <1>1, <1>2
<1>13. Layout(n, r, kernel_free', process_free')
  BY <1>9, <1>10, <1>11, <1>12 DEF Layout
<1> QED
  BY <1>1, <1>3, <1>5, <1>12, <1>13 DEF n

------------------------------------------------------------------------------
(* What the processor makes of the layout.                                  *)

LEMMA WalkOfLayout ==
  ASSUME NEW m, NEW kf, NEW pf, Layout(m, cr3, kf, pf), NEW d \in Index, NEW k \in Index
  PROVE  /\ Walks(m, <<d, k>>) <=> HasPage(m, cr3, d, k)
         /\ HasPage(m, cr3, d, k) => Walk(m, <<d, k>>) = PageAt(m, cr3, d, k)
         /\ ~HasPage(m, cr3, d, k) => Walk(m, <<d, k>>) = None
<1>1. HasTable(m, cr3, d) => Table(m, cr3, d) \in Frame
  BY Frames DEF Layout, OwnTables, TableFrame
<1>2. Walks(m, <<d, k>>) <=> HasPage(m, cr3, d, k)
  BY <1>1 DEF Walks, HasPage, HasTable, Table
<1> QED
  BY <1>2 DEF Walk, PageAt, Table

\* Pages outside the first 4 MB are in the process pool.
LEMMA WalkOfUserPage ==
  ASSUME TypeOK, Layout(mem, cr3, kernel_free, process_free), process_free \subseteq PageFrame,
         NEW d \in Index \ {0}, NEW k \in Index, Walk(mem, <<d, k>>) # None
  PROVE  /\ HasPage(mem, cr3, d, k) /\ Walk(mem, <<d, k>>) = PageAt(mem, cr3, d, k)
         /\ Walk(mem, <<d, k>>) \in PageFrame \ process_free
         /\ Walk(mem, <<d, k>>) \in ProcessFrame
<1>1. HasPage(mem, cr3, d, k) /\ Walk(mem, <<d, k>>) = PageAt(mem, cr3, d, k)
  BY WalkOfLayout
<1>2. PageAt(mem, cr3, d, k) \in PageFrame \ process_free
  BY <1>1 DEF Layout, OwnPages
<1> QED
  BY <1>1, <1>2 DEF PageFrame

\* The invariant's layout is PrivateFrames and more.
LEMMA LayoutIsPrivate == IInv => PrivateFrames
<1> SUFFICES ASSUME IInv, paging
             PROVE  PrivateFrames
  BY DEF PrivateFrames
<1>1. TypeOK /\ process_free \subseteq PageFrame /\ Layout(mem, cr3, kernel_free, process_free)
  BY DEF IInv, PoolsLeft, Built, Processor
<1>2. ASSUME NEW pg \in SharedPage PROVE Mapped(pg) /\ Walk(mem, pg) = pg[2]
  <2>1. pg = <<0, pg[2]>> /\ pg[2] \in Index /\ pg[2] \in Nat
    <3>1. pg \in Index \X Index /\ pg[1] = 0
      BY DEF SharedPage, Page
    <3> QED
      BY <3>1 DEF Index
  <2>2. HasPage(mem, cr3, 0, pg[2]) /\ PageAt(mem, cr3, 0, pg[2]) = pg[2]
    BY <1>1, <2>1, EntryFields DEF Layout, Identity, HasPage, PageAt
  <2> QED
    BY <1>1, <2>1, <2>2, Frames, WalkOfLayout DEF Mapped
<1>3. ASSUME NEW d \in Tables
      PROVE  /\ Target(mem[cr3][d]) \in KernelFrame \ kernel_free
             /\ Target(mem[cr3][d]) \notin
                  {KERNEL_POOL_START_FRAME, KERNEL_POOL_START_FRAME + 1, cr3}
             /\ \A c \in Tables : Target(mem[cr3][c]) = Target(mem[cr3][d]) => c = d
  <2>1. \A c \in Tables : c \in Index /\ HasTable(mem, cr3, c)
    BY DEF Tables, HasTable
  <2>2. Table(mem, cr3, d) \in TableFrame \ kernel_free /\ Table(mem, cr3, d) # cr3
    BY <1>1, <2>1 DEF Layout, OwnTables
  <2>3. \A c \in Tables : Table(mem, cr3, c) = Table(mem, cr3, d) => c = d
    BY <1>1, <2>1 DEF Layout, OwnTables
  <2> QED
    BY <2>2, <2>3 DEF Table, TableFrame
<1>4. ASSUME NEW pg \in UserPage
      PROVE  /\ Walk(mem, pg) \in (ProcessFrame \ HoleFrame) \ process_free
             /\ \A qg \in UserPage : Walk(mem, qg) = Walk(mem, pg) => qg = pg
  <2>1. \A qg \in UserPage :
          /\ qg = <<qg[1], qg[2]>> /\ qg[1] \in Index \ {0} /\ qg[2] \in Index
          /\ HasPage(mem, cr3, qg[1], qg[2])
          /\ Walk(mem, qg) = PageAt(mem, cr3, qg[1], qg[2])
    <3> SUFFICES ASSUME NEW qg \in UserPage
                 PROVE  /\ qg = <<qg[1], qg[2]>> /\ qg[1] \in Index \ {0} /\ qg[2] \in Index
                        /\ HasPage(mem, cr3, qg[1], qg[2])
                        /\ Walk(mem, qg) = PageAt(mem, cr3, qg[1], qg[2])
      OBVIOUS
    <3>1. qg = <<qg[1], qg[2]>> /\ qg[1] \in Index \ {0} /\ qg[2] \in Index /\ Mapped(qg)
      BY DEF UserPage, Page
    <3> QED
      BY <1>1, <3>1, WalkOfLayout DEF Mapped
  <2>2. PageAt(mem, cr3, pg[1], pg[2]) \in PageFrame \ process_free
    BY <1>1, <2>1 DEF Layout, OwnPages
  <2>3. ASSUME NEW qg \in UserPage, Walk(mem, qg) = Walk(mem, pg) PROVE qg = pg
    <3>1. qg[1] = pg[1] /\ qg[2] = pg[2]
      BY <1>1, <2>1, <2>3 DEF Layout, OwnPages
    <3> QED
      BY <2>1, <3>1
  <2> QED
    BY <2>1, <2>2, <2>3 DEF PageFrame
<1> QED
  BY <1>2, <1>3, <1>4 DEF PrivateFrames

------------------------------------------------------------------------------
(* The invariant.                                                           *)

LEMMA Initially == Init => IInv
<1> SUFFICES ASSUME Init PROVE IInv
  OBVIOUS
<1>1. TypeOK
  BY PagingAssumption, Frames DEF Init, TypeOK, PC
<1> QED
  BY <1>1 DEF Init, IInv, PoolsLeft, Built, Processor

\* While main() accesses the array, paging is on and the layout complete.
LEMMA Accessing ==
  ASSUME IInv, pc \in {"write", "test"}
  PROVE  /\ TypeOK /\ PoolsLeft /\ paging /\ cr3 = page_directory
         /\ Layout(mem, cr3, kernel_free, process_free)
         /\ process_free \subseteq PageFrame
BY DEF IInv, PoolsLeft, Built, Processor

LEMMA WriteKeeps ==
  ASSUME IInv, NEW i \in Access, WriteWord(i)
  PROVE  /\ Walk(mem, AddressPage(i)) \in ProcessFrame
         /\ mem' \in Memory
         /\ \A f \in KernelFrame : mem'[f] = mem[f]
         /\ Layout(mem', cr3, kernel_free, process_free)
<1>1. /\ TypeOK /\ Layout(mem, cr3, kernel_free, process_free)
      /\ process_free \subseteq PageFrame /\ mem \in Memory
  BY Accessing DEF WriteWord, TypeOK, Memory
<1>2. Walk(mem, AddressPage(i)) \in Frame
  BY DEF WriteWord
<1>3. Walk(mem, AddressPage(i)) # None
  BY <1>2, Frames DEF None
<1>4. AddressPage(i) = <<AddressPage(i)[1], AddressPage(i)[2]>>
  BY Addresses DEF Page
<1>5. Walk(mem, AddressPage(i)) \in ProcessFrame
  BY <1>1, <1>3, <1>4, Addresses, WalkOfUserPage
<1>6. i \in Nat /\ mem' = [mem EXCEPT ![Walk(mem, AddressPage(i))][AddressOffset(i)] = i]
  BY PagingAssumption DEF WriteWord
<1>7. mem' \in Memory
  BY <1>1, <1>6 DEF Memory
<1>8. \A f \in KernelFrame : mem'[f] = mem[f]
  BY <1>1, <1>5, <1>6, Frames DEF Memory
<1> QED
  BY <1>1, <1>5, <1>7, <1>8, LayoutOfTables

LEMMA Step == IInv /\ [Next]_vars => IInv'
<1> SUFFICES ASSUME IInv, [Next]_vars PROVE IInv'
  OBVIOUS
<1> USE DEF poolVars, cpuVars
<1>1. TypeOK /\ PoolsLeft /\ Built /\ Processor
  BY DEF IInv
<1>2. CASE BootPools
  <2>1. kernel_free' = TableFrame /\ process_free' = PageFrame /\ pc' = "page_table"
    BY <1>2 DEF BootPools, TableFrame, PageFrame
  <2>2. TypeOK'
    BY <1>1, <1>2, <2>1 DEF BootPools, TypeOK, PC, TableFrame, PageFrame
  <2> QED
    BY <1>1, <1>2, <2>1, <2>2 DEF BootPools, IInv, PoolsLeft, Built, Processor
<1>3. CASE ConstructPageTable
  <2>1. /\ mem' \in Memory /\ page_directory' \in Frame
        /\ kernel_free' \subseteq kernel_free
        /\ Layout(mem', page_directory', kernel_free', process_free')
    BY <1>1, <1>3, ConstructOK
  <2>2. /\ pc = "page_table" /\ pc' = "load"
        /\ UNCHANGED <<process_free, cr3, paging, accessed>>
    BY <1>3 DEF ConstructPageTable
  <2>3. TypeOK'
    BY <1>1, <2>1, <2>2 DEF TypeOK, Memory, PC
  <2> QED
    BY <1>1, <2>1, <2>2, <2>3 DEF IInv, PoolsLeft, Built, Processor
<1>4. CASE Load
  <2>1. TypeOK'
    BY <1>1, <1>4 DEF Load, TypeOK, PC
  <2> QED
    BY <1>1, <1>4, <2>1 DEF Load, IInv, PoolsLeft, Built, Processor
<1>5. CASE EnablePaging
  <2>1. TypeOK'
    BY <1>1, <1>5 DEF EnablePaging, TypeOK, PC
  <2> QED
    BY <1>1, <1>5, <2>1 DEF EnablePaging, IInv, PoolsLeft, Built, Processor
<1>6. CASE StartTest \/ TestPassed
  <2>1. TypeOK'
    BY <1>1, <1>6 DEF StartTest, TestPassed, TypeOK, PC
  <2> QED
    BY <1>1, <1>6, <2>1 DEF StartTest, TestPassed, IInv, PoolsLeft, Built, Processor
<1>7. ASSUME NEW i \in Access, PageFault(i) PROVE IInv'
  <2>1. /\ pc \in {"write", "test"} /\ handle_fault(AddressPage(i))
        /\ UNCHANGED <<cpuVars, pc, accessed>>
    BY <1>7 DEF PageFault
  <2>2. paging /\ cr3 = page_directory /\ Layout(mem, cr3, kernel_free, process_free)
    BY <2>1, Accessing
  <2>3. /\ mem' \in Memory
        /\ kernel_free' \subseteq kernel_free /\ process_free' \subseteq process_free
        /\ Layout(mem', cr3, kernel_free', process_free')
    BY <1>1, <2>1, <2>2, FaultOK
  <2>4. TypeOK'
    BY <1>1, <2>1, <2>3 DEF TypeOK, Memory
  <2> QED
    BY <1>1, <2>1, <2>2, <2>3, <2>4 DEF IInv, PoolsLeft, Built, Processor
<1>8. ASSUME NEW i \in Access, WriteWord(i) PROVE IInv'
  <2>1. /\ pc = "write" /\ accessed' = accessed \cup {i}
        /\ UNCHANGED <<poolVars, cpuVars, pc>>
    BY <1>8 DEF WriteWord
  <2>2. mem' \in Memory /\ Layout(mem', cr3, kernel_free, process_free)
    BY <1>8, WriteKeeps
  <2>3. TypeOK'
    BY <1>1, <2>1, <2>2 DEF TypeOK, Memory
  <2>4. cr3 = page_directory
    BY <2>1, Accessing
  <2> QED
    BY <1>1, <2>1, <2>2, <2>3, <2>4 DEF IInv, PoolsLeft, Built, Processor
<1>9. ASSUME NEW i \in Access, TestWord(i) PROVE IInv'
  <2>1. /\ pc = "test" /\ pc' \in {"test", "failed"} /\ accessed' = accessed \cup {i}
        /\ UNCHANGED <<poolVars, mem, cpuVars>>
    BY <1>9 DEF TestWord
  <2>2. TypeOK'
    BY <1>1, <2>1 DEF TypeOK, PC
  <2> QED
    BY <1>1, <2>1, <2>2 DEF IInv, PoolsLeft, Built, Processor
<1>10. CASE UNCHANGED vars
  BY <1>1, <1>10 DEF vars, IInv, TypeOK, PoolsLeft, Built, Processor
<1> QED
  BY <1>2, <1>3, <1>4, <1>5, <1>6, <1>7, <1>8, <1>9, <1>10 DEF Next

\* The inductive invariant of demand paging, for any sizes and any memory.
THEOREM Inductive == Spec => []IInv
BY Initially, Step, PTL DEF Spec

\* Type correctness of pools, memory and processor.
THEOREM TypeCorrect == Spec => []TypeOK
<1>1. IInv => TypeOK
  BY DEF IInv
<1> QED
  BY <1>1, Inductive, PTL

\* The first 4 MB map onto themselves, tables and pages have frames of their
\* own, and none of these is free.
THEOREM FramesPrivate == Spec => []PrivateFrames
BY LayoutIsPrivate, Inductive, PTL

------------------------------------------------------------------------------
(* The refinement.                                                          *)

array == [i \in Access |-> CellAt(i)]

\* A word that is there is a word of a page that is mapped.
LEMMA CellOfPage ==
  ASSUME IInv, NEW a \in Access, CellAt(a) # None
  PROVE  LET d == AddressPage(a)[1]
             k == AddressPage(a)[2]
         IN  /\ paging /\ cr3 = page_directory
             /\ AddressPage(a) = <<d, k>> /\ d \in Index \ {0} /\ k \in Index
             /\ HasPage(mem, cr3, d, k)
             /\ Walk(mem, AddressPage(a)) = PageAt(mem, cr3, d, k)
             /\ Walk(mem, AddressPage(a)) \in ProcessFrame
             /\ CellAt(a) = mem[Walk(mem, AddressPage(a))][AddressOffset(a)]
<1>1. /\ paging /\ Walk(mem, AddressPage(a)) \in Frame
      /\ CellAt(a) = mem[Walk(mem, AddressPage(a))][AddressOffset(a)]
  BY DEF CellAt
<1>2. /\ TypeOK /\ Layout(mem, cr3, kernel_free, process_free)
      /\ process_free \subseteq PageFrame /\ cr3 = page_directory
  BY <1>1 DEF IInv, PoolsLeft, Built, Processor
<1>3. /\ AddressPage(a) = <<AddressPage(a)[1], AddressPage(a)[2]>>
      /\ AddressPage(a)[1] \in Index \ {0} /\ AddressPage(a)[2] \in Index
  BY Addresses DEF Page
<1>4. Walk(mem, AddressPage(a)) # None
  BY <1>1, Frames DEF None
<1> QED
  BY <1>1, <1>2, <1>3, <1>4, WalkOfUserPage

\* What leaves paging off, or all of memory alone, changes no cell.
LEMMA ArrayStutters ==
  ASSUME (~paging /\ ~paging') \/ UNCHANGED <<mem, cr3, paging>>
  PROVE  UNCHANGED array
BY DEF array, CellAt, Walk, Walks

LEMMA FaultAppears ==
  ASSUME IInv, NEW i \in Access, PageFault(i)
  PROVE  \A a \in Access : CellAt(a) # None => CellAt(a)' = CellAt(a)
<1> SUFFICES ASSUME NEW a \in Access, CellAt(a) # None
             PROVE  CellAt(a)' = CellAt(a)
  OBVIOUS
<1> DEFINE d == AddressPage(a)[1]
           k == AddressPage(a)[2]
<1>1. /\ paging /\ AddressPage(a) = <<d, k>> /\ d \in Index \ {0} /\ k \in Index
      /\ HasPage(mem, cr3, d, k)
      /\ Walk(mem, AddressPage(a)) = PageAt(mem, cr3, d, k)
      /\ Walk(mem, AddressPage(a)) \in ProcessFrame
      /\ CellAt(a) = mem[Walk(mem, AddressPage(a))][AddressOffset(a)]
  BY CellOfPage
<1> HIDE DEF d, k
<1>2. /\ pc \in {"write", "test"} /\ ~Mapped(AddressPage(i)) /\ handle_fault(AddressPage(i))
      /\ UNCHANGED cpuVars
  BY DEF PageFault
<1>3. TypeOK /\ PoolsLeft /\ Layout(mem, cr3, kernel_free, process_free)
  BY <1>2, Accessing
<1>4. <<d, k>> # AddressPage(i)
  BY <1>1, <1>2, <1>3, WalkOfLayout DEF Mapped
<1>5. /\ HasPage(mem', cr3, d, k) /\ PageAt(mem', cr3, d, k) = PageAt(mem, cr3, d, k)
      /\ \A f \in ProcessFrame : mem'[f] = mem[f]
  BY <1>1, <1>2, <1>3, <1>4, FaultOK
<1>6. paging' /\ cr3' = cr3
  BY <1>1, <1>2 DEF cpuVars
<1>7. Layout(mem', cr3, kernel_free', process_free')
  BY <1>2, <1>3, FaultOK
<1>8. Walk(mem', AddressPage(a)) = PageAt(mem', cr3, d, k)
  BY <1>1, <1>5, <1>7, WalkOfLayout
<1>9. Walk(mem, AddressPage(a))' = Walk(mem', AddressPage(a))
  BY <1>6 DEF Walk, Walks
<1>10. Walk(mem, AddressPage(a))' = Walk(mem, AddressPage(a))
  BY <1>1, <1>5, <1>8, <1>9
<1> QED
  BY <1>1, <1>5, <1>6, <1>10, Frames DEF CellAt

LEMMA WriteWrites ==
  ASSUME IInv, NEW i \in Access, WriteWord(i)
  PROVE  /\ CellAt(i) # None /\ CellAt(i)' \in Nat
         /\ \A a \in Access \ {i} : CellAt(a)' = CellAt(a)
<1> DEFINE F(a) == Walk(mem, AddressPage(a))
<1>1. /\ pc = "write" /\ UNCHANGED <<poolVars, cpuVars>>
      /\ F(i) \in Frame /\ i \in Nat
      /\ mem' = [mem EXCEPT ![F(i)][AddressOffset(i)] = i]
  BY PagingAssumption DEF WriteWord
<1>2. /\ paging /\ Layout(mem, cr3, kernel_free, process_free)
      /\ mem \in Memory
  BY <1>1, Accessing DEF TypeOK, Memory
<1>3. paging' /\ cr3' = cr3
  BY <1>1, <1>2 DEF cpuVars
<1>4. /\ F(i) \in ProcessFrame
      /\ Layout(mem', cr3, kernel_free, process_free)
      /\ \A f \in KernelFrame : mem'[f] = mem[f]
  BY WriteKeeps
<1>5. CellAt(i) = mem[F(i)][AddressOffset(i)] /\ CellAt(i) \in Nat
  BY <1>1, <1>2, Addresses DEF CellAt, Memory
<1>6. ASSUME NEW a \in Access PROVE F(a)' = F(a)
  <2>1. mem'[cr3] = mem[cr3]
    BY <1>2, <1>4 DEF Layout, TableFrame
  <2>2. AddressPage(a)[1] \in Index
    BY Addresses
  <2>3. Present(mem[cr3][AddressPage(a)[1]]) =>
          mem'[Target(mem[cr3][AddressPage(a)[1]])] = mem[Target(mem[cr3][AddressPage(a)[1]])]
    BY <1>2, <1>4, <2>2 DEF Layout, OwnTables, HasTable, Table, TableFrame
  <2> QED
    BY <1>3, <2>1, <2>3 DEF Walk, Walks
<1>7. CellAt(i)' \in Nat
  <2>1. mem'[F(i)][AddressOffset(i)] = i
    BY <1>1, <1>2, Addresses DEF Memory
  <2> QED
    BY <1>1, <1>3, <1>6, <2>1 DEF CellAt
<1>8. ASSUME NEW a \in Access \ {i} PROVE CellAt(a)' = CellAt(a)
  <2>1. CASE CellAt(a) = None
    <3>1. F(a) \notin Frame
      BY <1>2, <2>1, Addresses DEF CellAt, Memory, None
    <3> QED
      BY <2>1, <3>1, <1>6 DEF CellAt
  <2>2. CASE CellAt(a) # None
    <3>1. /\ F(a) \in ProcessFrame
          /\ CellAt(a) = mem[F(a)][AddressOffset(a)]
          /\ F(a) = PageAt(mem, cr3, AddressPage(a)[1], AddressPage(a)[2])
          /\ HasPage(mem, cr3, AddressPage(a)[1], AddressPage(a)[2])
      BY <2>2, CellOfPage
    <3>2. /\ F(i) = PageAt(mem, cr3, AddressPage(i)[1], AddressPage(i)[2])
          /\ HasPage(mem, cr3, AddressPage(i)[1], AddressPage(i)[2])
      BY <1>5, CellOfPage DEF None
    <3>3. F(a) # F(i) \/ AddressOffset(a) # AddressOffset(i)
      <4>1. ASSUME F(a) = F(i)
            PROVE  AddressPage(a)[1] = AddressPage(i)[1] /\ AddressPage(a)[2] = AddressPage(i)[2]
        <5>1. /\ AddressPage(a)[1] \in Index \ {0} /\ AddressPage(a)[2] \in Index
              /\ AddressPage(i)[1] \in Index \ {0} /\ AddressPage(i)[2] \in Index
          BY Addresses
        <5>2. OwnPages(mem, cr3, process_free)
          BY <1>2 DEF Layout
        <5>3. PageAt(mem, cr3, AddressPage(i)[1], AddressPage(i)[2]) =
                PageAt(mem, cr3, AddressPage(a)[1], AddressPage(a)[2])
          BY <3>1, <3>2, <4>1
        <5> HIDE DEF F
        <5> QED
          BY <3>1, <3>2, <5>1, <5>2, <5>3 DEF OwnPages
      <4>2. F(a) = F(i) => AddressPage(a) = AddressPage(i)
        BY <4>1, Addresses DEF Page
      <4> QED
        BY <4>2, AddressesDiffer
    <3>4. mem'[F(a)][AddressOffset(a)] = mem[F(a)][AddressOffset(a)]
      BY <1>1, <1>2, <3>1, <3>3, Frames, Addresses DEF Memory
    <3> QED
      BY <1>3, <1>6, <3>1, <3>4, Frames DEF CellAt
  <2> QED
    BY <2>1, <2>2
<1> QED
  BY <1>5, <1>7, <1>8 DEF None

\* Demand paging implements the flat memory: no fault and no write changes a
\* word that is there, except the one that is written.
THEOREM ImplementsFlat == Spec => ImplementsFlatMemory
<1>1. Init => Array!Init
  BY DEF Init, Array!Init, CellAt
<1>2. IInv /\ [Next]_vars => [Array!Next]_array
  <2> SUFFICES ASSUME IInv, [Next]_vars
               PROVE  Array!Next \/ UNCHANGED array
    OBVIOUS
  <2> USE DEF poolVars, cpuVars
  <2>1. CASE BootPools \/ ConstructPageTable \/ Load
    <3>1. ~paging /\ ~paging'
      BY <2>1 DEF BootPools, ConstructPageTable, Load, IInv, Processor
    <3> QED
      BY <3>1, ArrayStutters
  <2>2. CASE EnablePaging
    <3>1. \A a \in Access : CellAt(a) = None
      BY <2>2 DEF EnablePaging, IInv, Processor, CellAt
    <3> QED
      BY <3>1 DEF Array!Next, Array!Appear
  <2>3. CASE StartTest \/ TestPassed
    BY <2>3, ArrayStutters DEF StartTest, TestPassed
  <2>4. ASSUME NEW i \in Access, PageFault(i) PROVE Array!Next
    <3>1. \A a \in Access : CellAt(a) # None => CellAt(a)' = CellAt(a)
      BY <2>4, FaultAppears
    <3> QED
      BY <3>1 DEF Array!Next, Array!Appear
  <2>5. ASSUME NEW i \in Access, WriteWord(i) PROVE Array!Next
    <3>1. /\ CellAt(i) # None /\ CellAt(i)' \in Nat
          /\ \A a \in Access \ {i} : CellAt(a)' = CellAt(a)
      BY <2>5, WriteWrites
    <3>2. array' = [array EXCEPT ![i] = CellAt(i)']
      BY <3>1 DEF array
    <3>3. Array!Write(i)
      BY <3>1, <3>2 DEF Array!Write, array
    <3> QED
      BY <3>3 DEF Array!Next
  <2>6. ASSUME NEW i \in Access, TestWord(i) PROVE UNCHANGED array
    BY <2>6, ArrayStutters DEF TestWord
  <2>7. CASE UNCHANGED vars
    BY <2>7, ArrayStutters DEF vars
  <2> QED
    BY <2>1, <2>2, <2>3, <2>4, <2>5, <2>6, <2>7 DEF Next
<1> QED
  BY <1>1, <1>2, Inductive, PTL DEF Spec, ImplementsFlatMemory, Array!Spec, array
===============================================================================
