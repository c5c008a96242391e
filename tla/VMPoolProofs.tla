---------------------------- MODULE VMPoolProofs ----------------------------
(***************************************************************************)
(* For any sizes of pages, tables, pools and lists, and any clients: no    *)
(* frame is lost or shared, legitimate addresses are those of live         *)
(* regions, and pages that lie in one region keep their elements.          *)
(***************************************************************************)
EXTENDS VMPool, FiniteSets, FiniteSetTheorems, WellFoundedInduction, TLAPS

LEMMA MinOfNat ==
  ASSUME NEW S \in SUBSET Nat, S # {}
  PROVE  Min(S) \in S /\ \A y \in S : Min(S) <= y
<1> DEFINE Less == {ss \in Nat \X Nat : ss[1] < ss[2]}
<1>1. IsWellFoundedOn(Less, Nat)
  BY NatLessThanWellFounded DEF OpToRel
<1> HIDE DEF Less
<1>2. PICK x \in S : \A y \in S : ~ (<<y, x>> \in Less)
  BY <1>1, WFMin
<1>3. \A y \in S : y < x => <<y, x>> \in Less
  BY DEF Less
<1>4. ASSUME NEW y \in S
      PROVE  x <= y
  <2>1. ~(y < x)
    BY <1>2, <1>3
  <2>2. QED
    BY <2>1
<1>5. QED
  BY <1>4 DEF Min

------------------------------------------------------------------------------
(* Addresses.                                                               *)

LEMMA Addresses ==
  /\ PageSize \in Nat \ {0} /\ MaxEntry \in Nat /\ MaxEntry > 1
  /\ Pool \subseteq Nat \ {0}
  /\ \A q \in Pool : Base[q] \in Nat \ {0} /\ Size[q] \in Nat /\ Size[q] > PageSize
  /\ \A q \in Pool : Span(Base[q], Size[q]) \subseteq Address
  /\ \A q, r \in Pool : q < r => Base[q] + Size[q] <= Base[r]
  /\ Address \subseteq Nat \ {0}
<1>1. /\ PageSize \in Nat \ {0} /\ MaxEntry \in Nat /\ MaxEntry > 1
      /\ Pool \subseteq Nat \ {0}
      /\ \A q \in Pool : Base[q] \in Nat \ {0} /\ Size[q] \in Nat /\ Size[q] > PageSize
      /\ \A q, r \in Pool : q < r => Base[q] + Size[q] <= Base[r]
  <2>1. PageSize \in Nat \ {0} /\ MaxEntry \in Nat /\ MaxEntry > 1
    BY VMAssumption
  <2>2. Len(Base) \in Nat /\ Len(Size) = Len(Base)
    BY VMAssumption
  <2>3. Pool \subseteq Nat \ {0}
    BY <2>2 DEF Pool
  <2>4. \A q \in Pool : Base[q] \in Nat \ {0} /\ Size[q] \in Nat
    <3>1. \A q \in 1 .. Len(Base) : Base[q] \in Nat \ {0}
      BY VMAssumption
    <3>2. \A q \in 1 .. Len(Size) : Size[q] \in Nat
      BY VMAssumption
    <3>3. QED
      BY <2>2, <3>1, <3>2 DEF Pool
  <2>5. (\A q \in Pool : Size[q] > PageSize) /\ (\A q, r \in Pool : q < r => Base[q] + Size[q] <= Base[r])
    BY VMAssumption
  <2>6. QED
    BY <2>1, <2>3, <2>4, <2>5
<1>2. \A q \in Pool : Span(Base[q], Size[q]) \subseteq Address
  BY DEF Address
<1>3. \A q \in Pool : Span(Base[q], Size[q]) \subseteq Nat \ {0}
  BY <1>1 DEF Span
<1>4. QED
  BY <1>1, <1>2, <1>3 DEF Address

LEMMA PagesAndTables ==
  /\ \A a \in Address : PageOf(a) \in Page
  /\ \A pg \in Page : TableOf(pg) \in Table
BY DEF Page, Table

LEMMA OffsetInPage ==
  ASSUME NEW a \in Nat
  PROVE  a % PageSize \in 0 .. (PageSize - 1)
BY Addresses

------------------------------------------------------------------------------
(* Frames.                                                                  *)

FrameTypes ==
  /\ pde \in [Table -> Frame \cup {NULL}]
  /\ pte \in [Page -> Frame \cup {NULL}]
  /\ free \subseteq Frame

LEMMA FrameFacts == NULL \notin Frame /\ Frame \subseteq Nat
BY DEF Frame, NULL

\* A fault takes frames that are free, and different ones.
LEMMA TakenFrames ==
  ASSUME FrameTypes, NEW pg \in Page, ~Mapped(pg), Enough(pg)
  PROVE  /\ FrameFor(pg) \in free
         /\ NoTable(pg) => TableFor(pg) \in free \ {FrameFor(pg)}
<1>1. FrameFor(pg) = Min(free)
  BY DEF FrameFor
<1>2. free # {} /\ free \in SUBSET Nat
  BY FrameFacts DEF FrameTypes, Enough
<1>3. FrameFor(pg) \in free
  BY <1>1, <1>2, MinOfNat
<1>4. ASSUME NoTable(pg)
      PROVE  TableFor(pg) \in free \ {FrameFor(pg)}
  <2>1. free \ {FrameFor(pg)} # {} /\ free \ {FrameFor(pg)} \in SUBSET Nat
    BY <1>1, <1>2, <1>4 DEF Enough
  <2>2. TableFor(pg) = Min(free \ {FrameFor(pg)})
    BY <1>4 DEF TableFor
  <2>3. QED
    BY <2>1, <2>2, MinOfNat
<1>5. QED
  BY <1>3, <1>4

\* FramesAccounted, element by element.
Ledger ==
  /\ \A f \in Frame : f \in free <=>
       /\ f \notin BootFrames
       /\ \A t \in Table : pde[t] # f
       /\ \A pg \in Page : pte[pg] # f
  /\ \A t \in Table : pde[t] \notin BootFrames
  /\ \A pg \in Page :
       /\ pte[pg] \notin BootFrames
       /\ pte[pg] # NULL => pde[TableOf(pg)] # NULL
  /\ \A t, u \in Table : pde[t] = pde[u] /\ pde[t] # NULL => t = u
  /\ \A pg, qg \in Page : pte[pg] = pte[qg] /\ pte[pg] # NULL => pg = qg
  /\ \A t \in Table, pg \in Page : pde[t] = pte[pg] => pde[t] = NULL

LEMMA Accounted == FrameTypes => (FramesAccounted <=> Ledger)
<1> SUFFICES ASSUME FrameTypes PROVE FramesAccounted <=> Ledger
  OBVIOUS
<1>1. NULL \notin BootFrames
  BY DEF NULL, BootFrames
<1>2. \A pg \in Page : TableOf(pg) \in Table
  BY PagesAndTables
<1>3. ASSUME NEW f \in Frame
      PROVE  f \in Frame \ (BootFrames \cup {pde[t] : t \in PresentTable} \cup {pte[pg] : pg \in MappedPage})
               <=> /\ f \notin BootFrames
                   /\ \A t \in Table : pde[t] # f
                   /\ \A pg \in Page : pte[pg] # f
  BY FrameFacts DEF PresentTable, MappedPage, Mapped
<1>4. free = Frame \ (BootFrames \cup {pde[t] : t \in PresentTable} \cup {pte[pg] : pg \in MappedPage})
        <=> \A f \in Frame : f \in free <=>
               /\ f \notin BootFrames
               /\ \A t \in Table : pde[t] # f
               /\ \A pg \in Page : pte[pg] # f
  BY <1>3 DEF FrameTypes
<1>5. QED
  BY <1>1, <1>2, <1>4 DEF FramesAccounted, Ledger, PresentTable, MappedPage, Mapped

LEMMA FaultFrames ==
  ASSUME FrameTypes, FramesAccounted, NEW pg \in Page, Mapped(pg) \/ Enough(pg), handle_fault(pg)
  PROVE  /\ FrameTypes' /\ FramesAccounted'
         /\ Mapped(pg)' /\ pte'[pg] = FrameFor(pg) /\ FrameFor(pg) \in Frame
         /\ \A qg \in Page \ {pg} : pte'[qg] = pte[qg]
<1> USE DEF Ledger
<1>0. (FrameTypes => (FramesAccounted <=> Ledger))'
  BY Accounted, PTL
<1>1. CASE Mapped(pg)
  <2>1. UNCHANGED pageVars
    BY <1>1 DEF handle_fault
  <2>2. QED
    BY <1>1, <2>1 DEF pageVars, FrameTypes, FramesAccounted, PresentTable, MappedPage, Mapped, FrameFor
<1>2. CASE ~Mapped(pg)
  <2> DEFINE f == FrameFor(pg)
             t == TableOf(pg)
             g == TableFor(pg)
  <2>1. /\ pte' = [pte EXCEPT ![pg] = f]
        /\ pde' = [pde EXCEPT ![t] = g]
        /\ free' = free \ {f, g}
    BY <1>2 DEF handle_fault
  <2>2. f \in free /\ t \in Table /\ pte[pg] = NULL
    BY <1>2, TakenFrames, PagesAndTables DEF Mapped
  <2>3. CASE pde[t] = NULL
    <3>1. g \in free /\ g # f
      BY <1>2, <2>3, TakenFrames DEF NoTable
    <3> HIDE DEF f, t, g
    <3>2. FrameTypes'
      BY <2>1, <2>2, <3>1 DEF FrameTypes
    <3>3. FramesAccounted'
      <4> USE DEF FrameTypes
      <4>1. TableOf(pg) = t
        BY DEF t
      <4>2. \A h \in Frame : h \in free' <=>
                /\ h \notin BootFrames
                /\ \A u \in Table : pde'[u] # h
                /\ \A qg \in Page : pte'[qg] # h
        BY <2>1, <2>2, <2>3, <3>1, Accounted, FrameFacts
      <4>3. \A u \in Table : pde'[u] \notin BootFrames
        BY <2>1, <2>2, <3>1, Accounted
      <4>4. \A qg \in Page :
                /\ pte'[qg] \notin BootFrames
                /\ pte'[qg] # NULL => pde'[TableOf(qg)] # NULL
        BY <2>1, <2>2, <3>1, <4>1, Accounted, FrameFacts, PagesAndTables
      <4>5. \A u, v \in Table : pde'[u] = pde'[v] /\ pde'[u] # NULL => u = v
        BY <2>1, <2>2, <3>1, Accounted
      <4>6. \A qg, rg \in Page : pte'[qg] = pte'[rg] /\ pte'[qg] # NULL => qg = rg
        BY <2>1, <2>2, Accounted
      <4>7. \A u \in Table, qg \in Page : pde'[u] = pte'[qg] => pde'[u] = NULL
        BY <2>1, <2>2, <3>1, Accounted
      <4>8. QED
        BY <3>2, <4>2, <4>3, <4>4, <4>5, <4>6, <4>7, <1>0
    <3>4. Mapped(pg)' /\ pte'[pg] = f /\ f \in Frame /\ \A qg \in Page \ {pg} : pte'[qg] = pte[qg]
      BY <2>1, <2>2, FrameFacts DEF Mapped, FrameTypes
    <3>5. QED
      BY <3>2, <3>3, <3>4 DEF f
  <2>4. CASE pde[t] # NULL
    <3>1. g = pde[t]
      BY <2>4 DEF TableFor, NoTable
    <3>2. g \notin free /\ pde' = pde
      BY <2>1, <2>2, <2>4, <3>1, Accounted DEF FrameTypes
    <3> HIDE DEF f, t, g
    <3>3. FrameTypes' /\ free' = free \ {f}
      BY <2>1, <2>2, <3>2 DEF FrameTypes
    <3>4. FramesAccounted'
      <4> USE DEF FrameTypes
      <4>1. TableOf(pg) = t
        BY DEF t
      <4>2. \A h \in Frame : h \in free' <=>
                /\ h \notin BootFrames
                /\ \A u \in Table : pde'[u] # h
                /\ \A qg \in Page : pte'[qg] # h
        BY <2>1, <2>2, <3>2, <3>3, Accounted, FrameFacts
      <4>3. \A qg \in Page :
                /\ pte'[qg] \notin BootFrames
                /\ pte'[qg] # NULL => pde'[TableOf(qg)] # NULL
        BY <2>1, <2>2, <2>4, <3>2, <4>1, Accounted
      <4>4. \A qg, rg \in Page : pte'[qg] = pte'[rg] /\ pte'[qg] # NULL => qg = rg
        BY <2>1, <2>2, Accounted
      <4>5. \A u \in Table, qg \in Page : pde'[u] = pte'[qg] => pde'[u] = NULL
        BY <2>1, <2>2, <3>2, Accounted
      <4>6. (\A u \in Table : pde'[u] \notin BootFrames) /\ (\A u, v \in Table : pde'[u] = pde'[v] /\ pde'[u] # NULL => u = v)
        BY <3>2, Accounted
      <4>7. QED
        BY <3>3, <4>2, <4>3, <4>4, <4>5, <4>6, <1>0
    <3>5. Mapped(pg)' /\ pte'[pg] = f /\ f \in Frame /\ \A qg \in Page \ {pg} : pte'[qg] = pte[qg]
      BY <2>1, <2>2, FrameFacts DEF Mapped, FrameTypes
    <3>6. QED
      BY <3>3, <3>4, <3>5 DEF f
  <2>5. QED
    BY <2>3, <2>4
<1>3. QED
  BY <1>1, <1>2

LEMMA FreedFrames ==
  ASSUME FrameTypes, FramesAccounted, NEW pg \in Page, free_page(pg)
  PROVE  /\ FrameTypes' /\ FramesAccounted'
         /\ \A qg \in Page \ {pg} : pte'[qg] = pte[qg]
<1>0. (FrameTypes => (FramesAccounted <=> Ledger))'
  BY Accounted, PTL
<1>1. CASE ~Mapped(pg)
  BY <1>1 DEF free_page, FrameTypes, FramesAccounted, PresentTable, MappedPage, Mapped
<1>2. CASE Mapped(pg)
  <2>1. free' = free \cup {pte[pg]} /\ pte' = [pte EXCEPT ![pg] = NULL] /\ pde' = pde
    BY <1>2 DEF free_page
  <2>2. pte[pg] \in Frame
    BY <1>2 DEF FrameTypes, Mapped
  <2>3. FrameTypes' /\ \A qg \in Page \ {pg} : pte'[qg] = pte[qg]
    BY <2>1, <2>2 DEF FrameTypes
  <2>4. Ledger
    BY Accounted
  <2>5. Ledger'
    <3> USE DEF Ledger
    <3>1. ASSUME NEW f \in Frame
          PROVE  f \in free' <=>
                   /\ f \notin BootFrames
                   /\ \A t \in Table : pde'[t] # f
                   /\ \A qg \in Page : pte'[qg] # f
      <4>1. CASE f = pte[pg]
        BY <2>1, <2>2, <2>4, <4>1, FrameFacts DEF FrameTypes
      <4>2. CASE f # pte[pg]
        BY <2>1, <2>3, <2>4, <4>2, FrameFacts DEF FrameTypes
      <4>3. QED
        BY <4>1, <4>2
    <3>2. NULL \notin BootFrames
      BY DEF NULL, BootFrames
    <3>3. QED
      BY <2>1, <2>3, <2>4, <3>1, <3>2 DEF FrameTypes
  <2>6. QED
    BY <1>0, <2>3, <2>5
<1>3. QED
  BY <1>1, <1>2

------------------------------------------------------------------------------
(* The lists of a pool.                                                     *)

Index == 0 .. (MaxEntry - 1)

Used(q, i)  == Span(allocated_list[q][i].base, allocated_list[q][i].size)
Spare(q, i) == Span(free_list[q][i].base, free_list[q][i].size)

\* The regions that have been released.
Dead(q) == {i \in 1 .. (no_of_allocated[q] - 1) : allocated_list[q][i] = Invalid}

Registered ==
  /\ vmpool_list \in Seq(Pool) /\ Len(vmpool_list) <= Len(Base)
  /\ \A i \in DOMAIN vmpool_list : vmpool_list[i] = i

ListTypes ==
  /\ allocated_list \in [Pool -> [Index -> Entry]]
  /\ free_list \in [Pool -> [Index -> Entry]]
  /\ no_of_allocated \in [Pool -> 0 .. MaxEntry]
  /\ no_of_freed \in [Pool -> 0 .. MaxEntry]

\* Entries behind the counters are unused.
Unused(q) ==
  \A i \in Index :
    /\ i >= no_of_allocated[q] => allocated_list[q][i] = Invalid
    /\ i >= no_of_freed[q] => free_list[q][i] = Invalid

\* The entries are disjoint parts of the pool.
Parts(q) ==
  /\ \A i \in Index :
       /\ Used(q, i) \subseteq Span(Base[q], Size[q])
       /\ Spare(q, i) \subseteq Span(Base[q], Size[q])
       /\ allocated_list[q][i] = Invalid \/ allocated_list[q][i].size > 0
  /\ \A i, k \in Index :
       /\ Used(q, i) \cap Spare(q, k) = {}
       /\ i # k => Used(q, i) \cap Used(q, k) = {} /\ Spare(q, i) \cap Spare(q, k) = {}

\* The first entry is the page of the lists; each release has made one entry of
\* the allocated list invalid and one of the free list valid.
Counts(q) ==
  IF q \in DOMAIN vmpool_list
  THEN /\ no_of_allocated[q] >= 1
       /\ allocated_list[q][0] = [base |-> Base[q], size |-> PageSize]
       /\ no_of_freed[q] = 1 + Cardinality(Dead(q))
  ELSE no_of_allocated[q] = 0 /\ no_of_freed[q] = 0

ListsOK == Registered /\ ListTypes /\ \A q \in Pool : Unused(q) /\ Parts(q) /\ Counts(q)

LEMMA SpanCut ==
  ASSUME NEW b \in Nat, NEW s \in Nat, NEW n \in Nat, n <= s
  PROVE  /\ Span(b, n) \subseteq Span(b, s)
         /\ Span(b + n, s - n) \subseteq Span(b, s)
         /\ Span(b, n) \cap Span(b + n, s - n) = {}
BY DEF Span

LEMMA SpanNone ==
  /\ \A b \in Nat : Span(b, 0) = {}
  /\ \A b \in Nat, n \in Nat : n > 0 => b \in Span(b, n)
  /\ Span(Invalid.base, Invalid.size) = {}
BY DEF Span, Invalid

LEMMA EntryFacts ==
  /\ Invalid \in Entry
  /\ \A b, n \in Nat : [base |-> b, size |-> n] \in Entry /\ [base |-> b, size |-> n].base = b /\ [base |-> b, size |-> n].size = n
  /\ Index = 0 .. (MaxEntry - 1) /\ 0 \in Index
BY Addresses DEF Invalid, Entry, Index

LEMMA Interval ==
  ASSUME NEW n \in Nat
  PROVE  IsFiniteSet(1 .. n) /\ Cardinality(1 .. n) = n
<1>1. /\ IsFiniteSet(1 .. n)
      /\ Cardinality(1 .. n) = IF 1 > n THEN 0 ELSE n - 1 + 1
  BY FS_Interval
<1>2. QED
  BY <1>1

LEMMA DeadCount ==
  ASSUME ListTypes, NEW q \in Pool, no_of_allocated[q] >= 1
  PROVE  /\ IsFiniteSet(Dead(q))
         /\ Cardinality(Dead(q)) \in Nat /\ Cardinality(Dead(q)) < no_of_allocated[q]
<1>1. no_of_allocated[q] \in 0 .. MaxEntry /\ MaxEntry \in Nat /\ no_of_allocated[q] >= 1
  BY Addresses DEF ListTypes
<1>2. /\ IsFiniteSet(1 .. (no_of_allocated[q] - 1))
      /\ Cardinality(1 .. (no_of_allocated[q] - 1)) = no_of_allocated[q] - 1
  BY <1>1, Interval
<1>3. Dead(q) \in SUBSET (1 .. (no_of_allocated[q] - 1))
  BY DEF Dead
<1>4. IsFiniteSet(Dead(q)) /\ Cardinality(Dead(q)) <= no_of_allocated[q] - 1
  BY <1>2, <1>3, FS_Subset
<1>5. QED
  BY <1>1, <1>4, FS_CardinalityType

\* A release finds room in the free list.
LEMMA RoomToRelease ==
  ASSUME ListTypes, NEW q \in Pool, Counts(q), NEW i \in 1 .. (no_of_allocated[q] - 1),
         allocated_list[q][i] # Invalid
  PROVE  /\ no_of_freed[q] < MaxEntry
         /\ IsFiniteSet(Dead(q))
         /\ Cardinality(Dead(q) \cup {i}) = Cardinality(Dead(q)) + 1
<1>1. no_of_allocated[q] \in 0 .. MaxEntry /\ MaxEntry \in Nat
  BY Addresses DEF ListTypes
<1>2. no_of_allocated[q] >= 1 /\ no_of_freed[q] = 1 + Cardinality(Dead(q))
  BY <1>1 DEF Counts
<1>3. IsFiniteSet(Dead(q)) /\ Cardinality(Dead(q)) \in Nat
  BY <1>2, DeadCount
<1>4. i \notin Dead(q)
  BY DEF Dead
<1>5. IsFiniteSet(Dead(q) \cup {i}) /\ Cardinality(Dead(q) \cup {i}) = Cardinality(Dead(q)) + 1
  BY <1>3, <1>4, FS_AddElement
<1>6. /\ IsFiniteSet(1 .. (no_of_allocated[q] - 1))
      /\ Cardinality(1 .. (no_of_allocated[q] - 1)) = no_of_allocated[q] - 1
  BY <1>1, <1>2, Interval
<1>7. Dead(q) \cup {i} \in SUBSET (1 .. (no_of_allocated[q] - 1))
  BY DEF Dead
<1>8. Cardinality(Dead(q) \cup {i}) <= no_of_allocated[q] - 1
  BY <1>6, <1>7, FS_Subset
<1>9. QED
  BY <1>1, <1>2, <1>3, <1>5, <1>8

LEMMA OtherPools ==
  ASSUME NEW r \in Pool, Unused(r), Parts(r), Counts(r),
         allocated_list'[r] = allocated_list[r], free_list'[r] = free_list[r],
         no_of_allocated'[r] = no_of_allocated[r], no_of_freed'[r] = no_of_freed[r],
         r \in DOMAIN vmpool_list' <=> r \in DOMAIN vmpool_list
  PROVE  Unused(r)' /\ Parts(r)' /\ Counts(r)'
<1>1. Unused(r)'
  BY DEF Unused
<1>2. Parts(r)'
  BY DEF Parts, Used, Spare
<1>3. Dead(r)' = Dead(r)
  BY DEF Dead
<1>4. Counts(r)'
  BY <1>3 DEF Counts
<1>5. QED
  BY <1>1, <1>2, <1>4

LEMMA ConstructLists ==
  ASSUME ListsOK, NEW q \in Pool, ConstructPool(q)
  PROVE  /\ ListsOK'
         /\ DOMAIN vmpool_list' = DOMAIN vmpool_list \cup {q}
         /\ q \notin DOMAIN vmpool_list
         /\ \A i \in Index : allocated_list'[q][i] =
              IF i = 0 THEN [base |-> Base[q], size |-> PageSize] ELSE Invalid
         /\ \A i \in Index : free_list'[q][i] =
              IF i = 0 THEN [base |-> Base[q] + PageSize, size |-> Size[q] - PageSize] ELSE Invalid
         /\ \A i \in Index : free_list[q][i] = Invalid
         /\ no_of_allocated'[q] = 1
         /\ \A r \in Pool \ {q} : /\ allocated_list'[r] = allocated_list[r]
                                  /\ free_list'[r] = free_list[r]
                                  /\ no_of_allocated'[r] = no_of_allocated[r]
<1> DEFINE lists == [base |-> Base[q], size |-> PageSize]
           rest  == [base |-> Base[q] + PageSize, size |-> Size[q] - PageSize]
<1>1. /\ q = Len(vmpool_list) + 1
      /\ vmpool_list' = Append(vmpool_list, q)
      /\ allocated_list' = [allocated_list EXCEPT ![q][0] = lists]
      /\ free_list' = [free_list EXCEPT ![q][0] = rest]
      /\ no_of_allocated' = [no_of_allocated EXCEPT ![q] = 1]
      /\ no_of_freed' = [no_of_freed EXCEPT ![q] = 1]
  BY DEF ConstructPool
<1>2. /\ Base[q] \in Nat /\ Size[q] \in Nat /\ PageSize \in Nat /\ Size[q] > PageSize
      /\ lists \in Entry /\ rest \in Entry /\ lists.size > 0
      /\ MaxEntry \in Nat /\ MaxEntry > 1
  BY Addresses DEF Entry
<1>3. /\ Registered' /\ q \notin DOMAIN vmpool_list
      /\ DOMAIN vmpool_list' = DOMAIN vmpool_list \cup {q}
  <2>1. Registered
    BY DEF ListsOK
  <2>2. Len(Base) \in Nat /\ q \in 1 .. Len(Base)
    BY VMAssumption DEF Pool
  <2>3. QED
    BY <1>1, <2>1, <2>2 DEF Registered
<1>4. \A i \in Index : allocated_list[q][i] = Invalid /\ free_list[q][i] = Invalid
  <2>1. no_of_allocated[q] = 0 /\ no_of_freed[q] = 0 /\ Unused(q)
    BY <1>3 DEF ListsOK, Counts
  <2>2. QED
    BY <2>1 DEF Unused, Index
<1> HIDE DEF lists, rest
<1>5. /\ \A i \in Index : allocated_list'[q][i] = IF i = 0 THEN lists ELSE Invalid
      /\ \A i \in Index : free_list'[q][i] = IF i = 0 THEN rest ELSE Invalid
      /\ no_of_allocated'[q] = 1 /\ no_of_freed'[q] = 1
  BY <1>1, <1>4, EntryFacts DEF ListsOK, ListTypes
<1>6. ListTypes'
  BY <1>1, <1>2, EntryFacts DEF ListsOK, ListTypes
<1>7. ASSUME NEW r \in Pool \ {q}
      PROVE  /\ allocated_list'[r] = allocated_list[r] /\ free_list'[r] = free_list[r]
             /\ no_of_allocated'[r] = no_of_allocated[r] /\ no_of_freed'[r] = no_of_freed[r]
  BY <1>1 DEF ListsOK, ListTypes
<1>8. Unused(q)'
  BY <1>5 DEF Unused, Index
<1>9. Parts(q)'
  <2>1. /\ \A i \in Index : Used(q, i)' = IF i = 0 THEN Span(Base[q], PageSize) ELSE {}
        /\ \A i \in Index : Spare(q, i)' =
             IF i = 0 THEN Span(Base[q] + PageSize, Size[q] - PageSize) ELSE {}
    <3>1. /\ lists.base = Base[q] /\ lists.size = PageSize
          /\ rest.base = Base[q] + PageSize /\ rest.size = Size[q] - PageSize
      BY DEF lists, rest
    <3>2. Span(Invalid.base, Invalid.size) = {}
      BY SpanNone
    <3>3. ASSUME NEW i \in Index
          PROVE  /\ Used(q, i)' = IF i = 0 THEN Span(Base[q], PageSize) ELSE {}
                 /\ Spare(q, i)' = IF i = 0 THEN Span(Base[q] + PageSize, Size[q] - PageSize) ELSE {}
      BY <1>5, <3>1, <3>2 DEF Used, Spare
    <3>4. QED
      BY <3>3
  <2>2. /\ Span(Base[q], PageSize) \subseteq Span(Base[q], Size[q])
        /\ Span(Base[q] + PageSize, Size[q] - PageSize) \subseteq Span(Base[q], Size[q])
        /\ Span(Base[q], PageSize) \cap Span(Base[q] + PageSize, Size[q] - PageSize) = {}
    BY <1>2, SpanCut
  <2>3. \A i \in Index : allocated_list'[q][i] = Invalid \/ allocated_list'[q][i].size > 0
    BY <1>2, <1>5
  <2>4. QED
    BY <2>1, <2>2, <2>3 DEF Parts
<1>10. Counts(q)'
  <2>1. Dead(q)' = {}
    BY <1>5 DEF Dead
  <2>2. Cardinality(Dead(q)') = 0
    BY <2>1, FS_EmptySet
  <2>3. QED
    BY <1>3, <1>5, <2>2, EntryFacts DEF Counts, lists
<1>11. \A r \in Pool : Unused(r)' /\ Parts(r)' /\ Counts(r)'
  BY <1>3, <1>7, <1>8, <1>9, <1>10, OtherPools DEF ListsOK
<1>12. QED
  BY <1>3, <1>4, <1>5, <1>6, <1>7, <1>11 DEF ListsOK, lists, rest

\* What allocate does to the lists of a pool.
AllocateEntry(q, n) ==
  LET i == Min(Fits(q, n))
  IN  /\ allocated_list' =
           [allocated_list EXCEPT ![q][no_of_allocated[q]] =
              [base |-> free_list[q][i].base, size |-> n]]
      /\ no_of_allocated' = [no_of_allocated EXCEPT ![q] = @ + 1]
      /\ free_list' = [free_list EXCEPT ![q][i] = CutOff(@, n)]
      /\ UNCHANGED <<vmpool_list, no_of_freed>>

LEMMA FirstFit ==
  ASSUME ListsOK, NEW q \in Pool, NEW n, Fits(q, n) # {}
  PROVE  Min(Fits(q, n)) \in Fits(q, n) /\ Min(Fits(q, n)) \in Index
<1>1. no_of_freed[q] \in 0 .. MaxEntry /\ MaxEntry \in Nat
  BY Addresses DEF ListsOK, ListTypes
<1>2. Fits(q, n) \in SUBSET Nat /\ Fits(q, n) \subseteq Index
  BY <1>1 DEF Fits, Index
<1>3. QED
  BY <1>2, MinOfNat

LEMMA AllocateLists ==
  ASSUME ListsOK, NEW q \in Pool, NEW n \in Nat \ {0},
         q \in DOMAIN vmpool_list, no_of_allocated[q] < MaxEntry, Fits(q, n) # {},
         AllocateEntry(q, n),
         NEW i \in Index, i = Min(Fits(q, n))
  PROVE  /\ ListsOK'
         /\ no_of_allocated[q] \in Index \ {0}
         /\ free_list[q][i] \in Entry /\ n <= free_list[q][i].size
         /\ \A k \in Index : allocated_list'[q][k] =
              IF k = no_of_allocated[q] THEN [base |-> free_list[q][i].base, size |-> n]
                                        ELSE allocated_list[q][k]
         /\ no_of_allocated'[q] = no_of_allocated[q] + 1
         /\ \A r \in Pool \ {q} : /\ allocated_list'[r] = allocated_list[r]
                                  /\ no_of_allocated'[r] = no_of_allocated[r]
<1> DEFINE last == no_of_allocated[q]
           b    == free_list[q][i].base
           s    == free_list[q][i].size
           new  == [base |-> b, size |-> n]
           cut  == CutOff(free_list[q][i], n)
<1>1. /\ allocated_list' = [allocated_list EXCEPT ![q][last] = new]
      /\ no_of_allocated' = [no_of_allocated EXCEPT ![q] = @ + 1]
      /\ free_list' = [free_list EXCEPT ![q][i] = cut]
      /\ vmpool_list' = vmpool_list /\ no_of_freed' = no_of_freed
  BY DEF AllocateEntry, ListsOK, ListTypes
<1>2. /\ Registered /\ ListTypes /\ Unused(q) /\ Parts(q)
      /\ last >= 1 /\ allocated_list[q][0] = [base |-> Base[q], size |-> PageSize]
      /\ no_of_freed[q] = 1 + Cardinality(Dead(q))
  BY DEF ListsOK, Counts
<1>3. /\ MaxEntry \in Nat /\ MaxEntry > 1 /\ PageSize \in Nat
      /\ last \in Index \ {0} /\ last + 1 \in 0 .. MaxEntry
      /\ no_of_freed[q] \in 0 .. MaxEntry
  BY <1>2, Addresses DEF ListTypes, Index
<1>4. i \in Index /\ n <= s
  BY FirstFit DEF Fits
<1>5. free_list[q][i] \in Entry /\ b \in Nat /\ s \in Nat
  BY <1>2, <1>4 DEF ListTypes, Entry
<1>6. /\ new \in Entry /\ new.base = b /\ new.size = n
      /\ cut \in Entry /\ cut.base = b + n /\ cut.size = s - n
  BY <1>4, <1>5 DEF Entry, CutOff
<1> HIDE DEF last, b, s, new, cut
<1>7. /\ \A k \in Index : allocated_list'[q][k] = IF k = last THEN new ELSE allocated_list[q][k]
      /\ \A k \in Index : free_list'[q][k] = IF k = i THEN cut ELSE free_list[q][k]
      /\ no_of_allocated'[q] = last + 1
      /\ no_of_freed'[q] = no_of_freed[q]
  BY <1>1, <1>2, <1>3, <1>4 DEF ListTypes, last
<1>8. ListTypes' /\ Registered'
  BY <1>1, <1>2, <1>3, <1>4, <1>6 DEF ListTypes, Registered, last
<1>9. ASSUME NEW r \in Pool \ {q}
      PROVE  /\ allocated_list'[r] = allocated_list[r] /\ free_list'[r] = free_list[r]
             /\ no_of_allocated'[r] = no_of_allocated[r] /\ no_of_freed'[r] = no_of_freed[r]
  BY <1>1, <1>2 DEF ListTypes
<1>10. i < no_of_freed[q]
  <2>1. CASE i >= no_of_freed[q]
    <3>1. free_list[q][i] = Invalid
      BY <1>2, <1>4, <2>1 DEF Unused
    <3>2. QED
      BY <1>4, <3>1 DEF s, Invalid
  <2>2. QED
    BY <1>3, <1>4, <2>1 DEF Index
<1>11. Unused(q)'
  BY <1>2, <1>3, <1>7, <1>10 DEF Unused, Index, last
<1>12. allocated_list[q][last] = Invalid
  BY <1>2, <1>3 DEF Unused, last, Index
<1>13. Parts(q)'
  <2>1. /\ \A k \in Index : Used(q, k)' = IF k = last THEN Span(b, n) ELSE Used(q, k)
        /\ \A k \in Index : Spare(q, k)' = IF k = i THEN Span(b + n, s - n) ELSE Spare(q, k)
    <3>1. ASSUME NEW k \in Index
          PROVE  /\ Used(q, k)' = IF k = last THEN Span(b, n) ELSE Used(q, k)
                 /\ Spare(q, k)' = IF k = i THEN Span(b + n, s - n) ELSE Spare(q, k)
      BY <1>6, <1>7 DEF Used, Spare
    <3>2. QED
      BY <3>1
  <2>2. Spare(q, i) = Span(b, s)
    BY DEF Spare, b, s
  <2>3. /\ Span(b, n) \subseteq Span(b, s) /\ Span(b + n, s - n) \subseteq Span(b, s)
        /\ Span(b, n) \cap Span(b + n, s - n) = {}
    BY <1>4, <1>5, SpanCut
  <2>4. \A k \in Index : allocated_list'[q][k] = Invalid \/ allocated_list'[q][k].size > 0
    BY <1>2, <1>6, <1>7 DEF Parts
  <2>5. \A k \in Index : Used(q, k)' \subseteq Span(Base[q], Size[q]) /\ Spare(q, k)' \subseteq Span(Base[q], Size[q])
    BY <1>2, <1>4, <2>1, <2>2, <2>3 DEF Parts
  <2>6. ASSUME NEW k \in Index, NEW l \in Index
        PROVE  /\ Used(q, k)' \cap Spare(q, l)' = {}
               /\ k # l => Used(q, k)' \cap Used(q, l)' = {} /\ Spare(q, k)' \cap Spare(q, l)' = {}
    BY <1>2, <1>4, <2>1, <2>2, <2>3 DEF Parts
  <2>7. QED
    BY <2>4, <2>5, <2>6 DEF Parts
<1>14. Counts(q)'
  <2>1. Dead(q)' = Dead(q)
    <3>1. new # Invalid
      BY <1>6 DEF Invalid
    <3>2. \A k : k \in 1 .. last <=> k \in 1 .. (last - 1) \/ k = last
      BY <1>3 DEF Index
    <3>3. 1 .. last \subseteq Index
      BY <1>3 DEF Index
    <3>4. no_of_allocated'[q] - 1 = last
      BY <1>3, <1>7 DEF Index
    <3>5. QED
      BY <1>7, <3>1, <3>2, <3>3, <3>4 DEF Dead, last
  <2>2. 0 \in Index /\ 0 # last
    BY <1>3, EntryFacts
  <2>3. allocated_list'[q][0] = [base |-> Base[q], size |-> PageSize]
    BY <1>2, <1>7, <2>2
  <2>4. no_of_allocated'[q] >= 1
    BY <1>3, <1>7 DEF Index
  <2>5. QED
    BY <1>1, <1>2, <1>7, <2>1, <2>3, <2>4 DEF Counts
<1>15. \A r \in Pool : Unused(r)' /\ Parts(r)' /\ Counts(r)'
  BY <1>1, <1>9, <1>11, <1>13, <1>14, OtherPools DEF ListsOK
<1>16. QED
  BY <1>3, <1>4, <1>5, <1>7, <1>8, <1>9, <1>15 DEF ListsOK, last, b, s, new, cut

\* What release does to them, for the entry of the region.
ReleaseEntry(q, i) ==
  /\ free_list' = [free_list EXCEPT ![q][no_of_freed[q]] = allocated_list[q][i]]
  /\ no_of_freed' = [no_of_freed EXCEPT ![q] = @ + 1]
  /\ allocated_list' = [allocated_list EXCEPT ![q][i] = Invalid]
  /\ UNCHANGED <<vmpool_list, no_of_allocated>>

LEMMA ReleaseLists ==
  ASSUME ListsOK, NEW q \in Pool, q \in DOMAIN vmpool_list,
         NEW i \in 1 .. (no_of_allocated[q] - 1), allocated_list[q][i] # Invalid,
         ReleaseEntry(q, i)
  PROVE  /\ ListsOK'
         /\ i \in Index \ {0} /\ no_of_freed[q] \in Index
         /\ free_list[q][no_of_freed[q]] = Invalid
         /\ \A k \in Index : allocated_list'[q][k] = IF k = i THEN Invalid ELSE allocated_list[q][k]
         /\ \A k \in Index : free_list'[q][k] =
              IF k = no_of_freed[q] THEN allocated_list[q][i] ELSE free_list[q][k]
         /\ \A r \in Pool \ {q} : /\ allocated_list'[r] = allocated_list[r]
                                  /\ free_list'[r] = free_list[r]
<1> DEFINE last == no_of_freed[q]
           old  == allocated_list[q][i]
<1>1. /\ free_list' = [free_list EXCEPT ![q][last] = old]
      /\ no_of_freed' = [no_of_freed EXCEPT ![q] = @ + 1]
      /\ allocated_list' = [allocated_list EXCEPT ![q][i] = Invalid]
      /\ vmpool_list' = vmpool_list /\ no_of_allocated' = no_of_allocated
  BY DEF ReleaseEntry
<1>2. /\ Registered /\ ListTypes /\ Unused(q) /\ Parts(q) /\ Counts(q)
      /\ no_of_allocated[q] >= 1
      /\ allocated_list[q][0] = [base |-> Base[q], size |-> PageSize]
      /\ last = 1 + Cardinality(Dead(q))
  BY DEF ListsOK, Counts
<1>3. /\ last < MaxEntry /\ IsFiniteSet(Dead(q))
      /\ Cardinality(Dead(q) \cup {i}) = Cardinality(Dead(q)) + 1
  BY <1>2, RoomToRelease
<1>4. /\ MaxEntry \in Nat /\ last \in Index /\ last + 1 \in 0 .. MaxEntry
      /\ i \in Index \ {0} /\ no_of_allocated[q] \in 0 .. MaxEntry
  BY <1>2, <1>3, Addresses DEF ListTypes, Index
<1>5. old \in Entry
  BY <1>2, <1>4 DEF ListTypes
<1> HIDE DEF last, old
<1>6. /\ \A k \in Index : allocated_list'[q][k] = IF k = i THEN Invalid ELSE allocated_list[q][k]
      /\ \A k \in Index : free_list'[q][k] = IF k = last THEN old ELSE free_list[q][k]
      /\ no_of_freed'[q] = last + 1
  BY <1>1, <1>2, <1>4 DEF ListTypes, last
<1>7. ListTypes' /\ Registered'
  BY <1>1, <1>2, <1>4, <1>5, EntryFacts DEF ListTypes, Registered, last
<1>8. ASSUME NEW r \in Pool \ {q}
      PROVE  /\ allocated_list'[r] = allocated_list[r] /\ free_list'[r] = free_list[r]
             /\ no_of_allocated'[r] = no_of_allocated[r] /\ no_of_freed'[r] = no_of_freed[r]
  BY <1>1, <1>2 DEF ListTypes
<1>9. Unused(q)' /\ free_list[q][last] = Invalid
  BY <1>1, <1>2, <1>4, <1>6 DEF Unused, Index, last
<1>10. Parts(q)'
  <2>1. Span(Invalid.base, Invalid.size) = {}
    BY SpanNone
  <2>2. ASSUME NEW k \in Index
        PROVE  /\ Used(q, k)' = IF k = i THEN {} ELSE Used(q, k)
               /\ Spare(q, k)' = IF k = last THEN Used(q, i) ELSE Spare(q, k)
    BY <1>6, <2>1 DEF Used, Spare, old
  <2>3. \A k \in Index : allocated_list'[q][k] = Invalid \/ allocated_list'[q][k].size > 0
    BY <1>2, <1>6 DEF Parts
  <2>4. \A k \in Index : Used(q, k)' \subseteq Span(Base[q], Size[q]) /\ Spare(q, k)' \subseteq Span(Base[q], Size[q])
    BY <1>2, <1>4, <2>2 DEF Parts
  <2>5. ASSUME NEW k \in Index, NEW l \in Index
        PROVE  /\ Used(q, k)' \cap Spare(q, l)' = {}
               /\ k # l => Used(q, k)' \cap Used(q, l)' = {} /\ Spare(q, k)' \cap Spare(q, l)' = {}
    BY <1>2, <1>4, <2>2 DEF Parts
  <2>6. QED
    BY <2>3, <2>4, <2>5 DEF Parts
<1>11. Counts(q)'
  <2>1. Dead(q)' = Dead(q) \cup {i}
    <3>1. 1 .. (no_of_allocated[q] - 1) \subseteq Index
      BY <1>4 DEF Index
    <3>2. QED
      BY <1>1, <1>6, <3>1 DEF Dead
  <2>2. Cardinality(Dead(q)') = Cardinality(Dead(q)) + 1
    BY <1>3, <2>1
  <2>3. 0 \in Index /\ 0 # i
    BY <1>4, EntryFacts
  <2>4. Cardinality(Dead(q)) \in Nat
    BY <1>3, FS_CardinalityType
  <2>5. no_of_freed'[q] = 1 + Cardinality(Dead(q)')
    BY <1>2, <1>6, <2>2, <2>4
  <2>6. allocated_list'[q][0] = allocated_list[q][0]
    BY <1>6, <2>3
  <2>7. QED
    BY <1>1, <1>2, <2>5, <2>6 DEF Counts
<1>12. \A r \in Pool : Unused(r)' /\ Parts(r)' /\ Counts(r)'
  BY <1>1, <1>8, <1>9, <1>10, <1>11, OtherPools DEF ListsOK
<1>13. QED
  BY <1>4, <1>6, <1>7, <1>8, <1>9, <1>12 DEF ListsOK, last, old

------------------------------------------------------------------------------
(* What the clients hold.                                                   *)

Valid(q) == {i \in 1 .. (no_of_allocated[q] - 1) : allocated_list[q][i] # Invalid}

\* Entry i of pool q is the region of x.
IsEntry(x, q, i) ==
  region[x] = [pool |-> q, base |-> allocated_list[q][i].base, size |-> allocated_list[q][i].size]

RegionType == region \in [Array -> [pool : Pool \cup {0}, base : Nat, size : Nat]]

\* The valid entries are those of what the clients hold.
HeldOK ==
  /\ RegionType
  /\ \A x \in Array : region[x] # Nothing =>
       \E q \in DOMAIN vmpool_list : \E i \in Valid(q) : IsEntry(x, q, i)
  /\ \A q \in Pool : \A i \in Valid(q) : \E x \in Array : IsEntry(x, q, i)
  /\ \A x, y \in Array : x # y => Elements(x) \cap Elements(y) = {}

LEMMA NothingHeld ==
  ASSUME NEW x \in Array, region[x] = Nothing
  PROVE  Elements(x) = {}
BY SpanNone DEF Elements, Nothing

LEMMA ValidEntry ==
  ASSUME ListsOK, NEW q \in Pool, NEW i \in Valid(q)
  PROVE  /\ i \in Index \ {0}
         /\ q \in DOMAIN vmpool_list
         /\ allocated_list[q][i] \in Entry /\ allocated_list[q][i].size > 0
         /\ Used(q, i) \subseteq Span(Base[q], Size[q])
         /\ allocated_list[q][i].base \in Used(q, i)
<1>1. no_of_allocated[q] \in 0 .. MaxEntry /\ MaxEntry \in Nat /\ i \in 1 .. (no_of_allocated[q] - 1)
  BY Addresses DEF ListsOK, ListTypes, Valid
<1>2. i \in Index \ {0} /\ no_of_allocated[q] # 0
  BY <1>1 DEF Index
<1>3. q \in DOMAIN vmpool_list
  BY <1>2 DEF ListsOK, Counts
<1>4. allocated_list[q][i] \in Entry
  BY <1>2 DEF ListsOK, ListTypes
<1>5. allocated_list[q][i].size > 0 /\ Used(q, i) \subseteq Span(Base[q], Size[q])
  BY <1>2 DEF ListsOK, Parts, Valid
<1>6. allocated_list[q][i].base \in Nat /\ allocated_list[q][i].size \in Nat
  BY <1>4 DEF Entry
<1>7. QED
  BY <1>2, <1>3, <1>4, <1>5, <1>6, SpanNone DEF Used

\* A client's region is one entry of its pool, and the only one at its base.
LEMMA HeldEntry ==
  ASSUME ListsOK, HeldOK, NEW x \in Array, region[x] # Nothing
  PROVE  /\ region[x].pool \in DOMAIN vmpool_list /\ region[x].pool \in Pool
         /\ region[x].base \in Address /\ region[x].base \in Elements(x)
         /\ Elements(x) \subseteq Address
         /\ \E i \in Valid(region[x].pool) :
              /\ IsEntry(x, region[x].pool, i)
              /\ Elements(x) = Used(region[x].pool, i)
              /\ Entries(region[x].pool, region[x].base) = {i}
<1>1. PICK q \in DOMAIN vmpool_list : \E i \in Valid(q) : IsEntry(x, q, i)
  BY DEF HeldOK
<1>2. PICK i \in Valid(q) : IsEntry(x, q, i)
  BY <1>1
<1>3. q \in Pool
  BY <1>1 DEF ListsOK, Registered
<1>4. /\ i \in Index \ {0} /\ allocated_list[q][i].base \in Used(q, i)
      /\ Used(q, i) \subseteq Span(Base[q], Size[q])
  BY <1>3, ValidEntry
<1>5. /\ region[x].pool = q
      /\ region[x].base = allocated_list[q][i].base
      /\ region[x].size = allocated_list[q][i].size
      /\ Elements(x) = Used(q, i)
  BY <1>2 DEF IsEntry, Elements, Used
<1>6. Used(q, i) \subseteq Address /\ region[x].base \in Address /\ region[x].base \in Elements(x)
  BY <1>3, <1>4, <1>5, Addresses
<1>7. Entries(q, region[x].base) = {i}
  <2>1. no_of_allocated[q] \in 0 .. MaxEntry /\ MaxEntry \in Nat
    BY <1>3, Addresses DEF ListsOK, ListTypes
  <2>2. i \in 1 .. (no_of_allocated[q] - 1)
    BY DEF Valid
  <2>3. i \in Entries(q, region[x].base)
    BY <1>5, <2>1, <2>2 DEF Entries
  <2>4. ASSUME NEW k \in Entries(q, region[x].base)
        PROVE  k = i
    <3>1. k \in Index /\ allocated_list[q][k].base = region[x].base
      BY <2>1 DEF Entries, Index
    <3>2. allocated_list[q][k] \in Entry
      BY <1>3, <3>1 DEF ListsOK, ListTypes
    <3>3. region[x].base \in Nat \ {0}
      BY <1>6, Addresses
    <3>4. allocated_list[q][k] # Invalid
      BY <3>1, <3>3 DEF Invalid
    <3>5. allocated_list[q][k].size > 0
      BY <1>3, <3>1, <3>4 DEF ListsOK, Parts
    <3>6. allocated_list[q][k].base \in Nat /\ allocated_list[q][k].size \in Nat
      BY <3>2 DEF Entry
    <3>7. region[x].base \in Used(q, k)
      BY <3>1, <3>5, <3>6, SpanNone DEF Used
    <3>8. QED
      BY <1>3, <1>4, <1>5, <1>6, <3>1, <3>7 DEF ListsOK, Parts
  <2>5. QED
    BY <2>3, <2>4
<1>8. QED
  BY <1>1, <1>2, <1>3, <1>5, <1>6, <1>7

LEMMA PoolsApart ==
  ASSUME NEW q \in Pool, NEW r \in Pool, q # r
  PROVE  Span(Base[q], Size[q]) \cap Span(Base[r], Size[r]) = {}
<1>1. /\ q < r \/ r < q
      /\ Base[q] \in Nat /\ Size[q] \in Nat /\ Base[r] \in Nat /\ Size[r] \in Nat
  BY Addresses
<1>2. Base[q] + Size[q] <= Base[r] \/ Base[r] + Size[r] <= Base[q]
  BY <1>1, Addresses
<1>3. QED
  BY <1>1, <1>2 DEF Span

LEMMA ConstructHeld ==
  ASSUME ListsOK, HeldOK, NEW q \in Pool, ConstructPool(q)
  PROVE  HeldOK'
<1>1. region' = region
  BY DEF ConstructPool, clientVars
<1>2. /\ DOMAIN vmpool_list' = DOMAIN vmpool_list \cup {q} /\ q \notin DOMAIN vmpool_list
      /\ no_of_allocated'[q] = 1
      /\ \A r \in Pool \ {q} : /\ allocated_list'[r] = allocated_list[r]
                               /\ no_of_allocated'[r] = no_of_allocated[r]
  BY ConstructLists
<1>3. Valid(q)' = {} /\ \A r \in Pool \ {q} : Valid(r)' = Valid(r)
  BY <1>2 DEF Valid
<1>4. \A x \in Array : \A r \in Pool \ {q} : \A i \in Valid(r) : IsEntry(x, r, i)' <=> IsEntry(x, r, i)
  BY <1>1, <1>2 DEF IsEntry
<1>5. ASSUME NEW x \in Array, region'[x] # Nothing
      PROVE  \E r \in DOMAIN vmpool_list' : \E i \in Valid(r)' : IsEntry(x, r, i)'
  <2>1. PICK r \in DOMAIN vmpool_list : \E i \in Valid(r) : IsEntry(x, r, i)
    BY <1>1, <1>5 DEF HeldOK
  <2>2. r \in Pool /\ r # q
    BY <1>2, <2>1 DEF ListsOK, Registered
  <2>3. QED
    BY <1>2, <1>3, <1>4, <2>1, <2>2
<1>6. \A r \in Pool : \A i \in Valid(r)' : \E x \in Array : IsEntry(x, r, i)'
  BY <1>3, <1>4 DEF HeldOK
<1>7. QED
  BY <1>1, <1>5, <1>6 DEF HeldOK, RegionType, Elements

LEMMA AllocateHeld ==
  ASSUME ListsOK, HeldOK, NEW x \in Array, NEW q \in Pool, NEW n \in Request, Allocate(x, q, n)
  PROVE  HeldOK' /\ ListsOK' /\ Elements(x)' \subseteq Address
<1> DEFINE i    == Min(Fits(q, n))
           last == no_of_allocated[q]
           b    == free_list[q][i].base
<1>1. /\ region[x] = Nothing /\ DOMAIN vmpool_list = Pool
      /\ region' = [region EXCEPT ![x] = [pool |-> q, base |-> b, size |-> n]]
      /\ no_of_allocated[q] < MaxEntry /\ Fits(q, n) # {} /\ AllocateEntry(q, n)
      /\ vmpool_list' = vmpool_list
  BY DEF Allocate, AllocateEntry
<1>2. n \in Nat \ {0}
  BY VMAssumption
<1>3. /\ ListsOK'
      /\ i \in Index /\ last \in Index \ {0}
      /\ free_list[q][i] \in Entry /\ n <= free_list[q][i].size
      /\ \A k \in Index : allocated_list'[q][k] =
           IF k = last THEN [base |-> b, size |-> n] ELSE allocated_list[q][k]
      /\ no_of_allocated'[q] = last + 1
      /\ \A r \in Pool \ {q} : /\ allocated_list'[r] = allocated_list[r]
                               /\ no_of_allocated'[r] = no_of_allocated[r]
  <2> HIDE DEF b, last
  <2>1. q \in DOMAIN vmpool_list
    BY <1>1
  <2>2. i \in Index
    BY <1>1, FirstFit
  <2>3. PICK k \in Index : k = i /\ k = Min(Fits(q, n))
    BY <2>2
  <2> HIDE DEF i
  <2>4. QED
    BY <1>1, <1>2, <2>1, <2>2, <2>3, AllocateLists DEF b, last
<1>4. b \in Nat /\ b # 0 /\ Span(b, n) \subseteq Spare(q, i)
  <2>1. free_list[q][i].base \in Nat /\ free_list[q][i].size \in Nat
    BY <1>3 DEF Entry
  <2>2. Span(b, n) \subseteq Spare(q, i)
    BY <1>2, <1>3, <2>1, SpanCut DEF Spare
  <2>3. b \in Spare(q, i)
    BY <1>2, <2>1, <2>2, SpanNone
  <2>4. Spare(q, i) \subseteq Span(Base[q], Size[q]) /\ Span(Base[q], Size[q]) \subseteq Nat \ {0}
    BY <1>3, Addresses DEF ListsOK, Parts
  <2>5. QED
    BY <2>1, <2>2, <2>3, <2>4
<1> HIDE DEF i, last, b
<1>5. /\ Valid(q)' = Valid(q) \cup {last}
      /\ \A r \in Pool \ {q} : Valid(r)' = Valid(r)
      /\ last \notin Valid(q)
  <2>1. /\ \A k : k \in 1 .. last <=> k \in 1 .. (last - 1) \/ k = last
        /\ 1 .. last \subseteq Index /\ last \notin 1 .. (last - 1)
        /\ no_of_allocated'[q] - 1 = last
    BY <1>3, Addresses DEF Index
  <2>2. [base |-> b, size |-> n] # Invalid
    BY <1>4 DEF Invalid
  <2>3. Valid(q)' = Valid(q) \cup {last} /\ last \notin Valid(q)
    BY <1>3, <2>1, <2>2 DEF Valid, last
  <2>4. QED
    BY <1>3, <2>3 DEF Valid
<1>6. /\ region'[x] = [pool |-> q, base |-> b, size |-> n]
      /\ \A y \in Array \ {x} : region'[y] = region[y]
      /\ RegionType'
  BY <1>1, <1>2, <1>4 DEF HeldOK, RegionType
<1> PICK m \in Index \ {0} : m = last
  BY <1>3
<1>7. IsEntry(x, q, m)'
  <2>1. allocated_list'[q][m] = [base |-> b, size |-> n]
    BY <1>3
  <2>2. allocated_list'[q][m].base = b /\ allocated_list'[q][m].size = n
    BY <2>1
  <2>3. QED
    BY <1>6, <2>2 DEF IsEntry
<1>8. \A r \in Pool : \A k \in Valid(r) : k \in Index
  BY ValidEntry
<1>9. \A y \in Array \ {x} : \A r \in Pool : \A k \in Valid(r) : IsEntry(y, r, k)' <=> IsEntry(y, r, k)
  BY <1>3, <1>5, <1>6, <1>8 DEF IsEntry
<1>10. \A r \in Pool : \A k \in Valid(r) : ~ IsEntry(x, r, k)
  BY <1>1, Addresses DEF IsEntry, Nothing
<1>11. ASSUME NEW y \in Array, region'[y] # Nothing
       PROVE  \E r \in DOMAIN vmpool_list' : \E k \in Valid(r)' : IsEntry(y, r, k)'
  <2>1. CASE y = x
    BY <1>1, <1>5, <1>7, <2>1
  <2>2. CASE y # x
    <3>1. PICK r \in Pool : \E k \in Valid(r) : IsEntry(y, r, k)
      BY <1>1, <1>6, <1>11, <2>2 DEF HeldOK
    <3>2. QED
      BY <1>1, <1>5, <1>9, <2>2, <3>1
  <2>3. QED
    BY <2>1, <2>2
<1>12. ASSUME NEW r \in Pool, NEW k \in Valid(r)'
       PROVE  \E y \in Array : IsEntry(y, r, k)'
  <2>1. CASE r = q /\ k = m
    BY <1>7, <2>1
  <2>2. CASE ~ (r = q /\ k = m)
    <3>1. k \in Valid(r)
      BY <1>5, <2>2
    <3>2. QED
      BY <1>9, <1>10, <3>1 DEF HeldOK
  <2>3. QED
    BY <2>1, <2>2
<1>13. /\ Elements(x)' = Span(b, n)
       /\ \A y \in Array \ {x} : Elements(y)' = Elements(y)
  BY <1>6 DEF Elements
<1>14. ASSUME NEW y \in Array \ {x}
       PROVE  Elements(y) \cap Span(b, n) = {}
  <2>1. CASE region[y] = Nothing
    BY <2>1, NothingHeld
  <2>2. CASE region[y] # Nothing
    <3>1. PICK r \in Pool : \E k \in Valid(r) : Elements(y) = Used(r, k)
      BY <2>2, HeldEntry
    <3>2. PICK k \in Valid(r) : Elements(y) = Used(r, k)
      BY <3>1
    <3>3. k \in Index /\ Used(r, k) \subseteq Span(Base[r], Size[r])
      BY ValidEntry
    <3>4. Spare(q, i) \subseteq Span(Base[q], Size[q])
      BY <1>3 DEF ListsOK, Parts
    <3>5. CASE r = q
      BY <1>3, <1>4, <3>2, <3>3, <3>5 DEF ListsOK, Parts
    <3>6. CASE r # q
      BY <1>4, <3>2, <3>3, <3>4, <3>6, PoolsApart
    <3>7. QED
      BY <3>5, <3>6
  <2>3. QED
    BY <2>1, <2>2
<1>15. \A y, z \in Array : y # z => Elements(y)' \cap Elements(z)' = {}
  BY <1>13, <1>14 DEF HeldOK
<1>16. Elements(x)' \subseteq Address
  BY <1>3, <1>4, <1>13, Addresses DEF ListsOK, Parts
<1>17. QED
  BY <1>3, <1>6, <1>11, <1>12, <1>15, <1>16 DEF HeldOK

\* The release of a region always finds its entry.
LEMMA ReleaseHeld ==
  ASSUME ListsOK, HeldOK, NEW x \in Array, ReleaseArray(x)
  PROVE  /\ HeldOK' /\ ListsOK'
         /\ free_page(PageOf(region[x].base))
         /\ region' = [region EXCEPT ![x] = Nothing]
         /\ written' = [written EXCEPT ![x] = {}]
         /\ vmpool_list' = vmpool_list /\ mem' = mem
<1> DEFINE q == region[x].pool
<1>1. region[x] # Nothing
  BY DEF ReleaseArray
<1>2. PICK i \in Valid(q) : /\ IsEntry(x, q, i)
                            /\ Elements(x) = Used(q, i)
                            /\ Entries(q, region[x].base) = {i}
  BY <1>1, HeldEntry
<1>3. /\ q \in DOMAIN vmpool_list /\ q \in Pool
      /\ region[x].base \in Elements(x)
  BY <1>1, HeldEntry
<1>4. PICK p \in Pool : p = q
  BY <1>3
<1> HIDE DEF q
<1>5. i = Min(Entries(p, region[x].base))
  <2>1. i \in Nat
    BY <1>3, ValidEntry DEF Index
  <2>2. Min({i}) \in {i}
    BY <2>1, MinOfNat
  <2>3. QED
    BY <1>2, <1>4, <2>2
<1>6. /\ allocated_list[p][i].size > 0 /\ allocated_list[p][i] \in Entry
      /\ allocated_list[p][i] # Invalid /\ i \in 1 .. (no_of_allocated[p] - 1)
      /\ i \in Valid(p)
  BY <1>2, <1>4, ValidEntry DEF Valid
<1>7. /\ ReleaseEntry(p, i)
      /\ free_page(PageOf(region[x].base))
      /\ region' = [region EXCEPT ![x] = Nothing]
      /\ written' = [written EXCEPT ![x] = {}]
      /\ vmpool_list' = vmpool_list /\ mem' = mem
  <2>1. Entries(p, region[x].base) # {}
    BY <1>2, <1>4
  <2>2. allocated_list[p][i].size # 0
    BY <1>6 DEF Entry
  <2>3. region[x].pool = p
    BY <1>4 DEF q
  <2>4. QED
    BY <1>5, <2>1, <2>2, <2>3 DEF ReleaseArray, ReleaseEntry, PageFreed
<1>8. /\ ListsOK'
      /\ i \in Index \ {0}
      /\ \A k \in Index : allocated_list'[p][k] = IF k = i THEN Invalid ELSE allocated_list[p][k]
      /\ \A r \in Pool \ {p} : allocated_list'[r] = allocated_list[r]
  BY <1>3, <1>4, <1>6, <1>7, ReleaseLists
<1>9. no_of_allocated' = no_of_allocated
  BY <1>7 DEF ReleaseEntry
<1>10. \A r \in Pool : \A k \in Valid(r) : k \in Index
  BY ValidEntry
<1>11. /\ Valid(p)' = Valid(p) \ {i}
       /\ \A r \in Pool \ {p} : Valid(r)' = Valid(r)
  <2>1. 1 .. (no_of_allocated[p] - 1) \subseteq Index
    BY Addresses DEF ListsOK, ListTypes, Index
  <2>2. QED
    BY <1>8, <1>9, <2>1 DEF Valid
<1>12. /\ region'[x] = Nothing
       /\ \A y \in Array \ {x} : region'[y] = region[y]
       /\ RegionType'
  BY <1>7 DEF HeldOK, RegionType, Nothing
<1>13. ASSUME NEW y \in Array, NEW r \in Pool, NEW k \in Valid(r), IsEntry(y, r, k),
              ~ (r = p /\ k = i)
       PROVE  y # x /\ IsEntry(y, r, k)' /\ k \in Valid(r)'
  <2>1. y # x
    <3>1. SUFFICES ASSUME y = x PROVE FALSE
      OBVIOUS
    <3>2. region[x].pool = p
      BY <1>4 DEF q
    <3>3. r = p
      BY <1>13, <3>1, <3>2 DEF IsEntry
    <3>4. k \in Entries(p, region[x].base)
      <4>1. k \in 0 .. (no_of_allocated[p] - 1)
        BY <3>3, Addresses DEF Valid, ListsOK, ListTypes
      <4>2. allocated_list[p][k].base = region[x].base
        BY <1>13, <3>1, <3>3 DEF IsEntry
      <4>3. QED
        BY <4>1, <4>2 DEF Entries
    <3>5. QED
      BY <1>2, <1>4, <1>13, <3>3, <3>4
  <2>2. k \in Valid(r)'
    BY <1>11, <1>13
  <2>3. allocated_list'[r][k] = allocated_list[r][k]
    BY <1>8, <1>10, <1>13
  <2>4. QED
    BY <1>12, <1>13, <2>1, <2>2, <2>3 DEF IsEntry
<1>14. ASSUME NEW y \in Array, region'[y] # Nothing
       PROVE  \E r \in DOMAIN vmpool_list' : \E k \in Valid(r)' : IsEntry(y, r, k)'
  <2>1. y # x /\ region[y] # Nothing
    BY <1>12, <1>14
  <2>2. PICK r \in DOMAIN vmpool_list : \E k \in Valid(r) : IsEntry(y, r, k)
    BY <2>1 DEF HeldOK
  <2>3. PICK k \in Valid(r) : IsEntry(y, r, k)
    BY <2>2
  <2>4. r \in Pool
    BY <2>2 DEF ListsOK, Registered
  <2>5. ~ (r = p /\ k = i)
    <3>1. SUFFICES ASSUME r = p, k = i PROVE FALSE
      OBVIOUS
    <3>2. region[y].base = region[x].base /\ region[y].size = region[x].size
      BY <1>2, <1>4, <2>3, <3>1 DEF IsEntry
    <3>3. Elements(y) = Elements(x)
      BY <3>2 DEF Elements
    <3>4. QED
      BY <1>3, <2>1, <3>3 DEF HeldOK
  <2>6. QED
    BY <1>7, <1>13, <2>2, <2>3, <2>4, <2>5
<1>15. ASSUME NEW r \in Pool, NEW k \in Valid(r)'
       PROVE  \E y \in Array : IsEntry(y, r, k)'
  <2>1. k \in Valid(r) /\ ~ (r = p /\ k = i)
    BY <1>11
  <2>2. PICK y \in Array : IsEntry(y, r, k)
    BY <2>1 DEF HeldOK
  <2>3. QED
    BY <1>13, <2>1, <2>2
<1>16. \A y, z \in Array : y # z => Elements(y)' \cap Elements(z)' = {}
  <2>1. Elements(x)' = {} /\ \A y \in Array \ {x} : Elements(y)' = Elements(y)
    BY <1>12, SpanNone DEF Elements, Nothing
  <2>2. QED
    BY <2>1 DEF HeldOK
<1>17. QED
  BY <1>7, <1>8, <1>12, <1>14, <1>15, <1>16 DEF HeldOK

LEMMA ElementAddress ==
  ASSUME ListsOK, HeldOK, NEW x \in Array, NEW j \in Span(0, region[x].size)
  PROVE  /\ region[x] # Nothing
         /\ At(x, j) \in Elements(x) /\ At(x, j) \in Address /\ At(x, j) \in Nat
         /\ PageOf(At(x, j)) \in Page
<1>1. region[x] # Nothing
  BY SpanNone DEF Nothing
<1>2. Elements(x) \subseteq Address
  BY <1>1, HeldEntry
<1>3. region[x].base \in Nat /\ region[x].size \in Nat
  BY DEF HeldOK, RegionType
<1>4. At(x, j) \in Elements(x)
  BY <1>3 DEF At, Elements, Span
<1>5. QED
  BY <1>1, <1>2, <1>4, Addresses, PagesAndTables

\* Addresses are legitimate exactly if they belong to somebody.
LEMMA Legitimates == ListsOK /\ HeldOK => LegitimateIsAllocated
<1> SUFFICES ASSUME ListsOK, HeldOK, NEW a \in Address
             PROVE  Legitimate(a) <=>
                      \/ \E q \in DOMAIN vmpool_list : a \in Span(Base[q], PageSize)
                      \/ \E x \in Array : a \in Elements(x)
  BY DEF LegitimateIsAllocated
<1>1. a \in Nat /\ PageSize \in Nat
  BY Addresses
<1>2. \A q \in DOMAIN vmpool_list : q \in Pool /\ vmpool_list[q] = q
  BY DEF ListsOK, Registered
<1>3. ASSUME NEW q \in Pool, NEW i \in Index
      PROVE  Covers(allocated_list[q][i], a) <=> a \in Used(q, i)
  <2>1. allocated_list[q][i] \in Entry
    BY DEF ListsOK, ListTypes
  <2>2. QED
    BY <1>1, <2>1 DEF Entry, Covers, Used, Span
<1>4. ASSUME NEW q \in DOMAIN vmpool_list
      PROVE  /\ 0 \in 0 .. (no_of_allocated[q] - 1)
             /\ \A i \in 0 .. (no_of_allocated[q] - 1) : i \in Index /\ (i = 0 \/ i \in 1 .. (no_of_allocated[q] - 1))
             /\ Covers(allocated_list[q][0], a) <=> a \in Span(Base[q], PageSize)
  <2>1. no_of_allocated[q] \in 1 .. MaxEntry /\ MaxEntry \in Nat
    <3>1. q \in Pool /\ no_of_allocated[q] \in 0 .. MaxEntry /\ MaxEntry \in Nat
      BY <1>2, Addresses DEF ListsOK, ListTypes
    <3>2. no_of_allocated[q] >= 1
      BY <3>1 DEF ListsOK, Counts
    <3>3. QED
      BY <3>1, <3>2
  <2>2. allocated_list[q][0] = [base |-> Base[q], size |-> PageSize]
    BY <1>2 DEF ListsOK, Counts
  <2>3. allocated_list[q][0].base = Base[q] /\ allocated_list[q][0].size = PageSize
    BY <2>2
  <2>4. Base[q] \in Nat
    BY <1>2, Addresses
  <2>5. Covers(allocated_list[q][0], a) <=> a \in Span(Base[q], PageSize)
    BY <1>1, <2>3, <2>4 DEF Covers, Span
  <2>6. QED
    BY <2>1, <2>5 DEF Index
<1>5. ASSUME Legitimate(a)
      PROVE  \/ \E q \in DOMAIN vmpool_list : a \in Span(Base[q], PageSize)
             \/ \E x \in Array : a \in Elements(x)
  <2>1. PICK q \in DOMAIN vmpool_list : is_legitimate(q, a)
    BY <1>2, <1>5 DEF Legitimate
  <2>2. PICK i \in 0 .. (no_of_allocated[q] - 1) : Covers(allocated_list[q][i], a)
    BY <2>1 DEF is_legitimate
  <2>3. CASE i = 0
    BY <1>4, <2>2, <2>3
  <2>4. CASE i # 0
    <3>1. i \in Index /\ i \in 1 .. (no_of_allocated[q] - 1) /\ a \in Used(q, i)
      BY <1>2, <1>3, <1>4, <2>2, <2>4
    <3>2. i \in Valid(q)
      BY <3>1, SpanNone DEF Valid, Used
    <3>3. PICK x \in Array : IsEntry(x, q, i)
      BY <1>2, <3>2 DEF HeldOK
    <3>4. a \in Elements(x)
      BY <3>1, <3>3 DEF IsEntry, Elements, Used
    <3>5. QED
      BY <3>4
  <2>5. QED
    BY <2>3, <2>4
<1>6. ASSUME NEW q \in DOMAIN vmpool_list, a \in Span(Base[q], PageSize)
      PROVE  Legitimate(a)
  BY <1>2, <1>4, <1>6 DEF Legitimate, is_legitimate
<1>7. ASSUME NEW x \in Array, a \in Elements(x)
      PROVE  Legitimate(a)
  <2>1. region[x] # Nothing
    BY <1>7, NothingHeld
  <2>2. region[x].pool \in DOMAIN vmpool_list /\ \E i \in Valid(region[x].pool) : Elements(x) = Used(region[x].pool, i)
    BY <2>1, HeldEntry
  <2>3. PICK q \in DOMAIN vmpool_list : \E i \in Valid(q) : Elements(x) = Used(q, i)
    BY <2>2
  <2>4. PICK i \in Valid(q) : Elements(x) = Used(q, i)
    BY <2>3
  <2>5. i \in Index \ {0} /\ i \in 0 .. (no_of_allocated[q] - 1)
    <3>1. i \in Index \ {0}
      BY <1>2, ValidEntry
    <3>2. no_of_allocated[q] \in 0 .. MaxEntry /\ MaxEntry \in Nat
      BY <1>2, Addresses DEF ListsOK, ListTypes
    <3>3. QED
      BY <3>1, <3>2 DEF Valid
  <2>6. is_legitimate(q, a)
    BY <1>2, <1>3, <1>7, <2>4, <2>5 DEF is_legitimate
  <2>7. QED
    BY <1>2, <2>6 DEF Legitimate
<1>8. QED
  BY <1>5, <1>6, <1>7

------------------------------------------------------------------------------
(* What the pages hold.                                                     *)

MemType == mem \in [Frame -> [0 .. (PageSize - 1) -> Array \cup {NULL}]]

\* A fault changes neither the frame of a mapped page nor what is in it.
LEMMA FaultMem ==
  ASSUME FrameTypes, FramesAccounted, MemType,
         NEW pg \in Page, Mapped(pg) \/ Enough(pg), handle_fault(pg)
  PROVE  /\ Cleared(pg) \in [Frame -> [0 .. (PageSize - 1) -> Array \cup {NULL}]]
         /\ \A qg \in Page : Mapped(qg) =>
              /\ Mapped(qg)' /\ pte'[qg] = pte[qg]
              /\ Cleared(pg)[pte[qg]] = mem[pte[qg]]
         /\ \A qg \in Page \ {pg} : Mapped(qg) => pte[qg] # FrameFor(pg)
         /\ \A qg \in Page : ~ NoTable(qg) => ~ NoTable(qg)'
         /\ ~ NoTable(pg)'
<1>1. /\ FrameTypes' /\ FramesAccounted'
      /\ Mapped(pg)' /\ pte'[pg] = FrameFor(pg) /\ FrameFor(pg) \in Frame
      /\ \A qg \in Page \ {pg} : pte'[qg] = pte[qg]
  BY FaultFrames
<1>2. Ledger
  BY Accounted
<1>3. ~ NoTable(pg)'
  BY <1>1 DEF FramesAccounted, MappedPage, PresentTable, NoTable
<1>4. ~ NoTable(pg) => pde' = pde
  <2>1. ASSUME ~ NoTable(pg), ~ Mapped(pg)
        PROVE  pde' = pde
    <3>1. pde' = [pde EXCEPT ![TableOf(pg)] = pde[TableOf(pg)]]
      BY <2>1 DEF handle_fault, TableFor
    <3>2. QED
      BY <3>1 DEF FrameTypes
  <2>2. Mapped(pg) => pde' = pde
    BY DEF handle_fault, pageVars
  <2>3. QED
    BY <2>1, <2>2
<1>5. ASSUME NEW qg \in Page, ~ NoTable(qg)
      PROVE  ~ NoTable(qg)'
  <2>1. CASE TableOf(qg) = TableOf(pg)
    BY <1>3, <2>1 DEF NoTable
  <2>2. CASE TableOf(qg) # TableOf(pg)
    <3>1. pde'[TableOf(qg)] = pde[TableOf(qg)]
      BY <2>2, PagesAndTables DEF handle_fault, pageVars, FrameTypes
    <3>2. QED
      BY <1>5, <3>1 DEF NoTable
  <2>3. QED
    BY <2>1, <2>2
<1>6. /\ Cleared(pg) \in [Frame -> [0 .. (PageSize - 1) -> Array \cup {NULL}]]
      /\ \A qg \in Page : Mapped(qg) => Cleared(pg)[pte[qg]] = mem[pte[qg]]
  <2>1. CASE ~ Mapped(pg) /\ NoTable(pg)
    <3>1. Cleared(pg) = [mem EXCEPT ![TableFor(pg)] = Blank]
      BY <2>1 DEF Cleared
    <3>2. Blank \in [0 .. (PageSize - 1) -> Array \cup {NULL}]
      BY DEF Blank
    <3>3. Enough(pg) /\ TableFor(pg) \in free
      BY <2>1, TakenFrames
    <3>4. \A qg \in Page : Mapped(qg) => pte[qg] # TableFor(pg)
      BY <1>2, <3>3 DEF Ledger, FrameTypes
    <3>5. TableFor(pg) \in Frame
      BY <3>3 DEF FrameTypes
    <3> DEFINE g == TableFor(pg)
               clean == Blank
               entries == [0 .. (PageSize - 1) -> Array \cup {NULL}]
    <3> HIDE DEF g, clean, entries
    <3>6. Cleared(pg) = [mem EXCEPT ![g] = clean] /\ mem \in [Frame -> entries]
          /\ clean \in entries /\ g \in Frame
      BY <3>1, <3>2, <3>5 DEF MemType, g, clean, entries
    <3>7. Cleared(pg) \in [Frame -> entries]
      BY <3>6
    <3>8. ASSUME NEW qg \in Page, Mapped(qg)
          PROVE  Cleared(pg)[pte[qg]] = mem[pte[qg]]
      <4>1. pte[qg] \in Frame /\ pte[qg] # g
        BY <3>4, <3>8 DEF g, FrameTypes, Mapped
      <4>2. QED
        BY <3>6, <4>1
    <3>9. QED
      BY <3>7, <3>8 DEF entries
  <2>2. CASE ~ (~ Mapped(pg) /\ NoTable(pg))
    BY <2>2 DEF Cleared, MemType
  <2>3. QED
    BY <2>1, <2>2
<1>7. ASSUME NEW qg \in Page \ {pg}, Mapped(qg)
      PROVE  pte[qg] # FrameFor(pg)
  <2>1. Mapped(qg)'
    BY <1>1, <1>7 DEF Mapped
  <2>2. QED
    BY <1>1, <1>7, <2>1 DEF FramesAccounted, MappedPage
<1>8. \A qg \in Page : Mapped(qg) => Mapped(qg)' /\ pte'[qg] = pte[qg]
  BY <1>1 DEF Mapped, FrameFor
<1>9. QED
  BY <1>3, <1>5, <1>6, <1>7, <1>8

WrittenType ==
  /\ DOMAIN written = Array
  /\ \A x \in Array : written[x] \subseteq Span(0, region[x].size)

FaultType == fault \in {"none", "assert", "memory", "reads_wrong"}

\* A page whose elements were written has a page table, for good.
WrittenTables == \A x \in Array : \A j \in written[x] : ~ NoTable(PageOf(At(x, j)))

IInv ==
  /\ FrameTypes /\ FramesAccounted
  /\ ListsOK /\ HeldOK
  /\ MemType /\ WrittenType /\ FaultType
  /\ WrittenTables /\ WholePagesKept

LEMMA SameElements ==
  ASSUME NEW x \in Array, region'[x] = region[x]
  PROVE  /\ Elements(x)' = Elements(x)
         /\ \A j : At(x, j)' = At(x, j)
         /\ \A j : InWholePage(x, j)' <=> InWholePage(x, j)
<1>1. Elements(x)' = Elements(x) /\ \A j : At(x, j)' = At(x, j)
  BY DEF Elements, At
<1>2. QED
  BY <1>1 DEF InWholePage

\* A fault leaves everybody's elements alone.
LEMMA FaultKeeps ==
  ASSUME IInv, NEW pg \in Page, Mapped(pg) \/ Enough(pg), handle_fault(pg),
         mem' = Cleared(pg), region' = region, written' = written
  PROVE  /\ FrameTypes' /\ FramesAccounted' /\ MemType' /\ WrittenType'
         /\ WrittenTables' /\ WholePagesKept'
<1>1. FrameTypes' /\ FramesAccounted'
  BY FaultFrames DEF IInv
<1>2. /\ MemType'
      /\ \A qg \in Page : Mapped(qg) =>
           Mapped(qg)' /\ pte'[qg] = pte[qg] /\ mem'[pte[qg]] = mem[pte[qg]]
      /\ \A qg \in Page : ~ NoTable(qg) => ~ NoTable(qg)'
  BY FaultMem DEF IInv, MemType
<1>3. WrittenType'
  BY DEF IInv, WrittenType
<1>4. ASSUME NEW x \in Array, NEW j \in written[x]
      PROVE  /\ PageOf(At(x, j)) \in Page
             /\ At(x, j)' = At(x, j)
             /\ InWholePage(x, j)' <=> InWholePage(x, j)
  <2>1. j \in Span(0, region[x].size)
    BY DEF IInv, WrittenType
  <2>2. QED
    BY <2>1, ElementAddress, SameElements DEF IInv
<1>5. WrittenTables'
  BY <1>2, <1>4 DEF IInv, WrittenTables
<1>6. WholePagesKept'
  BY <1>2, <1>4 DEF IInv, WholePagesKept
<1>7. QED
  BY <1>1, <1>2, <1>3, <1>5, <1>6

LEMMA StepConstruct ==
  ASSUME IInv, NEW q \in Pool, ConstructPool(q)
  PROVE  IInv'
<1>1. /\ handle_fault(PageOf(Base[q])) /\ Enough(PageOf(Base[q]))
      /\ mem' = Cleared(PageOf(Base[q]))
      /\ region' = region /\ written' = written /\ fault' = fault
  BY DEF ConstructPool, clientVars
<1>2. PageOf(Base[q]) \in Page
  <2>1. Base[q] \in Nat /\ Size[q] \in Nat /\ Size[q] > 0
    BY Addresses
  <2>2. Base[q] \in Address
    BY <2>1, Addresses, SpanNone
  <2>3. QED
    BY <2>2, PagesAndTables
<1>3. ListsOK' /\ HeldOK'
  BY ConstructLists, ConstructHeld DEF IInv
<1>4. QED
  BY <1>1, <1>2, <1>3, FaultKeeps DEF IInv, FaultType

LEMMA StepAllocate ==
  ASSUME IInv, NEW x \in Array, NEW q \in Pool, NEW n \in Request, Allocate(x, q, n)
  PROVE  IInv'
<1>1. ListsOK' /\ HeldOK'
  BY AllocateHeld DEF IInv
<1>2. /\ UNCHANGED <<pageVars, mem, written, fault>>
      /\ region[x] = Nothing
      /\ \A y \in Array \ {x} : region'[y] = region[y]
  BY DEF Allocate, IInv, HeldOK, RegionType
<1>3. written[x] = {}
  <2>1. Span(0, 0) = {}
    BY SpanNone
  <2>2. region[x].size = 0
    BY <1>2 DEF Nothing
  <2>3. QED
    BY <2>1, <2>2 DEF IInv, WrittenType
<1>4. FrameTypes' /\ FramesAccounted' /\ MemType' /\ FaultType'
  BY <1>2 DEF IInv, pageVars, FrameTypes, FramesAccounted, PresentTable, MappedPage, Mapped, MemType, FaultType
<1>5. WrittenType'
  BY <1>2, <1>3 DEF IInv, WrittenType
<1>6. \A y \in Array \ {x} : \A j : At(y, j)' = At(y, j) /\ (InWholePage(y, j)' <=> InWholePage(y, j))
  BY <1>2, SameElements
<1>7. WrittenTables'
  BY <1>2, <1>3, <1>6 DEF IInv, WrittenTables, NoTable, pageVars
<1>8. WholePagesKept'
  BY <1>2, <1>3, <1>6 DEF IInv, WholePagesKept, Mapped, pageVars
<1>9. QED
  BY <1>1, <1>4, <1>5, <1>7, <1>8 DEF IInv

LEMMA StepRelease ==
  ASSUME IInv, NEW x \in Array, ReleaseArray(x)
  PROVE  IInv'
<1> DEFINE pg == PageOf(region[x].base)
<1>1. /\ HeldOK' /\ ListsOK'
      /\ free_page(pg)
      /\ region' = [region EXCEPT ![x] = Nothing]
      /\ written' = [written EXCEPT ![x] = {}]
      /\ mem' = mem
  BY ReleaseHeld DEF IInv
<1>2. /\ region[x] # Nothing /\ region[x].base \in Address /\ region[x].base \in Elements(x)
      /\ pg \in Page
  BY HeldEntry, PagesAndTables DEF ReleaseArray, IInv
<1> HIDE DEF pg
<1>3. /\ FrameTypes' /\ FramesAccounted'
      /\ \A qg \in Page \ {pg} : pte'[qg] = pte[qg]
  BY <1>1, <1>2, FreedFrames DEF IInv
<1>4. MemType' /\ FaultType'
  BY <1>1 DEF IInv, MemType, FaultType, free_page
<1>5. /\ \A y \in Array \ {x} : region'[y] = region[y] /\ written'[y] = written[y]
      /\ written'[x] = {} /\ DOMAIN written' = Array
  BY <1>1 DEF IInv, WrittenType, HeldOK, RegionType
<1>6. WrittenType'
  BY <1>5 DEF IInv, WrittenType
<1>7. ASSUME NEW y \in Array \ {x}, NEW j \in written[y]
      PROVE  /\ At(y, j)' = At(y, j)
             /\ PageOf(At(y, j)) \in Page
             /\ InWholePage(y, j)' <=> InWholePage(y, j)
             /\ InWholePage(y, j) => PageOf(At(y, j)) # pg
  <2>1. j \in Span(0, region[y].size)
    BY DEF IInv, WrittenType
  <2>2. PageOf(At(y, j)) \in Page
    BY <2>1, ElementAddress DEF IInv
  <2>3. InWholePage(y, j) => PageOf(At(y, j)) # pg
    BY <1>2 DEF pg, InWholePage, IInv, HeldOK
  <2>4. QED
    BY <1>5, <2>2, <2>3, SameElements
<1>8. WrittenTables'
  <2>1. pde' = pde
    BY <1>1 DEF free_page
  <2>2. QED
    BY <1>5, <1>7, <2>1 DEF IInv, WrittenTables, NoTable
<1>9. WholePagesKept'
  BY <1>1, <1>3, <1>5, <1>7 DEF IInv, WholePagesKept, Mapped
<1>10. QED
  BY <1>1, <1>3, <1>4, <1>6, <1>8, <1>9 DEF IInv

\* Steps that leave the lists and the regions alone.
LEMMA SameLists ==
  ASSUME IInv, UNCHANGED <<vmpool_list, listVars, region>>
  PROVE  ListsOK' /\ HeldOK'
<1>1. /\ allocated_list' = allocated_list /\ free_list' = free_list
      /\ no_of_allocated' = no_of_allocated /\ no_of_freed' = no_of_freed
      /\ vmpool_list' = vmpool_list /\ region' = region
  BY DEF listVars
<1>2. ListsOK'
  <2>1. Registered' /\ ListTypes'
    BY <1>1 DEF IInv, ListsOK, Registered, ListTypes
  <2>2. \A q \in Pool : Unused(q)' /\ Parts(q)' /\ Counts(q)'
    BY <1>1, OtherPools DEF IInv, ListsOK
  <2>3. QED
    BY <2>1, <2>2 DEF ListsOK
<1>3. \A q \in Pool : Valid(q)' = Valid(q)
  BY <1>1 DEF Valid
<1>4. \A x \in Array : \A q, i : IsEntry(x, q, i)' <=> IsEntry(x, q, i)
  BY <1>1 DEF IsEntry
<1>5. HeldOK'
  <2>1. RegionType' /\ \A x \in Array : Elements(x)' = Elements(x)
    BY <1>1 DEF IInv, HeldOK, RegionType, Elements
  <2>2. \A q \in DOMAIN vmpool_list : q \in Pool
    BY DEF IInv, ListsOK, Registered
  <2>3. \A x \in Array : region'[x] # Nothing =>
          \E q \in DOMAIN vmpool_list' : \E i \in Valid(q)' : IsEntry(x, q, i)'
    BY <1>1, <1>3, <1>4, <2>2 DEF IInv, HeldOK
  <2>4. \A q \in Pool : \A i \in Valid(q)' : \E x \in Array : IsEntry(x, q, i)'
    BY <1>3, <1>4 DEF IInv, HeldOK
  <2>5. QED
    BY <2>1, <2>3, <2>4 DEF IInv, HeldOK
<1>6. QED
  BY <1>2, <1>5

LEMMA StepWrite ==
  ASSUME IInv, NEW x \in Array, NEW j \in Span(0, region[x].size), Write(x, j)
  PROVE  IInv'
<1>0. At(x, j) \in Elements(x) /\ At(x, j) \in Address /\ PageOf(At(x, j)) \in Page
  BY ElementAddress DEF IInv
<1> PICK pg \in Page : pg = PageOf(At(x, j))
  BY <1>0
<1> DEFINE f  == FrameFor(pg)
           o  == At(x, j) % PageSize
           c  == Cleared(pg)
<1>1. /\ handle_fault(pg)
      /\ Mapped(pg) \/ Enough(pg)
      /\ mem' = [c EXCEPT ![f][o] = x]
      /\ written' = [written EXCEPT ![x] = @ \cup {j}]
      /\ UNCHANGED <<vmpool_list, listVars, region, fault>>
  BY DEF Write, Element
<1>2. o \in 0 .. (PageSize - 1)
  BY ElementAddress, OffsetInPage DEF IInv
<1>3. /\ FrameTypes' /\ FramesAccounted'
      /\ Mapped(pg)' /\ pte'[pg] = f /\ f \in Frame
  BY <1>1, <1>2, FaultFrames DEF IInv
<1>4. /\ c \in [Frame -> [0 .. (PageSize - 1) -> Array \cup {NULL}]]
      /\ \A qg \in Page : Mapped(qg) =>
           /\ Mapped(qg)' /\ pte'[qg] = pte[qg]
           /\ c[pte[qg]] = mem[pte[qg]]
      /\ \A qg \in Page \ {pg} : Mapped(qg) => pte[qg] # f
      /\ \A qg \in Page : ~ NoTable(qg) => ~ NoTable(qg)'
      /\ ~ NoTable(pg)'
  BY <1>1, <1>2, FaultMem DEF IInv
<1> HIDE DEF f, o, c
<1>5. /\ MemType'
      /\ mem'[f][o] = x
      /\ \A h \in Frame, p \in 0 .. (PageSize - 1) : mem'[h][p] = c[h][p] \/ (h = f /\ mem'[h][p] = x)
  <2> DEFINE offsets == 0 .. (PageSize - 1)
             owners  == Array \cup {NULL}
  <2> HIDE DEF offsets, owners
  <2>1. c \in [Frame -> [offsets -> owners]] /\ f \in Frame /\ o \in offsets /\ x \in owners
    BY <1>2, <1>3, <1>4 DEF offsets, owners
  <2>2. mem' \in [Frame -> [offsets -> owners]]
    BY <1>1, <2>1
  <2>3. mem'[f][o] = x /\ \A h \in Frame, p \in offsets : mem'[h][p] = c[h][p] \/ (h = f /\ mem'[h][p] = x)
    BY <1>1, <2>1
  <2>4. QED
    BY <2>2, <2>3 DEF MemType, offsets, owners
<1>6. ListsOK' /\ HeldOK' /\ FaultType'
  BY <1>1, SameLists DEF IInv, FaultType
<1>7. /\ WrittenType'
      /\ \A y \in Array : \A k \in written'[y] : k \in written[y] \/ (y = x /\ k = j)
      /\ \A y \in Array : \A k \in written'[y] : k \in Span(0, region[y].size)
  BY <1>1 DEF IInv, WrittenType
<1>8. \A y \in Array : \A k : At(y, k)' = At(y, k) /\ (InWholePage(y, k)' <=> InWholePage(y, k))
  BY <1>1, SameElements
<1>9. \A y \in Array : \A k \in written'[y] :
        PageOf(At(y, k)) \in Page /\ At(y, k) % PageSize \in 0 .. (PageSize - 1)
  BY <1>7, ElementAddress, OffsetInPage DEF IInv
<1>10. WrittenTables'
  BY <1>4, <1>7, <1>8, <1>9 DEF IInv, WrittenTables
<1>11. ASSUME NEW y \in Array, NEW k \in written'[y], InWholePage(y, k)
       PROVE  /\ pte'[PageOf(At(y, k))] # NULL
              /\ mem'[pte'[PageOf(At(y, k))]][At(y, k) % PageSize] = y
  <2>1. y # x => PageOf(At(y, k)) # pg
    BY <1>0, <1>11 DEF InWholePage, IInv, HeldOK
  <2>2. CASE y = x /\ k = j
    BY <1>3, <1>5, <2>2 DEF o, Mapped
  <2>3. CASE ~ (y = x /\ k = j)
    <3>1. k \in written[y]
      BY <1>7, <2>3
    <3>2. /\ Mapped(PageOf(At(y, k)))
          /\ mem[pte[PageOf(At(y, k))]][At(y, k) % PageSize] = y
      BY <1>11, <3>1 DEF IInv, WholePagesKept
    <3>3. pte[PageOf(At(y, k))] \in Frame
      BY <1>9, <3>2 DEF IInv, FrameTypes, Mapped
    <3>4. PageOf(At(y, k)) # pg => pte[PageOf(At(y, k))] # f
      BY <1>4, <1>9, <3>2
    <3>5. QED
      BY <1>4, <1>5, <1>9, <2>1, <3>2, <3>3, <3>4 DEF Mapped
  <2>4. QED
    BY <2>2, <2>3
<1>12. WholePagesKept'
  BY <1>8, <1>11 DEF WholePagesKept, Mapped
<1>13. QED
  BY <1>3, <1>5, <1>6, <1>7, <1>10, <1>12 DEF IInv

LEMMA StepRead ==
  ASSUME IInv, NEW x \in Array, NEW j \in Span(0, region[x].size), Read(x, j)
  PROVE  IInv'
<1> PICK pg \in Page : pg = PageOf(At(x, j))
  BY ElementAddress DEF IInv
<1>1. /\ handle_fault(pg)
      /\ Mapped(pg) \/ Enough(pg)
      /\ mem' = Cleared(pg)
      /\ fault' = fault \/ fault' = "reads_wrong"
      /\ UNCHANGED <<vmpool_list, listVars, clientVars>>
      /\ region' = region /\ written' = written
  BY DEF Read, Element, clientVars
<1>2. ListsOK' /\ HeldOK'
  BY <1>1, SameLists
<1>3. QED
  BY <1>1, <1>2, FaultKeeps DEF IInv, FaultType

LEMMA StepSame ==
  ASSUME IInv, UNCHANGED <<vmpool_list, listVars, pageVars, mem, clientVars>>, FaultType'
  PROVE  IInv'
<1>1. ListsOK' /\ HeldOK'
  BY SameLists DEF clientVars
<1>2. FrameTypes' /\ FramesAccounted' /\ MemType' /\ WrittenType'
  BY DEF IInv, pageVars, clientVars, FrameTypes, FramesAccounted, PresentTable, MappedPage, Mapped,
         MemType, WrittenType
<1>3. \A y \in Array : \A k : At(y, k)' = At(y, k) /\ (InWholePage(y, k)' <=> InWholePage(y, k))
  BY SameElements DEF clientVars
<1>4. WrittenTables' /\ WholePagesKept'
  BY <1>3 DEF IInv, WrittenTables, WholePagesKept, NoTable, Mapped, pageVars, clientVars
<1>5. QED
  BY <1>1, <1>2, <1>4 DEF IInv

(***************************************************************************)
(* The invariant holds initially and every call keeps it.                  *)
(***************************************************************************)
THEOREM Inductive == Spec => []IInv
<1>1. Init => IInv
  <2> SUFFICES ASSUME Init PROVE IInv
    OBVIOUS
  <2> USE DEF Init
  <2>1. /\ FrameTypes /\ MemType /\ FaultType
        /\ \A pg \in Page : ~ Mapped(pg)
        /\ \A t \in Table : pde[t] = NULL
    <3>1. NULL \notin Frame /\ Blank \in [0 .. (PageSize - 1) -> Array \cup {NULL}]
      BY FrameFacts DEF Blank
    <3>2. MemType
      BY <3>1 DEF MemType
    <3>3. FrameTypes /\ FaultType
      BY <3>1 DEF FrameTypes, FaultType
    <3>4. (\A pg \in Page : ~ Mapped(pg)) /\ \A t \in Table : pde[t] = NULL
      BY DEF Mapped
    <3>5. QED
      BY <3>2, <3>3, <3>4
  <2>2. FramesAccounted
    BY <2>1 DEF FramesAccounted, PresentTable, MappedPage, FrameTypes
  <2>3. ListsOK
    <3>1. /\ \A q \in Pool, i \in Index : allocated_list[q][i] = Invalid /\ free_list[q][i] = Invalid
          /\ \A q \in Pool : no_of_allocated[q] = 0 /\ no_of_freed[q] = 0
          /\ vmpool_list = <<>> /\ ListTypes
      BY EntryFacts, Addresses DEF ListTypes, Index
    <3>2. Registered /\ DOMAIN vmpool_list = {}
      <4>1. Len(Base) \in Nat
        BY VMAssumption
      <4>2. QED
        BY <3>1, <4>1 DEF Registered
    <3>3. \A q \in Pool, i \in Index : Used(q, i) = {} /\ Spare(q, i) = {}
      BY <3>1, SpanNone DEF Used, Spare
    <3>4. \A q \in Pool : Unused(q) /\ Parts(q) /\ Counts(q)
      BY <3>1, <3>2, <3>3 DEF Unused, Parts, Counts
    <3>5. QED
      BY <3>1, <3>2, <3>4 DEF ListsOK
  <2>4. /\ HeldOK /\ WrittenType /\ \A x \in Array : written[x] = {}
    <3>1. Nothing \in [pool : Pool \cup {0}, base : Nat, size : Nat]
      BY DEF Nothing
    <3>2. RegionType /\ \A x \in Array : region[x] = Nothing
      BY <3>1 DEF RegionType
    <3>3. \A x \in Array : Elements(x) = {}
      BY <3>2, NothingHeld
    <3>4. \A q \in Pool : Valid(q) = {}
      BY DEF Valid
    <3>5. HeldOK
      BY <3>2, <3>3, <3>4 DEF HeldOK
    <3>6. QED
      BY <3>5 DEF WrittenType
  <2>5. WrittenTables /\ WholePagesKept
    BY <2>4 DEF WrittenTables, WholePagesKept
  <2>6. QED
    BY <2>1, <2>2, <2>3, <2>4, <2>5 DEF IInv
<1>2. IInv /\ [Next]_vars => IInv'
  <2> SUFFICES ASSUME IInv, [Next]_vars PROVE IInv'
    OBVIOUS
  <2>1. ASSUME NEW q \in Pool, ConstructPool(q)
        PROVE  IInv'
    BY <2>1, StepConstruct
  <2>2. ASSUME NEW x \in Array, NEW q \in Pool, NEW n \in Request, Allocate(x, q, n)
        PROVE  IInv'
    BY <2>2, StepAllocate
  <2>3. ASSUME NEW x \in Array, ReleaseArray(x)
        PROVE  IInv'
    BY <2>3, StepRelease
  <2>4. ASSUME NEW x \in Array, NEW j \in Span(0, region[x].size), Write(x, j)
        PROVE  IInv'
    BY <2>4, StepWrite
  <2>5. ASSUME NEW x \in Array, NEW j \in Span(0, region[x].size), Read(x, j)
        PROVE  IInv'
    BY <2>5, StepRead
  <2>6. ASSUME NEW x \in Array, NEW j \in Span(0, region[x].size), AccessFails(x, j)
        PROVE  IInv'
    BY <2>6, StepSame DEF AccessFails, FaultType
  <2>7. CASE UNCHANGED vars
    BY <2>7, StepSame DEF vars, IInv, FaultType
  <2>8. QED
    BY <2>1, <2>2, <2>3, <2>4, <2>5, <2>6, <2>7 DEF Next
<1>3. QED
  BY <1>1, <1>2, PTL DEF Spec

------------------------------------------------------------------------------
(* The properties.                                                          *)

(***************************************************************************)
(* The variables keep their types; in particular, the lists never          *)
(* overflow, as a release adds an entry to one only after an allocation    *)
(* added one to the other (allocate, release).                             *)
(***************************************************************************)
THEOREM TypeCorrect == Spec => []TypeOK
<1>1. IInv => TypeOK
  <2> SUFFICES ASSUME IInv PROVE TypeOK
    OBVIOUS
  <2>1. \A x \in Array : Elements(x) \subseteq Address
    BY HeldEntry, NothingHeld DEF IInv
  <2>2. ListTypes /\ Registered
    BY DEF IInv, ListsOK
  <2>3. QED
    BY <2>1, <2>2 DEF IInv, TypeOK, ListTypes, Registered, Index, FrameTypes, MemType, HeldOK,
                      RegionType, WrittenType, FaultType
<1>2. QED
  BY <1>1, Inductive, PTL

(***************************************************************************)
(* For any pools and any calls, every frame is free or in one place        *)
(* (handle_fault, free_page).                                              *)
(***************************************************************************)
THEOREM FramesSafe == Spec => []FramesAccounted
<1>1. IInv => FramesAccounted
  BY DEF IInv
<1>2. QED
  BY <1>1, Inductive, PTL

(***************************************************************************)
(* For any pools and any calls, exactly the addresses of allocated regions *)
(* and of the lists' pages are legitimate (is_legitimate).                 *)
(***************************************************************************)
THEOREM Legitimacy == Spec => []LegitimateIsAllocated
<1>1. IInv => LegitimateIsAllocated
  BY Legitimates DEF IInv
<1>2. QED
  BY <1>1, Inductive, PTL

(***************************************************************************)
(* For any pools and any calls, elements in pages of their own keep what   *)
(* was written to them (release, free_page, handle_fault).                 *)
(***************************************************************************)
THEOREM PagesKept == Spec => []WholePagesKept
<1>1. IInv => WholePagesKept
  BY DEF IInv
<1>2. QED
  BY <1>1, Inductive, PTL

(***************************************************************************)
(* No access ever fails an assertion, and no release of an array of which  *)
(* an element under its first page table was written (handle_fault).       *)
(***************************************************************************)
THEOREM Asserts == Spec => AssertsOnlyWhenUnwritten
<1> DEFINE Step ==
      fault' = "assert" =>
        \E x \in Array :
          /\ ReleaseArray(x)
          /\ \A j \in written[x] : TableOf(PageOf(At(x, j))) # TableOf(PageOf(At(x, 0)))
<1>1. IInv /\ [Next]_vars => [Step]_vars
  <2> SUFFICES ASSUME IInv, Next, fault' = "assert" PROVE Step
    BY DEF vars
  <2>1. ASSUME NEW q \in Pool, ConstructPool(q)
        PROVE  FALSE
    BY <2>1 DEF ConstructPool, Running
  <2>2. ASSUME NEW x \in Array, NEW q \in Pool, NEW n \in Request, Allocate(x, q, n)
        PROVE  FALSE
    BY <2>2 DEF Allocate, Running
  <2>3. ASSUME NEW x \in Array, ReleaseArray(x)
        PROVE  Step
    <3>1. /\ region[x] # Nothing /\ Running
          /\ free_page(PageOf(region[x].base))
      BY <2>3, ReleaseHeld DEF IInv, ReleaseArray
    <3>2. NoTable(PageOf(region[x].base))
      BY <3>1 DEF free_page, Running
    <3>3. At(x, 0) = region[x].base
      BY DEF At, IInv, HeldOK, RegionType
    <3>4. \A j \in written[x] : TableOf(PageOf(At(x, j))) # TableOf(PageOf(At(x, 0)))
      BY <3>2, <3>3 DEF IInv, WrittenTables, NoTable
    <3>5. QED
      BY <2>3, <3>4
  <2>4. ASSUME NEW x \in Array, NEW j \in Span(0, region[x].size),
               Write(x, j) \/ Read(x, j) \/ AccessFails(x, j)
        PROVE  FALSE
    <3>1. Legitimate(At(x, j))
      BY ElementAddress, Legitimates DEF IInv, LegitimateIsAllocated
    <3>2. QED
      BY <2>4, <3>1 DEF Write, Read, AccessFails, Element, Running
  <2>5. QED
    BY <2>1, <2>2, <2>3, <2>4 DEF Next
<1>2. QED
  BY <1>1, Inductive, PTL DEF Spec, AssertsOnlyWhenUnwritten

------------------------------------------------------------------------------
(* The pools as an allocator of extents.                                    *)

LEMMA FreeExtentsAre ==
  \A a : a \in FreeExtents <=> \E q \in Pool, i \in Index : a \in Spare(q, i)
BY DEF FreeExtents, Spare, Index

\* main() constructs the pools before a client allocates anything.
BuiltFirst == DOMAIN vmpool_list = Pool \/ \A x \in Array : region[x] = Nothing

LEMMA ConstructedFirst == Spec => []BuiltFirst
<1>1. Init => BuiltFirst
  BY DEF Init, BuiltFirst
<1>2. IInv /\ BuiltFirst /\ [Next]_vars => BuiltFirst'
  <2> SUFFICES ASSUME IInv, BuiltFirst, [Next]_vars PROVE BuiltFirst'
    OBVIOUS
  <2>1. ASSUME NEW q \in Pool, ConstructPool(q)
        PROVE  BuiltFirst'
    <3>1. q \notin DOMAIN vmpool_list /\ region' = region
      BY <2>1, ConstructLists DEF IInv, ConstructPool, clientVars
    <3>2. QED
      BY <3>1 DEF BuiltFirst
  <2>2. ASSUME NEW x \in Array, NEW q \in Pool, NEW n \in Request, Allocate(x, q, n)
        PROVE  BuiltFirst'
    BY <2>2 DEF Allocate, BuiltFirst
  <2>3. ASSUME NEW x \in Array, ReleaseArray(x)
        PROVE  BuiltFirst'
    <3>1. vmpool_list' = vmpool_list /\ region[x] # Nothing
      BY <2>3, ReleaseHeld DEF IInv, ReleaseArray
    <3>2. QED
      BY <3>1 DEF BuiltFirst
  <2>4. ASSUME NEW x \in Array, NEW j \in Span(0, region[x].size),
               Write(x, j) \/ Read(x, j) \/ AccessFails(x, j)
        PROVE  BuiltFirst'
    BY <2>4 DEF Write, Read, AccessFails, clientVars, BuiltFirst
  <2>5. CASE UNCHANGED vars
    BY <2>5 DEF vars, clientVars, BuiltFirst
  <2>6. QED
    BY <2>1, <2>2, <2>3, <2>4, <2>5 DEF Next
<1>3. QED
  BY <1>1, <1>2, Inductive, PTL DEF Spec

LEMMA LongestRequest ==
  ASSUME NEW n \in Request
  PROVE  Max(Request) \in Nat /\ n <= Max(Request) /\ n \in Nat \ {0}
<1>1. PICK longest \in Request : \A r \in Request : r <= longest
  BY VMAssumption
<1>2. Request \subseteq Nat \ {0}
  BY VMAssumption
<1>3. Max(Request) \in Request /\ \A r \in Request : Max(Request) >= r
  <2>1. \A r \in Request : longest >= r
    BY <1>1, <1>2
  <2>2. QED
    BY <2>1 DEF Max
<1>4. QED
  BY <1>2, <1>3

LEMMA AllocateExtent ==
  ASSUME IInv, NEW x \in Array, NEW q \in Pool, NEW n \in Request, Allocate(x, q, n)
  PROVE  \E a \in FreeExtents : \E b \in a .. (a + Max(Request) - 1) :
           /\ HeldExtents[x] = {}
           /\ HeldExtents' = [HeldExtents EXCEPT ![x] = a .. b]
           /\ a .. b \subseteq FreeExtents
           /\ FreeExtents' = FreeExtents \ (a .. b)
<1> DEFINE i == Min(Fits(q, n))
           a == free_list[q][i].base
           s == free_list[q][i].size
           b == a + n - 1
<1>1. n \in Nat \ {0} /\ Max(Request) \in Nat /\ n <= Max(Request)
  BY LongestRequest
<1>2. /\ region[x] = Nothing /\ DOMAIN vmpool_list = Pool
      /\ region' = [region EXCEPT ![x] = [pool |-> q, base |-> a, size |-> n]]
      /\ no_of_allocated[q] < MaxEntry /\ Fits(q, n) # {} /\ AllocateEntry(q, n)
  BY DEF Allocate, AllocateEntry
<1> PICK k \in Index : k = Min(Fits(q, n))
  BY <1>2, FirstFit DEF IInv
<1>3. k = i /\ q \in DOMAIN vmpool_list
  BY <1>2
<1> HIDE DEF i, a, s
<1>4. /\ free_list[q][k] \in Entry /\ n <= free_list[q][k].size
      /\ free_list'[q][k] = CutOff(free_list[q][k], n)
      /\ \A l \in Index \ {k} : free_list'[q][l] = free_list[q][l]
      /\ \A r \in Pool \ {q} : free_list'[r] = free_list[r]
  <2>1. free_list \in [Pool -> [Index -> Entry]]
    BY DEF IInv, ListsOK, ListTypes
  <2>2. k \in Fits(q, n)
    BY <1>2, FirstFit DEF IInv
  <2>3. free_list' = [free_list EXCEPT ![q][k] = CutOff(@, n)]
    BY <1>2 DEF AllocateEntry
  <2>4. QED
    BY <2>1, <2>2, <2>3 DEF Fits
<1>5. a \in Nat /\ s \in Nat /\ n <= s /\ a = free_list[q][k].base /\ s = free_list[q][k].size
  BY <1>3, <1>4 DEF Entry, a, s
<1>6. /\ a .. b = Span(a, n) /\ Spare(q, k) = Span(a, s)
      /\ a \in Span(a, n) /\ Span(a, n) \subseteq Span(a, s)
      /\ Span(a + n, s - n) = Span(a, s) \ Span(a, n)
      /\ b \in a .. (a + Max(Request) - 1)
  BY <1>1, <1>5 DEF Span, Spare
<1>7. /\ Spare(q, k)' = Span(a, s) \ Span(a, n)
      /\ \A l \in Index \ {k} : Spare(q, l)' = Spare(q, l)
      /\ \A r \in Pool \ {q}, l \in Index : Spare(r, l)' = Spare(r, l)
  <2>1. free_list'[q][k].base = a + n /\ free_list'[q][k].size = s - n
    BY <1>4, <1>5 DEF CutOff
  <2>2. QED
    BY <1>4, <1>6, <2>1 DEF Spare
<1>8. ASSUME NEW r \in Pool, NEW l \in Index, ~ (r = q /\ l = k)
      PROVE  Spare(r, l) \cap Span(a, n) = {}
  <2>1. /\ Spare(r, l) \subseteq Span(Base[r], Size[r])
        /\ Spare(q, k) \subseteq Span(Base[q], Size[q])
        /\ r = q => Spare(r, l) \cap Spare(q, k) = {}
    BY <1>4, <1>8 DEF IInv, ListsOK, Parts
  <2>2. QED
    BY <1>6, <2>1, PoolsApart
<1>9. ASSUME NEW e
      PROVE  e \in FreeExtents' <=> e \in FreeExtents /\ e \notin Span(a, n)
  <2>1. e \in FreeExtents' <=> \E r \in Pool, l \in Index : e \in Spare(r, l)'
    BY DEF FreeExtents, Spare, Index
  <2>2. QED
    BY <1>4, <1>6, <1>7, <1>8, <2>1, FreeExtentsAre
<1>10. HeldExtents[x] = {} /\ HeldExtents' = [HeldExtents EXCEPT ![x] = Span(a, n)]
  <2>1. Elements(x) = {}
    BY <1>2, NothingHeld
  <2>2. Elements(x)' = Span(a, n) /\ \A y \in Array \ {x} : Elements(y)' = Elements(y)
    BY <1>2 DEF IInv, HeldOK, RegionType, Elements
  <2>3. QED
    BY <2>1, <2>2 DEF HeldExtents
<1>11. Span(a, n) \subseteq FreeExtents /\ a \in FreeExtents
  BY <1>4, <1>6, FreeExtentsAre
<1>12. QED
  BY <1>6, <1>9, <1>10, <1>11

LEMMA ReleaseExtent ==
  ASSUME IInv, NEW x \in Array, ReleaseArray(x)
  PROVE  /\ HeldExtents[x] # {}
         /\ FreeExtents' = FreeExtents \cup HeldExtents[x]
         /\ HeldExtents' = [HeldExtents EXCEPT ![x] = {}]
<1>1. /\ region[x] # Nothing /\ region[x].base \in Elements(x)
      /\ region' = [region EXCEPT ![x] = Nothing]
  BY HeldEntry, ReleaseHeld DEF IInv, ReleaseArray
<1>2. PICK q \in Pool : q = region[x].pool
  BY <1>1, HeldEntry DEF IInv
<1>3. PICK i \in Valid(q) : Elements(x) = Used(q, i) /\ Entries(q, region[x].base) = {i}
  BY <1>1, <1>2, HeldEntry DEF IInv
<1>4. /\ i \in Index /\ allocated_list[q][i] \in Entry /\ allocated_list[q][i].size > 0
      /\ q \in DOMAIN vmpool_list
  BY <1>2, <1>3, ValidEntry DEF IInv
<1>5. ReleaseEntry(q, i)
  <2>1. Min({i}) = i
    <3>1. i \in Nat
      BY <1>4 DEF Index
    <3>2. QED
      BY <3>1, MinOfNat
  <2>2. Entries(q, region[x].base) # {} /\ Min(Entries(q, region[x].base)) = i
    BY <1>3, <2>1
  <2>3. allocated_list[q][i].size # 0
    BY <1>4 DEF Entry
  <2>4. QED
    BY <1>2, <2>2, <2>3 DEF ReleaseArray, ReleaseEntry
<1>6. /\ no_of_freed[q] \in Index /\ free_list[q][no_of_freed[q]] = Invalid
  <2>1. i \in 1 .. (no_of_allocated[q] - 1) /\ allocated_list[q][i] # Invalid
    BY <1>3 DEF Valid
  <2>2. ListsOK
    BY DEF IInv
  <2>3. QED
    BY <1>4, <1>5, <2>1, <2>2, ReleaseLists
<1>7. PICK k \in Index : k = no_of_freed[q]
  BY <1>6
<1>8. /\ free_list'[q][k] = allocated_list[q][i]
      /\ \A l \in Index \ {k} : free_list'[q][l] = free_list[q][l]
      /\ \A r \in Pool \ {q} : free_list'[r] = free_list[r]
  <2>1. free_list \in [Pool -> [Index -> Entry]]
    BY DEF IInv, ListsOK, ListTypes
  <2>2. free_list' = [free_list EXCEPT ![q][k] = allocated_list[q][i]]
    BY <1>5, <1>7 DEF ReleaseEntry
  <2>3. QED
    BY <2>1, <2>2
<1>9. /\ Spare(q, k)' = Used(q, i) /\ Spare(q, k) = {}
      /\ \A l \in Index \ {k} : Spare(q, l)' = Spare(q, l)
      /\ \A r \in Pool \ {q}, l \in Index : Spare(r, l)' = Spare(r, l)
  BY <1>6, <1>7, <1>8, SpanNone DEF Spare, Used
<1>10. HeldExtents[x] = Used(q, i)
  BY <1>3 DEF HeldExtents
<1>11. ASSUME NEW e
       PROVE  e \in FreeExtents' <=> e \in FreeExtents \/ e \in Used(q, i)
  <2>1. e \in FreeExtents' <=> \E r \in Pool, l \in Index : e \in Spare(r, l)'
    BY DEF FreeExtents, Spare, Index
  <2>2. QED
    BY <1>9, <2>1, FreeExtentsAre
<1>12. HeldExtents' = [HeldExtents EXCEPT ![x] = {}]
  <2>1. Elements(x)' = {} /\ \A y \in Array \ {x} : Elements(y)' = Elements(y)
    BY <1>1, SpanNone DEF IInv, HeldOK, RegionType, Elements, Nothing
  <2>2. QED
    BY <2>1 DEF HeldExtents
<1>13. QED
  BY <1>1, <1>10, <1>11, <1>12, <1>3 DEF HeldExtents

(***************************************************************************)
(* For any pools and any calls, allocate and release are those of an       *)
(* allocator of extents: no address is given to two clients, none is lost. *)
(***************************************************************************)
THEOREM Refinement == Spec => ImplementsRegions
<1> USE DEF Regions!Nobody, Regions!vars
<1>1. Init => Regions!Init
  <2> SUFFICES ASSUME Init PROVE Regions!Init
    OBVIOUS
  <2>1. HeldExtents = [x \in Array |-> {}]
    <3>1. \A x \in Array : Elements(x) = {}
      BY NothingHeld DEF Init
    <3>2. QED
      BY <3>1 DEF HeldExtents
  <2>2. FreeExtents \subseteq Address
    <3>1. \A q \in Pool, i \in Index : Spare(q, i) = {}
      BY SpanNone DEF Init, Spare, Index
    <3>2. QED
      BY <3>1, FreeExtentsAre
  <2>3. QED
    BY <2>1, <2>2 DEF Regions!Init
<1>2. IInv /\ IInv' /\ BuiltFirst /\ [Next]_vars => [Regions!Next]_(Regions!vars)
  <2> SUFFICES ASSUME IInv, IInv', BuiltFirst, [Next]_vars
               PROVE  Regions!Next \/ (FreeExtents' = FreeExtents /\ HeldExtents' = HeldExtents)
    OBVIOUS
  <2>1. ASSUME NEW q \in Pool, ConstructPool(q)
        PROVE  Regions!Next
    <3>1. q \notin DOMAIN vmpool_list /\ region' = region
      BY <2>1, ConstructLists DEF IInv, ConstructPool, clientVars
    <3>2. \A x \in Array : Elements(x) = {}
      BY <3>1, NothingHeld DEF BuiltFirst
    <3>3. HeldExtents' = HeldExtents /\ \A x \in Array : HeldExtents[x] = {}
      BY <3>1, <3>2 DEF HeldExtents, Elements
    <3>4. FreeExtents' \subseteq Address
      <4>1. \A r \in Pool, i \in Index : Spare(r, i)' \subseteq Address
        BY Addresses DEF IInv, ListsOK, Parts
      <4>2. \A e \in FreeExtents' : \E r \in Pool, i \in Index : e \in Spare(r, i)'
        BY DEF FreeExtents, Spare, Index
      <4>3. QED
        BY <4>1, <4>2
    <3>5. QED
      BY <3>3, <3>4 DEF Regions!Next, Regions!Setup
  <2>2. ASSUME NEW x \in Array, NEW q \in Pool, NEW n \in Request, Allocate(x, q, n)
        PROVE  Regions!Next
    <3>0. PICK a \in FreeExtents : \E b \in a .. (a + Max(Request) - 1) :
            /\ HeldExtents[x] = {}
            /\ HeldExtents' = [HeldExtents EXCEPT ![x] = a .. b]
            /\ a .. b \subseteq FreeExtents
            /\ FreeExtents' = FreeExtents \ (a .. b)
      BY <2>2, AllocateExtent
    <3>1. PICK b \in a .. (a + Max(Request) - 1) :
            /\ HeldExtents[x] = {}
            /\ HeldExtents' = [HeldExtents EXCEPT ![x] = a .. b]
            /\ a .. b \subseteq FreeExtents
            /\ FreeExtents' = FreeExtents \ (a .. b)
      BY <3>0
    <3>2. Regions!Get(x, a, b)
      BY <3>1 DEF Regions!Get
    <3>3. \E y \in Array : \E c \in FreeExtents : \E d \in c .. (c + Max(Request) - 1) : Regions!Get(y, c, d)
      BY <3>2
    <3>4. QED
      BY <3>3 DEF Regions!Next
  <2>3. ASSUME NEW x \in Array, ReleaseArray(x)
        PROVE  Regions!Next
    <3>1. /\ HeldExtents[x] # {}
          /\ FreeExtents' = FreeExtents \cup HeldExtents[x]
          /\ HeldExtents' = [HeldExtents EXCEPT ![x] = {}]
      BY <2>3, ReleaseExtent
    <3>2. Regions!Release(x)
      BY <3>1 DEF Regions!Release
    <3>3. QED
      BY <3>2 DEF Regions!Next
  <2>4. ASSUME UNCHANGED <<free_list, region>>
        PROVE  FreeExtents' = FreeExtents /\ HeldExtents' = HeldExtents
    BY <2>4 DEF FreeExtents, HeldExtents, Elements
  <2>5. ASSUME NEW x \in Array, NEW j \in Span(0, region[x].size),
               Write(x, j) \/ Read(x, j) \/ AccessFails(x, j)
        PROVE  UNCHANGED <<free_list, region>>
    BY <2>5 DEF Write, Read, AccessFails, listVars, clientVars
  <2>6. CASE UNCHANGED vars
    BY <2>4, <2>6 DEF vars, listVars, clientVars
  <2>7. QED
    BY <2>1, <2>2, <2>3, <2>4, <2>5, <2>6 DEF Next
<1>3. QED
  BY <1>1, <1>2, Inductive, ConstructedFirst, PTL DEF Spec, ImplementsRegions, Regions!Spec
==============================================================================
