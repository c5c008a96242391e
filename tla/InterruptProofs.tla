--------------------------- MODULE InterruptProofs ---------------------------
(***************************************************************************)
(* Proofs about the two modules in which the timer interrupts at any       *)
(* instruction: Console, what main() and the handler print together, and   *)
(* ContextSwitch, what the handler leaves of the stacks of the threads.    *)
(***************************************************************************)
EXTENDS Console, ContextSwitch, TLAPS

(***************************************************************************)
(* Console.  The rows that have left the screen, and what it means that    *)
(* the cursor and text memory show the paper from row g on.                *)
(***************************************************************************)
Gone(p) == IF p.row >= Rows THEN p.row - (Rows - 1) ELSE 0

CursorAt(p, g) == csr_x = p.col /\ csr_y = p.row - g

TextIs(p, g, m) == \A k \in Cell : m[k] = Visible(p, k \div Cols + g, k % Cols)

\* The same when the rows have been moved up, and the last one is not yet blank.
RowsMoved(q, g, m) ==
  \A k \in Cell :
    m[k] = Visible(q, k \div Cols + g + (IF k < (Rows - 1) * Cols THEN 1 ELSE 0), k % Cols)

\* Nothing is printed from the cursor on.
PaperOK(p) ==
  /\ p \in [row : Nat, col : 0 .. (Cols - 1), marks : SUBSET (Nat \X Nat \X Ink)]
  /\ \A m \in p.marks : m[1] < p.row \/ (m[1] = p.row /\ m[2] < p.col)

\* The cursor wherever the handler may come in between: it is off the screen
\* only where putch is about to correct it, and never in both directions.  A
\* handler that has begun has corrected it, and leaves it at the margin.
CursorInv ==
  /\ csr_x = Cols => pc = "edge" /\ line <= 1
  /\ csr_y = Rows => pc \in {"edge", "scroll", "rows", "copy", "blank", "last"} /\ line <= 1
  /\ line <= 1 /\ csr_y = Rows => csr_x < Cols
  /\ line <= 1 /\ pc \in {"inc_y", "store_y", "edge_y", "edge_store"} => csr_x = 0
  /\ pc = "rows" => csr_y >= Rows - 1
  /\ pc \in {"copy", "blank"} => temp <= 1
  /\ pc \in {"where", "store_y", "edge_store"} => temp < Rows
  /\ pc = "put" => temp < Rows * Cols
  /\ pc \in {"tab", "store_x"} => temp < Cols

CharInv ==
  /\ pc # "idle" => char \in Printable \cup {NewLine, TabChar}
  /\ pc \in {"where", "put", "inc_x", "store_x"} => char \in Printable /\ char \notin {NewLine, TabChar}
  /\ pc = "tab" => char = TabChar
  /\ pc \in {"return", "inc_y", "store_y"} => char = NewLine

\* What has been printed, seen from each place in putch.
Shown(p, q, g) ==
  /\ pc \in {"idle", "where", "put", "tab", "return"} => CursorAt(p, g) /\ TextIs(p, g, text)
  /\ pc = "where" => temp = csr_y
  /\ pc = "put" => temp = csr_y * Cols + csr_x
  /\ pc \in {"inc_x", "store_x"} => CursorAt(p, g) /\ TextIs(q, g, text)
  /\ pc \in {"store_x", "tab"} => temp = csr_x
  /\ pc \in {"inc_y", "store_y", "edge_y", "edge_store"} =>
       q.col = 0 /\ csr_y + 1 = q.row - g /\ TextIs(q, g, text)
  /\ pc \in {"store_y", "edge_store"} => temp = csr_y
  /\ pc = "edge" =>
       /\ TextIs(q, g, text)
       /\ IF csr_x < Cols THEN CursorAt(q, g) ELSE q.col = 0 /\ csr_y + 1 = q.row - g
  /\ pc \in {"scroll", "rows", "copy", "blank", "last"} => CursorAt(q, g)
  /\ pc \in {"scroll", "rows", "copy"} => TextIs(q, g, text)
  /\ pc \in {"rows", "copy", "blank", "last"} => csr_y = Rows
  /\ pc \in {"copy", "blank"} => temp = 1
  /\ pc = "blank" => RowsMoved(q, g, text)
  /\ pc = "last" => TextIs(q, g + 1, text)

ShownInv ==
  /\ PaperOK(paper)
  /\ quiet =>
       /\ line # 0 => pc = "idle"
       /\ Shown(paper, Typed(paper, char), Gone(paper))

ConsoleInv == ConsoleTypeOK /\ CursorInv /\ CharInv /\ ShownInv
------------------------------------------------------------------------------
(* Arithmetic.  n is a number of columns or the distance of tab stops.      *)

LEMMA Split ==
  ASSUME NEW n \in Nat \ {0}, NEW k \in Nat
  PROVE  /\ k \div n \in Nat /\ k % n \in 0 .. (n - 1)
         /\ k = (k \div n) * n + (k % n)
OBVIOUS

LEMMA Scale ==
  ASSUME NEW n \in Nat, NEW a \in Int, NEW b \in Int, a <= b
  PROVE  a * n <= b * n
OBVIOUS

LEMMA ScaleNat ==
  ASSUME NEW n \in Nat, NEW a \in Nat
  PROVE  a * n \in Nat
OBVIOUS

LEMMA Distribute ==
  ASSUME NEW n \in Int, NEW a \in Int, NEW b \in Int
  PROVE  (a + b) * n = a * n + b * n /\ (a - b) * n = a * n - b * n
OBVIOUS

\* The quotient and the remainder are the only ones.
LEMMA Unique ==
  ASSUME NEW n \in Nat \ {0}, NEW q \in Nat, NEW r \in 0 .. (n - 1)
  PROVE  (q * n + r) \div n = q /\ (q * n + r) % n = r
<1> DEFINE k == q * n + r
           a == k \div n
           b == k % n
<1>1. k \in Nat
  BY ScaleNat
<1>2. a \in Nat /\ b \in 0 .. (n - 1) /\ k = a * n + b
  BY <1>1, Split
<1>3. ~(a < q)
  <2> SUFFICES ASSUME a < q PROVE FALSE
    OBVIOUS
  <2>1. (a + 1) * n <= q * n
    BY <1>2, Scale
  <2>2. (a + 1) * n = a * n + n
    BY <1>2, Distribute
  <2>3. a * n \in Nat /\ q * n \in Nat
    BY <1>2, ScaleNat
  <2> HIDE DEF a, b
  <2>4. QED
    BY <1>2, <2>1, <2>2, <2>3
<1>4. ~(q < a)
  <2> SUFFICES ASSUME q < a PROVE FALSE
    OBVIOUS
  <2>1. (q + 1) * n <= a * n
    BY <1>2, Scale
  <2>2. (q + 1) * n = q * n + n
    BY <1>2, Distribute
  <2>3. a * n \in Nat /\ q * n \in Nat
    BY <1>2, ScaleNat
  <2> HIDE DEF a, b
  <2>4. QED
    BY <1>2, <2>1, <2>2, <2>3
<1>5. a = q
  BY <1>2, <1>3, <1>4
<1>6. b = r
  BY <1>2, <1>5, ScaleNat
<1>7. QED
  BY <1>5, <1>6

\* (csr_x + 8) & ~(8 - 1) is the next tab stop, and never behind the edge.
LEMMA NextStop ==
  ASSUME NEW x \in 0 .. (Cols - 1)
  PROVE  /\ RoundUp(x) \in (x + 1) .. (x + Tab) /\ RoundUp(x) <= Cols
         /\ (CHOOSE k \in (x + 1) .. (x + Tab) : k % Tab = 0) = RoundUp(x)
<1> DEFINE q == (x + Tab) \div Tab
           m == Cols \div Tab
<1>1. /\ Tab \in Nat \ {0} /\ Cols \in Nat /\ Cols % Tab = 0 /\ x \in Nat
  BY ConsoleAssumption
<1>2. /\ q \in Nat /\ (x + Tab) % Tab \in 0 .. (Tab - 1)
      /\ x + Tab = q * Tab + ((x + Tab) % Tab)
  <2> DEFINE y == x + Tab
  <2>1. y \in Nat
    BY <1>1
  <2> HIDE DEF y
  <2>2. /\ y \div Tab \in Nat /\ y % Tab \in 0 .. (Tab - 1)
        /\ y = (y \div Tab) * Tab + (y % Tab)
    BY <1>1, <2>1, Split
  <2>3. QED
    BY <2>2 DEF y
<1>3. m \in Nat /\ Cols = m * Tab
  BY <1>1, Split, ScaleNat
<1>4. RoundUp(x) = q * Tab /\ q * Tab \in Nat
  BY <1>1, <1>2, ScaleNat DEF RoundUp
<1> HIDE DEF q, m
<1>5. RoundUp(x) \in (x + 1) .. (x + Tab)
  BY <1>1, <1>2, <1>4
<1>6. RoundUp(x) % Tab = 0
  <2>1. (q * Tab + 0) % Tab = 0
    <3>1. 0 \in 0 .. (Tab - 1)
      BY <1>1
    <3>2. QED
      BY <1>1, <1>2, <3>1, Unique, Zenon
  <2>2. QED
    BY <1>4, <2>1
<1>7. RoundUp(x) <= Cols
  <2>1. q <= m
    <3> SUFFICES ASSUME ~(q <= m) PROVE FALSE
      OBVIOUS
    <3>1. m + 1 <= q /\ m + 1 \in Int
      BY <1>2, <1>3
    <3>2. (m + 1) * Tab <= q * Tab
      BY <1>1, <1>2, <3>1, Scale
    <3>3. (m + 1) * Tab = m * Tab + Tab
      BY <1>1, <1>3, Distribute
    <3>4. QED
      BY <1>1, <1>3, <1>4, <1>5, <3>2, <3>3
  <2>2. q * Tab <= m * Tab
    BY <1>1, <1>2, <1>3, <2>1, Scale
  <2>3. QED
    BY <1>3, <1>4, <2>2
<1>8. ASSUME NEW k \in (x + 1) .. (x + Tab), k % Tab = 0
      PROVE  k = RoundUp(x)
  <2> DEFINE p == k \div Tab
  <2>1. k \in Nat /\ p \in Nat /\ k = p * Tab
    <3>1. k \in Nat
      BY <1>1
    <3>2. p \in Nat /\ k = p * Tab + (k % Tab)
      BY <1>1, <3>1, Split
    <3>3. p * Tab \in Nat
      BY <1>1, <3>2, ScaleNat
    <3> HIDE DEF p
    <3>4. QED
      BY <1>8, <3>1, <3>2, <3>3
  <2> HIDE DEF p
  <2>2. ASSUME NEW a \in Nat, NEW b \in Nat, a < b, a * Tab > x, b * Tab <= x + Tab
        PROVE  FALSE
    <3>1. (a + 1) * Tab <= b * Tab
      BY <1>1, <2>2, Scale
    <3>2. (a + 1) * Tab = a * Tab + Tab /\ a * Tab \in Nat /\ b * Tab \in Nat
      BY <1>1, Distribute, ScaleNat
    <3>3. QED
      BY <1>1, <2>2, <3>1, <3>2
  <2>3. p = q
    BY <1>1, <1>2, <1>4, <1>5, <2>1, <2>2
  <2>4. QED
    BY <1>4, <2>1, <2>3
<1>9. QED
  BY <1>5, <1>6, <1>7, <1>8

------------------------------------------------------------------------------
(* Cells and what endless paper shows in them.                              *)

LEMMA Sizes ==
  /\ Rows \in Nat /\ Rows >= 2 /\ Cols \in Nat \ {0} /\ Tab \in Nat \ {0}
  /\ Cell \subseteq Nat /\ Screen \subseteq Cell
  /\ Rows * Cols \in Nat
  /\ (Rows - 1) * Cols = Rows * Cols - Cols
  /\ (Rows + 1) * Cols = Rows * Cols + Cols
  /\ (Rows + 2) * Cols = Rows * Cols + 2 * Cols
<1>1. Rows \in Nat /\ Rows >= 2 /\ Cols \in Nat \ {0} /\ Tab \in Nat \ {0}
  BY ConsoleAssumption
<1>2. /\ Rows * Cols \in Nat
      /\ (Rows - 1) * Cols = Rows * Cols - Cols
      /\ (Rows + 1) * Cols = Rows * Cols + Cols
      /\ (Rows + 2) * Cols = Rows * Cols + 2 * Cols
  BY <1>1, ScaleNat, Distribute
<1>3. Cell \subseteq Nat /\ Screen \subseteq Cell
  BY <1>1, <1>2 DEF Cell, Screen
<1>4. QED
  BY <1>1, <1>2, <1>3

LEMMA CellAt ==
  ASSUME NEW x \in 0 .. (Cols - 1), NEW y \in 0 .. Rows
  PROVE  /\ y * Cols + x \in Cell
         /\ (y * Cols + x) \div Cols = y /\ (y * Cols + x) % Cols = x
         /\ y * Cols + x < (Rows + 1) * Cols
         /\ y < Rows => y * Cols + x < Rows * Cols
<1>1. (y * Cols + x) \div Cols = y /\ (y * Cols + x) % Cols = x
  BY Sizes, Unique
<1>2. y * Cols \in Nat /\ y * Cols <= Rows * Cols
  BY Sizes, Scale, ScaleNat
<1>3. y < Rows => y * Cols <= (Rows - 1) * Cols
  BY Sizes, Scale
<1>4. QED
  BY <1>1, <1>2, <1>3, Sizes DEF Cell

LEMMA CellParts ==
  ASSUME NEW k \in Cell
  PROVE  /\ k \in Nat /\ k \div Cols \in Nat /\ k % Cols \in 0 .. (Cols - 1)
         /\ k = (k \div Cols) * Cols + (k % Cols)
BY Sizes, Split

\* A cell lies above row y exactly when it comes before that row's first one.
LEMMA CellAbove ==
  ASSUME NEW k \in Cell, NEW y \in Nat
  PROVE  k < y * Cols <=> k \div Cols < y
<1> DEFINE q == k \div Cols
<1>1. k \in Nat /\ q \in Nat /\ k % Cols \in 0 .. (Cols - 1) /\ k = q * Cols + (k % Cols)
  BY CellParts
<1>2. q * Cols \in Nat /\ y * Cols \in Nat /\ (q + 1) * Cols = q * Cols + Cols
  BY <1>1, Sizes, ScaleNat, Distribute
<1> HIDE DEF q
<1>3. q < y => (q + 1) * Cols <= y * Cols
  BY <1>1, Sizes, Scale
<1>4. y <= q => y * Cols <= q * Cols
  BY <1>1, Sizes, Scale
<1>5. (k < y * Cols) <=> q < y
  BY <1>1, <1>2, <1>3, <1>4, Sizes
<1>6. QED
  BY <1>5 DEF q

\* The cell n rows further down.
LEMMA CellBelow ==
  ASSUME NEW k \in Cell, NEW n \in Nat
  PROVE  (k + n * Cols) \div Cols = k \div Cols + n /\ (k + n * Cols) % Cols = k % Cols
<1> DEFINE q == k \div Cols
           r == k % Cols
<1>1. q \in Nat /\ r \in 0 .. (Cols - 1) /\ k = q * Cols + r
  BY CellParts
<1> HIDE DEF q, r
<1>2. k + n * Cols = (q + n) * Cols + r
  BY <1>1, Sizes, ScaleNat, Distribute
<1>3. ((q + n) * Cols + r) \div Cols = q + n /\ ((q + n) * Cols + r) % Cols = r
  <2>1. q + n \in Nat
    BY <1>1
  <2>2. QED
    BY <1>1, <2>1, Sizes, Unique, Zenon
<1>4. QED
  BY <1>2, <1>3 DEF q, r

Typable == Ink \cup {NewLine, TabChar}
Prints(c) == c \notin {NewLine, TabChar}

LEMMA TypedFacts ==
  ASSUME NEW p, PaperOK(p), NEW c \in Typable
  PROVE  /\ PaperOK(Typed(p, c))
         /\ c = NewLine => Typed(p, c).row = p.row + 1 /\ Typed(p, c).col = 0
         /\ c = TabChar =>
              IF RoundUp(p.col) = Cols
              THEN Typed(p, c).row = p.row + 1 /\ Typed(p, c).col = 0
              ELSE Typed(p, c).row = p.row /\ Typed(p, c).col = RoundUp(p.col)
         /\ Prints(c) =>
              IF p.col + 1 = Cols
              THEN Typed(p, c).row = p.row + 1 /\ Typed(p, c).col = 0
              ELSE Typed(p, c).row = p.row /\ Typed(p, c).col = p.col + 1
         /\ Typed(p, c).marks = IF Prints(c) THEN p.marks \cup {<<p.row, p.col, c>>} ELSE p.marks
<1> DEFINE q == Typed(p, c)
<1>1. /\ p \in [row : Nat, col : 0 .. (Cols - 1), marks : SUBSET (Nat \X Nat \X Ink)]
      /\ \A m \in p.marks : m[1] < p.row \/ (m[1] = p.row /\ m[2] < p.col)
  BY DEF PaperOK
<1>2. p.row \in Nat /\ p.col \in 0 .. (Cols - 1) /\ p.marks \subseteq Nat \X Nat \X Ink
  BY <1>1
<1>3. CASE c = NewLine
  <2>1. q = [p EXCEPT !.row = @ + 1, !.col = 0]
    BY <1>3 DEF Typed, NewLine, TabChar
  <2>2. q = [row |-> p.row + 1, col |-> 0, marks |-> p.marks]
    BY <1>1, <2>1
  <2>3. PaperOK(q)
    BY <1>1, <1>2, <2>2, Sizes DEF PaperOK
  <2>4. QED
    BY <1>3, <2>2, <2>3 DEF Prints, NewLine, TabChar
<1>4. CASE c = TabChar
  <2>1. /\ (CHOOSE k \in (p.col + 1) .. (p.col + Tab) : k % Tab = 0) = RoundUp(p.col)
        /\ RoundUp(p.col) \in (p.col + 1) .. (p.col + Tab) /\ RoundUp(p.col) <= Cols
    BY <1>2, NextStop
  <2>2. q = IF RoundUp(p.col) = Cols THEN [p EXCEPT !.row = @ + 1, !.col = 0]
            ELSE [p EXCEPT !.col = RoundUp(p.col)]
    BY <1>4, <2>1 DEF Typed, NewLine, TabChar
  <2>3. q = IF RoundUp(p.col) = Cols THEN [row |-> p.row + 1, col |-> 0, marks |-> p.marks]
            ELSE [row |-> p.row, col |-> RoundUp(p.col), marks |-> p.marks]
    BY <1>1, <2>2
  <2>4. PaperOK(q)
    <3>1. q.marks = p.marks /\ q.row \in Nat /\ q.col \in 0 .. (Cols - 1)
      BY <1>2, <2>1, <2>3, Sizes
    <3>2. ASSUME NEW m \in p.marks PROVE m[1] < q.row \/ (m[1] = q.row /\ m[2] < q.col)
      <4>1. m[1] \in Nat /\ m[2] \in Nat
        BY <1>2
      <4>2. QED
        BY <1>1, <1>2, <2>1, <2>3, <4>1, Sizes
    <3>3. q \in [row : Nat, col : 0 .. (Cols - 1), marks : SUBSET (Nat \X Nat \X Ink)]
      BY <1>2, <2>3, <3>1
    <3>4. QED
      BY <3>1, <3>2, <3>3 DEF PaperOK
  <2>5. QED
    BY <1>4, <2>3, <2>4 DEF Prints, NewLine, TabChar
<1>5. CASE Prints(c)
  <2> DEFINE m0 == p.marks \cup {<<p.row, p.col, c>>}
  <2>1. q = [marks |-> m0, row |-> IF p.col = Cols - 1 THEN p.row + 1 ELSE p.row,
             col |-> (p.col + 1) % Cols]
    BY <1>5 DEF Typed, Prints
  <2>2. (p.col + 1) % Cols = IF p.col = Cols - 1 THEN 0 ELSE p.col + 1
    BY <1>2, Sizes
  <2>3. m0 \subseteq Nat \X Nat \X Ink
    BY <1>2, <1>5, Sizes DEF Typable, Prints
  <2>4. q.row \in Nat /\ q.col \in 0 .. (Cols - 1)
    BY <1>2, <2>1, <2>2, Sizes
  <2>5. ASSUME NEW m \in m0 PROVE m[1] < q.row \/ (m[1] = q.row /\ m[2] < q.col)
    <3>1. CASE m \in p.marks
      <4>1. m[1] \in Nat /\ m[2] \in Nat
        BY <1>2, <3>1
      <4>2. QED
        BY <1>1, <1>2, <2>1, <2>2, <3>1, <4>1, Sizes
    <3>2. CASE m = <<p.row, p.col, c>>
      BY <1>2, <2>1, <2>2, <3>2, Sizes
    <3>3. QED
      BY <2>5, <3>1, <3>2
  <2> HIDE DEF m0
  <2>6. PaperOK(q)
    BY <2>1, <2>3, <2>4, <2>5 DEF PaperOK
  <2>7. QED
    BY <1>2, <1>5, <2>1, <2>2, <2>6, Sizes DEF Prints, m0
<1>6. QED
  BY <1>3, <1>4, <1>5 DEF Prints

LEMMA VisibleTyped ==
  ASSUME NEW p, PaperOK(p), NEW c \in Typable, NEW r \in Nat, NEW k \in Nat
  PROVE  Visible(Typed(p, c), r, k) =
           IF Prints(c) /\ r = p.row /\ k = p.col THEN c ELSE Visible(p, r, k)
<1> DEFINE q == Typed(p, c)
<1>1. q.marks = IF Prints(c) THEN p.marks \cup {<<p.row, p.col, c>>} ELSE p.marks
  BY TypedFacts
<1>2. CASE Prints(c) /\ r = p.row /\ k = p.col
  <2>1. \A d \in Ink : <<r, k, d>> \in q.marks <=> d = c
    <3>1. \A d : <<r, k, d>> \notin p.marks
      BY <1>2 DEF PaperOK
    <3>2. QED
      BY <1>1, <1>2, <3>1
  <2>2. c \in Ink
    BY <1>2 DEF Prints, Typable
  <2>3. QED
    BY <1>2, <2>1, <2>2 DEF Visible
<1>3. CASE ~(Prints(c) /\ r = p.row /\ k = p.col)
  <2>1. \A d \in Ink : <<r, k, d>> \in q.marks <=> <<r, k, d>> \in p.marks
    BY <1>1, <1>3
  <2>2. QED
    BY <1>3, <2>1 DEF Visible
<1>4. QED
  BY <1>2, <1>3

LEMMA BeyondCursor ==
  ASSUME NEW p, PaperOK(p), NEW r \in Nat, NEW k \in Nat, r > p.row \/ (r = p.row /\ k >= p.col)
  PROVE  Visible(p, r, k) = Blank
<1>1. \A d \in Ink : <<r, k, d>> \notin p.marks
  <2> SUFFICES ASSUME NEW d \in Ink, <<r, k, d>> \in p.marks PROVE FALSE
    OBVIOUS
  <2>1. r < p.row \/ (r = p.row /\ k < p.col)
    BY DEF PaperOK
  <2>2. p.row \in Nat /\ p.col \in Nat
    BY DEF PaperOK
  <2>3. QED
    BY <2>1, <2>2
<1>2. QED
  BY <1>1 DEF Visible

\* How far the screen has gone when the paper is typed on.
LEMMA GoneStep ==
  ASSUME NEW p, PaperOK(p), NEW c \in Typable
  PROVE  /\ p.row \in Nat /\ p.col \in 0 .. (Cols - 1)
         /\ Gone(p) \in Nat /\ p.row - Gone(p) \in 0 .. (Rows - 1)
         /\ Typed(p, c).col \in 0 .. (Cols - 1)
         /\ Typed(p, c).row - Gone(p) \in 0 .. Rows
         /\ Typed(p, c).row - Gone(p) < Rows => Gone(Typed(p, c)) = Gone(p)
         /\ Typed(p, c).row - Gone(p) = Rows => Gone(Typed(p, c)) = Gone(p) + 1
<1>1. p.row \in Nat /\ p.col \in 0 .. (Cols - 1)
  BY DEF PaperOK
<1>2. Typed(p, c).col \in 0 .. (Cols - 1)
  BY TypedFacts DEF PaperOK
<1>3. Typed(p, c).row = p.row \/ Typed(p, c).row = p.row + 1
  BY TypedFacts DEF Typable, Prints
<1>4. QED
  BY <1>1, <1>2, <1>3, Sizes DEF Gone

------------------------------------------------------------------------------
(* Text memory.                                                             *)

TextOK(m) ==
  /\ m \in [Cell -> Printable \cup {"t", Blank}]
  /\ \A k \in Cell : k >= (Rows + 1) * Cols => m[k] = Blank

LEMMA WriteKeeps ==
  ASSUME NEW m, TextOK(m), NEW a \in Cell, a < (Rows + 1) * Cols, NEW c \in Ink
  PROVE  TextOK([m EXCEPT ![a] = c])
<1>1. \A k \in Cell : k \in Nat
  BY Sizes
<1>2. (Rows + 1) * Cols \in Nat
  BY Sizes
<1>3. \A k \in Cell : k >= (Rows + 1) * Cols => k # a
  BY <1>1, <1>2
<1>4. QED
  BY <1>3 DEF TextOK, Ink

LEMMA ScrollKeeps ==
  ASSUME NEW m, TextOK(m), NEW n \in 0 .. 2
  PROVE  TextOK(memcpy(m, n)) /\ TextOK(memsetw(m, n))
<1>1. \A k \in Cell : k < (Rows - n) * Cols => k + n * Cols \in Cell
  <2>1. (Rows - n) * Cols = Rows * Cols - n * Cols /\ n * Cols \in Nat
    BY Sizes, Distribute, ScaleNat
  <2>2. QED
    BY <2>1, Sizes DEF Cell
<1>2. \A k \in Cell : k >= (Rows + 1) * Cols => ~(k < (Rows - n) * Cols)
  <2>1. (Rows - n) * Cols <= (Rows + 1) * Cols
    BY Sizes, Scale
  <2>2. (Rows - n) * Cols \in Nat
    BY Sizes, ScaleNat
  <2>3. QED
    BY <2>1, <2>2, Sizes
<1>3. TextOK(memcpy(m, n))
  BY <1>1, <1>2 DEF TextOK, memcpy
<1>4. TextOK(memsetw(m, n))
  BY DEF TextOK, memsetw
<1>5. QED
  BY <1>3, <1>4

\* A printable character goes where the paper has its mark; the others leave
\* the paper as it is.
LEMMA TextWritten ==
  ASSUME NEW p, PaperOK(p), NEW c \in Typable, NEW g \in Nat, NEW m, DOMAIN m = Cell,
         TextIs(p, g, m), Prints(c), p.row - g \in 0 .. Rows
  PROVE  TextIs(Typed(p, c), g, [m EXCEPT ![(p.row - g) * Cols + p.col] = c])
<1> DEFINE y == p.row - g
           x == p.col
           a == y * Cols + x
<1>1. x \in 0 .. (Cols - 1) /\ p.row \in Nat /\ y \in 0 .. Rows
  BY DEF PaperOK
<1>2. a \in Cell /\ a \div Cols = y /\ a % Cols = x
  BY <1>1, CellAt
<1>3. ASSUME NEW k \in Cell
      PROVE  [m EXCEPT ![a] = c][k] = Visible(Typed(p, c), k \div Cols + g, k % Cols)
  <2> DEFINE r == k \div Cols
             z == k % Cols
  <2>1. r \in Nat /\ z \in 0 .. (Cols - 1) /\ k = r * Cols + z /\ z \in Nat
    BY CellParts, Sizes
  <2>2. (r + g = p.row /\ z = p.col) <=> k = a
    <3>1. r + g = p.row <=> r = y
      BY <1>1, <2>1
    <3> HIDE DEF a, r, z
    <3>2. k = a => r = y /\ z = x
      BY <1>2 DEF r, z
    <3>3. r = y /\ z = x => k = a
      BY <2>1 DEF a
    <3>4. QED
      BY <3>1, <3>2, <3>3
  <2>3. r + g \in Nat
    BY <2>1
  <2>4. Visible(Typed(p, c), r + g, z) =
          IF r + g = p.row /\ z = p.col THEN c ELSE Visible(p, r + g, z)
    BY <2>1, <2>3, VisibleTyped
  <2>5. m[k] = Visible(p, r + g, z)
    BY DEF TextIs
  <2> HIDE DEF a, r, z
  <2>6. [m EXCEPT ![a] = c][k] = IF k = a THEN c ELSE m[k]
    BY <1>2
  <2>7. QED
    BY <2>2, <2>4, <2>5, <2>6 DEF r, z
<1>4. QED
  BY <1>3 DEF TextIs

LEMMA TextSame ==
  ASSUME NEW p, PaperOK(p), NEW c \in Typable, NEW g \in Nat, NEW m,
         TextIs(p, g, m), ~Prints(c)
  PROVE  TextIs(Typed(p, c), g, m)
<1>1. ASSUME NEW k \in Cell PROVE m[k] = Visible(Typed(p, c), k \div Cols + g, k % Cols)
  <2>1. k \div Cols + g \in Nat /\ k % Cols \in Nat
    BY CellParts, Sizes
  <2>2. Visible(Typed(p, c), k \div Cols + g, k % Cols) = Visible(p, k \div Cols + g, k % Cols)
    BY <2>1, VisibleTyped
  <2>3. QED
    BY <2>2 DEF TextIs
<1>2. QED
  BY <1>1 DEF TextIs

\* The two steps of a scroll, when the cursor has just left the screen.
LEMMA TextMoved ==
  ASSUME NEW q, NEW g \in Nat, NEW m, TextIs(q, g, m)
  PROVE  RowsMoved(q, g, memcpy(m, 1))
<1>1. ASSUME NEW k \in Cell
      PROVE  memcpy(m, 1)[k] =
               Visible(q, k \div Cols + g + (IF k < (Rows - 1) * Cols THEN 1 ELSE 0), k % Cols)
  <2>1. 1 * Cols = Cols /\ k \in Nat /\ k \div Cols \in Nat
    BY Sizes, CellParts
  <2>2. memcpy(m, 1)[k] = IF k < (Rows - 1) * Cols THEN m[k + 1 * Cols] ELSE m[k]
    BY DEF memcpy
  <2>3. CASE k < (Rows - 1) * Cols
    <3>1. k + 1 * Cols \in Cell
      BY <2>1, <2>3, Sizes DEF Cell
    <3>2. (k + 1 * Cols) \div Cols = k \div Cols + 1 /\ (k + 1 * Cols) % Cols = k % Cols
      BY CellBelow
    <3>3. m[k + 1 * Cols] = Visible(q, (k \div Cols + 1) + g, k % Cols)
      BY <3>1, <3>2 DEF TextIs
    <3>4. (k \div Cols + 1) + g = k \div Cols + g + 1
      BY <2>1
    <3>5. QED
      BY <2>2, <2>3, <3>3, <3>4
  <2>4. CASE ~(k < (Rows - 1) * Cols)
    <3>1. k \div Cols + g + 0 = k \div Cols + g
      BY <2>1
    <3>2. QED
      BY <2>2, <2>4, <3>1 DEF TextIs
  <2>5. QED
    BY <2>3, <2>4
<1>2. QED
  BY <1>1 DEF RowsMoved

LEMMA TextBlanked ==
  ASSUME NEW q, PaperOK(q), NEW g \in Nat, NEW m, RowsMoved(q, g, m),
         q.row = g + Rows, q.col = 0
  PROVE  TextIs(q, g + 1, memsetw(m, 1))
<1>1. ASSUME NEW k \in Cell
      PROVE  memsetw(m, 1)[k] = Visible(q, k \div Cols + (g + 1), k % Cols)
  <2> DEFINE r == k \div Cols
             z == k % Cols
  <2>1. r \in Nat /\ z \in Nat /\ (k < (Rows - 1) * Cols <=> r < Rows - 1)
    BY CellParts, CellAbove, Sizes
  <2>2. memsetw(m, 1)[k] = IF r = Rows - 1 THEN Blank ELSE m[k]
    BY DEF memsetw
  <2>3. m[k] = Visible(q, r + g + (IF r < Rows - 1 THEN 1 ELSE 0), z)
    BY <2>1 DEF RowsMoved
  <2> HIDE DEF r, z
  <2>4. CASE r < Rows - 1
    <3>1. r + g + 1 = r + (g + 1)
      BY <2>1
    <3>2. QED
      BY <2>1, <2>2, <2>3, <2>4, <3>1, Sizes DEF r, z
  <2>5. CASE r >= Rows - 1
    <3>1. r + (g + 1) \in Nat /\ r + (g + 1) >= q.row
      BY <2>1, <2>5, Sizes
    <3>2. Visible(q, r + (g + 1), z) = Blank
      BY <2>1, <3>1, BeyondCursor, Sizes
    <3>3. CASE r = Rows - 1
      BY <2>2, <3>2, <3>3 DEF r, z
    <3>4. CASE r # Rows - 1
      <4>1. r + g + 0 \in Nat /\ r + g + 0 >= q.row /\ ~(r < Rows - 1)
        BY <2>1, <2>5, <3>4, Sizes
      <4>2. Visible(q, r + g + 0, z) = Blank
        BY <2>1, <4>1, BeyondCursor, Sizes
      <4>3. QED
        BY <2>2, <2>3, <3>2, <3>4, <4>1, <4>2 DEF r, z
    <3>5. QED
      BY <3>3, <3>4
  <2>6. QED
    BY <2>1, <2>4, <2>5, Sizes
<1>2. QED
  BY <1>1 DEF TextIs

------------------------------------------------------------------------------
(* A putch of the handler.                                                  *)

LEMMA RoundUpNat ==
  ASSUME NEW x \in Nat
  PROVE  RoundUp(x) \in Nat
<1>1. x + Tab \in Nat /\ Tab \in Nat \ {0}
  BY Sizes
<1>2. (x + Tab) \div Tab \in Nat
  BY <1>1, Split
<1>3. QED
  BY <1>1, <1>2, ScaleNat DEF RoundUp

LEMMA DisplayParts ==
  ASSUME NEW x, NEW y, NEW m
  PROVE  Display(x, y, m).x = x /\ Display(x, y, m).y = y /\ Display(x, y, m).text = m
BY DEF Display

LEMMA PlacedIs ==
  ASSUME NEW x, NEW y, NEW m
  PROVE  /\ Placed(Display(x, y, m), NewLine) = Display(0, y + 1, m)
         /\ Placed(Display(x, y, m), TabChar) = Display(RoundUp(x), y, m)
BY DisplayParts DEF Placed, NewLine, TabChar

LEMMA WrappedIs ==
  ASSUME NEW x, NEW y, NEW m
  PROVE  Wrapped(Display(x, y, m)) = IF x >= Cols THEN Display(0, y + 1, m) ELSE Display(x, y, m)
BY DisplayParts DEF Wrapped

LEMMA ScrolledIs ==
  ASSUME NEW x, NEW y, NEW m
  PROVE  Scrolled(Display(x, y, m)) =
           IF y >= Rows
           THEN Display(x, Rows - 1, memsetw(memcpy(m, y - Rows + 1), y - Rows + 1))
           ELSE Display(x, y, m)
BY DisplayParts DEF Scrolled

\* Wherever it finds the cursor, it leaves it on the screen, and it never moves
\* it up, but for the scroll.
LEMMA PutTypes ==
  ASSUME NEW x \in 0 .. Cols, NEW y \in 0 .. Rows, y = Rows => x < Cols,
         NEW m, TextOK(m), NEW c \in Typable
  PROVE  \E x1, y1, m1 :
            /\ x1 \in 0 .. (Cols - 1) /\ y1 \in 0 .. (Rows - 1)
            /\ Put(Display(x, y, m), c) = Display(x1, y1, m1)
            /\ TextOK(m1)
            /\ c = NewLine => x1 = 0
            /\ y >= Rows - 1 => y1 = Rows - 1
<1>1. PICK x1, y1, m1 :
        /\ x1 \in Nat /\ y1 \in 0 .. (Rows + 1)
        /\ Placed(Display(x, y, m), c) = Display(x1, y1, m1) /\ TextOK(m1) /\ y1 >= y
        /\ x1 >= Cols => y1 \in 0 .. Rows
        /\ c = NewLine => x1 = 0
  <2>1. CASE c = NewLine
    BY <2>1, PlacedIs, Sizes
  <2>2. CASE c = TabChar
    BY <2>2, PlacedIs, RoundUpNat, Sizes DEF TabChar, NewLine
  <2>3. CASE Prints(c)
    <3>1. y * Cols + x \in Cell /\ y * Cols + x < (Rows + 1) * Cols
      <4>1. CASE x < Cols
        <5>1. x \in 0 .. (Cols - 1)
          BY <4>1, Sizes
        <5>2. QED
          BY <5>1, CellAt
      <4>2. CASE x = Cols
        <5>1. (y + 1) * Cols <= Rows * Cols /\ (y + 1) * Cols = y * Cols + Cols
          BY <4>2, Sizes, Scale, Distribute
        <5>2. y * Cols \in Nat
          BY Sizes, ScaleNat
        <5>3. QED
          BY <4>2, <5>1, <5>2, Sizes DEF Cell
      <4>3. QED
        BY <4>1, <4>2, Sizes
    <3>2. c \in Ink
      BY <2>3 DEF Typable, Prints
    <3>3. TextOK([m EXCEPT ![y * Cols + x] = c])
      BY <3>1, <3>2, WriteKeeps
    <3>4. Placed(Display(x, y, m), c) = Display(x + 1, y, [m EXCEPT ![y * Cols + x] = c])
      BY <2>3, DisplayParts DEF Placed, Prints
    <3>5. QED
      BY <2>3, <3>3, <3>4, Sizes DEF Prints
  <2>4. QED
    BY <2>1, <2>2, <2>3 DEF Prints
<1>2. PICK x2 \in 0 .. (Cols - 1), y2 \in 0 .. (Rows + 1) :
        /\ Wrapped(Display(x1, y1, m1)) = Display(x2, y2, m1) /\ y2 >= y1
        /\ c = NewLine => x2 = 0
  <2>1. CASE x1 >= Cols
    BY <1>1, <2>1, WrappedIs, Sizes
  <2>2. CASE x1 < Cols
    BY <1>1, <2>2, WrappedIs, Sizes
  <2>3. QED
    BY <1>1, <2>1, <2>2, Sizes
<1>3. CASE y2 >= Rows
  <2>1. y2 - Rows + 1 \in 0 .. 2
    BY <1>3, Sizes
  <2>2. TextOK(memsetw(memcpy(m1, y2 - Rows + 1), y2 - Rows + 1))
    BY <1>1, <2>1, ScrollKeeps
  <2>3. Scrolled(Display(x2, y2, m1)) =
          Display(x2, Rows - 1, memsetw(memcpy(m1, y2 - Rows + 1), y2 - Rows + 1))
    BY <1>3, ScrolledIs
  <2>4. Rows - 1 \in 0 .. (Rows - 1)
    BY Sizes
  <2>5. QED
    BY <1>1, <1>2, <2>2, <2>3, <2>4 DEF Put
<1>4. CASE y2 < Rows
  <2>1. Scrolled(Display(x2, y2, m1)) = Display(x2, y2, m1) /\ y2 \in 0 .. (Rows - 1)
    BY <1>4, ScrolledIs, Sizes
  <2>2. y >= Rows - 1 => y2 = Rows - 1
    BY <1>1, <1>2, <1>4, Sizes
  <2>3. QED
    BY <1>1, <1>2, <2>1, <2>2 DEF Put
<1>5. QED
  BY <1>3, <1>4, Sizes

\* A new row is begun at the margin.
LEMMA RowStep ==
  ASSUME NEW p, PaperOK(p), NEW c \in Typable, Typed(p, c).row # p.row
  PROVE  Typed(p, c).col = 0
BY TypedFacts DEF Typable, Prints

\* Where the screen shows the paper, it shows what is printed on it.
LEMMA PutShows ==
  ASSUME NEW p, PaperOK(p), NEW c \in Typable, NEW m, TextOK(m), TextIs(p, Gone(p), m)
  PROVE  \E m1 :
            LET q == Typed(p, c)
            IN  /\ Put(Display(p.col, p.row - Gone(p), m), c) = Display(q.col, q.row - Gone(q), m1)
                /\ TextIs(q, Gone(q), m1)
<1> DEFINE q == Typed(p, c)
           g == Gone(p)
           y == p.row - g
<1>1. /\ p.row \in Nat /\ p.col \in 0 .. (Cols - 1)
      /\ g \in Nat /\ y \in 0 .. (Rows - 1)
      /\ q.col \in 0 .. (Cols - 1)
      /\ q.row - g \in 0 .. Rows
      /\ q.row - g < Rows => Gone(q) = g
      /\ q.row - g = Rows => Gone(q) = g + 1
  BY GoneStep
<1>2. PaperOK(q) /\ q.row \in Nat
  BY TypedFacts DEF PaperOK
<1>3. PICK x1, y1, m1 :
        /\ x1 \in Nat /\ y1 \in Nat
        /\ Placed(Display(p.col, y, m), c) = Display(x1, y1, m1)
        /\ TextIs(q, g, m1)
        /\ IF x1 >= Cols THEN q.row - g = y1 + 1 /\ q.col = 0
           ELSE q.row - g = y1 /\ q.col = x1
  <2>1. CASE c = NewLine
    <3>1. q.row = p.row + 1 /\ q.col = 0
      BY <2>1, TypedFacts
    <3>2. TextIs(q, g, m)
      BY <1>1, <2>1, TextSame DEF Prints
    <3>3. Placed(Display(p.col, y, m), c) = Display(0, y + 1, m)
      BY <2>1, PlacedIs
    <3>4. QED
      BY <1>1, <1>2, <3>1, <3>2, <3>3, Sizes
  <2>2. CASE c = TabChar
    <3>1. RoundUp(p.col) \in Nat /\ RoundUp(p.col) <= Cols
      BY <1>1, NextStop, RoundUpNat, Sizes
    <3>2. IF RoundUp(p.col) = Cols
          THEN q.row = p.row + 1 /\ q.col = 0
          ELSE q.row = p.row /\ q.col = RoundUp(p.col)
      BY <2>2, TypedFacts
    <3>3. TextIs(q, g, m)
      BY <1>1, <2>2, TextSame DEF Prints
    <3>4. Placed(Display(p.col, y, m), c) = Display(RoundUp(p.col), y, m)
      BY <2>2, PlacedIs
    <3>5. QED
      BY <1>1, <1>2, <3>1, <3>2, <3>3, <3>4, Sizes
  <2>3. CASE Prints(c)
    <3>1. IF p.col + 1 = Cols
          THEN q.row = p.row + 1 /\ q.col = 0
          ELSE q.row = p.row /\ q.col = p.col + 1
      BY <2>3, TypedFacts
    <3>2. TextIs(q, g, [m EXCEPT ![y * Cols + p.col] = c])
      <4>1. DOMAIN m = Cell /\ y \in 0 .. Rows
        BY <1>1, Sizes DEF TextOK
      <4>2. QED
        BY <1>1, <2>3, <4>1, TextWritten
    <3>3. Placed(Display(p.col, y, m), c) = Display(p.col + 1, y, [m EXCEPT ![y * Cols + p.col] = c])
      BY <2>3, DisplayParts DEF Placed, Prints
    <3>4. QED
      BY <1>1, <1>2, <3>1, <3>2, <3>3, Sizes
  <2>4. QED
    BY <2>1, <2>2, <2>3 DEF Prints
<1>4. Wrapped(Display(x1, y1, m1)) = Display(q.col, q.row - g, m1)
  BY <1>3, WrappedIs, Sizes
<1>5. CASE q.row - g < Rows
  <2>1. Scrolled(Display(q.col, q.row - g, m1)) = Display(q.col, q.row - g, m1)
    BY <1>1, <1>5, ScrolledIs, Sizes
  <2>2. Gone(q) = g
    BY <1>1, <1>5
  <2>3. QED
    BY <1>3, <1>4, <2>1, <2>2 DEF Put
<1>6. CASE q.row - g = Rows
  <2> DEFINE m2 == memsetw(memcpy(m1, 1), 1)
  <2>1. Scrolled(Display(q.col, q.row - g, m1)) = Display(q.col, Rows - 1, m2)
    <3>1. Rows >= Rows /\ Rows - Rows + 1 = 1
      BY Sizes
    <3>2. QED
      BY <1>6, <3>1, ScrolledIs
  <2>2. Gone(q) = g + 1 /\ q.row - Gone(q) = Rows - 1 /\ q.row = g + Rows
    BY <1>1, <1>2, <1>6, Sizes
  <2>3. q.col = 0
    <3>1. q.row # p.row
      BY <1>1, <1>6, <2>2, Sizes
    <3>2. QED
      BY <3>1, RowStep
  <2>4. TextIs(q, g + 1, m2)
    BY <1>1, <1>2, <1>3, <2>2, <2>3, TextMoved, TextBlanked
  <2>5. QED
    BY <1>3, <1>4, <2>1, <2>2, <2>4 DEF Put
<1>7. QED
  BY <1>1, <1>5, <1>6, Sizes

------------------------------------------------------------------------------
(* Every step keeps the invariant.                                          *)

LEMMA CharTypable == Printable \cup {NewLine, TabChar} \subseteq Typable
BY DEF Typable, Ink

LEMMA ConsoleStart == ConsoleInit => ConsoleInv
<1> SUFFICES ASSUME ConsoleInit PROVE ConsoleInv
  OBVIOUS
<1> USE DEF ConsoleInit
<1>1. PaperOK(paper) /\ paper.row = 0 /\ paper.col = 0 /\ Gone(paper) = 0
  BY Sizes DEF NewPaper, PaperOK, Gone
<1>2. ConsoleTypeOK
  <2>1. text \in [Cell -> Printable \cup {"t", Blank}]
    OBVIOUS
  <2>2. (Rows + 1) * Cols \in Nat
    BY Sizes
  <2>3. QED
    BY <1>1, <2>1, <2>2, Sizes, ConsoleAssumption DEF ConsoleTypeOK, PC, PaperOK
<1>3. CursorInv /\ CharInv
  BY Sizes DEF CursorInv, CharInv
<1>4. TextIs(paper, 0, text)
  <2>1. \A k \in Cell : k \div Cols + 0 \in Nat /\ k % Cols \in Nat
    BY CellParts, Sizes
  <2>2. \A k \in Cell : Visible(paper, k \div Cols + 0, k % Cols) = Blank
    <3>1. paper.marks = {}
      BY DEF NewPaper
    <3>2. QED
      BY <3>1 DEF Visible
  <2>3. QED
    BY <2>2 DEF TextIs
<1>5. CursorAt(paper, 0)
  BY <1>1 DEF CursorAt
<1>6. ShownInv
  BY <1>1, <1>4, <1>5 DEF ShownInv, Shown
<1>7. QED
  BY <1>2, <1>3, <1>6 DEF ConsoleInv

LEMMA TickKeeps ==
  ASSUME ConsoleInv, Tick
  PROVE  ConsoleInv'
<1> USE DEF ConsoleInv, Tick, cursorVars
<1>1. PaperOK(NewPaper)
  BY Sizes DEF PaperOK, NewPaper
<1>2. PaperOK(paper')
  BY <1>1 DEF ShownInv
<1>3. ConsoleTypeOK'
  <2>1. Len(Message) \in Nat /\ Len(Message) # 0
    BY ConsoleAssumption
  <2>2. QED
    BY <1>2, <2>1, ConsoleAssumption DEF ConsoleTypeOK, PaperOK
<1>4. CursorInv' /\ CharInv'
  BY DEF CursorInv, CharInv
<1>5. ShownInv'
  BY <1>2 DEF ShownInv, Shown, CursorAt
<1>6. QED
  BY <1>3, <1>4, <1>5

LEMMA PutMessageKeeps ==
  ASSUME ConsoleInv, PutMessage
  PROVE  ConsoleInv'
<1> DEFINE c == Message[line]
<1>1. /\ c \in Typable /\ line \in 1 .. Len(Message) /\ Len(Message) \in Nat
      /\ line = Len(Message) => c = NewLine
  <2>1. line \in 1 .. Len(Message) /\ Len(Message) \in Nat
    BY ConsoleAssumption DEF ConsoleInv, ConsoleTypeOK, PutMessage
  <2>2. c \in Printable \cup {"t", NewLine}
    BY <2>1, ConsoleAssumption
  <2>3. QED
    BY <2>1, <2>2, ConsoleAssumption DEF Typable, Ink
<1>2. TextOK(text)
  BY DEF TextOK, ConsoleInv, ConsoleTypeOK
<1>3. csr_x \in 0 .. Cols /\ csr_y \in 0 .. Rows /\ (csr_y = Rows => csr_x < Cols)
  BY DEF ConsoleInv, ConsoleTypeOK, CursorInv
<1>4. PICK x1, y1, m1 :
        /\ x1 \in 0 .. (Cols - 1) /\ y1 \in 0 .. (Rows - 1)
        /\ Put(Display(csr_x, csr_y, text), c) = Display(x1, y1, m1)
        /\ TextOK(m1)
        /\ c = NewLine => x1 = 0
        /\ csr_y >= Rows - 1 => y1 = Rows - 1
  BY <1>1, <1>2, <1>3, PutTypes
<1>5. csr_x' = x1 /\ csr_y' = y1 /\ text' = m1
  BY <1>4, DisplayParts DEF PutMessage
<1>6. PaperOK(paper')
  BY <1>1, TypedFacts DEF PutMessage, ConsoleInv, ShownInv
<1>7. ConsoleTypeOK'
  <2>1. /\ csr_x' \in 0 .. Cols /\ csr_y' \in 0 .. Rows
        /\ csr_x' < Cols /\ csr_y' < Rows
    BY <1>4, <1>5, Sizes
  <2>2. TextOK(text')
    BY <1>4, <1>5
  <2>3. line' \in 0 .. Len(Message)
    BY <1>1 DEF PutMessage
  <2>4. QED
    BY <1>6, <2>1, <2>2, <2>3
    DEF ConsoleInv, ConsoleTypeOK, PutMessage, TextOK, PaperOK, countVars
<1>8. CursorInv'
  <2>1. csr_x' # Cols /\ csr_y' # Rows
    BY <1>4, <1>5, Sizes
  <2>2. line' <= 1 => csr_x' = 0
    BY <1>1, <1>4, <1>5 DEF PutMessage
  <2>3. pc' = "rows" => csr_y' >= Rows - 1
    BY <1>4, <1>5, Sizes DEF PutMessage, ConsoleInv, CursorInv
  <2>4. QED
    BY <2>1, <2>2, <2>3 DEF PutMessage, ConsoleInv, CursorInv
<1>9. CharInv'
  BY DEF PutMessage, ConsoleInv, CharInv
<1>10. ShownInv'
  <2> SUFFICES ASSUME quiet' PROVE (line # 0 => pc = "idle")' /\ Shown(paper, Typed(paper, char), Gone(paper))'
    BY <1>6 DEF ShownInv
  <2>1. /\ pc = "idle" /\ pc' = "idle" /\ quiet /\ paper' = Typed(paper, c)
        /\ PaperOK(paper)
        /\ csr_x = paper.col /\ csr_y = paper.row - Gone(paper)
        /\ TextIs(paper, Gone(paper), text)
    BY DEF PutMessage, ConsoleInv, ShownInv, Shown, CursorAt
  <2>2. PICK m2 :
          /\ Put(Display(csr_x, csr_y, text), c) =
               Display(paper'.col, paper'.row - Gone(paper'), m2)
          /\ TextIs(paper', Gone(paper'), m2)
    BY <1>1, <1>2, <2>1, PutShows
  <2>3. csr_x' = paper'.col /\ csr_y' = paper'.row - Gone(paper') /\ text' = m2
    <3>1. LET s == Put(Display(csr_x, csr_y, text), c)
          IN  csr_x' = s.x /\ csr_y' = s.y /\ text' = s.text
      BY DEF PutMessage
    <3>2. QED
      BY <2>2, <3>1, DisplayParts
  <2>4. QED
    BY <2>1, <2>2, <2>3 DEF Shown, CursorAt
<1>11. QED
  BY <1>7, <1>8, <1>9, <1>10 DEF ConsoleInv

\* What the steps of main()'s putch leave alone.
Alone == UNCHANGED <<char, line, chars, ticks, paper, quiet>>

LEMMA Here ==
  ASSUME ConsoleInv, line = 0
  PROVE  /\ csr_x \in Nat /\ csr_y \in Nat /\ temp \in Nat /\ TextOK(text)
         /\ csr_x <= Cols /\ csr_y <= Rows
         /\ pc # "edge" => csr_x < Cols
         /\ pc \notin {"edge", "scroll", "rows", "copy", "blank", "last"} => csr_y < Rows
         /\ pc \in {"idle", "where", "put", "inc_x", "store_x", "tab", "return"} =>
              csr_x \in 0 .. (Cols - 1) /\ csr_y \in 0 .. (Rows - 1)
         /\ pc # "idle" => char \in Typable
BY Sizes, CharTypable DEF ConsoleInv, ConsoleTypeOK, CursorInv, CharInv, TextOK

\* What the screen and the paper are to each other in the midst of a putch.
LEMMA Seen ==
  ASSUME ConsoleInv, line = 0, quiet, pc # "idle"
  PROVE  LET p == paper
             q == Typed(paper, char)
             g == Gone(paper)
         IN  /\ PaperOK(p) /\ PaperOK(q) /\ g \in Nat
             /\ p.row \in Nat /\ p.col \in 0 .. (Cols - 1) /\ p.row - g \in 0 .. (Rows - 1)
             /\ q.row \in Nat /\ q.col \in 0 .. (Cols - 1) /\ q.row - g \in 0 .. Rows
             /\ q.row - g < Rows => Gone(q) = g
             /\ q.row - g = Rows => Gone(q) = g + 1 /\ q.col = 0 /\ q.row = g + Rows
             /\ Shown(p, q, g)
<1>1. PaperOK(paper) /\ char \in Typable /\ Shown(paper, Typed(paper, char), Gone(paper))
  BY Here DEF ConsoleInv, ShownInv
<1>2. PaperOK(Typed(paper, char))
  BY <1>1, TypedFacts
<1>3. /\ paper.row \in Nat /\ paper.col \in 0 .. (Cols - 1) /\ Gone(paper) \in Nat
      /\ paper.row - Gone(paper) \in 0 .. (Rows - 1)
      /\ Typed(paper, char).col \in 0 .. (Cols - 1)
      /\ Typed(paper, char).row - Gone(paper) \in 0 .. Rows
      /\ Typed(paper, char).row - Gone(paper) < Rows => Gone(Typed(paper, char)) = Gone(paper)
      /\ Typed(paper, char).row - Gone(paper) = Rows => Gone(Typed(paper, char)) = Gone(paper) + 1
  BY <1>1, GoneStep
<1>4. Typed(paper, char).row \in Nat
  BY <1>2 DEF PaperOK
<1>5. ASSUME Typed(paper, char).row - Gone(paper) = Rows
      PROVE  Typed(paper, char).col = 0 /\ Typed(paper, char).row = Gone(paper) + Rows
  <2>1. Typed(paper, char).row # paper.row
    BY <1>3, <1>5, Sizes
  <2>2. QED
    BY <1>1, <1>3, <1>4, <1>5, <2>1, RowStep, Sizes
<1>6. QED
  BY <1>1, <1>2, <1>3, <1>4, <1>5

LEMMA BeginKeeps ==
  ASSUME ConsoleInv, line = 0, NEW c \in Printable \cup {NewLine, TabChar}, Begin(c)
  PROVE  ConsoleInv'
<1> USE DEF ConsoleInv, Begin, cursorVars
<1>1. csr_x \in 0 .. (Cols - 1) /\ csr_y \in 0 .. (Rows - 1)
  BY Here
<1>2. ConsoleTypeOK'
  <2>1. Rows <= (Rows + 1) * Cols /\ Cols <= (Rows + 1) * Cols /\ (Rows + 1) * Cols \in Nat
    <3>1. 1 * Cols <= (Rows + 1) * Cols /\ Cols * 1 = Cols
      BY Sizes, Scale
    <3>2. (Rows + 1) * 1 <= (Rows + 1) * Cols
      <4>1. 1 * (Rows + 1) <= Cols * (Rows + 1)
        BY Sizes, Scale
      <4>2. QED
        BY <4>1, Sizes
    <3>3. QED
      BY <3>1, <3>2, Sizes
  <2>2. temp' \in 0 .. ((Rows + 1) * Cols)
    BY <1>1, <2>1, Sizes
  <2>3. chars' \in 0 .. MaxChars
    BY ConsoleAssumption DEF ConsoleTypeOK
  <2>4. QED
    BY <2>2, <2>3 DEF ConsoleTypeOK, PC
<1>3. CursorInv'
  BY <1>1, Sizes DEF CursorInv
<1>4. CharInv'
  BY DEF CharInv, NewLine, TabChar
<1>5. ShownInv'
  <2>1. \/ pc' = "return"
        \/ pc' = "tab" /\ temp' = csr_x
        \/ pc' = "where" /\ temp' = csr_y
    BY DEF NewLine, TabChar
  <2>2. quiet => CursorAt(paper, Gone(paper)) /\ TextIs(paper, Gone(paper), text)
    BY DEF ShownInv, Shown
  <2>3. quiet' => Shown(paper, Typed(paper, char), Gone(paper))'
    BY <2>1, <2>2 DEF Shown, CursorAt
  <2>4. QED
    BY <2>3 DEF ShownInv
<1>6. QED
  BY <1>2, <1>3, <1>4, <1>5

LEMMA WhereKeeps ==
  ASSUME ConsoleInv, line = 0, Where
  PROVE  ConsoleInv'
<1> USE DEF ConsoleInv, Where, cursorVars, unchanged_rest, countVars
<1>1. csr_x \in 0 .. (Cols - 1) /\ temp \in 0 .. (Rows - 1)
  BY Here, Sizes DEF CursorInv
<1>2. temp' < Rows * Cols /\ temp' \in 0 .. ((Rows + 1) * Cols)
  BY <1>1, CellAt, Sizes
<1>3. ConsoleTypeOK'
  BY <1>2 DEF ConsoleTypeOK, PC
<1>4. CursorInv'
  BY <1>2 DEF CursorInv
<1>5. CharInv'
  BY DEF CharInv
<1>6. ShownInv'
  BY DEF ShownInv, Shown, CursorAt
<1>7. QED
  BY <1>3, <1>4, <1>5, <1>6

LEMMA PutCharKeeps ==
  ASSUME ConsoleInv, line = 0, PutChar
  PROVE  ConsoleInv'
<1> USE DEF ConsoleInv, PutChar, unchanged_rest, countVars
<1>1. temp \in Cell /\ temp < (Rows + 1) * Cols
  BY Here, Sizes DEF CursorInv, Cell
<1>2. TextOK(text') /\ char \in Ink
  <2>1. char \in Ink
    BY DEF CharInv, Ink
  <2>2. QED
    BY <1>1, <2>1, Here, WriteKeeps
<1>3. ConsoleTypeOK'
  BY <1>2 DEF ConsoleTypeOK, PC, TextOK
<1>4. CursorInv'
  BY DEF CursorInv
<1>5. CharInv'
  BY DEF CharInv
<1>6. ShownInv'
  <2> SUFFICES ASSUME quiet PROVE Shown(paper, Typed(paper, char), Gone(paper))'
    BY DEF ShownInv
  <2>1. /\ CursorAt(paper, Gone(paper)) /\ TextIs(paper, Gone(paper), text)
        /\ temp = csr_y * Cols + csr_x
        /\ PaperOK(paper) /\ Gone(paper) \in Nat /\ paper.row - Gone(paper) \in 0 .. Rows
    BY Seen, Sizes DEF Shown
  <2>2. char \in Typable /\ Prints(char) /\ DOMAIN text = Cell
    BY Here DEF CharInv, Prints, TextOK
  <2>3. TextIs(Typed(paper, char), Gone(paper),
               [text EXCEPT ![(paper.row - Gone(paper)) * Cols + paper.col] = char])
    BY <2>1, <2>2, TextWritten
  <2>4. TextIs(Typed(paper, char), Gone(paper), text')
    BY <2>1, <2>3 DEF CursorAt
  <2>5. QED
    BY <2>1, <2>4 DEF Shown, CursorAt
<1>7. QED
  BY <1>3, <1>4, <1>5, <1>6

LEMMA LoadXKeeps ==
  ASSUME ConsoleInv, line = 0, LoadX
  PROVE  ConsoleInv'
<1> USE DEF ConsoleInv, LoadX, cursorVars, unchanged_rest, countVars
<1>1. csr_x \in 0 .. (Cols - 1)
  BY Here
<1>2. Cols <= (Rows + 1) * Cols /\ (Rows + 1) * Cols \in Nat
  BY Sizes
<1>3. ConsoleTypeOK'
  BY <1>1, <1>2, Sizes DEF ConsoleTypeOK, PC
<1>4. CursorInv'
  BY <1>1, Sizes DEF CursorInv
<1>5. CharInv'
  BY DEF CharInv
<1>6. ShownInv'
  BY DEF ShownInv, Shown, CursorAt
<1>7. QED
  BY <1>3, <1>4, <1>5, <1>6

LEMMA StoreXKeeps ==
  ASSUME ConsoleInv, line = 0, StoreX
  PROVE  ConsoleInv'
<1> USE DEF ConsoleInv, StoreX, unchanged_rest, countVars
<1>1. temp \in 0 .. (Cols - 1) /\ csr_y \in 0 .. (Rows - 1)
  BY Here, Sizes DEF CursorInv
<1>2. csr_x' \in 0 .. Cols
  BY <1>1, NextStop, RoundUpNat, Sizes
<1>3. ConsoleTypeOK'
  BY <1>2 DEF ConsoleTypeOK, PC
<1>4. CursorInv'
  BY <1>1, Sizes DEF CursorInv
<1>5. CharInv'
  BY DEF CharInv
<1>6. ShownInv'
  <2> SUFFICES ASSUME quiet PROVE Shown(paper, Typed(paper, char), Gone(paper))'
    BY DEF ShownInv
  <2> DEFINE q == Typed(paper, char)
             g == Gone(paper)
  <2>1. /\ PaperOK(paper) /\ PaperOK(q) /\ g \in Nat /\ char \in Typable
        /\ paper.row \in Nat /\ paper.col \in 0 .. (Cols - 1)
        /\ temp = csr_x /\ csr_x = paper.col /\ csr_y = paper.row - g
    BY Here, Seen DEF Shown, CursorAt
  <2>2. TextIs(q, g, text)
    <3>1. CASE pc = "store_x"
      BY <3>1, Seen DEF Shown
    <3>2. CASE pc = "tab"
      <4>1. ~Prints(char) /\ TextIs(paper, g, text)
        BY <3>2, Seen DEF Shown, CharInv, Prints
      <4>2. QED
        BY <2>1, <4>1, TextSame
    <3>3. QED
      BY <3>1, <3>2
  <2>3. IF csr_x' = Cols THEN q.row = paper.row + 1 /\ q.col = 0
        ELSE q.row = paper.row /\ q.col = csr_x'
    <3>1. CASE pc = "store_x"
      <4>1. Prints(char) /\ csr_x' = paper.col + 1
        BY <2>1, <3>1 DEF CharInv, Prints
      <4>2. QED
        BY <2>1, <4>1, TypedFacts
    <3>2. CASE pc = "tab"
      <4>1. char = TabChar /\ csr_x' = RoundUp(paper.col)
        BY <2>1, <3>2 DEF CharInv
      <4>2. QED
        BY <2>1, <4>1, TypedFacts
    <3>3. QED
      BY <3>1, <3>2
  <2> HIDE DEF q, g
  <2>4. IF csr_x' < Cols THEN csr_x' = q.col /\ csr_y' = q.row - g
        ELSE q.col = 0 /\ csr_y' + 1 = q.row - g
    BY <1>2, <2>1, <2>3, Sizes
  <2>5. QED
    BY <2>2, <2>4 DEF Shown, CursorAt, q, g
<1>7. QED
  BY <1>3, <1>4, <1>5, <1>6

LEMMA ToMarginKeeps ==
  ASSUME ConsoleInv, line = 0, ToMargin
  PROVE  ConsoleInv'
<1> USE DEF ConsoleInv, ToMargin, unchanged_rest, countVars
<1>1. csr_y \in 0 .. (Rows - 1)
  BY Here, Sizes DEF CursorInv
<1>2. ConsoleTypeOK'
  BY Sizes DEF ConsoleTypeOK, PC
<1>3. CursorInv'
  BY <1>1, Sizes DEF CursorInv
<1>4. CharInv'
  BY DEF CharInv
<1>5. ShownInv'
  <2> SUFFICES ASSUME quiet PROVE Shown(paper, Typed(paper, char), Gone(paper))'
    BY DEF ShownInv
  <2> DEFINE q == Typed(paper, char)
             g == Gone(paper)
  <2>1. /\ PaperOK(paper) /\ PaperOK(q) /\ g \in Nat /\ char \in Typable
        /\ paper.row \in Nat /\ q.row \in Nat
    BY Here, Seen
  <2>2. q.col = 0 /\ csr_y + 1 = q.row - g /\ TextIs(q, g, text)
    <3>1. CASE pc = "return"
      <4>1. /\ char = NewLine /\ ~Prints(char)
            /\ TextIs(paper, g, text) /\ csr_y = paper.row - g
        BY <3>1, Seen DEF Shown, CharInv, Prints, CursorAt
      <4>2. q.row = paper.row + 1 /\ q.col = 0
        BY <2>1, <4>1, TypedFacts
      <4>3. TextIs(q, g, text)
        BY <2>1, <4>1, TextSame
      <4> HIDE DEF q, g
      <4>4. QED
        BY <2>1, <4>1, <4>2, <4>3
    <3>2. CASE pc = "edge"
      <4>1. ~(csr_x < Cols)
        BY <3>2, Here, Sizes
      <4>2. QED
        BY <3>2, <4>1, Seen DEF Shown
    <3>3. QED
      BY <3>1, <3>2
  <2>3. QED
    BY <2>2 DEF Shown
<1>6. QED
  BY <1>2, <1>3, <1>4, <1>5

LEMMA LoadYKeeps ==
  ASSUME ConsoleInv, line = 0, LoadY
  PROVE  ConsoleInv'
<1> USE DEF ConsoleInv, LoadY, cursorVars, unchanged_rest, countVars
<1>1. csr_y \in 0 .. (Rows - 1)
  BY Here, Sizes
<1>2. csr_y \in 0 .. ((Rows + 1) * Cols)
  <2>1. 1 * (Rows + 1) <= Cols * (Rows + 1) /\ Cols * (Rows + 1) = (Rows + 1) * Cols
    BY Sizes, Scale
  <2>2. QED
    BY <1>1, <2>1, Sizes
<1>3. ConsoleTypeOK'
  BY <1>2 DEF ConsoleTypeOK, PC
<1>4. CursorInv'
  BY <1>1, Sizes DEF CursorInv
<1>5. CharInv'
  BY DEF CharInv
<1>6. ShownInv'
  BY DEF ShownInv, Shown
<1>7. QED
  BY <1>3, <1>4, <1>5, <1>6

LEMMA StoreYKeeps ==
  ASSUME ConsoleInv, line = 0, StoreY
  PROVE  ConsoleInv'
<1> USE DEF ConsoleInv, StoreY, unchanged_rest, countVars
<1>1. csr_x = 0 /\ csr_y' \in 0 .. Rows
  BY Here, Sizes DEF CursorInv
<1>2. ConsoleTypeOK'
  BY <1>1 DEF ConsoleTypeOK, PC
<1>3. CursorInv'
  BY <1>1, Sizes DEF CursorInv
<1>4. CharInv'
  BY DEF CharInv
<1>5. ShownInv'
  <2> SUFFICES ASSUME quiet PROVE Shown(paper, Typed(paper, char), Gone(paper))'
    BY DEF ShownInv
  <2> DEFINE q == Typed(paper, char)
             g == Gone(paper)
  <2>1. q.col = 0 /\ csr_y' = q.row - g /\ TextIs(q, g, text)
    BY Seen DEF Shown
  <2>2. csr_x' = 0 /\ csr_x' < Cols
    BY <1>1, Sizes
  <2>3. QED
    BY <2>1, <2>2 DEF Shown, CursorAt
<1>6. QED
  BY <1>2, <1>3, <1>4, <1>5

LEMMA NoEdgeKeeps ==
  ASSUME ConsoleInv, line = 0, NoEdge
  PROVE  ConsoleInv'
<1> USE DEF ConsoleInv, NoEdge, cursorVars, unchanged_rest, countVars
<1>1. ConsoleTypeOK'
  BY DEF ConsoleTypeOK, PC
<1>2. CursorInv'
  BY Here, Sizes DEF CursorInv
<1>3. CharInv'
  BY DEF CharInv
<1>4. ShownInv'
  BY DEF ShownInv, Shown, CursorAt
<1>5. QED
  BY <1>1, <1>2, <1>3, <1>4

\* putch returns, the screen in order and the row the cursor is in shown.
LEMMA PutDoneKeeps ==
  ASSUME ConsoleInv, line = 0, pc # "idle", PutDone, UNCHANGED <<csr_x, line, quiet>>,
         csr_y' < Rows,
         quiet => LET q == Typed(paper, char)
                  IN  /\ csr_x = q.col /\ csr_y' = q.row - Gone(q)
                      /\ TextIs(q, Gone(q), text')
  PROVE  ShownInv' /\ (CursorInv' <=> csr_x' # Cols)
<1> USE DEF ConsoleInv, PutDone
<1>1. PaperOK(paper')
  BY Here, TypedFacts DEF ShownInv
<1>2. ShownInv'
  <2> SUFFICES ASSUME quiet' PROVE Shown(paper, Typed(paper, char), Gone(paper))'
    BY <1>1 DEF ShownInv
  <2>1. paper' = Typed(paper, char) /\ pc' = "idle"
    OBVIOUS
  <2>2. QED
    BY <2>1 DEF Shown, CursorAt
<1>3. csr_y' # Rows
  BY Sizes
<1>4. CursorInv' <=> csr_x' # Cols
  BY <1>3 DEF CursorInv
<1>5. QED
  BY <1>2, <1>4

LEMMA ScrollStepKeeps ==
  ASSUME ConsoleInv, line = 0, Scroll
  PROVE  ConsoleInv'
<1> USE DEF ConsoleInv, Scroll, cursorVars, countVars
<1>1. CharInv'
  BY DEF CharInv, PutDone
<1>2. csr_x < Cols /\ csr_x \in Nat /\ csr_y \in 0 .. Rows
  BY Here, Sizes
<1>3. CASE csr_y >= Rows /\ pc' = "rows" /\ UNCHANGED paper
  <2>1. csr_y = Rows
    BY <1>2, <1>3, Sizes
  <2>2. ConsoleTypeOK'
    BY <1>3 DEF ConsoleTypeOK, PC
  <2>3. CursorInv'
    BY <1>2, <1>3, <2>1, Sizes DEF CursorInv
  <2>4. ShownInv'
    BY <1>3, <2>1 DEF ShownInv, Shown, CursorAt
  <2>5. QED
    BY <1>1, <2>2, <2>3, <2>4
<1>4. CASE csr_y < Rows /\ PutDone
  <2>1. quiet => LET q == Typed(paper, char)
                 IN  /\ csr_x = q.col /\ csr_y' = q.row - Gone(q)
                     /\ TextIs(q, Gone(q), text')
    <3> SUFFICES ASSUME quiet
                 PROVE  LET q == Typed(paper, char)
                        IN  /\ csr_x = q.col /\ csr_y' = q.row - Gone(q)
                            /\ TextIs(q, Gone(q), text')
      OBVIOUS
    <3> DEFINE q == Typed(paper, char)
               g == Gone(paper)
    <3>1. csr_x = q.col /\ csr_y = q.row - g /\ TextIs(q, g, text)
      BY Seen DEF Shown, CursorAt
    <3>2. Gone(q) = g
      BY <1>4, <3>1, Seen
    <3>3. QED
      BY <3>1, <3>2
  <2>2. csr_x' # Cols /\ csr_y' < Rows
    BY <1>2, <1>4, Sizes
  <2>3. ShownInv' /\ CursorInv'
    BY <1>4, <2>1, <2>2, PutDoneKeeps
  <2>4. ConsoleTypeOK'
    BY <1>2, <1>4, <2>3 DEF ConsoleTypeOK, PC, PutDone, ShownInv, PaperOK
  <2>5. QED
    BY <1>1, <2>3, <2>4
<1>5. QED
  BY <1>3, <1>4

LEMMA RowsToGoKeeps ==
  ASSUME ConsoleInv, line = 0, RowsToGo
  PROVE  ConsoleInv'
<1> USE DEF ConsoleInv, RowsToGo, cursorVars, unchanged_rest, countVars
<1>1. temp' \in 0 .. 1 /\ (csr_y = Rows => temp' = 1) /\ csr_x < Cols
  BY Here, Sizes DEF CursorInv
<1>2. 1 <= (Rows + 1) * Cols /\ (Rows + 1) * Cols \in Nat
  BY Sizes
<1>3. ConsoleTypeOK'
  BY <1>1, <1>2 DEF ConsoleTypeOK, PC
<1>4. CursorInv'
  BY <1>1, Sizes DEF CursorInv
<1>5. CharInv'
  BY DEF CharInv
<1>6. ShownInv'
  BY <1>1 DEF ShownInv, Shown, CursorAt
<1>7. QED
  BY <1>3, <1>4, <1>5, <1>6

LEMMA CopyRowsKeeps ==
  ASSUME ConsoleInv, line = 0, CopyRows
  PROVE  ConsoleInv'
<1> USE DEF ConsoleInv, CopyRows, unchanged_rest, countVars
<1>1. TextOK(text')
  <2>1. temp \in 0 .. 2
    BY Here DEF CursorInv
  <2>2. QED
    BY <2>1, Here, ScrollKeeps
<1>2. ConsoleTypeOK'
  BY <1>1 DEF ConsoleTypeOK, PC, TextOK
<1>3. CursorInv'
  BY DEF CursorInv
<1>4. CharInv'
  BY DEF CharInv
<1>5. ShownInv'
  <2> SUFFICES ASSUME quiet PROVE Shown(paper, Typed(paper, char), Gone(paper))'
    BY DEF ShownInv
  <2>1. /\ temp = 1 /\ csr_y = Rows /\ Gone(paper) \in Nat
        /\ TextIs(Typed(paper, char), Gone(paper), text)
        /\ CursorAt(Typed(paper, char), Gone(paper))
    BY Seen DEF Shown
  <2>2. RowsMoved(Typed(paper, char), Gone(paper), text')
    BY <2>1, TextMoved
  <2>3. QED
    BY <2>1, <2>2 DEF Shown, CursorAt
<1>6. QED
  BY <1>2, <1>3, <1>4, <1>5

LEMMA BlankRowKeeps ==
  ASSUME ConsoleInv, line = 0, BlankRow
  PROVE  ConsoleInv'
<1> USE DEF ConsoleInv, BlankRow, unchanged_rest, countVars
<1>1. TextOK(text')
  <2>1. temp \in 0 .. 2
    BY Here DEF CursorInv
  <2>2. QED
    BY <2>1, Here, ScrollKeeps
<1>2. ConsoleTypeOK'
  BY <1>1 DEF ConsoleTypeOK, PC, TextOK
<1>3. CursorInv'
  BY DEF CursorInv
<1>4. CharInv'
  BY DEF CharInv
<1>5. ShownInv'
  <2> SUFFICES ASSUME quiet PROVE Shown(paper, Typed(paper, char), Gone(paper))'
    BY DEF ShownInv
  <2> DEFINE q == Typed(paper, char)
             g == Gone(paper)
  <2>1. /\ temp = 1 /\ csr_y = Rows /\ g \in Nat /\ PaperOK(q)
        /\ RowsMoved(q, g, text) /\ CursorAt(q, g)
    BY Seen DEF Shown
  <2>2. q.col = 0 /\ q.row = g + Rows
    BY <2>1, Seen DEF CursorAt
  <2>3. TextIs(q, g + 1, text')
    BY <2>1, <2>2, TextBlanked
  <2>4. QED
    BY <2>1, <2>3 DEF Shown, CursorAt
<1>6. QED
  BY <1>2, <1>3, <1>4, <1>5

LEMMA LastRowKeeps ==
  ASSUME ConsoleInv, line = 0, LastRow
  PROVE  ConsoleInv'
<1> USE DEF ConsoleInv, LastRow, countVars
<1>1. CharInv'
  BY DEF CharInv, PutDone
<1>2. csr_x' # Cols /\ csr_y' < Rows /\ csr_y' \in 0 .. Rows /\ csr_x < Cols
  BY Here, Sizes
<1>3. quiet => LET q == Typed(paper, char)
               IN  /\ csr_x = q.col /\ csr_y' = q.row - Gone(q)
                   /\ TextIs(q, Gone(q), text')
  <2> SUFFICES ASSUME quiet
               PROVE  LET q == Typed(paper, char)
                      IN  /\ csr_x = q.col /\ csr_y' = q.row - Gone(q)
                          /\ TextIs(q, Gone(q), text')
    OBVIOUS
  <2> DEFINE q == Typed(paper, char)
             g == Gone(paper)
  <2>1. csr_x = q.col /\ csr_y = q.row - g /\ csr_y = Rows /\ TextIs(q, g + 1, text)
    BY Seen DEF Shown, CursorAt
  <2>2. Gone(q) = g + 1 /\ q.row = g + Rows /\ g \in Nat
    BY <2>1, Seen
  <2> HIDE DEF q, g
  <2>3. csr_y' = q.row - Gone(q)
    BY <2>2, Sizes
  <2>4. QED
    BY <2>1, <2>2, <2>3 DEF q
<1>4. ShownInv' /\ CursorInv'
  BY <1>2, <1>3, PutDoneKeeps
<1>5. ConsoleTypeOK'
  BY <1>2, <1>4 DEF ConsoleTypeOK, PC, PutDone, ShownInv, PaperOK
<1>6. QED
  BY <1>1, <1>4, <1>5

LEMMA ConsoleStill ==
  ASSUME ConsoleInv, UNCHANGED consoleVars
  PROVE  ConsoleInv'
<1> USE DEF consoleVars, cursorVars, countVars
<1>1. ConsoleTypeOK' <=> ConsoleTypeOK
  BY DEF ConsoleTypeOK
<1>2. CursorInv' /\ CharInv'
  BY DEF ConsoleInv, CursorInv, CharInv
<1>3. ShownInv'
  BY DEF ConsoleInv, ShownInv, Shown, CursorAt
<1>4. QED
  BY <1>1, <1>2, <1>3 DEF ConsoleInv

\* The cursor and text memory at every point where the handler may come in.
THEOREM ConsoleInductive == ConsoleSpec => []ConsoleInv
<1>1. ConsoleInit => ConsoleInv
  BY ConsoleStart
<1>2. ConsoleInv /\ [ConsoleNext]_consoleVars => ConsoleInv'
  <2> SUFFICES ASSUME ConsoleInv, [ConsoleNext]_consoleVars PROVE ConsoleInv'
    OBVIOUS
  <2>1. CASE UNCHANGED consoleVars
    BY <2>1, ConsoleStill
  <2>2. CASE Tick
    BY <2>2, TickKeeps
  <2>3. CASE PutMessage
    BY <2>3, PutMessageKeeps
  <2>4. CASE line = 0 /\ PutChars
    <3>1. ASSUME NEW c \in Printable \cup {NewLine, TabChar}, Begin(c) PROVE ConsoleInv'
      BY <2>4, <3>1, BeginKeeps
    <3>2. CASE Where \/ PutChar \/ LoadX \/ StoreX \/ ToMargin \/ LoadY \/ StoreY \/ NoEdge
      BY <2>4, <3>2, WhereKeeps, PutCharKeeps, LoadXKeeps, StoreXKeeps, ToMarginKeeps,
         LoadYKeeps, StoreYKeeps, NoEdgeKeeps
    <3>3. CASE Scroll \/ RowsToGo \/ CopyRows \/ BlankRow \/ LastRow
      BY <2>4, <3>3, ScrollStepKeeps, RowsToGoKeeps, CopyRowsKeeps, BlankRowKeeps, LastRowKeeps
    <3>4. QED
      BY <2>4, <3>1, <3>2, <3>3 DEF PutChars
  <2>5. QED
    BY <2>1, <2>2, <2>3, <2>4 DEF ConsoleNext
<1>3. QED
  BY <1>1, <1>2, PTL DEF ConsoleSpec

\* The cursor is never more than the one step off the screen that putch corrects
\* before it returns, and no text is written but to the screen and the row
\* behind it, wherever the timer handler comes in.
THEOREM ConsoleTypeCorrect == ConsoleSpec => []ConsoleTypeOK
<1>1. ConsoleInv => ConsoleTypeOK
  BY DEF ConsoleInv
<1>2. QED
  BY <1>1, ConsoleInductive, PTL

\* As long as the handler has printed only between two calls of putch, the
\* screen shows the last rows of all the output.
THEOREM ScreenCorrect == ConsoleSpec => []ScreenShowsOutput
<1>1. ConsoleInv => ScreenShowsOutput
  <2> SUFFICES ASSUME ConsoleInv, quiet, pc = "idle"
               PROVE  /\ csr_x = paper.col /\ csr_y = paper.row - Gone(paper)
                      /\ \A k \in Screen :
                           text[k] = Visible(paper, k \div Cols + Gone(paper), k % Cols)
    BY DEF ScreenShowsOutput, Gone
  <2>1. CursorAt(paper, Gone(paper)) /\ TextIs(paper, Gone(paper), text)
    BY DEF ConsoleInv, ShownInv, Shown
  <2>2. QED
    BY <2>1, Sizes DEF CursorAt, TextIs
<1>2. QED
  BY <1>1, ConsoleInductive, PTL

------------------------------------------------------------------------------
(***************************************************************************)
(* ContextSwitch.  A thread may be preempted while it is being resumed, so *)
(* frames lie on frames, and no bound but the size of the stack holds.     *)
(* What holds is local: w is the stack of o, c what o had when it called   *)
(* the switch; each frame on w is followed by what the code that it        *)
(* returns to needs there.                                                 *)
(***************************************************************************)
Index == 0 .. (StackSize - 1)

\* What a general register may hold.
RegOK(a) == a \in Word /\ a # KERNEL_DS

Resumed == {"thread_start", "back", "handler_back"}

\* A switch may return to l at j with these registers and this interrupt flag.
After(o, w, c, j, l, a, r, b) ==
  /\ RegOK(a) /\ RegOK(r) /\ b \in BOOLEAN
  /\ \/ /\ l = "thread_start"
        /\ o \in Thread /\ j = StackSize - 3 /\ w[j] = <<"code", "fun">>
     \/ /\ l = "back"
        /\ o \in Thread /\ j = StackSize - 3
        /\ a = <<"register", o, c.n>> /\ r = a /\ b = c.flag /\ c.esp = <<o, StackSize - 2>>
     \/ l = "handler_back" /\ o \in Thread /\ j + 1 \in Index /\ w[j + 1] = KERNEL_DS
     \/ l = "main" /\ o = Main

\* A return address at k, which leads to stack pointer j.
Return(o, w, c, k, j, a, r, b) ==
  /\ k \in Index
  /\ \E l \in Code : w[k] = <<"code", l>> /\ After(o, w, c, j, l, a, r, b)

\* The same with the words that iret takes.
IretWords(o, w, c, k, a, r) ==
  /\ k + 2 \in Index
  /\ w[k + 1] = KERNEL_CS
  /\ \E b \in BOOLEAN : w[k + 2] = <<"flags", b>> /\ Return(o, w, c, k, k + 3, a, r, b)

\* The parameter of the switch.
Parameter(w, k) == k \in Index /\ w[k] \in ThreadWord

\* A frame at d of a thread that has left the processor.
FrameToResume(w, d) == d + 7 \in Index /\ w[d] = KERNEL_DS /\ w[d + 5] \in {<<"code", l>> : l \in Resumed}

\* The processor may be at l, its stack pointer at j.
PlaceOK(o, w, c, j, l, a, r, b) ==
  /\ RegOK(a) /\ RegOK(r) /\ b \in BOOLEAN
  /\ \/ l \in Resumed /\ After(o, w, c, j, l, a, r, b)
     \/ l = "fun" /\ o \in Thread /\ j = StackSize - 2
     \/ l = "main" /\ o = Main /\ j = StackSize
     \/ l = "64" /\ Parameter(w, j + 1) /\ Return(o, w, c, j, j + 1, a, r, b)
     \/ l = "122" /\ o = Main /\ Parameter(w, j + 1) /\ j \in Index
     \/ l \in {"125", "126"} /\ o = Main /\ a \in ThreadWord /\ j \in Index
     \/ /\ o \in Thread
        /\ \/ l = "80" /\ Parameter(w, j + 1) /\ Return(o, w, c, j, j + 1, a, r, b)
           \/ /\ l \in {"81", "83"}
              /\ j \in Index /\ Parameter(w, j + 2) /\ Return(o, w, c, j + 1, j + 2, w[j], r, b)
              /\ l = "83" => a = w[j + 1]
           \/ /\ l = "84"
              /\ j \in Index /\ Parameter(w, j + 2) /\ Return(o, w, c, j - 1, j + 2, w[j], r, b)
           \/ l = "85" /\ Parameter(w, j) /\ Return(o, w, c, j - 3, j, w[j - 2], r, b)
           \/ /\ l = "86"
              /\ Parameter(w, j + 1) /\ w[j] = <<"flags", b>>
              /\ Return(o, w, c, j - 2, j + 1, w[j - 1], r, b)
           \/ /\ l = "87"
              /\ Parameter(w, j + 1) /\ w[j] = <<"flags", b>>
              /\ Return(o, w, c, j - 2, j + 1, a, r, b)
           \/ /\ l = "88"
              /\ Parameter(w, j + 2) /\ w[j + 1] = <<"flags", b>> /\ w[j] = KERNEL_CS
              /\ Return(o, w, c, j - 1, j + 2, a, r, b)
           \/ l = "91" /\ Parameter(w, j + 3) /\ IretWords(o, w, c, j, a, r)
           \/ /\ l = "92"
              /\ j \in Index /\ Parameter(w, j + 4) /\ w[j] = Zero
              /\ IretWords(o, w, c, j + 1, a, r)
           \/ /\ l = "95"
              /\ j \in Index /\ Parameter(w, j + 5) /\ w[j] = Zero /\ w[j + 1] = Zero
              /\ IretWords(o, w, c, j + 2, a, r)
           \/ /\ l \in {"98", "99", "104", "107", "108"}
              /\ j \in Index /\ Parameter(w, j + 8) /\ FrameToResume(w, j)
              /\ l = "99" => a = <<"thread", o>>
              /\ l \in {"107", "108"} => a \in ThreadWord
           \/ l = "112" /\ j \in Index /\ FrameToResume(w, j)
           \/ l = "116" /\ j \in Index /\ IretWords(o, w, c, j, a, r)

\* A frame at d.
FrameShape(w, d) ==
  /\ d \in Index /\ d + 7 \in Index
  /\ w[d] = KERNEL_DS /\ w[d + 3] = Zero /\ w[d + 4] = Zero
  /\ w[d + 5] \in {<<"code", l>> : l \in Code}
  /\ w[d + 6] = KERNEL_CS
  /\ w[d + 7] \in FlagsWord

FrameOK(o, w, c, d) ==
  /\ FrameShape(w, d)
  /\ w[d + 5][2] \notin BelowEsp \cup EspInUse
  /\ PlaceOK(o, w, c, d + 8, w[d + 5][2], w[d + 2], w[d + 1], w[d + 7][2])

FramesOK(o, w, c, j) == \A d \in Index : d >= j /\ w[d] = KERNEL_DS => FrameOK(o, w, c, d)

\* The processor as it is, or as it was when the interrupt came: what it does
\* then is done when the handler returns.
InHandler == eip = "handler"
Interrupted(n) == stack[esp[1]][esp[2] + n]
LabelNow == IF InHandler THEN Interrupted(5)[2] ELSE eip
EspNow   == IF InHandler THEN esp[2] + 8 ELSE esp[2]
EaxNow   == IF InHandler THEN Interrupted(2) ELSE eax
RestNow  == IF InHandler THEN Interrupted(1) ELSE rest
FlagNow  == IF InHandler THEN Interrupted(7)[2] ELSE IF_flag

HandlerInv ==
  InHandler =>
    /\ IF_flag = FALSE
    /\ FrameShape(stack[esp[1]], esp[2])
    /\ RegOK(eax) /\ RegOK(rest)
    /\ LabelNow \notin BelowEsp

RunningInv ==
  LET o == esp[1]
  IN  /\ PlaceOK(o, stack[o], called[o], EspNow, LabelNow, EaxNow, RestNow, FlagNow)
      /\ FramesOK(o, stack[o], called[o], EspNow)

\* The thread that runs is the current one, but for the moment before its stack
\* is left; its stack pointer is saved shortly before.
CurrentInv ==
  /\ esp[1] = Main =>
       /\ LabelNow \in {"main", "64", "122", "125", "126"}
       /\ LabelNow # "126" => current_thread = NULL
  /\ esp[1] # Main /\ LabelNow # "108" => current_thread = esp[1]
  /\ LabelNow \in {"108", "126"} => EaxNow = <<"thread", current_thread>>
  /\ LabelNow \in {"104", "107", "108"} => thread_esp[esp[1]] = <<esp[1], EspNow>>

\* Every other thread waits, its stack pointer what it was when the processor
\* left its stack.
WaitingInv ==
  \A t \in Thread \ {esp[1]} :
    /\ thread_esp[t] = left[t] /\ thread_esp[t][1] = t
    /\ FrameToResume(stack[t], thread_esp[t][2])
    /\ FramesOK(t, stack[t], called[t], thread_esp[t][2])

SwitchInv ==
  /\ SwitchTypeOK
  /\ ~torn => HandlerInv /\ RunningInv /\ CurrentInv /\ WaitingInv

------------------------------------------------------------------------------
(* Words and stacks.                                                        *)

LEMMA Kinds ==
  /\ \A l : <<"code", l>> # KERNEL_DS
  /\ \A l \in Code \cup {"thread_shutdown"} : <<"code", l>> \in Word
  /\ \A b \in BOOLEAN : <<"flags", b>> \in Word /\ <<"flags", b>> \in FlagsWord
  /\ \A b : <<"flags", b>> # KERNEL_DS
  /\ \A f \in FlagsWord : f \in Word /\ f[2] \in BOOLEAN /\ f = <<"flags", f[2]>> /\ f # KERNEL_DS
  /\ \A t \in Thread : <<"thread", t>> \in ThreadWord
  /\ \A x \in ThreadWord : x \in Word /\ x # KERNEL_DS /\ x[2] \in Thread /\ x = <<"thread", x[2]>>
  /\ \A t \in Thread : \A n \in {0, 1} :
       <<"register", t, n>> \in Word /\ <<"register", t, n>> # KERNEL_DS
  /\ Zero \in Word /\ Zero # KERNEL_DS /\ KERNEL_CS \in Word /\ KERNEL_CS # KERNEL_DS
  /\ KERNEL_DS \in Word
<1>1. \A t, n : <<"register", t, n>> # KERNEL_DS
  <2> SUFFICES ASSUME NEW t, NEW n, <<"register", t, n>> = KERNEL_DS PROVE FALSE
    OBVIOUS
  <2>1. <<"register", t, n>>[1] = "register" /\ KERNEL_DS[1] = "other"
    BY DEF KERNEL_DS
  <2>2. QED
    BY <2>1
<1>2. \A t \in Thread : \A n \in {0, 1} : <<"register", t, n>> \in Word
  BY DEF Word, RegisterWord
<1>3. \A f \in FlagsWord : f \in Word /\ f[2] \in BOOLEAN /\ f = <<"flags", f[2]>> /\ f # KERNEL_DS
  BY DEF Word, FlagsWord, KERNEL_DS
<1>4. \A x \in ThreadWord : x \in Word /\ x # KERNEL_DS /\ x[2] \in Thread /\ x = <<"thread", x[2]>>
  BY DEF Word, ThreadWord, KERNEL_DS
<1>5. \A l \in Code \cup {"thread_shutdown"} : <<"code", l>> \in Word
  BY DEF Word, CodeWord
<1>6. \A l : <<"code", l>> # KERNEL_DS
  BY DEF KERNEL_DS
<1>7. \A b \in BOOLEAN : <<"flags", b>> \in Word /\ <<"flags", b>> \in FlagsWord
  BY DEF Word, FlagsWord
<1>8. \A t \in Thread : <<"thread", t>> \in ThreadWord
  BY DEF ThreadWord
<1>9. Zero \in Word /\ KERNEL_CS \in Word /\ KERNEL_DS \in Word
  BY DEF Word
<1>10. Zero # KERNEL_DS /\ KERNEL_CS # KERNEL_DS
  BY DEF Zero, KERNEL_CS, KERNEL_DS
<1>11. \A b : <<"flags", b>> # KERNEL_DS
  BY DEF KERNEL_DS
<1>12. QED
  BY <1>1, <1>2, <1>3, <1>4, <1>5, <1>6, <1>7, <1>8, <1>9, <1>10, <1>11

Stacks == [Owner -> [Index -> Word]]

LEMMA PushedFacts ==
  ASSUME NEW s \in Stacks, NEW o \in Owner, NEW j \in Depth, NEW ws \in Seq(Word),
         j - Len(ws) >= 0
  PROVE  LET v == Pushed(s, <<o, j>>, ws)
         IN  /\ v \in Stacks
             /\ \A u \in Owner \ {o} : v[u] = s[u]
             /\ \A k \in Index :
                  v[o][k] = IF k \in (j - Len(ws)) .. (j - 1) THEN ws[j - k] ELSE s[o][k]
<1> DEFINE f == [k \in Index |-> IF k \in (j - Len(ws)) .. (j - 1) THEN ws[j - k] ELSE s[o][k]]
           v == Pushed(s, <<o, j>>, ws)
<1>1. s[o] \in [Index -> Word] /\ DOMAIN s[o] = Index /\ Len(ws) \in Nat /\ StackSize \in Nat
  BY SwitchAssumption DEF Stacks
<1>2. v = [s EXCEPT ![o] = f]
  BY <1>1 DEF Pushed
<1>3. f \in [Index -> Word]
  <2> SUFFICES ASSUME NEW k \in Index
               PROVE  (IF k \in (j - Len(ws)) .. (j - 1) THEN ws[j - k] ELSE s[o][k]) \in Word
    OBVIOUS
  <2>1. CASE k \in (j - Len(ws)) .. (j - 1)
    <3>1. j - k \in 1 .. Len(ws)
      BY <1>1, <2>1 DEF Index, Depth
    <3>2. QED
      BY <2>1, <3>1
  <2>2. QED
    BY <1>1, <2>1
<1>4. v \in Stacks /\ v[o] = f /\ \A u \in Owner \ {o} : v[u] = s[u]
  BY <1>2, <1>3 DEF Stacks
<1>5. QED
  BY <1>4

LEMMA PushedOne ==
  ASSUME NEW s \in Stacks, NEW o \in Owner, NEW j \in Depth, NEW x \in Word, j - 1 \in Index
  PROVE  LET v == Pushed(s, <<o, j>>, <<x>>)
         IN  /\ v \in Stacks
             /\ \A u \in Owner \ {o} : v[u] = s[u]
             /\ v[o][j - 1] = x
             /\ \A k \in Index : k # j - 1 => v[o][k] = s[o][k]
<1> DEFINE ws == <<x>>
<1>1. Len(ws) = 1 /\ ws[1] = x
  OBVIOUS
<1>2. ws \in Seq(Word)
  OBVIOUS
<1>3. j - Len(ws) >= 0
  BY SwitchAssumption DEF Index, Depth
<1> HIDE DEF ws
<1>4. /\ Pushed(s, <<o, j>>, ws) \in Stacks
      /\ \A u \in Owner \ {o} : Pushed(s, <<o, j>>, ws)[u] = s[u]
  BY <1>2, <1>3, PushedFacts
<1>5. \A k \in Index : Pushed(s, <<o, j>>, ws)[o][k] =
        IF k \in (j - Len(ws)) .. (j - 1) THEN ws[j - k] ELSE s[o][k]
  BY <1>2, <1>3, PushedFacts
<1>6. \A k \in Index : k \in Int
  BY SwitchAssumption DEF Index
<1>7. j - (j - 1) = 1 /\ j \in Int
  BY SwitchAssumption DEF Depth
<1>8. QED
  BY <1>1, <1>4, <1>5, <1>6, <1>7 DEF ws

\* The words from q on are the same.
Agree(w, v, q) == \A k \in Index : k >= q => v[k] = w[k]

LEMMA IndexInt == StackSize \in Int /\ StackSize >= 28 /\ Index \subseteq Int /\ Depth \subseteq Int
                  /\ \A k \in Index : k >= 0 /\ k < StackSize
BY SwitchAssumption DEF Index, Depth

LEMMA AfterSame ==
  ASSUME NEW o, NEW w, NEW v, NEW c, NEW q \in Int, NEW j \in Int, NEW l, NEW a, NEW r, NEW b,
         Agree(w, v, q), j >= q, After(o, w, c, j, l, a, r, b)
  PROVE  After(o, v, c, j, l, a, r, b)
<1>1. j \in Index => v[j] = w[j]
  BY DEF Agree
<1>2. j + 1 \in Index => v[j + 1] = w[j + 1]
  BY DEF Agree
<1>3. StackSize - 3 \in Index
  BY SwitchAssumption DEF Index
<1>4. QED
  BY <1>1, <1>2, <1>3 DEF After

LEMMA ReturnSame ==
  ASSUME NEW o, NEW w, NEW v, NEW c, NEW q \in Int, NEW k, NEW j \in Int, NEW a, NEW r, NEW b,
         Agree(w, v, q), k >= q, j >= q, Return(o, w, c, k, j, a, r, b)
  PROVE  Return(o, v, c, k, j, a, r, b)
<1>1. k \in Index /\ v[k] = w[k]
  BY DEF Agree, Return
<1>2. QED
  BY <1>1, AfterSame DEF Return

LEMMA IretSame ==
  ASSUME NEW o, NEW w, NEW v, NEW c, NEW q \in Int, NEW k \in Int, NEW a, NEW r,
         Agree(w, v, q), k >= q, IretWords(o, w, c, k, a, r)
  PROVE  IretWords(o, v, c, k, a, r)
<1>1. k + 2 \in Index /\ k + 1 \in Index
  BY IndexInt DEF IretWords, Return, Index
<1>2. v[k + 1] = w[k + 1] /\ v[k + 2] = w[k + 2]
  BY <1>1 DEF Agree
<1>3. k + 3 >= q /\ k + 3 \in Int
  OBVIOUS
<1>4. QED
  BY <1>1, <1>2, <1>3, ReturnSame DEF IretWords

LEMMA ParameterSame ==
  ASSUME NEW w, NEW v, NEW q \in Int, NEW k \in Int, Agree(w, v, q), k >= q, Parameter(w, k)
  PROVE  Parameter(v, k)
BY DEF Parameter, Agree

\* Where the return address does not lie below the stack pointer, only the words
\* from there on matter.
LEMMA PlaceSame ==
  ASSUME NEW o, NEW w, NEW v, NEW c, NEW j \in Int, NEW l, NEW a, NEW r, NEW b,
         Agree(w, v, j), l \notin BelowEsp, PlaceOK(o, w, c, j, l, a, r, b)
  PROVE  PlaceOK(o, v, c, j, l, a, r, b)
<1>1. /\ j + 1 \in Int /\ j + 2 \in Int /\ j + 3 \in Int /\ j + 4 \in Int /\ j + 5 \in Int
      /\ j + 7 \in Int /\ j + 8 \in Int
  OBVIOUS
<1>2. RegOK(a) /\ RegOK(r) /\ b \in BOOLEAN
  BY DEF PlaceOK
<1>3. CASE l \in Resumed \cup {"fun", "main", "125", "126"}
  <2>1. After(o, w, c, j, l, a, r, b) => After(o, v, c, j, l, a, r, b)
    BY AfterSame
  <2>2. QED
    BY <1>3, <2>1 DEF PlaceOK, Resumed
<1>4. CASE l \in {"64", "80", "122"}
  <2>1. Parameter(w, j + 1) => Parameter(v, j + 1)
    BY <1>1, ParameterSame
  <2>2. Return(o, w, c, j, j + 1, a, r, b) => Return(o, v, c, j, j + 1, a, r, b)
    BY <1>1, ReturnSame
  <2>3. QED
    BY <1>2, <1>4, <2>1, <2>2 DEF PlaceOK, Resumed
<1>5. CASE l \in {"81", "83"}
  <2>1. /\ o \in Thread /\ j \in Index /\ Parameter(w, j + 2)
        /\ Return(o, w, c, j + 1, j + 2, w[j], r, b)
        /\ l = "83" => a = w[j + 1]
    BY <1>5 DEF PlaceOK, Resumed
  <2>2. Parameter(v, j + 2) /\ v[j] = w[j]
    BY <1>1, <2>1, ParameterSame DEF Agree
  <2>3. Return(o, v, c, j + 1, j + 2, v[j], r, b)
    BY <1>1, <2>1, <2>2, ReturnSame
  <2>4. v[j + 1] = w[j + 1]
    BY <2>1 DEF Return, Agree
  <2>5. QED
    BY <1>2, <1>5, <2>1, <2>2, <2>3, <2>4 DEF PlaceOK
<1>6. CASE l \in {"91", "116"}
  <2>1. Parameter(w, j + 3) => Parameter(v, j + 3)
    BY <1>1, ParameterSame
  <2>2. IretWords(o, w, c, j, a, r) => IretWords(o, v, c, j, a, r)
    BY IretSame
  <2>3. QED
    BY <1>2, <1>6, <2>1, <2>2 DEF PlaceOK, Resumed
<1>7. CASE l = "92"
  <2>1. Parameter(w, j + 4) => Parameter(v, j + 4)
    BY <1>1, ParameterSame
  <2>2. IretWords(o, w, c, j + 1, a, r) => IretWords(o, v, c, j + 1, a, r)
    BY <1>1, IretSame
  <2>3. j \in Index => v[j] = w[j]
    BY DEF Agree
  <2>4. QED
    BY <1>2, <1>7, <2>1, <2>2, <2>3 DEF PlaceOK, Resumed
<1>8. CASE l = "95"
  <2>1. /\ o \in Thread /\ j \in Index /\ Parameter(w, j + 5) /\ w[j] = Zero /\ w[j + 1] = Zero
        /\ IretWords(o, w, c, j + 2, a, r)
    BY <1>8 DEF PlaceOK, Resumed
  <2>2. Parameter(v, j + 5)
    BY <1>1, <2>1, ParameterSame
  <2>3. IretWords(o, v, c, j + 2, a, r)
    BY <1>1, <2>1, IretSame
  <2>4. j + 1 \in Index
    BY <1>1, <2>1, IndexInt DEF Index, IretWords
  <2>5. v[j] = Zero /\ v[j + 1] = Zero
    BY <2>1, <2>4 DEF Agree
  <2>6. QED
    BY <1>2, <1>8, <2>1, <2>2, <2>3, <2>5 DEF PlaceOK
<1>9. CASE l \in {"98", "99", "104", "107", "108", "112"}
  <2>1. Parameter(w, j + 8) => Parameter(v, j + 8)
    BY <1>1, ParameterSame
  <2>2. FrameToResume(w, j) => FrameToResume(v, j)
    <3> SUFFICES ASSUME FrameToResume(w, j) PROVE FrameToResume(v, j)
      OBVIOUS
    <3>1. j \in Index
      BY <1>9 DEF PlaceOK, Resumed
    <3>2. j + 5 \in Index /\ j + 5 >= j
      BY <1>1, <3>1, IndexInt DEF Index, FrameToResume
    <3>3. v[j] = w[j] /\ v[j + 5] = w[j + 5]
      BY <3>1, <3>2 DEF Agree
    <3>4. QED
      BY <3>3 DEF FrameToResume
  <2>3. QED
    BY <1>2, <1>9, <2>1, <2>2 DEF PlaceOK, Resumed
<1>10. QED
  BY <1>3, <1>4, <1>5, <1>6, <1>7, <1>8, <1>9 DEF PlaceOK, BelowEsp, Resumed

LEMMA FrameSame ==
  ASSUME NEW o, NEW w, NEW v, NEW c, NEW d \in Int, Agree(w, v, d), FrameOK(o, w, c, d)
  PROVE  FrameOK(o, v, c, d)
<1>1. d \in Index /\ d + 7 \in Index
  BY DEF FrameOK, FrameShape
<1>2. \A n \in 0 .. 7 : d + n \in Index /\ v[d + n] = w[d + n]
  BY <1>1, IndexInt DEF Agree, Index
<1>3. /\ v[d] = w[d] /\ v[d + 1] = w[d + 1] /\ v[d + 2] = w[d + 2]
      /\ v[d + 3] = w[d + 3] /\ v[d + 4] = w[d + 4]
      /\ v[d + 5] = w[d + 5] /\ v[d + 6] = w[d + 6] /\ v[d + 7] = w[d + 7]
  BY <1>1, <1>2 DEF Agree
<1>4. Agree(w, v, d + 8)
  BY IndexInt DEF Agree
<1>5. d + 8 \in Int
  OBVIOUS
<1>6. FrameShape(v, d)
  BY <1>3 DEF FrameOK, FrameShape
<1>7. PlaceOK(o, v, c, d + 8, v[d + 5][2], v[d + 2], v[d + 1], v[d + 7][2])
  BY <1>3, <1>4, <1>5, PlaceSame DEF FrameOK
<1>8. QED
  BY <1>3, <1>6, <1>7 DEF FrameOK

LEMMA FramesSame ==
  ASSUME NEW o, NEW w, NEW v, NEW c, NEW j \in Int, NEW n \in Int, j >= n, FramesOK(o, w, c, n),
         Agree(w, v, j)
  PROVE  FramesOK(o, v, c, j)
<1> SUFFICES ASSUME NEW d \in Index, d >= j, v[d] = KERNEL_DS PROVE FrameOK(o, v, c, d)
  BY DEF FramesOK
<1>1. w[d] = KERNEL_DS /\ d >= n /\ d \in Int
  BY IndexInt DEF Agree
<1>2. FrameOK(o, w, c, d)
  BY <1>1 DEF FramesOK
<1>3. Agree(w, v, d)
  BY <1>1, IndexInt DEF Agree
<1>4. QED
  BY <1>1, <1>2, <1>3, FrameSame

\* One more word, or the word below.
LEMMA FramesMore ==
  ASSUME NEW o, NEW w, NEW v, NEW c, NEW j \in Int, FramesOK(o, w, c, j), Agree(w, v, j),
         v[j - 1] # KERNEL_DS
  PROVE  FramesOK(o, v, c, j - 1)
<1> SUFFICES ASSUME NEW d \in Index, d >= j - 1, v[d] = KERNEL_DS PROVE FrameOK(o, v, c, d)
  BY DEF FramesOK
<1>1. d # j - 1 /\ d \in Int
  BY IndexInt
<1>2. d >= j
  BY <1>1
<1>3. FramesOK(o, v, c, j)
  BY FramesSame
<1>4. QED
  BY <1>2, <1>3 DEF FramesOK

------------------------------------------------------------------------------
(* Steps on the stack that the processor is on.                             *)

MainLine == {"main", "64", "122", "125", "126"}

LEMMA NowOK ==
  ASSUME SwitchInv, ~torn, eip # "handler"
  PROVE  /\ esp[1] \in Owner /\ esp[2] \in Depth /\ esp[2] \in Int /\ esp = <<esp[1], esp[2]>>
         /\ stack \in Stacks /\ stack[esp[1]] \in [Index -> Word]
         /\ esp[1] # Main => esp[1] \in Thread
         /\ PlaceOK(esp[1], stack[esp[1]], called[esp[1]], esp[2], eip, eax, rest, IF_flag)
         /\ FramesOK(esp[1], stack[esp[1]], called[esp[1]], esp[2])
         /\ RegOK(eax) /\ RegOK(rest) /\ IF_flag \in BOOLEAN
         /\ esp[1] = Main => eip \in MainLine /\ (eip # "126" => current_thread = NULL)
         /\ esp[1] # Main /\ eip # "108" => current_thread = esp[1]
         /\ eip \in {"108", "126"} => eax = <<"thread", current_thread>>
         /\ eip \in {"104", "107", "108"} => thread_esp[esp[1]] = <<esp[1], esp[2]>>
<1>1. SwitchTypeOK /\ RunningInv /\ CurrentInv
  BY DEF SwitchInv
<1>2. LabelNow = eip /\ EspNow = esp[2] /\ EaxNow = eax /\ RestNow = rest /\ FlagNow = IF_flag
  BY DEF LabelNow, EspNow, EaxNow, RestNow, FlagNow, InHandler
<1>3. /\ esp[1] \in Owner /\ esp[2] \in Depth /\ esp[2] \in Int /\ esp = <<esp[1], esp[2]>>
      /\ stack \in Stacks /\ stack[esp[1]] \in [Index -> Word]
      /\ esp[1] # Main => esp[1] \in Thread
  <2>1. esp \in Owner \X Depth
    BY <1>1 DEF SwitchTypeOK
  <2>2. stack \in Stacks
    BY <1>1 DEF SwitchTypeOK, Stacks, Index
  <2>3. esp[1] \in Owner /\ esp[2] \in Depth /\ esp = <<esp[1], esp[2]>>
    BY <2>1
  <2>4. esp[2] \in Int
    BY <2>3, IndexInt
  <2>5. stack[esp[1]] \in [Index -> Word]
    BY <2>2, <2>3 DEF Stacks
  <2>6. QED
    BY <2>2, <2>3, <2>4, <2>5 DEF Owner
<1>4. PlaceOK(esp[1], stack[esp[1]], called[esp[1]], esp[2], eip, eax, rest, IF_flag)
  BY <1>1, <1>2 DEF RunningInv
<1>5. FramesOK(esp[1], stack[esp[1]], called[esp[1]], esp[2])
  BY <1>1, <1>2 DEF RunningInv
<1>6. /\ esp[1] = Main => eip \in MainLine /\ (eip # "126" => current_thread = NULL)
      /\ esp[1] # Main /\ eip # "108" => current_thread = esp[1]
      /\ eip \in {"108", "126"} => eax = <<"thread", current_thread>>
      /\ eip \in {"104", "107", "108"} => thread_esp[esp[1]] = <<esp[1], esp[2]>>
  BY <1>1, <1>2 DEF CurrentInv, MainLine
<1>7. RegOK(eax) /\ RegOK(rest) /\ IF_flag \in BOOLEAN
  BY <1>4 DEF PlaceOK
<1>8. QED
  BY <1>3, <1>4, <1>5, <1>6, <1>7

LEMMA OwnStep ==
  ASSUME SwitchInv, ~torn,
         eip' \in Code \ {"handler"}, esp' \in Owner \X Depth, esp'[1] = esp[1],
         stack' \in Stacks, \A u \in Owner \ {esp[1]} : stack'[u] = stack[u],
         thread_esp' \in [Thread -> Owner \X Depth],
         \A u \in Thread \ {esp[1]} : thread_esp'[u] = thread_esp[u],
         called' \in [Thread -> [n : {0, 1}, esp : Owner \X Depth, flag : BOOLEAN]],
         \A u \in Thread \ {esp[1]} : called'[u] = called[u],
         current_thread' \in Thread \cup {NULL},
         UNCHANGED <<timer, left, torn>>,
         PlaceOK(esp[1], stack'[esp[1]], called'[esp[1]], esp'[2], eip', eax', rest', IF_flag'),
         FramesOK(esp[1], stack'[esp[1]], called'[esp[1]], esp'[2]),
         esp[1] = Main => eip' \in MainLine /\ (eip' # "126" => current_thread' = NULL),
         esp[1] # Main /\ eip' # "108" => current_thread' = esp[1],
         eip' \in {"108", "126"} => eax' = <<"thread", current_thread'>>,
         eip' \in {"104", "107", "108"} => thread_esp'[esp[1]] = <<esp[1], esp'[2]>>
  PROVE  SwitchInv'
<1>1. ~InHandler'
  BY DEF InHandler
<1>2. /\ LabelNow' = eip' /\ EspNow' = esp'[2] /\ EaxNow' = eax' /\ RestNow' = rest'
      /\ FlagNow' = IF_flag'
  BY <1>1 DEF LabelNow, EspNow, EaxNow, RestNow, FlagNow, InHandler
<1>3. SwitchTypeOK'
  BY DEF SwitchInv, SwitchTypeOK, PlaceOK, RegOK, Stacks, Index
<1>4. HandlerInv'
  BY <1>1 DEF HandlerInv
<1>5. RunningInv'
  BY <1>2 DEF RunningInv
<1>6. CurrentInv'
  BY <1>2 DEF CurrentInv, MainLine
<1>7. WaitingInv'
  <2> SUFFICES ASSUME NEW t \in Thread \ {esp[1]}
               PROVE  /\ thread_esp'[t] = left'[t] /\ thread_esp'[t][1] = t
                      /\ FrameToResume(stack'[t], thread_esp'[t][2])
                      /\ FramesOK(t, stack'[t], called'[t], thread_esp'[t][2])
    BY DEF WaitingInv
  <2>1. /\ thread_esp'[t] = thread_esp[t] /\ stack'[t] = stack[t] /\ called'[t] = called[t]
        /\ left'[t] = left[t]
    BY DEF Owner
  <2>2. QED
    BY <2>1 DEF SwitchInv, WaitingInv
<1>8. QED
  BY <1>3, <1>4, <1>5, <1>6, <1>7 DEF SwitchInv

\* Most of them change neither the current thread nor what is kept of threads.
LEMMA PlainStep ==
  ASSUME SwitchInv, ~torn, eip \notin {"handler", "108", "126"},
         eip' \in Code \ {"handler", "104", "107", "108", "126"},
         esp' \in Owner \X Depth, esp'[1] = esp[1],
         stack' \in Stacks, \A u \in Owner \ {esp[1]} : stack'[u] = stack[u],
         UNCHANGED <<timer, left, torn, thread_esp, called, current_thread>>,
         PlaceOK(esp[1], stack'[esp[1]], called[esp[1]], esp'[2], eip', eax', rest', IF_flag'),
         FramesOK(esp[1], stack'[esp[1]], called[esp[1]], esp'[2]),
         esp[1] = Main => eip' \in MainLine
  PROVE  SwitchInv'
<1>1. /\ esp[1] = Main => current_thread' = NULL
      /\ esp[1] # Main => current_thread' = esp[1]
  BY NowOK
<1>2. /\ thread_esp' \in [Thread -> Owner \X Depth] /\ current_thread' \in Thread \cup {NULL}
      /\ called' \in [Thread -> [n : {0, 1}, esp : Owner \X Depth, flag : BOOLEAN]]
  BY DEF SwitchInv, SwitchTypeOK
<1>3. QED
  BY <1>1, <1>2, OwnStep

LEMMA RegisterStep ==
  ASSUME SwitchInv, ~torn, eip \notin {"handler", "108", "126"},
         eip' \in Code \ {"handler", "104", "107", "108", "126"},
         UNCHANGED <<esp, stack, timer, left, torn, thread_esp, called, current_thread>>,
         PlaceOK(esp[1], stack[esp[1]], called[esp[1]], esp[2], eip', eax', rest', IF_flag'),
         esp[1] = Main => eip' \in MainLine
  PROVE  SwitchInv'
<1>1. esp' \in Owner \X Depth /\ stack' \in Stacks
  BY NowOK DEF SwitchInv, SwitchTypeOK
<1>2. FramesOK(esp[1], stack'[esp[1]], called[esp[1]], esp'[2])
  BY NowOK
<1>3. QED
  BY <1>1, <1>2, PlainStep

\* A word is pushed, and esp moved or not.
LEMMA WordStep ==
  ASSUME SwitchInv, ~torn, eip # "handler", NEW STATE x, x \in Word, OnStack(Below(esp, 1)),
         stack' = Pushed(stack, esp, <<x>>)
  PROVE  /\ stack' \in Stacks /\ \A u \in Owner \ {esp[1]} : stack'[u] = stack[u]
         /\ esp[2] - 1 \in Index /\ esp[2] - 1 \in Depth
         /\ stack'[esp[1]][esp[2] - 1] = x
         /\ Agree(stack[esp[1]], stack'[esp[1]], esp[2])
         /\ \A k \in Index : k # esp[2] - 1 => stack'[esp[1]][k] = stack[esp[1]][k]
         /\ FramesOK(esp[1], stack'[esp[1]], called[esp[1]], esp[2])
         /\ x # KERNEL_DS => FramesOK(esp[1], stack'[esp[1]], called[esp[1]], esp[2] - 1)
<1>1. /\ esp[1] \in Owner /\ esp[2] \in Depth /\ esp[2] \in Int /\ esp = <<esp[1], esp[2]>>
      /\ stack \in Stacks /\ FramesOK(esp[1], stack[esp[1]], called[esp[1]], esp[2])
  BY NowOK
<1>2. esp[2] - 1 \in Index /\ esp[2] - 1 \in Depth
  BY <1>1, IndexInt DEF OnStack, Below, Index, Depth
<1>3. stack' = Pushed(stack, <<esp[1], esp[2]>>, <<x>>)
  BY <1>1
<1>4. /\ stack' \in Stacks /\ \A u \in Owner \ {esp[1]} : stack'[u] = stack[u]
      /\ stack'[esp[1]][esp[2] - 1] = x
      /\ \A k \in Index : k # esp[2] - 1 => stack'[esp[1]][k] = stack[esp[1]][k]
  BY <1>1, <1>2, <1>3, PushedOne
<1>5. Agree(stack[esp[1]], stack'[esp[1]], esp[2])
  BY <1>1, <1>4, IndexInt DEF Agree
<1>6. FramesOK(esp[1], stack'[esp[1]], called[esp[1]], esp[2])
  BY <1>1, <1>5, FramesSame
<1>7. x # KERNEL_DS => FramesOK(esp[1], stack'[esp[1]], called[esp[1]], esp[2] - 1)
  BY <1>1, <1>4, <1>5, FramesMore
<1>8. QED
  BY <1>2, <1>4, <1>5, <1>6, <1>7

LEMMA PushStep ==
  ASSUME SwitchInv, ~torn, eip \notin {"handler", "108", "126"}, esp[1] # Main,
         NEW STATE x, x \in Word, x # KERNEL_DS,
         NEW l \in Code \ {"handler", "104", "107", "108", "126"}, Push(x, l),
         PlaceOK(esp[1], stack'[esp[1]], called[esp[1]], esp[2] - 1, l, eax, rest, IF_flag)
  PROVE  SwitchInv'
<1>1. /\ OnStack(Below(esp, 1)) /\ stack' = Pushed(stack, esp, <<x>>)
      /\ esp' = <<esp[1], esp[2] - 1>> /\ eip' = l
      /\ UNCHANGED <<timer, eax, rest, IF_flag, current_thread, thread_esp, called, left, torn>>
  BY DEF Push, Below, auxiliary
<1>2. /\ stack' \in Stacks /\ \A u \in Owner \ {esp[1]} : stack'[u] = stack[u]
      /\ esp[2] - 1 \in Depth
      /\ FramesOK(esp[1], stack'[esp[1]], called[esp[1]], esp[2] - 1)
  BY <1>1, WordStep
<1>3. esp'[1] = esp[1] /\ esp'[2] = esp[2] - 1 /\ esp' \in Owner \X Depth
  BY <1>1, <1>2, NowOK
<1>4. QED
  BY <1>1, <1>2, <1>3, PlainStep

------------------------------------------------------------------------------
(* threads_low_switch_to.                                                   *)

\* What a return address and the words of an iret are.
LEMMA ReturnFacts ==
  ASSUME NEW o, NEW w, NEW c, NEW k, NEW j, NEW a, NEW r, NEW b, Return(o, w, c, k, j, a, r, b)
  PROVE  /\ k \in Index /\ k \in Int /\ RegOK(w[k]) /\ w[k] # KERNEL_DS
         /\ w[k] \in {<<"code", l>> : l \in Code}
         /\ RegOK(a) /\ RegOK(r) /\ b \in BOOLEAN
         /\ o # Main => w[k] \in {<<"code", l>> : l \in Resumed}
<1>1. PICK l \in Code : w[k] = <<"code", l>> /\ After(o, w, c, j, l, a, r, b)
  BY DEF Return
<1>2. RegOK(w[k])
  BY <1>1, Kinds DEF RegOK
<1>3. o # Main => l \in Resumed
  BY <1>1 DEF After, Resumed
<1>4. QED
  BY <1>1, <1>2, <1>3, IndexInt DEF Return, After, RegOK

LEMMA ParameterFacts ==
  ASSUME NEW w, NEW k, Parameter(w, k)
  PROVE  k \in Index /\ w[k] \in ThreadWord /\ RegOK(w[k]) /\ w[k] # KERNEL_DS /\ w[k][2] \in Thread
BY Kinds DEF Parameter, RegOK

LEMMA CompareKeeps ==
  ASSUME SwitchInv, ~torn, Compare
  PROVE  SwitchInv'
<1>1. /\ eip = "64" /\ UNCHANGED <<esp, eax, rest, IF_flag>>
      /\ UNCHANGED <<timer, stack, current_thread, thread_esp, called, left, torn>>
      /\ eip' = IF current_thread = NULL THEN "122" ELSE "80"
  BY DEF Compare, SetEsp, unchanged_memory, auxiliary
<1>2. /\ Parameter(stack[esp[1]], esp[2] + 1)
      /\ Return(esp[1], stack[esp[1]], called[esp[1]], esp[2], esp[2] + 1, eax, rest, IF_flag)
  BY <1>1, NowOK DEF PlaceOK, Resumed
<1>3. /\ esp[1] = Main => current_thread = NULL
      /\ esp[1] # Main => esp[1] \in Thread /\ current_thread = esp[1] /\ current_thread # NULL
  BY <1>1, NowOK, SwitchAssumption
<1>4. PlaceOK(esp[1], stack[esp[1]], called[esp[1]], esp[2], eip', eax', rest', IF_flag')
  BY <1>1, <1>2, <1>3, NowOK, ReturnFacts DEF PlaceOK
<1>5. eip' \in Code \ {"handler", "104", "107", "108", "126"}
  BY <1>1 DEF Code, Line
<1>6. esp[1] = Main => eip' \in MainLine
  BY <1>1, <1>3 DEF MainLine
<1>7. QED
  BY <1>1, <1>4, <1>5, <1>6, RegisterStep

LEMMA SaveEaxKeeps ==
  ASSUME SwitchInv, ~torn, SaveEax
  PROVE  SwitchInv'
<1> DEFINE o == esp[1]
           j == esp[2]
           w == stack[o]
           v == stack'[o]
           c == called[o]
<1>1. eip = "80" /\ Push(eax, "81")
  BY DEF SaveEax
<1>2. /\ o \in Thread /\ o # Main /\ j \in Int
      /\ Parameter(w, j + 1) /\ Return(o, w, c, j, j + 1, eax, rest, IF_flag)
  BY <1>1, NowOK DEF PlaceOK, Resumed, MainLine
<1>3. /\ j - 1 \in Index /\ v[j - 1] = eax /\ Agree(w, v, j)
      /\ RegOK(eax) /\ RegOK(rest) /\ IF_flag \in BOOLEAN
  BY <1>1, NowOK, WordStep DEF Push, RegOK
<1> HIDE DEF o, j, w, v, c
<1>4. /\ Parameter(v, j + 1)
      /\ Return(o, v, c, j, j + 1, v[j - 1], rest, IF_flag)
  BY <1>2, <1>3, ParameterSame, ReturnSame
<1>5. (j - 1) + 1 = j /\ (j - 1) + 2 = j + 1
  BY <1>2
<1>6. PlaceOK(o, v, c, j - 1, "81", eax, rest, IF_flag)
  BY <1>2, <1>3, <1>4, <1>5 DEF PlaceOK
<1>7. QED
  BY <1>1, <1>2, <1>3, <1>6, PushStep DEF o, j, w, v, c, RegOK, Code, Line

LEMMA GetReturnAddressKeeps ==
  ASSUME SwitchInv, ~torn, GetReturnAddress
  PROVE  SwitchInv'
<1> DEFINE o == esp[1]
           j == esp[2]
           w == stack[o]
           c == called[o]
<1>1. /\ eip = "81" /\ eip' = "83" /\ eax' = w[j + 1] /\ UNCHANGED <<esp, rest, IF_flag>>
      /\ UNCHANGED <<timer, stack, current_thread, thread_esp, called, left, torn>>
  BY DEF GetReturnAddress, LoadEax, unchanged_memory, auxiliary, At, Above
<1>2. /\ o \in Thread /\ o # Main /\ j \in Int /\ j \in Index
      /\ Parameter(w, j + 2) /\ Return(o, w, c, j + 1, j + 2, w[j], rest, IF_flag)
      /\ RegOK(rest) /\ IF_flag \in BOOLEAN
  BY <1>1, NowOK DEF PlaceOK, Resumed, MainLine
<1>3. RegOK(w[j + 1])
  BY <1>2, ReturnFacts
<1>4. PlaceOK(o, w, c, j, "83", w[j + 1], rest, IF_flag)
  BY <1>2, <1>3 DEF PlaceOK
<1>5. QED
  BY <1>1, <1>2, <1>4, RegisterStep DEF Code, Line

LEMMA MoveReturnAddressKeeps ==
  ASSUME SwitchInv, ~torn, MoveReturnAddress
  PROVE  SwitchInv'
<1> DEFINE o == esp[1]
           j == esp[2]
           w == stack[o]
           v == stack'[o]
           c == called[o]
<1>1. /\ eip = "83" /\ eip' = "84" /\ OnStack(Below(esp, 1))
      /\ stack' = Pushed(stack, esp, <<eax>>)
      /\ UNCHANGED <<timer, esp, eax, rest, IF_flag, current_thread, thread_esp, called, left, torn>>
  BY DEF MoveReturnAddress, auxiliary
<1>2. /\ o \in Thread /\ o # Main /\ j \in Int /\ j \in Index
      /\ Parameter(w, j + 2) /\ Return(o, w, c, j + 1, j + 2, w[j], rest, IF_flag)
      /\ eax = w[j + 1]
      /\ RegOK(eax) /\ RegOK(rest) /\ IF_flag \in BOOLEAN
  BY <1>1, NowOK DEF PlaceOK, Resumed, MainLine
<1>3. /\ j - 1 \in Index /\ v[j - 1] = eax /\ Agree(w, v, j)
      /\ stack' \in Stacks /\ \A u \in Owner \ {esp[1]} : stack'[u] = stack[u]
      /\ FramesOK(o, v, c, j)
  BY <1>1, <1>2, WordStep DEF RegOK
<1>4. PlaceOK(o, v, c, j, "84", eax, rest, IF_flag)
  <2>1. Parameter(v, j + 2)
    BY <1>2, <1>3, ParameterSame
  <2>2. v[j] = w[j]
    BY <1>2, <1>3 DEF Agree
  <2>3. PICK l \in Code : w[j + 1] = <<"code", l>> /\ After(o, w, c, j + 2, l, w[j], rest, IF_flag)
    BY <1>2 DEF Return
  <2>4. After(o, v, c, j + 2, l, v[j], rest, IF_flag)
    BY <1>2, <1>3, <2>2, <2>3, AfterSame
  <2>5. Return(o, v, c, j - 1, j + 2, v[j], rest, IF_flag)
    BY <1>2, <1>3, <2>3, <2>4 DEF Return
  <2>6. QED
    BY <1>2, <2>1, <2>5 DEF PlaceOK
<1>5. esp' \in Owner \X Depth /\ esp'[1] = o /\ esp'[2] = j
  BY <1>1 DEF SwitchInv, SwitchTypeOK
<1>6. QED
  BY <1>1, <1>2, <1>3, <1>4, <1>5, PlainStep DEF Code, Line

LEMMA MoveUpKeeps ==
  ASSUME SwitchInv, ~torn, MoveUp
  PROVE  SwitchInv'
<1> DEFINE o == esp[1]
           j == esp[2]
           w == stack[o]
           c == called[o]
<1>1. /\ eip = "84" /\ eip' = "85" /\ esp' = <<o, j + 2>> /\ UNCHANGED <<eax, rest, IF_flag>>
      /\ UNCHANGED <<timer, stack, current_thread, thread_esp, called, left, torn>>
  BY DEF MoveUp, SetEsp, unchanged_memory, auxiliary, Above
<1>2. /\ o \in Thread /\ o # Main /\ j \in Int /\ o \in Owner
      /\ Parameter(w, j + 2) /\ Return(o, w, c, j - 1, j + 2, w[j], rest, IF_flag)
      /\ RegOK(eax) /\ RegOK(rest) /\ IF_flag \in BOOLEAN
      /\ stack \in Stacks /\ FramesOK(o, w, c, j)
  BY <1>1, NowOK DEF PlaceOK, Resumed, MainLine
<1>3. (j + 2) - 3 = j - 1 /\ (j + 2) - 2 = j /\ j + 2 \in Depth /\ j + 2 \in Int /\ j + 2 >= j
  BY <1>2, ParameterFacts, IndexInt DEF Index, Depth
<1>4. PlaceOK(o, w, c, j + 2, "85", eax, rest, IF_flag)
  BY <1>2, <1>3 DEF PlaceOK
<1>5. FramesOK(o, w, c, j + 2)
  BY <1>2, <1>3, FramesSame DEF Agree
<1>6. esp' \in Owner \X Depth /\ esp'[1] = o /\ esp'[2] = j + 2
  BY <1>1, <1>2, <1>3
<1>7. QED
  BY <1>1, <1>2, <1>4, <1>5, <1>6, PlainStep DEF Code, Line

LEMMA PushFlagsKeeps ==
  ASSUME SwitchInv, ~torn, PushFlags
  PROVE  SwitchInv'
<1> DEFINE o == esp[1]
           j == esp[2]
           w == stack[o]
           v == stack'[o]
           c == called[o]
           x == <<"flags", IF_flag>>
<1>1. eip = "85" /\ Push(x, "86")
  BY DEF PushFlags
<1>2. /\ o \in Thread /\ o # Main /\ j \in Int
      /\ Parameter(w, j) /\ Return(o, w, c, j - 3, j, w[j - 2], rest, IF_flag)
      /\ RegOK(eax) /\ RegOK(rest) /\ IF_flag \in BOOLEAN
  BY <1>1, NowOK DEF PlaceOK, Resumed, MainLine
<1>3. x \in Word /\ x # KERNEL_DS
  BY <1>2, Kinds
<1>4. /\ j - 1 \in Index /\ v[j - 1] = x /\ Agree(w, v, j)
      /\ \A k \in Index : k # j - 1 => v[k] = w[k]
  BY <1>1, <1>3, WordStep DEF Push
<1> HIDE DEF o, j, w, v, c
<1>5. /\ (j - 1) + 1 = j /\ (j - 1) - 2 = j - 3 /\ (j - 1) - 1 = j - 2
      /\ j - 3 \in Index /\ j - 2 \in Index /\ j - 3 # j - 1 /\ j - 2 # j - 1
  BY <1>2, <1>4, IndexInt DEF Return, Index
<1>6. Parameter(v, j)
  BY <1>2, <1>4, ParameterSame
<1>7. Return(o, v, c, j - 3, j, v[j - 2], rest, IF_flag)
  <2>1. v[j - 2] = w[j - 2] /\ v[j - 3] = w[j - 3]
    BY <1>4, <1>5
  <2>2. PICK l \in Code : w[j - 3] = <<"code", l>> /\ After(o, w, c, j, l, w[j - 2], rest, IF_flag)
    BY <1>2 DEF Return
  <2>3. After(o, v, c, j, l, v[j - 2], rest, IF_flag)
    BY <1>2, <1>4, <2>1, <2>2, AfterSame
  <2>4. QED
    BY <1>5, <2>1, <2>2, <2>3 DEF Return
<1>8. PlaceOK(o, v, c, j - 1, "86", eax, rest, IF_flag)
  BY <1>2, <1>4, <1>5, <1>6, <1>7 DEF PlaceOK
<1>9. QED
  BY <1>1, <1>2, <1>3, <1>8, PushStep DEF o, j, w, v, c, Code, Line

LEMMA RestoreEaxKeeps ==
  ASSUME SwitchInv, ~torn, RestoreEax
  PROVE  SwitchInv'
<1> DEFINE o == esp[1]
           j == esp[2]
           w == stack[o]
           c == called[o]
<1>1. /\ eip = "86" /\ eip' = "87" /\ eax' = w[j - 1] /\ UNCHANGED <<esp, rest, IF_flag>>
      /\ UNCHANGED <<timer, stack, current_thread, thread_esp, called, left, torn>>
  BY DEF RestoreEax, LoadEax, unchanged_memory, auxiliary, At, Below
<1>2. /\ o \in Thread /\ o # Main
      /\ Parameter(w, j + 1) /\ w[j] = <<"flags", IF_flag>>
      /\ Return(o, w, c, j - 2, j + 1, w[j - 1], rest, IF_flag)
  BY <1>1, NowOK DEF PlaceOK, Resumed, MainLine
<1>3. RegOK(w[j - 1]) /\ RegOK(rest) /\ IF_flag \in BOOLEAN
  BY <1>2, ReturnFacts
<1>4. PlaceOK(o, w, c, j, "87", w[j - 1], rest, IF_flag)
  BY <1>2, <1>3 DEF PlaceOK
<1>5. QED
  BY <1>1, <1>2, <1>4, RegisterStep DEF Code, Line

LEMMA PushCSKeeps ==
  ASSUME SwitchInv, ~torn, PushCS
  PROVE  SwitchInv'
<1> DEFINE o == esp[1]
           j == esp[2]
           w == stack[o]
           v == stack'[o]
           c == called[o]
<1>1. eip = "87" /\ Push(KERNEL_CS, "88")
  BY DEF PushCS
<1>2. /\ o \in Thread /\ o # Main /\ j \in Int
      /\ Parameter(w, j + 1) /\ w[j] = <<"flags", IF_flag>>
      /\ Return(o, w, c, j - 2, j + 1, eax, rest, IF_flag)
      /\ RegOK(eax) /\ RegOK(rest) /\ IF_flag \in BOOLEAN
  BY <1>1, NowOK DEF PlaceOK, Resumed, MainLine
<1>3. /\ j - 1 \in Index /\ v[j - 1] = KERNEL_CS /\ Agree(w, v, j)
      /\ \A k \in Index : k # j - 1 => v[k] = w[k]
  BY <1>1, Kinds, WordStep DEF Push
<1> HIDE DEF o, j, w, v, c
<1>4. /\ (j - 1) + 1 = j /\ (j - 1) + 2 = j + 1 /\ (j - 1) - 1 = j - 2
      /\ j \in Index /\ j - 2 \in Index /\ j - 2 # j - 1
  BY <1>2, <1>3, IndexInt DEF Return, Parameter, Index
<1>5. Parameter(v, j + 1) /\ v[j] = <<"flags", IF_flag>>
  BY <1>2, <1>3, <1>4, ParameterSame DEF Agree
<1>6. Return(o, v, c, j - 2, j + 1, eax, rest, IF_flag)
  <2>1. PICK l \in Code : w[j - 2] = <<"code", l>> /\ After(o, w, c, j + 1, l, eax, rest, IF_flag)
    BY <1>2 DEF Return
  <2>2. After(o, v, c, j + 1, l, eax, rest, IF_flag)
    BY <1>2, <1>3, <2>1, AfterSame
  <2>3. QED
    BY <1>3, <1>4, <2>1, <2>2 DEF Return
<1>7. PlaceOK(o, v, c, j - 1, "88", eax, rest, IF_flag)
  BY <1>2, <1>3, <1>4, <1>5, <1>6 DEF PlaceOK
<1>8. QED
  BY <1>1, <1>2, <1>7, Kinds, PushStep DEF o, j, w, v, c, Code, Line

LEMMA PointAtReturnKeeps ==
  ASSUME SwitchInv, ~torn, PointAtReturn
  PROVE  SwitchInv'
<1> DEFINE o == esp[1]
           j == esp[2]
           w == stack[o]
           c == called[o]
<1>1. /\ eip = "88" /\ eip' = "91" /\ esp' = <<o, j - 1>> /\ UNCHANGED <<eax, rest, IF_flag>>
      /\ UNCHANGED <<timer, stack, current_thread, thread_esp, called, left, torn>>
  BY DEF PointAtReturn, SetEsp, unchanged_memory, auxiliary, Below
<1>2. /\ o \in Thread /\ o # Main /\ j \in Int /\ o \in Owner
      /\ Parameter(w, j + 2) /\ w[j + 1] = <<"flags", IF_flag>> /\ w[j] = KERNEL_CS
      /\ Return(o, w, c, j - 1, j + 2, eax, rest, IF_flag)
      /\ RegOK(eax) /\ RegOK(rest) /\ IF_flag \in BOOLEAN
      /\ stack \in Stacks /\ FramesOK(o, w, c, j)
  BY <1>1, NowOK DEF PlaceOK, Resumed, MainLine
<1>3. /\ (j - 1) + 1 = j /\ (j - 1) + 2 = j + 1 /\ (j - 1) + 3 = j + 2
      /\ j - 1 \in Index /\ j + 1 \in Index /\ j - 1 \in Depth
  BY <1>2, IndexInt DEF Return, Parameter, Index, Depth
<1>4. PlaceOK(o, w, c, j - 1, "91", eax, rest, IF_flag)
  BY <1>2, <1>3 DEF PlaceOK, IretWords
<1>5. FramesOK(o, w, c, j - 1)
  BY <1>2, ReturnFacts, FramesMore DEF Agree
<1>6. esp' \in Owner \X Depth /\ esp'[1] = o /\ esp'[2] = j - 1
  BY <1>1, <1>2, <1>3
<1>7. QED
  BY <1>1, <1>2, <1>4, <1>5, <1>6, PlainStep DEF Code, Line

LEMMA PushErrorCodeKeeps ==
  ASSUME SwitchInv, ~torn, PushErrorCode
  PROVE  SwitchInv'
<1> DEFINE o == esp[1]
           j == esp[2]
           w == stack[o]
           v == stack'[o]
           c == called[o]
<1>1. eip = "91" /\ Push(Zero, "92")
  BY DEF PushErrorCode
<1>2. /\ o \in Thread /\ o # Main /\ j \in Int
      /\ Parameter(w, j + 3) /\ IretWords(o, w, c, j, eax, rest)
      /\ RegOK(eax) /\ RegOK(rest) /\ IF_flag \in BOOLEAN
  BY <1>1, NowOK DEF PlaceOK, Resumed, MainLine
<1>3. j - 1 \in Index /\ v[j - 1] = Zero /\ Agree(w, v, j)
  BY <1>1, Kinds, WordStep DEF Push
<1> HIDE DEF o, j, w, v, c
<1>4. (j - 1) + 1 = j /\ (j - 1) + 4 = j + 3
  BY <1>2
<1>5. Parameter(v, j + 3) /\ IretWords(o, v, c, j, eax, rest)
  BY <1>2, <1>3, ParameterSame, IretSame
<1>6. PlaceOK(o, v, c, j - 1, "92", eax, rest, IF_flag)
  BY <1>2, <1>3, <1>4, <1>5 DEF PlaceOK
<1>7. QED
  BY <1>1, <1>2, <1>6, Kinds, PushStep DEF o, j, w, v, c, Code, Line

LEMMA PushInterruptNoKeeps ==
  ASSUME SwitchInv, ~torn, PushInterruptNo
  PROVE  SwitchInv'
<1> DEFINE o == esp[1]
           j == esp[2]
           w == stack[o]
           v == stack'[o]
           c == called[o]
<1>1. eip = "92" /\ Push(Zero, "95")
  BY DEF PushInterruptNo
<1>2. /\ o \in Thread /\ o # Main /\ j \in Int /\ j \in Index /\ w[j] = Zero
      /\ Parameter(w, j + 4) /\ IretWords(o, w, c, j + 1, eax, rest)
      /\ RegOK(eax) /\ RegOK(rest) /\ IF_flag \in BOOLEAN
  BY <1>1, NowOK DEF PlaceOK, Resumed, MainLine
<1>3. j - 1 \in Index /\ v[j - 1] = Zero /\ Agree(w, v, j)
  BY <1>1, Kinds, WordStep DEF Push
<1> HIDE DEF o, j, w, v, c
<1>4. (j - 1) + 1 = j /\ (j - 1) + 2 = j + 1 /\ (j - 1) + 5 = j + 4
  BY <1>2
<1>5. Parameter(v, j + 4) /\ IretWords(o, v, c, j + 1, eax, rest) /\ v[j] = Zero
  BY <1>2, <1>3, ParameterSame, IretSame DEF Agree
<1>6. PlaceOK(o, v, c, j - 1, "95", eax, rest, IF_flag)
  BY <1>2, <1>3, <1>4, <1>5 DEF PlaceOK
<1>7. QED
  BY <1>1, <1>2, <1>6, Kinds, PushStep DEF o, j, w, v, c, Code, Line

LEMMA GetCurrentKeeps ==
  ASSUME SwitchInv, ~torn, GetCurrent
  PROVE  SwitchInv'
<1> DEFINE o == esp[1]
           j == esp[2]
           w == stack[o]
           c == called[o]
<1>1. /\ eip = "98" /\ eip' = "99" /\ eax' = <<"thread", current_thread>>
      /\ UNCHANGED <<esp, rest, IF_flag>>
      /\ UNCHANGED <<timer, stack, current_thread, thread_esp, called, left, torn>>
  BY DEF GetCurrent, LoadEax, unchanged_memory, auxiliary
<1>2. /\ o \in Thread /\ o # Main /\ j \in Index /\ current_thread = o
      /\ Parameter(w, j + 8) /\ FrameToResume(w, j)
      /\ RegOK(rest) /\ IF_flag \in BOOLEAN
  BY <1>1, NowOK DEF PlaceOK, Resumed, MainLine
<1>3. RegOK(<<"thread", o>>)
  BY <1>2, Kinds DEF RegOK
<1>4. PlaceOK(o, w, c, j, "99", <<"thread", o>>, rest, IF_flag)
  BY <1>2, <1>3 DEF PlaceOK
<1>5. QED
  BY <1>1, <1>2, <1>4, RegisterStep DEF Code, Line

\* Lines 104 to 108, 125 and 126: the stack is as it was saved.
LEMMA SavedStep ==
  ASSUME SwitchInv, ~torn, eip # "handler",
         eip' \in {"104", "107", "108", "125", "126"},
         UNCHANGED <<esp, rest, IF_flag, stack, timer, left, torn, called>>, RegOK(eax'),
         thread_esp' \in [Thread -> Owner \X Depth],
         \A u \in Thread \ {esp[1]} : thread_esp'[u] = thread_esp[u],
         current_thread' \in Thread \cup {NULL},
         PlaceOK(esp[1], stack[esp[1]], called[esp[1]], esp[2], eip', eax', rest, IF_flag),
         eip' \in {"104", "107", "108"} => thread_esp'[esp[1]] = <<esp[1], esp[2]>>,
         eip' \in {"108", "126"} => eax' = <<"thread", current_thread'>>,
         esp[1] # Main /\ eip' # "108" => current_thread' = esp[1],
         eip' = "125" => current_thread' = NULL
  PROVE  SwitchInv'
<1>1. /\ esp' \in Owner \X Depth /\ esp'[1] = esp[1] /\ esp'[2] = esp[2] /\ stack' \in Stacks
      /\ FramesOK(esp[1], stack'[esp[1]], called'[esp[1]], esp'[2])
      /\ called' \in [Thread -> [n : {0, 1}, esp : Owner \X Depth, flag : BOOLEAN]]
  BY NowOK DEF SwitchInv, SwitchTypeOK
<1>2. esp[1] = Main => eip' \in {"125", "126"}
  BY SwitchAssumption DEF PlaceOK, Resumed, After
<1>3. esp[1] = Main => eip' \in MainLine /\ (eip' # "126" => current_thread' = NULL)
  BY <1>2 DEF MainLine
<1>4. eip' \in Code \ {"handler"}
  BY DEF Code, Line
<1>5. QED
  BY <1>1, <1>3, <1>4, OwnStep

LEMMA SaveEspKeeps ==
  ASSUME SwitchInv, ~torn, SaveEsp
  PROVE  SwitchInv'
<1> DEFINE o == esp[1]
           j == esp[2]
           w == stack[o]
           c == called[o]
<1>1. /\ eip = "99" /\ eip' = "104" /\ thread_esp' = [thread_esp EXCEPT ![eax[2]] = esp]
      /\ UNCHANGED <<esp, eax, rest, IF_flag>>
      /\ UNCHANGED <<timer, stack, current_thread, called, left, torn>>
  BY DEF SaveEsp, auxiliary
<1>2. /\ o \in Thread /\ o # Main /\ j \in Index /\ current_thread = o
      /\ Parameter(w, j + 8) /\ FrameToResume(w, j) /\ eax = <<"thread", o>>
      /\ RegOK(eax) /\ RegOK(rest) /\ IF_flag \in BOOLEAN /\ esp = <<o, j>>
  BY <1>1, NowOK DEF PlaceOK, Resumed, MainLine
<1>3. eax[2] = o
  BY <1>2
<1>4. /\ thread_esp \in [Thread -> Owner \X Depth] /\ esp \in Owner \X Depth
      /\ current_thread' \in Thread \cup {NULL}
  BY <1>1 DEF SwitchInv, SwitchTypeOK
<1>5. /\ thread_esp' \in [Thread -> Owner \X Depth]
      /\ \A u \in Thread \ {o} : thread_esp'[u] = thread_esp[u]
      /\ thread_esp'[o] = <<o, j>>
  BY <1>1, <1>2, <1>3, <1>4
<1>6. PlaceOK(o, w, c, j, "104", eax', rest, IF_flag)
  BY <1>1, <1>2 DEF PlaceOK
<1>7. QED
  BY <1>1, <1>2, <1>4, <1>5, <1>6, SavedStep

LEMMA GetParameterKeeps ==
  ASSUME SwitchInv, ~torn, GetParameter
  PROVE  SwitchInv'
<1> DEFINE o == esp[1]
           j == esp[2]
           w == stack[o]
           c == called[o]
<1>1. /\ \/ eip = "104" /\ eip' = "107" /\ eax' = w[j + 8]
         \/ eip = "122" /\ eip' = "125" /\ eax' = w[j + 1]
      /\ UNCHANGED <<esp, rest, IF_flag>>
      /\ UNCHANGED <<timer, stack, current_thread, thread_esp, called, left, torn>>
  BY DEF GetParameter, LoadEax, unchanged_memory, auxiliary, At, Above
<1>2. /\ thread_esp' \in [Thread -> Owner \X Depth] /\ current_thread' \in Thread \cup {NULL}
      /\ \A u \in Thread \ {o} : thread_esp'[u] = thread_esp[u]
      /\ RegOK(rest) /\ IF_flag \in BOOLEAN
  BY <1>1, NowOK DEF SwitchInv, SwitchTypeOK
<1>3. CASE eip = "104"
  <2>1. /\ o \in Thread /\ o # Main /\ j \in Index /\ current_thread = o
        /\ Parameter(w, j + 8) /\ FrameToResume(w, j) /\ thread_esp[o] = <<o, j>>
    BY <1>3, NowOK DEF PlaceOK, Resumed, MainLine
  <2>2. RegOK(w[j + 8]) /\ w[j + 8] \in ThreadWord
    BY <2>1, ParameterFacts
  <2>3. PlaceOK(o, w, c, j, "107", w[j + 8], rest, IF_flag)
    BY <1>2, <2>1, <2>2 DEF PlaceOK
  <2>4. QED
    BY <1>1, <1>2, <1>3, <2>1, <2>2, <2>3, SavedStep
<1>4. CASE eip = "122"
  <2>1. o = Main /\ j \in Index /\ current_thread = NULL /\ Parameter(w, j + 1)
    BY <1>4, NowOK DEF PlaceOK, Resumed
  <2>2. RegOK(w[j + 1]) /\ w[j + 1] \in ThreadWord
    BY <2>1, ParameterFacts
  <2>3. PlaceOK(o, w, c, j, "125", w[j + 1], rest, IF_flag)
    BY <1>2, <2>1, <2>2 DEF PlaceOK
  <2>4. QED
    BY <1>1, <1>2, <1>4, <2>1, <2>2, <2>3, SavedStep
<1>5. QED
  BY <1>1, <1>3, <1>4

LEMMA SetCurrentKeeps ==
  ASSUME SwitchInv, ~torn, SetCurrent
  PROVE  SwitchInv'
<1> DEFINE o == esp[1]
           j == esp[2]
           w == stack[o]
           c == called[o]
<1>1. /\ eip \in {"107", "125"} /\ current_thread' = eax[2]
      /\ eip' = IF eip = "107" THEN "108" ELSE "126"
      /\ UNCHANGED <<esp, eax, rest, IF_flag>>
      /\ UNCHANGED <<timer, stack, thread_esp, called, left, torn>>
  BY DEF SetCurrent, auxiliary
<1>2. /\ thread_esp' \in [Thread -> Owner \X Depth]
      /\ \A u \in Thread \ {o} : thread_esp'[u] = thread_esp[u]
      /\ RegOK(eax) /\ RegOK(rest) /\ IF_flag \in BOOLEAN
  BY <1>1, NowOK DEF SwitchInv, SwitchTypeOK
<1>3. eax \in ThreadWord
  BY <1>1, NowOK DEF PlaceOK, Resumed
<1>4. current_thread' \in Thread /\ eax' = <<"thread", current_thread'>>
  BY <1>1, <1>3, Kinds
<1>5. CASE eip = "107"
  <2>1. /\ o \in Thread /\ o # Main /\ j \in Index
        /\ Parameter(w, j + 8) /\ FrameToResume(w, j) /\ thread_esp[o] = <<o, j>>
    BY <1>5, NowOK DEF PlaceOK, Resumed, MainLine
  <2>2. PlaceOK(o, w, c, j, "108", eax, rest, IF_flag)
    BY <1>2, <1>3, <2>1 DEF PlaceOK
  <2>3. QED
    BY <1>1, <1>2, <1>4, <1>5, <2>1, <2>2, SavedStep
<1>6. CASE eip = "125"
  <2>1. o = Main /\ j \in Index
    BY <1>6, NowOK DEF PlaceOK, Resumed
  <2>2. PlaceOK(o, w, c, j, "126", eax, rest, IF_flag)
    BY <1>2, <1>3, <2>1 DEF PlaceOK
  <2>3. QED
    BY <1>1, <1>2, <1>4, <1>6, <2>1, <2>2, SavedStep
<1>7. QED
  BY <1>1, <1>5, <1>6

\* Several words pushed.
LEMMA FramesDown ==
  ASSUME NEW o, NEW w, NEW v, NEW c, NEW j \in Int, NEW d \in Int, FramesOK(o, w, c, j),
         Agree(w, v, j),
         \A k \in Index : k >= d /\ k < j /\ v[k] = KERNEL_DS => FrameOK(o, v, c, k)
  PROVE  FramesOK(o, v, c, d)
<1> SUFFICES ASSUME NEW k \in Index, k >= d, v[k] = KERNEL_DS PROVE FrameOK(o, v, c, k)
  BY DEF FramesOK
<1>1. k \in Int
  BY IndexInt
<1>2. FramesOK(o, v, c, j)
  BY FramesSame
<1>3. CASE k >= j
  BY <1>2, <1>3 DEF FramesOK
<1>4. CASE k < j
  BY <1>4
<1>5. QED
  BY <1>1, <1>3, <1>4

LEMMA SaveRegistersKeeps ==
  ASSUME SwitchInv, ~torn, SaveRegisters
  PROVE  SwitchInv'
<1> DEFINE o == esp[1]
           j == esp[2]
           w == stack[o]
           v == stack'[o]
           c == called[o]
           ws == <<eax, rest, KERNEL_DS>>
<1>1. /\ eip = "95" /\ eip' = "98" /\ esp' = <<o, j - 3>> /\ stack' = Pushed(stack, esp, ws)
      /\ j - 3 \in Index
      /\ UNCHANGED <<timer, eax, rest, IF_flag, current_thread, thread_esp, called, left, torn>>
  BY DEF SaveRegisters, auxiliary, Below, OnStack, Index
<1>2. /\ o \in Thread /\ o # Main /\ o \in Owner /\ j \in Int /\ j \in Index /\ j \in Depth
      /\ w[j] = Zero /\ w[j + 1] = Zero
      /\ Parameter(w, j + 5) /\ IretWords(o, w, c, j + 2, eax, rest)
      /\ RegOK(eax) /\ RegOK(rest) /\ IF_flag \in BOOLEAN
      /\ stack \in Stacks /\ esp = <<o, j>> /\ FramesOK(o, w, c, j)
  BY <1>1, NowOK DEF PlaceOK, Resumed, MainLine
<1>3. ws \in Seq(Word) /\ Len(ws) = 3 /\ ws[1] = eax /\ ws[2] = rest /\ ws[3] = KERNEL_DS
  BY <1>2, Kinds DEF RegOK
<1>4. j >= 3 /\ j - 3 \in Depth
  BY <1>1, <1>2, IndexInt DEF Index, Depth
<1>5. /\ stack' \in Stacks /\ \A u \in Owner \ {o} : stack'[u] = stack[u]
      /\ \A k \in Index : v[k] = IF k \in (j - 3) .. (j - 1) THEN ws[j - k] ELSE w[k]
  <2> HIDE DEF ws
  <2>1. ws \in Seq(Word)
    BY <1>3
  <2>2. j - Len(ws) >= 0
    BY <1>2, <1>3, <1>4
  <2>3. /\ Pushed(stack, <<o, j>>, ws) \in Stacks
        /\ \A u \in Owner \ {o} : Pushed(stack, <<o, j>>, ws)[u] = stack[u]
    BY <1>2, <2>1, <2>2, PushedFacts
  <2>4. \A k \in Index : Pushed(stack, <<o, j>>, ws)[o][k] =
          IF k \in (j - Len(ws)) .. (j - 1) THEN ws[j - k] ELSE w[k]
    BY <1>2, <2>1, <2>2, PushedFacts
  <2>5. QED
    BY <1>1, <1>2, <1>3, <2>3, <2>4
<1>6. /\ v[j - 3] = KERNEL_DS /\ v[j - 2] = rest /\ v[j - 1] = eax
      /\ j - 2 \in Index /\ j - 1 \in Index
      /\ Agree(w, v, j)
  <2>1. j - 2 \in Index /\ j - 1 \in Index
    BY <1>2, <1>4, IndexInt DEF Index
  <2>2. j - (j - 3) = 3 /\ j - (j - 2) = 2 /\ j - (j - 1) = 1
    BY <1>2
  <2>3. /\ j - 3 \in (j - 3) .. (j - 1) /\ j - 2 \in (j - 3) .. (j - 1)
        /\ j - 1 \in (j - 3) .. (j - 1)
    BY <1>2
  <2> HIDE DEF ws, v
  <2>4. v[j - 3] = ws[3] /\ v[j - 2] = ws[2] /\ v[j - 1] = ws[1]
    BY <1>1, <1>5, <2>1, <2>2, <2>3
  <2>5. Agree(w, v, j)
    BY <1>2, <1>5, IndexInt DEF Agree
  <2>6. QED
    BY <1>3, <2>1, <2>4, <2>5
<1> HIDE DEF o, j, w, v, c, ws
<1>7. PICK b \in BOOLEAN, l \in Code :
        /\ w[j + 2] = <<"code", l>> /\ w[j + 3] = KERNEL_CS /\ w[j + 4] = <<"flags", b>>
        /\ After(o, w, c, j + 5, l, eax, rest, b)
        /\ j + 2 \in Index /\ j + 4 \in Index
  BY <1>2 DEF IretWords, Return
<1>8. l \in Resumed
  BY <1>2, <1>7 DEF After, Resumed
<1>9. /\ (j - 3) + 1 = j - 2 /\ (j - 3) + 2 = j - 1 /\ (j - 3) + 3 = j /\ (j - 3) + 4 = j + 1
      /\ (j - 3) + 5 = j + 2 /\ (j - 3) + 6 = j + 3 /\ (j - 3) + 7 = j + 4 /\ (j - 3) + 8 = j + 5
      /\ j + 1 \in Index /\ j + 3 \in Index
  BY <1>2, <1>7, IndexInt DEF Index
<1>10. /\ v[j] = Zero /\ v[j + 1] = Zero /\ v[j + 2] = <<"code", l>> /\ v[j + 3] = KERNEL_CS
       /\ v[j + 4] = <<"flags", b>>
  BY <1>2, <1>6, <1>7, <1>9 DEF Agree
<1>11. After(o, v, c, j + 5, l, eax, rest, b)
  BY <1>2, <1>6, <1>7, AfterSame
<1>12. FrameOK(o, v, c, j - 3)
  <2>1. FrameShape(v, j - 3)
    BY <1>1, <1>6, <1>7, <1>9, <1>10, Kinds DEF FrameShape
  <2>2. PlaceOK(o, v, c, j + 5, l, eax, rest, b)
    BY <1>2, <1>8, <1>11 DEF PlaceOK
  <2>3. l \notin BelowEsp \cup EspInUse
    BY <1>8 DEF Resumed, BelowEsp, EspInUse
  <2>4. <<"code", l>>[2] = l /\ <<"flags", b>>[2] = b
    OBVIOUS
  <2>5. QED
    BY <1>6, <1>9, <1>10, <2>1, <2>2, <2>3, <2>4 DEF FrameOK
<1>13. FramesOK(o, v, c, j - 3)
  <2>1. \A k \in Index : k >= j - 3 /\ k < j /\ v[k] = KERNEL_DS => FrameOK(o, v, c, k)
    <3> SUFFICES ASSUME NEW k \in Index, k >= j - 3, k < j, v[k] = KERNEL_DS
                 PROVE  FrameOK(o, v, c, k)
      OBVIOUS
    <3>1. k = j - 3 \/ k = j - 2 \/ k = j - 1
      BY <1>2, IndexInt
    <3>2. QED
      BY <1>2, <1>6, <1>12, <3>1 DEF RegOK
  <2>2. QED
    BY <1>2, <1>6, <2>1, FramesDown
<1>14. PlaceOK(o, v, c, j - 3, "98", eax, rest, IF_flag)
  <2>1. Parameter(v, j + 5)
    BY <1>2, <1>6, ParameterSame
  <2>2. FrameToResume(v, j - 3)
    BY <1>6, <1>7, <1>8, <1>9, <1>10 DEF FrameToResume
  <2>3. QED
    BY <1>1, <1>2, <1>9, <2>1, <2>2 DEF PlaceOK
<1>15. esp' \in Owner \X Depth /\ esp'[1] = o /\ esp'[2] = j - 3
  BY <1>1, <1>2, <1>4
<1>16. QED
  BY <1>1, <1>2, <1>5, <1>13, <1>14, <1>15, PlainStep DEF o, j, w, v, c, Code, Line

\* A frame of a waiting thread leads to where the thread goes on.
LEMMA ResumeFacts ==
  ASSUME NEW o, NEW w, NEW c, NEW j \in Int, j \in Index, FrameToResume(w, j), FramesOK(o, w, c, j)
  PROVE  IretWords(o, w, c, j + 5, w[j + 2], w[j + 1])
<1>1. FrameOK(o, w, c, j)
  BY DEF FrameToResume, FramesOK
<1>2. PICK l \in Resumed : w[j + 5] = <<"code", l>>
  BY DEF FrameToResume
<1>3. PICK b \in BOOLEAN : w[j + 7] = <<"flags", b>>
  BY <1>1 DEF FrameOK, FrameShape, FlagsWord
<1>4. <<"code", l>>[2] = l /\ <<"flags", b>>[2] = b /\ l \in Code
  BY DEF Resumed, Code, Line
<1>5. PlaceOK(o, w, c, j + 8, l, w[j + 2], w[j + 1], b)
  BY <1>1, <1>2, <1>3, <1>4 DEF FrameOK
<1>6. After(o, w, c, j + 8, l, w[j + 2], w[j + 1], b)
  BY <1>5 DEF PlaceOK, Resumed
<1>7. (j + 5) + 1 = j + 6 /\ (j + 5) + 2 = j + 7 /\ (j + 5) + 3 = j + 8 /\ j + 5 \in Index
  BY <1>1, IndexInt DEF FrameOK, FrameShape, Index
<1>8. w[j + 6] = KERNEL_CS /\ j + 7 \in Index
  BY <1>1 DEF FrameOK, FrameShape
<1>9. Return(o, w, c, j + 5, j + 8, w[j + 2], w[j + 1], b)
  BY <1>2, <1>4, <1>6, <1>7 DEF Return
<1>10. QED
  BY <1>3, <1>7, <1>8, <1>9 DEF IretWords

LEMMA RestoreRegistersKeeps ==
  ASSUME SwitchInv, ~torn, RestoreRegisters
  PROVE  SwitchInv'
<1> DEFINE o == esp[1]
           j == esp[2]
           w == stack[o]
           c == called[o]
<1>1. /\ eip = "112" /\ eip' = "116" /\ rest' = w[j + 1] /\ eax' = w[j + 2]
      /\ esp' = <<o, j + 5>>
      /\ UNCHANGED <<IF_flag, timer, stack, current_thread, thread_esp, called, left, torn>>
  BY DEF RestoreRegisters, restore_registers, unchanged_memory, auxiliary, At, Above
<1>2. /\ o \in Thread /\ o # Main /\ o \in Owner /\ j \in Int /\ j \in Index
      /\ FrameToResume(w, j) /\ IF_flag \in BOOLEAN
      /\ stack \in Stacks /\ FramesOK(o, w, c, j)
  BY <1>1, NowOK DEF PlaceOK, Resumed, MainLine
<1>3. IretWords(o, w, c, j + 5, w[j + 2], w[j + 1])
  BY <1>2, ResumeFacts
<1>4. RegOK(w[j + 2]) /\ RegOK(w[j + 1]) /\ j + 5 \in Index
  BY <1>3, ReturnFacts DEF IretWords
<1>5. PlaceOK(o, w, c, j + 5, "116", w[j + 2], w[j + 1], IF_flag)
  BY <1>2, <1>3, <1>4 DEF PlaceOK
<1>6. FramesOK(o, w, c, j + 5)
  BY <1>2, FramesSame DEF Agree
<1>7. j + 5 \in Depth
  BY <1>4, IndexInt DEF Index, Depth
<1>8. esp' \in Owner \X Depth /\ esp'[1] = o /\ esp'[2] = j + 5
  BY <1>1, <1>2, <1>7
<1>9. QED
  BY <1>1, <1>2, <1>5, <1>6, <1>8, PlainStep DEF Code, Line

LEMMA ForgottenFacts ==
  ASSUME NEW s \in Stacks, NEW o \in Owner, NEW j \in Int
  PROVE  LET v == Forgotten(s, <<o, j>>)
         IN  /\ v \in Stacks /\ \A u \in Owner \ {o} : v[u] = s[u]
             /\ Agree(s[o], v[o], j)
<1> DEFINE f == [k \in Index |-> IF k < j THEN Zero ELSE s[o][k]]
<1>1. DOMAIN s[o] = Index /\ s[o] \in [Index -> Word]
  BY DEF Stacks
<1>2. Forgotten(s, <<o, j>>) = [s EXCEPT ![o] = f]
  BY <1>1 DEF Forgotten
<1>3. f \in [Index -> Word]
  BY <1>1, Kinds
<1>4. Agree(s[o], f, j)
  BY IndexInt DEF Agree
<1> HIDE DEF f
<1>5. QED
  BY <1>2, <1>3, <1>4 DEF Stacks

LEMMA IretKeeps ==
  ASSUME SwitchInv, ~torn, Iret
  PROVE  SwitchInv'
<1> DEFINE o == esp[1]
           j == esp[2]
           w == stack[o]
           v == stack'[o]
           c == called[o]
<1>1. /\ eip = "116" /\ eip' = w[j][2] /\ IF_flag' = w[j + 2][2] /\ esp' = <<o, j + 3>>
      /\ stack' = Forgotten(stack, <<o, j + 3>>)
      /\ UNCHANGED <<eax, rest, timer, current_thread, thread_esp, called, left, torn>>
  BY DEF Iret, iret, auxiliary, At, Above
<1>2. /\ o \in Thread /\ o # Main /\ o \in Owner /\ j \in Int
      /\ IretWords(o, w, c, j, eax, rest) /\ j \in Index
      /\ RegOK(eax) /\ RegOK(rest)
      /\ stack \in Stacks /\ FramesOK(o, w, c, j)
  BY <1>1, NowOK DEF PlaceOK, Resumed, MainLine
<1>3. /\ stack' \in Stacks /\ \A u \in Owner \ {o} : stack'[u] = stack[u]
      /\ Agree(w, v, j + 3)
  <2> DEFINE q == j + 3
  <2>1. q \in Int
    BY <1>2
  <2> HIDE DEF q
  <2>2. /\ Forgotten(stack, <<o, q>>) \in Stacks
        /\ \A u \in Owner \ {o} : Forgotten(stack, <<o, q>>)[u] = stack[u]
        /\ Agree(w, Forgotten(stack, <<o, q>>)[o], q)
    BY <1>2, <2>1, ForgottenFacts
  <2>3. QED
    BY <1>1, <2>2 DEF q
<1>4. PICK b \in BOOLEAN, l \in Code :
        /\ w[j] = <<"code", l>> /\ w[j + 2] = <<"flags", b>> /\ j + 2 \in Index
        /\ After(o, w, c, j + 3, l, eax, rest, b)
  BY <1>2 DEF IretWords, Return
<1>5. eip' = l /\ IF_flag' = b /\ l \in Resumed
  BY <1>1, <1>2, <1>4 DEF After, Resumed
<1>6. PlaceOK(o, v, c, j + 3, l, eax, rest, b)
  <2>1. After(o, v, c, j + 3, l, eax, rest, b)
    BY <1>2, <1>3, <1>4, AfterSame
  <2>2. QED
    BY <1>2, <1>5, <2>1 DEF PlaceOK
<1>7. FramesOK(o, v, c, j + 3)
  BY <1>2, <1>3, FramesSame
<1>8. j + 3 \in Depth
  BY <1>2, <1>4, IndexInt DEF Index, Depth
<1>9. esp' \in Owner \X Depth /\ esp'[1] = o /\ esp'[2] = j + 3
  BY <1>1, <1>2, <1>8
<1>10. eip' \in Code \ {"handler", "104", "107", "108", "126"}
  BY <1>4, <1>5 DEF Resumed
<1>11. QED
  BY <1>1, <1>2, <1>3, <1>5, <1>6, <1>7, <1>9, <1>10, PlainStep

------------------------------------------------------------------------------
(* Its callers.                                                             *)

LEMMA PushedTwo ==
  ASSUME NEW s \in Stacks, NEW o \in Owner, NEW j \in Depth, NEW x \in Word, NEW y \in Word,
         j - 2 \in Index
  PROVE  LET v == Pushed(s, <<o, j>>, <<x, y>>)
         IN  /\ v \in Stacks /\ \A u \in Owner \ {o} : v[u] = s[u]
             /\ v[o][j - 1] = x /\ v[o][j - 2] = y /\ Agree(s[o], v[o], j)
<1> DEFINE ws == <<x, y>>
           v == Pushed(s, <<o, j>>, ws)
<1>1. ws \in Seq(Word) /\ Len(ws) = 2 /\ ws[1] = x /\ ws[2] = y
  OBVIOUS
<1> HIDE DEF ws
<1>2. ws \in Seq(Word)
  BY <1>1
<1>3. j \in Int /\ j - 1 \in Index /\ j - Len(ws) >= 0
  BY <1>1, IndexInt DEF Index, Depth
<1>4. v \in Stacks /\ \A u \in Owner \ {o} : v[u] = s[u]
  BY <1>2, <1>3, PushedFacts
<1>5. \A k \in Index : v[o][k] = IF k \in (j - Len(ws)) .. (j - 1) THEN ws[j - k] ELSE s[o][k]
  BY <1>2, <1>3, PushedFacts
<1> HIDE DEF v
<1>6. v[o][j - 1] = x /\ v[o][j - 2] = y
  <2>1. /\ j - (j - 1) = 1 /\ j - (j - 2) = 2
        /\ j - 1 \in (j - 2) .. (j - 1) /\ j - 2 \in (j - 2) .. (j - 1)
    BY <1>3
  <2>2. QED
    BY <1>1, <1>3, <1>5, <2>1
<1>7. Agree(s[o], v[o], j)
  <2> SUFFICES ASSUME NEW k \in Index, k >= j PROVE v[o][k] = s[o][k]
    BY DEF Agree
  <2>1. k \notin (j - Len(ws)) .. (j - 1)
    BY <1>1, <1>3, IndexInt
  <2>2. QED
    BY <1>5, <2>1
<1>8. QED
  BY <1>4, <1>6, <1>7 DEF v, ws

\* The parameter and the return address, neither of which begins a frame.
LEMMA CallFacts ==
  ASSUME stack \in Stacks, NEW STATE o, NEW STATE j, o \in Owner, j \in Depth, esp = <<o, j>>,
         NEW to \in Thread, NEW l \in Code, Call(to, l)
  PROVE  /\ stack' \in Stacks /\ \A u \in Owner \ {o} : stack'[u] = stack[u]
         /\ stack'[o][j - 1] = <<"thread", to>> /\ stack'[o][j - 2] = <<"code", l>>
         /\ Parameter(stack'[o], j - 1)
         /\ Agree(stack[o], stack'[o], j)
         /\ j - 2 \in Index /\ j - 1 \in Index /\ esp' = <<o, j - 2>> /\ esp' \in Owner \X Depth
         /\ eip' = "64" /\ UNCHANGED <<timer, IF_flag, current_thread, thread_esp, left>>
         /\ \A k \in Index : k >= j - 2 /\ k < j => stack'[o][k] # KERNEL_DS
<1> DEFINE x == <<"thread", to>>
           y == <<"code", l>>
<1>1. /\ stack' = Pushed(stack, <<o, j>>, <<x, y>>) /\ esp' = <<o, j - 2>> /\ j - 2 \in Index
      /\ eip' = "64" /\ UNCHANGED <<timer, IF_flag, current_thread, thread_esp, left>>
  BY DEF Call, Below, OnStack, Index
<1>2. x \in Word /\ y \in Word /\ x \in ThreadWord /\ x # KERNEL_DS /\ y # KERNEL_DS
  BY Kinds
<1> HIDE DEF x, y
<1>3. /\ Pushed(stack, <<o, j>>, <<x, y>>) \in Stacks
      /\ \A u \in Owner \ {o} : Pushed(stack, <<o, j>>, <<x, y>>)[u] = stack[u]
      /\ Pushed(stack, <<o, j>>, <<x, y>>)[o][j - 1] = x
      /\ Pushed(stack, <<o, j>>, <<x, y>>)[o][j - 2] = y
      /\ Agree(stack[o], Pushed(stack, <<o, j>>, <<x, y>>)[o], j)
  BY <1>1, <1>2, PushedTwo
<1>4. j \in Int /\ j - 1 \in Index /\ j - 2 \in Depth
  BY <1>1, IndexInt DEF Index, Depth
<1>5. esp' \in Owner \X Depth
  BY <1>1, <1>4
<1>6. \A k \in Index : k >= j - 2 /\ k < j => stack'[o][k] # KERNEL_DS
  <2> SUFFICES ASSUME NEW k \in Index, k >= j - 2, k < j PROVE stack'[o][k] # KERNEL_DS
    OBVIOUS
  <2>1. k = j - 2 \/ k = j - 1
    BY <1>4, IndexInt
  <2>2. QED
    BY <1>1, <1>2, <1>3, <2>1
<1>7. Parameter(stack'[o], j - 1)
  BY <1>1, <1>2, <1>3, <1>4 DEF Parameter
<1>8. QED
  BY <1>1, <1>3, <1>4, <1>5, <1>6, <1>7 DEF x, y

LEMMA KickOffKeeps ==
  ASSUME SwitchInv, ~torn, NEW to \in Thread, KickOff(to)
  PROVE  SwitchInv'
<1> DEFINE o == esp[1]
           j == esp[2]
           w == stack[o]
           v == stack'[o]
           c == called[o]
<1>1. /\ eip = "main" /\ Call(to, "main") /\ UNCHANGED <<eax, rest, called, torn>>
  BY DEF KickOff
<1>2. /\ o = Main /\ o \in Owner /\ j \in Depth /\ j \in Int /\ esp = <<o, j>> /\ stack \in Stacks
      /\ FramesOK(o, w, c, j) /\ RegOK(eax) /\ RegOK(rest) /\ IF_flag \in BOOLEAN
  BY <1>1, NowOK DEF PlaceOK, Resumed
<1>3. "main" \in Code
  BY DEF Code
<1>4. /\ stack' \in Stacks /\ \A u \in Owner \ {o} : stack'[u] = stack[u]
      /\ v[j - 2] = <<"code", "main">> /\ Parameter(v, j - 1)
      /\ Agree(w, v, j)
      /\ j - 2 \in Index /\ esp' = <<o, j - 2>> /\ esp' \in Owner \X Depth
      /\ eip' = "64" /\ UNCHANGED <<timer, IF_flag, current_thread, thread_esp, left>>
      /\ \A k \in Index : k >= j - 2 /\ k < j => v[k] # KERNEL_DS
  BY <1>1, <1>2, <1>3, CallFacts
<1> HIDE DEF o, j, w, v, c
<1>5. Return(o, v, c, j - 2, j - 1, eax, rest, IF_flag)
  BY <1>2, <1>3, <1>4 DEF Return, After
<1>6. (j - 2) + 1 = j - 1 /\ j - 2 \in Int
  BY <1>2
<1>7. PlaceOK(o, v, c, j - 2, "64", eax, rest, IF_flag)
  BY <1>2, <1>4, <1>5, <1>6 DEF PlaceOK
<1>8. FramesOK(o, v, c, j - 2)
  BY <1>2, <1>4, <1>6, FramesDown
<1>9. esp'[1] = o /\ esp'[2] = j - 2
  BY <1>4
<1>10. QED
  BY <1>1, <1>4, <1>7, <1>8, <1>9, PlainStep DEF o, j, w, v, c, Code, Line, MainLine

LEMMA FunctionStep ==
  ASSUME SwitchInv, ~torn, eip \in {"thread_start", "back"}, SetEsp(Above(esp, 1), "fun")
  PROVE  SwitchInv'
<1> DEFINE o == esp[1]
           j == esp[2]
           w == stack[o]
           c == called[o]
<1>1. /\ eip' = "fun" /\ esp' = <<o, j + 1>> /\ UNCHANGED <<eax, rest, IF_flag>>
      /\ UNCHANGED <<timer, stack, current_thread, thread_esp, called, left, torn>>
  BY DEF SetEsp, unchanged_memory, auxiliary, Above
<1>2. /\ o \in Thread /\ o # Main /\ o \in Owner /\ j = StackSize - 3 /\ j \in Int
      /\ RegOK(eax) /\ RegOK(rest) /\ IF_flag \in BOOLEAN
      /\ stack \in Stacks /\ FramesOK(o, w, c, j)
  BY NowOK DEF PlaceOK, Resumed, After, MainLine
<1>3. j + 1 = StackSize - 2 /\ j + 1 \in Depth /\ j + 1 \in Int
  BY <1>2, IndexInt DEF Depth
<1>4. PlaceOK(o, w, c, j + 1, "fun", eax, rest, IF_flag)
  BY <1>2, <1>3 DEF PlaceOK
<1>5. FramesOK(o, w, c, j + 1)
  BY <1>2, <1>3, FramesSame DEF Agree
<1>6. esp' \in Owner \X Depth /\ esp'[1] = o /\ esp'[2] = j + 1
  BY <1>1, <1>2, <1>3
<1>7. QED
  BY <1>1, <1>2, <1>4, <1>5, <1>6, PlainStep DEF Code, Line

LEMMA DispatchKeeps ==
  ASSUME SwitchInv, ~torn, NEW to \in Thread, Dispatch(to)
  PROVE  SwitchInv'
<1> DEFINE o == esp[1]
           j == esp[2]
           w == stack[o]
           v == stack'[o]
           c == called[o]
           n == 1 - called[o].n
           e == [n |-> n, esp |-> esp, flag |-> IF_flag]
           a == <<"register", o, n>>
<1>1. /\ eip = "fun" /\ Call(to, "back") /\ eax' = a /\ rest' = a
      /\ called' = [called EXCEPT ![o] = e] /\ UNCHANGED torn
  BY DEF Dispatch
<1>2. /\ o \in Thread /\ o # Main /\ o \in Owner /\ j = StackSize - 2 /\ j \in Depth /\ j \in Int
      /\ esp = <<o, j>> /\ stack \in Stacks /\ FramesOK(o, w, c, j) /\ IF_flag \in BOOLEAN
      /\ current_thread = o
  BY <1>1, NowOK DEF PlaceOK, Resumed, MainLine
<1>3. /\ called \in [Thread -> [n : {0, 1}, esp : Owner \X Depth, flag : BOOLEAN]]
      /\ thread_esp \in [Thread -> Owner \X Depth] /\ esp \in Owner \X Depth
      /\ current_thread \in Thread \cup {NULL}
  BY DEF SwitchInv, SwitchTypeOK
<1>4. n \in {0, 1}
  BY <1>2, <1>3
<1>5. e \in [n : {0, 1}, esp : Owner \X Depth, flag : BOOLEAN]
  BY <1>2, <1>3, <1>4
<1>6. RegOK(a)
  BY <1>2, <1>4, Kinds DEF RegOK
<1>7. "back" \in Code
  BY DEF Code
<1>8. /\ stack' \in Stacks /\ \A u \in Owner \ {o} : stack'[u] = stack[u]
      /\ v[j - 2] = <<"code", "back">> /\ Parameter(v, j - 1)
      /\ Agree(w, v, j)
      /\ j - 2 \in Index /\ esp' = <<o, j - 2>> /\ esp' \in Owner \X Depth
      /\ eip' = "64" /\ UNCHANGED <<timer, IF_flag, current_thread, thread_esp, left>>
      /\ \A k \in Index : k >= j - 2 /\ k < j => v[k] # KERNEL_DS
  BY <1>1, <1>2, <1>7, CallFacts
<1>9. e.n = n /\ e.esp = esp /\ e.flag = IF_flag
  OBVIOUS
<1> HIDE DEF o, j, w, v, c, n, e
<1>10. Return(o, v, e, j - 2, j - 1, a, a, IF_flag)
  <2>1. a = <<"register", o, e.n>> /\ e.esp = <<o, StackSize - 2>>
    BY <1>2, <1>9
  <2> HIDE DEF a
  <2>2. j - 1 = StackSize - 3
    BY <1>2, IndexInt
  <2>3. After(o, v, e, j - 1, "back", a, a, IF_flag)
    BY <1>2, <1>6, <1>9, <2>1, <2>2 DEF After
  <2>4. QED
    BY <1>7, <1>8, <2>3 DEF Return
<1>11. (j - 2) + 1 = j - 1 /\ j - 2 \in Int
  BY <1>2
<1>12. PlaceOK(o, v, e, j - 2, "64", a, a, IF_flag)
  BY <1>2, <1>6, <1>8, <1>10, <1>11 DEF PlaceOK
\* What the frames refer to of c has changed, but there are none.
<1>13. FramesOK(o, v, e, j - 2)
  <2> SUFFICES ASSUME NEW d \in Index, d >= j - 2, v[d] = KERNEL_DS PROVE FALSE
    BY DEF FramesOK
  <2>1. d >= j
    BY <1>2, <1>8, IndexInt
  <2>2. FrameOK(o, w, c, d)
    BY <1>2, <1>8, <2>1 DEF FramesOK, Agree
  <2>3. d + 7 \in Index
    BY <2>2 DEF FrameOK, FrameShape
  <2>4. QED
    BY <1>2, <2>1, <2>3, IndexInt
<1>14. esp'[1] = o /\ esp'[2] = j - 2
  BY <1>8
<1>15. /\ called' \in [Thread -> [n : {0, 1}, esp : Owner \X Depth, flag : BOOLEAN]]
       /\ \A u \in Thread \ {o} : called'[u] = called[u]
       /\ called'[o] = e
  BY <1>1, <1>2, <1>3, <1>5
<1>16. eip' \in Code \ {"handler"}
  BY <1>8 DEF Code, Line
<1>17. esp[1] = o
  BY DEF o
<1>18. QED
  BY <1>1, <1>2, <1>3, <1>8, <1>12, <1>13, <1>14, <1>15, <1>16, <1>17, OwnStep DEF v

LEMMA LoadEspKeeps ==
  ASSUME SwitchInv, ~torn, LoadEsp
  PROVE  SwitchInv'
<1> DEFINE o == esp[1]
           j == esp[2]
           t == current_thread
           k == thread_esp[t][2]
<1>1. /\ eip \in {"108", "126"} /\ esp' = thread_esp[eax[2]] /\ eip' = "112"
      /\ left' = IF o = Main THEN left ELSE [left EXCEPT ![o] = esp]
      /\ UNCHANGED <<timer, stack, eax, rest, IF_flag, current_thread, thread_esp, called, torn>>
  BY DEF LoadEsp
<1>2. /\ o \in Owner /\ esp = <<o, j>> /\ eax = <<"thread", t>>
      /\ RegOK(eax) /\ RegOK(rest) /\ IF_flag \in BOOLEAN
      /\ FramesOK(o, stack[o], called[o], j)
  BY <1>1, NowOK
<1>3. SwitchTypeOK /\ WaitingInv
  BY DEF SwitchInv
<1>4. t \in Thread
  <2>1. eax \in ThreadWord
    BY <1>1, NowOK DEF PlaceOK, Resumed
  <2>2. eax[2] = t
    BY <1>2
  <2>3. QED
    BY <2>1, <2>2, Kinds
<1>5. esp' = thread_esp[t]
  BY <1>1, <1>2
<1>6. o # Main => /\ o \in Thread /\ thread_esp[o] = <<o, j>> /\ left'[o] = esp
                  /\ j \in Index /\ FrameToResume(stack[o], j)
  <2> SUFFICES ASSUME o # Main
               PROVE  /\ o \in Thread /\ thread_esp[o] = <<o, j>> /\ left'[o] = esp
                      /\ j \in Index /\ FrameToResume(stack[o], j)
    OBVIOUS
  <2>1. eip = "108" /\ o \in Thread
    BY <1>1, NowOK DEF PlaceOK, Resumed
  <2>2. /\ thread_esp[o] = <<o, j>> /\ j \in Index /\ FrameToResume(stack[o], j)
    BY <2>1, NowOK DEF PlaceOK, Resumed
  <2>3. left'[o] = esp
    BY <1>1, <1>3, <2>1 DEF SwitchTypeOK
  <2>4. QED
    BY <2>1, <2>2, <2>3
<1>7. /\ esp' = <<t, k>> /\ k \in Index /\ FrameToResume(stack[t], k)
      /\ FramesOK(t, stack[t], called[t], k)
  <2>1. CASE t = o
    <3>1. o # Main
      BY <1>4, <2>1, SwitchAssumption
    <3>2. QED
      BY <1>2, <1>5, <1>6, <2>1, <3>1
  <2>2. CASE t # o
    <3>1. /\ thread_esp[t][1] = t /\ FrameToResume(stack[t], k)
          /\ FramesOK(t, stack[t], called[t], k)
      BY <1>3, <1>4, <2>2 DEF WaitingInv
    <3>2. thread_esp[t] \in Owner \X Depth
      BY <1>3, <1>4 DEF SwitchTypeOK
    <3>3. thread_esp[t] = <<t, k>> /\ k \in Depth
      BY <3>1, <3>2
    <3>4. k \in Index
      BY <3>1, <3>3, IndexInt DEF FrameToResume, Index, Depth
    <3>5. QED
      BY <1>5, <3>1, <3>3, <3>4
  <2>3. QED
    BY <2>1, <2>2
<1>8. left' \in [Thread -> Owner \X Depth] /\ \A u \in Thread \ {o} : left'[u] = left[u]
  <2>1. left \in [Thread -> Owner \X Depth] /\ esp \in Owner \X Depth
    BY <1>3 DEF SwitchTypeOK
  <2>2. QED
    BY <1>1, <1>6, <2>1
<1>9. SwitchTypeOK'
  <2>1. esp' \in Owner \X Depth
    BY <1>3, <1>4, <1>5 DEF SwitchTypeOK
  <2>2. eip' \in Code
    BY <1>1 DEF Code, Line
  <2>3. QED
    BY <1>1, <1>3, <1>8, <2>1, <2>2 DEF SwitchTypeOK
<1>10. ~InHandler' /\ eip' = "112"
  BY <1>1 DEF InHandler
<1>11. /\ LabelNow' = "112" /\ EspNow' = k /\ EaxNow' = eax /\ RestNow' = rest
       /\ FlagNow' = IF_flag /\ esp'[1] = t
  BY <1>1, <1>7, <1>10 DEF LabelNow, EspNow, EaxNow, RestNow, FlagNow, InHandler
<1>12. HandlerInv'
  BY <1>10 DEF HandlerInv
<1> HIDE DEF k
<1>13. PlaceOK(t, stack[t], called[t], k, "112", eax, rest, IF_flag)
  BY <1>2, <1>4, <1>7 DEF PlaceOK
<1>14. RunningInv'
  BY <1>1, <1>7, <1>11, <1>13 DEF RunningInv
<1>15. CurrentInv'
  BY <1>1, <1>4, <1>11, SwitchAssumption DEF CurrentInv
<1>16. WaitingInv'
  <2> SUFFICES ASSUME NEW u \in Thread \ {t}
               PROVE  /\ thread_esp[u] = left'[u] /\ thread_esp[u][1] = u
                      /\ FrameToResume(stack[u], thread_esp[u][2])
                      /\ FramesOK(u, stack[u], called[u], thread_esp[u][2])
    BY <1>1, <1>11 DEF WaitingInv
  <2>1. CASE u = o
    <3>1. o # Main
      BY <2>1, SwitchAssumption
    <3>2. QED
      BY <1>2, <1>6, <2>1, <3>1
  <2>2. CASE u # o
    BY <1>3, <1>8, <2>2 DEF WaitingInv
  <2>3. QED
    BY <2>1, <2>2
<1>17. QED
  BY <1>9, <1>12, <1>14, <1>15, <1>16 DEF SwitchInv

------------------------------------------------------------------------------
(* The timer interrupt.                                                     *)

LEMMA InterruptKeeps ==
  ASSUME SwitchInv, ~torn, Interrupt
  PROVE  SwitchInv'
<1> DEFINE o == esp[1]
           j == esp[2]
           w == stack[o]
           v == stack'[o]
           c == called[o]
           ws == Frame(eip)
<1>1. /\ IF_flag /\ j - 8 \in Index /\ stack' = Pushed(stack, esp, ws) /\ esp' = <<o, j - 8>>
      /\ IF_flag' = FALSE /\ eip' = "handler" /\ torn' = (torn \/ eip \in BelowEsp)
      /\ UNCHANGED <<timer, eax, rest, current_thread, thread_esp, called, left>>
  BY DEF Interrupt, Below, OnStack, Index
<1>2. SwitchTypeOK /\ HandlerInv /\ CurrentInv /\ WaitingInv
  BY DEF SwitchInv
<1>3. eip # "handler"
  BY <1>1, <1>2 DEF HandlerInv, InHandler
<1>4. /\ o \in Owner /\ j \in Depth /\ j \in Int /\ esp = <<o, j>> /\ stack \in Stacks
      /\ RegOK(eax) /\ RegOK(rest) /\ IF_flag \in BOOLEAN
      /\ PlaceOK(o, w, c, j, eip, eax, rest, IF_flag) /\ FramesOK(o, w, c, j)
  BY <1>3, NowOK
<1>5. eip \in Code
  BY <1>2 DEF SwitchTypeOK
<1>6. ws \in Seq(Word) /\ Len(ws) = 8
  BY <1>4, <1>5, Kinds DEF Frame, RegOK
<1>7. /\ ws[1] = <<"flags", IF_flag>> /\ ws[2] = KERNEL_CS /\ ws[3] = <<"code", eip>>
      /\ ws[4] = Zero /\ ws[5] = Zero /\ ws[6] = eax /\ ws[7] = rest /\ ws[8] = KERNEL_DS
  BY DEF Frame
<1> HIDE DEF ws
<1>8. ws \in Seq(Word)
  BY <1>6
<1>9. j - Len(ws) >= 0 /\ j - 8 \in Depth
  BY <1>1, <1>4, <1>6, IndexInt DEF Index, Depth
<1>10. /\ Pushed(stack, <<o, j>>, ws) \in Stacks
       /\ \A u \in Owner \ {o} : Pushed(stack, <<o, j>>, ws)[u] = stack[u]
  BY <1>4, <1>8, <1>9, PushedFacts
<1>11. \A k \in Index : Pushed(stack, <<o, j>>, ws)[o][k] =
         IF k \in (j - Len(ws)) .. (j - 1) THEN ws[j - k] ELSE w[k]
  BY <1>4, <1>8, <1>9, PushedFacts
<1>12. /\ stack' \in Stacks /\ \A u \in Owner \ {o} : stack'[u] = stack[u]
       /\ \A k \in Index : v[k] = IF k \in (j - 8) .. (j - 1) THEN ws[j - k] ELSE w[k]
  BY <1>1, <1>4, <1>6, <1>10, <1>11
<1>13. esp' \in Owner \X Depth /\ esp'[1] = o /\ esp'[2] = j - 8
  BY <1>1, <1>4, <1>9
<1>14. SwitchTypeOK'
  <2>1. torn' \in BOOLEAN /\ eip' \in Code /\ IF_flag' \in BOOLEAN
    BY <1>1 DEF Code
  <2>2. QED
    BY <1>1, <1>2, <1>12, <1>13, <2>1 DEF SwitchTypeOK, Stacks, Index
<1> SUFFICES ASSUME eip \notin BelowEsp
             PROVE  HandlerInv' /\ RunningInv' /\ CurrentInv' /\ WaitingInv'
  BY <1>1, <1>14 DEF SwitchInv
<1> HIDE DEF o, j, w, v, c
<1>15. \A n \in 1 .. 8 : j - n \in Index /\ v[j - n] = ws[n]
  <2> SUFFICES ASSUME NEW n \in 1 .. 8 PROVE j - n \in Index /\ v[j - n] = ws[n]
    OBVIOUS
  <2>1. j - n \in Index
    BY <1>1, <1>4, IndexInt DEF Index, Depth
  <2>2. j - n \in (j - 8) .. (j - 1) /\ j - (j - n) = n
    BY <1>4
  <2>3. QED
    BY <1>12, <2>1, <2>2
<1>16. /\ v[j - 1] = <<"flags", IF_flag>> /\ v[j - 2] = KERNEL_CS /\ v[j - 3] = <<"code", eip>>
       /\ v[j - 4] = Zero /\ v[j - 5] = Zero /\ v[j - 6] = eax /\ v[j - 7] = rest
       /\ v[j - 8] = KERNEL_DS /\ j - 1 \in Index
  BY <1>7, <1>15
<1>17. Agree(w, v, j)
  <2> SUFFICES ASSUME NEW k \in Index, k >= j PROVE v[k] = w[k]
    BY DEF Agree
  <2>1. k \notin (j - 8) .. (j - 1)
    BY <1>4, IndexInt
  <2>2. QED
    BY <1>12, <2>1
<1>18. /\ (j - 8) + 1 = j - 7 /\ (j - 8) + 2 = j - 6 /\ (j - 8) + 3 = j - 5 /\ (j - 8) + 4 = j - 4
       /\ (j - 8) + 5 = j - 3 /\ (j - 8) + 6 = j - 2 /\ (j - 8) + 7 = j - 1 /\ (j - 8) + 8 = j
  BY <1>4
<1>19. <<"code", eip>>[2] = eip /\ <<"flags", IF_flag>>[2] = IF_flag
  OBVIOUS
\* What the handler returns to is what was interrupted.
<1>20. /\ InHandler' /\ LabelNow' = eip /\ EspNow' = j /\ EaxNow' = eax /\ RestNow' = rest
       /\ FlagNow' = IF_flag
  BY <1>1, <1>13, <1>16, <1>18, <1>19
     DEF InHandler, LabelNow, EspNow, EaxNow, RestNow, FlagNow, Interrupted, v
<1>21. /\ LabelNow = eip /\ EspNow = j /\ EaxNow = eax
  BY <1>3 DEF LabelNow, EspNow, EaxNow, InHandler, j
<1>22. FrameShape(v, j - 8)
  <2>1. v[j - 3] \in {<<"code", l>> : l \in Code} /\ v[j - 1] \in FlagsWord
    BY <1>4, <1>5, <1>16, Kinds
  <2>2. QED
    BY <1>1, <1>16, <1>18, <2>1 DEF FrameShape
<1>23. HandlerInv'
  BY <1>1, <1>4, <1>13, <1>20, <1>22 DEF HandlerInv, v
<1>24. RunningInv'
  <2>1. PlaceOK(o, v, c, j, eip, eax, rest, IF_flag)
    BY <1>4, <1>17, PlaceSame
  <2>2. FramesOK(o, v, c, j)
    BY <1>4, <1>17, FramesSame
  <2>3. QED
    BY <1>1, <1>13, <1>20, <2>1, <2>2 DEF RunningInv, v, c
<1>25. CurrentInv'
  BY <1>1, <1>2, <1>13, <1>20, <1>21 DEF CurrentInv, o
<1>26. WaitingInv'
  <2> SUFFICES ASSUME NEW t \in Thread \ {o}
               PROVE  /\ thread_esp[t] = left[t] /\ thread_esp[t][1] = t
                      /\ FrameToResume(stack'[t], thread_esp[t][2])
                      /\ FramesOK(t, stack'[t], called[t], thread_esp[t][2])
    BY <1>1, <1>13 DEF WaitingInv
  <2>1. stack'[t] = stack[t]
    BY <1>12 DEF Owner
  <2>2. QED
    BY <1>2, <2>1 DEF WaitingInv, o
<1>27. QED
  BY <1>23, <1>24, <1>25, <1>26

\* Where the processor may be, the handler may return to.
LEMMA PlaceLabel ==
  ASSUME NEW o, NEW w, NEW c, NEW j, NEW l, NEW a, NEW r, NEW b, PlaceOK(o, w, c, j, l, a, r, b)
  PROVE  l \in Code \ {"handler"} /\ RegOK(a) /\ RegOK(r) /\ b \in BOOLEAN
BY DEF PlaceOK, Resumed, Code, Line

\* The frame is taken off, and what lies below forgotten.
LEMMA FrameTaken ==
  ASSUME NEW s \in Stacks, NEW v \in Stacks, NEW o \in Owner, NEW c, NEW d \in Index,
         v = Forgotten(s, <<o, d + 8>>), FrameShape(s[o], d), FramesOK(o, s[o], c, d + 8),
         NEW l, NEW a, NEW r, NEW b, l \notin BelowEsp,
         PlaceOK(o, s[o], c, d + 8, l, a, r, b)
  PROVE  /\ d + 8 \in Depth /\ \A u \in Owner \ {o} : v[u] = s[u]
         /\ PlaceOK(o, v[o], c, d + 8, l, a, r, b) /\ FramesOK(o, v[o], c, d + 8)
<1> DEFINE q == d + 8
<1>1. q \in Int /\ q \in Depth
  BY IndexInt DEF FrameShape, Index, Depth
<1> HIDE DEF q
<1>2. \A u \in Owner \ {o} : Forgotten(s, <<o, q>>)[u] = s[u]
  BY <1>1, ForgottenFacts
<1>3. Agree(s[o], Forgotten(s, <<o, q>>)[o], q)
  BY <1>1, ForgottenFacts
<1>4. v = Forgotten(s, <<o, q>>) /\ FramesOK(o, s[o], c, q) /\ PlaceOK(o, s[o], c, q, l, a, r, b)
  BY DEF q
<1>5. Agree(s[o], v[o], q)
  BY <1>3, <1>4
<1>6. PlaceOK(o, v[o], c, q, l, a, r, b)
  BY <1>1, <1>4, <1>5, PlaceSame
<1>7. FramesOK(o, v[o], c, q)
  BY <1>1, <1>4, <1>5, FramesSame
<1>8. QED
  BY <1>1, <1>2, <1>4, <1>6, <1>7 DEF q

LEMMA HandlerReturnKeeps ==
  ASSUME SwitchInv, ~torn, HandlerReturn
  PROVE  SwitchInv'
<1> DEFINE o == esp[1]
           j == esp[2]
           w == stack[o]
           c == called[o]
           d == IF eip = "handler" THEN j ELSE j + 1
<1>1. /\ SwitchTypeOK /\ HandlerInv /\ RunningInv /\ CurrentInv
      /\ esp \in Owner \X Depth /\ o \in Owner /\ j \in Depth /\ j \in Int /\ stack \in Stacks
      /\ o # Main => o \in Thread
  <2>1. SwitchTypeOK /\ HandlerInv /\ RunningInv /\ CurrentInv
    BY DEF SwitchInv
  <2>2. esp \in Owner \X Depth /\ stack \in Stacks
    BY <2>1 DEF SwitchTypeOK, Stacks, Index
  <2>3. o \in Owner /\ j \in Depth
    BY <2>2
  <2>4. QED
    BY <2>1, <2>2, <2>3, IndexInt DEF Owner
<1>2. /\ d \in Int /\ d + 5 = d + 5
      /\ rest' = w[d + 1] /\ eax' = w[d + 2] /\ eip' = w[d + 5][2] /\ IF_flag' = w[d + 7][2]
      /\ esp' = <<o, d + 8>> /\ stack' = Forgotten(stack, <<o, d + 8>>)
      /\ UNCHANGED <<timer, current_thread, thread_esp, called, left, torn>>
  <2>1. d \in Int
    BY <1>1
  <2>2. CASE eip = "handler"
    <3>1. /\ rest' = w[j + 1] /\ eax' = w[j + 2] /\ eip' = w[j + 5][2]
          /\ IF_flag' = w[(j + 5) + 2][2]
          /\ esp' = <<o, (j + 5) + 3>> /\ stack' = Forgotten(stack, <<o, (j + 5) + 3>>)
          /\ UNCHANGED <<timer, current_thread, thread_esp, called, left, torn>>
      BY <2>2 DEF HandlerReturn, restore_registers, iret, At, Above, auxiliary
    <3>2. (j + 5) + 2 = j + 7 /\ (j + 5) + 3 = j + 8
      BY <1>1
    <3>3. QED
      BY <2>1, <2>2, <3>1, <3>2
  <2>3. CASE eip = "handler_back"
    <3>1. /\ rest' = w[(j + 1) + 1] /\ eax' = w[(j + 1) + 2] /\ eip' = w[(j + 1) + 5][2]
          /\ IF_flag' = w[((j + 1) + 5) + 2][2]
          /\ esp' = <<o, ((j + 1) + 5) + 3>> /\ stack' = Forgotten(stack, <<o, ((j + 1) + 5) + 3>>)
          /\ UNCHANGED <<timer, current_thread, thread_esp, called, left, torn>>
      BY <2>3 DEF HandlerReturn, restore_registers, iret, At, Above, auxiliary
    <3>2. ((j + 1) + 5) + 2 = (j + 1) + 7 /\ ((j + 1) + 5) + 3 = (j + 1) + 8
      BY <1>1
    <3>3. QED
      BY <2>1, <2>3, <3>1, <3>2
  <2>4. QED
    BY <2>2, <2>3 DEF HandlerReturn
<1>3. /\ d \in Index /\ FrameShape(w, d) /\ FramesOK(o, w, c, d + 8)
      /\ PlaceOK(o, w, c, d + 8, eip', eax', rest', IF_flag') /\ eip' \notin BelowEsp
      /\ o = Main => eip' \in MainLine /\ (eip' # "126" => current_thread = NULL)
      /\ o # Main /\ eip' # "108" => current_thread = o
      /\ eip' \in {"108", "126"} => eax' = <<"thread", current_thread>>
      /\ eip' \in {"104", "107", "108"} => thread_esp[o] = <<o, d + 8>>
  <2>1. CASE eip = "handler"
    <3>1. InHandler /\ d = j
      BY <2>1 DEF InHandler
    <3>2. /\ LabelNow = eip' /\ EspNow = d + 8 /\ EaxNow = eax' /\ RestNow = rest'
          /\ FlagNow = IF_flag'
      BY <1>2, <3>1 DEF LabelNow, EspNow, EaxNow, RestNow, FlagNow, Interrupted
    <3>3. FrameShape(w, d) /\ eip' \notin BelowEsp
      BY <1>1, <3>1, <3>2 DEF HandlerInv
    <3>4. PlaceOK(o, w, c, d + 8, eip', eax', rest', IF_flag') /\ FramesOK(o, w, c, d + 8)
      BY <1>1, <3>2 DEF RunningInv
    <3>5. /\ o = Main => eip' \in MainLine /\ (eip' # "126" => current_thread = NULL)
          /\ o # Main /\ eip' # "108" => current_thread = o
          /\ eip' \in {"108", "126"} => eax' = <<"thread", current_thread>>
          /\ eip' \in {"104", "107", "108"} => thread_esp[o] = <<o, d + 8>>
      BY <1>1, <3>2 DEF CurrentInv, MainLine
    <3>6. QED
      BY <3>3, <3>4, <3>5 DEF FrameShape
  <2>2. CASE eip = "handler_back"
    <3>1. /\ o \in Thread /\ o # Main /\ current_thread = o /\ d = j + 1
          /\ d \in Index /\ w[d] = KERNEL_DS /\ FramesOK(o, w, c, j)
      BY <2>2, NowOK DEF PlaceOK, Resumed, After, MainLine
    <3>2. FrameOK(o, w, c, d)
      BY <1>1, <3>1 DEF FramesOK
    <3>3. /\ FrameShape(w, d) /\ eip' \notin BelowEsp \cup EspInUse
          /\ PlaceOK(o, w, c, d + 8, eip', eax', rest', IF_flag')
      BY <1>2, <3>2 DEF FrameOK
    <3>4. FramesOK(o, w, c, d + 8)
      BY <1>1, <1>2, <3>1, FramesSame DEF Agree
    <3>5. QED
      BY <3>1, <3>3, <3>4 DEF EspInUse
  <2>3. QED
    BY <2>1, <2>2 DEF HandlerReturn
<1> HIDE DEF d
<1>4. stack' \in Stacks
  <2> DEFINE q == d + 8
  <2>1. q \in Int
    BY <1>2
  <2> HIDE DEF q
  <2>2. Forgotten(stack, <<o, q>>) \in Stacks
    BY <1>1, <2>1, ForgottenFacts
  <2>3. QED
    BY <1>2, <2>2 DEF q
<1>5. /\ d + 8 \in Depth /\ \A u \in Owner \ {o} : stack'[u] = stack[u]
      /\ PlaceOK(o, stack'[o], c, d + 8, eip', eax', rest', IF_flag')
      /\ FramesOK(o, stack'[o], c, d + 8)
  <2>1. stack \in Stacks /\ o \in Owner
    BY <1>1
  <2>2. stack' = Forgotten(stack, <<o, d + 8>>)
    BY <1>2
  <2>3. d \in Index /\ FrameShape(stack[o], d) /\ FramesOK(o, stack[o], c, d + 8)
    BY <1>3
  <2>4. eip' \notin BelowEsp /\ PlaceOK(o, stack[o], c, d + 8, eip', eax', rest', IF_flag')
    BY <1>3
  <2> HIDE DEF o, c
  <2>5. QED
    BY <1>4, <2>1, <2>2, <2>3, <2>4, FrameTaken
<1>6. esp' \in Owner \X Depth /\ esp'[1] = o /\ esp'[2] = d + 8
  BY <1>1, <1>2, <1>5
<1>7. eip' \in Code \ {"handler"}
  BY <1>3, PlaceLabel
<1>8. /\ thread_esp' \in [Thread -> Owner \X Depth] /\ current_thread' \in Thread \cup {NULL}
      /\ called' \in [Thread -> [n : {0, 1}, esp : Owner \X Depth, flag : BOOLEAN]]
  BY <1>1, <1>2 DEF SwitchTypeOK
<1>9. QED
  BY <1>2, <1>3, <1>4, <1>5, <1>6, <1>7, <1>8, OwnStep

LEMMA PreemptKeeps ==
  ASSUME SwitchInv, ~torn, NEW to \in Thread, Preempt(to)
  PROVE  SwitchInv'
<1> DEFINE o == esp[1]
           j == esp[2]
           w == stack[o]
           v == stack'[o]
           c == called[o]
           l == w[j + 5][2]
<1>1. /\ eip = "handler" /\ current_thread # NULL /\ Call(to, "handler_back")
      /\ torn' = (torn \/ l \in EspInUse) /\ UNCHANGED <<eax, rest, called>>
  BY DEF Preempt, At, Above
<1>2. SwitchTypeOK /\ HandlerInv /\ RunningInv /\ CurrentInv
  BY DEF SwitchInv
<1>3. esp \in Owner \X Depth /\ stack \in Stacks
  BY <1>2 DEF SwitchTypeOK, Stacks, Index
<1>4. o \in Owner /\ j \in Depth /\ esp = <<o, j>>
  BY <1>3
<1>5. "handler_back" \in Code /\ j \in Int
  BY <1>4, IndexInt DEF Code
<1>6. /\ stack' \in Stacks /\ \A u \in Owner \ {o} : stack'[u] = stack[u]
      /\ v[j - 2] = <<"code", "handler_back">> /\ Parameter(v, j - 1)
      /\ Agree(w, v, j)
      /\ j - 2 \in Index /\ j - 1 \in Index /\ esp' = <<o, j - 2>> /\ esp' \in Owner \X Depth
      /\ eip' = "64" /\ UNCHANGED <<timer, IF_flag, current_thread, thread_esp, left>>
      /\ \A k \in Index : k >= j - 2 /\ k < j => v[k] # KERNEL_DS
  BY <1>1, <1>3, <1>4, <1>5, CallFacts
<1>7. torn' \in BOOLEAN /\ eip' \in Code
  BY <1>1, <1>2, <1>6 DEF SwitchTypeOK, Code, Line
<1>8. SwitchTypeOK'
  BY <1>1, <1>2, <1>6, <1>7 DEF SwitchTypeOK, Stacks, Index
<1>9. CASE l \in EspInUse
  BY <1>1, <1>8, <1>9 DEF SwitchInv
<1>10. CASE l \notin EspInUse
  <2>1. /\ LabelNow = l /\ EspNow = j + 8 /\ EaxNow = w[j + 2] /\ RestNow = w[j + 1]
        /\ FlagNow = w[j + 7][2]
    BY <1>1 DEF LabelNow, EspNow, EaxNow, RestNow, FlagNow, Interrupted, InHandler
  <2>2. /\ IF_flag = FALSE /\ FrameShape(w, j) /\ RegOK(eax) /\ RegOK(rest) /\ l \notin BelowEsp
    BY <1>1, <1>2, <2>1 DEF HandlerInv, InHandler
  <2>3. PlaceOK(o, w, c, j + 8, l, w[j + 2], w[j + 1], w[j + 7][2]) /\ FramesOK(o, w, c, j + 8)
    BY <1>2, <2>1 DEF RunningInv
  <2>4. o \in Thread /\ o # Main /\ current_thread = o
    BY <1>1, <1>2, <1>4, <1>10, <2>1 DEF CurrentInv, EspInUse, Owner
  <2>5. FrameOK(o, w, c, j)
    BY <1>10, <2>2, <2>3 DEF FrameOK
  <2>6. FramesOK(o, w, c, j)
    <3>1. \A k \in Index : k >= j /\ k < j + 8 /\ w[k] = KERNEL_DS => FrameOK(o, w, c, k)
      <4> SUFFICES ASSUME NEW k \in Index, k >= j, k < j + 8, w[k] = KERNEL_DS
                   PROVE  FrameOK(o, w, c, k)
        OBVIOUS
      <4>1. /\ w[j + 1] # KERNEL_DS /\ w[j + 2] # KERNEL_DS /\ w[j + 3] # KERNEL_DS
            /\ w[j + 4] # KERNEL_DS /\ w[j + 5] # KERNEL_DS /\ w[j + 6] # KERNEL_DS
            /\ w[j + 7] # KERNEL_DS
        BY <2>2, <2>3, Kinds, PlaceLabel DEF FrameShape, RegOK
      <4>2. \/ k = j \/ k = j + 1 \/ k = j + 2 \/ k = j + 3 \/ k = j + 4 \/ k = j + 5
            \/ k = j + 6 \/ k = j + 7
        BY <1>5, IndexInt
      <4>3. QED
        BY <2>5, <4>1, <4>2
    <3>2. Agree(w, w, j + 8) /\ j + 8 \in Int
      BY <1>5 DEF Agree
    <3>3. QED
      BY <1>5, <2>3, <3>1, <3>2, FramesDown
  <2> HIDE DEF o, j, w, v, c, l
  <2>7. FramesOK(o, v, c, j - 2)
    <3>1. j - 2 \in Int
      BY <1>5
    <3>2. QED
      BY <1>5, <1>6, <2>6, <3>1, FramesDown
  <2>8. v[j] = KERNEL_DS /\ j \in Index /\ (j - 1) + 1 = j /\ (j - 2) + 1 = j - 1
    BY <1>5, <1>6, <2>2 DEF FrameShape, Agree
  <2>9. After(o, v, c, j - 1, "handler_back", eax, rest, FALSE)
    BY <2>2, <2>4, <2>8 DEF After
  <2>10. Return(o, v, c, j - 2, j - 1, eax, rest, FALSE)
    BY <1>5, <1>6, <2>9 DEF Return
  <2>11. PlaceOK(o, v, c, j - 2, "64", eax, rest, FALSE)
    BY <1>6, <2>2, <2>8, <2>10 DEF PlaceOK
  <2>12. esp'[1] = o /\ esp'[2] = j - 2 /\ esp[1] = o
    BY <1>6 DEF o
  <2>13. /\ thread_esp' \in [Thread -> Owner \X Depth] /\ current_thread' \in Thread \cup {NULL}
         /\ called' \in [Thread -> [n : {0, 1}, esp : Owner \X Depth, flag : BOOLEAN]]
    BY <1>1, <1>2, <1>6 DEF SwitchTypeOK
  <2>14. UNCHANGED <<timer, left, torn>>
    BY <1>1, <1>2, <1>6, <1>10 DEF SwitchTypeOK
  <2>15. eip' \in Code \ {"handler"}
    BY <1>6, <1>7
  <2>16. PlaceOK(o, v, called'[o], esp'[2], eip', eax', rest', IF_flag')
    BY <1>1, <1>6, <2>2, <2>11, <2>12 DEF c
  <2>17. FramesOK(o, v, called'[o], esp'[2])
    BY <1>1, <2>7, <2>12 DEF c
  <2>18. QED
    BY <1>1, <1>6, <2>4, <2>12, <2>13, <2>14, <2>15, <2>16, <2>17, OwnStep DEF v
<1>11. QED
  BY <1>9, <1>10

------------------------------------------------------------------------------

LEMMA SwitchStart == SwitchInit => SwitchInv
<1> SUFFICES ASSUME SwitchInit PROVE SwitchInv
  OBVIOUS
<1>1. /\ timer \in Timers /\ esp = <<Main, StackSize>> /\ eax = Zero /\ rest = Zero
      /\ IF_flag = TRUE /\ eip = "main" /\ current_thread = NULL /\ torn = FALSE
      /\ thread_esp = [t \in Thread |-> <<t, StackSize - 11>>] /\ left = thread_esp
      /\ called = [t \in Thread |-> [n |-> 0, esp |-> <<t, StackSize>>, flag |-> TRUE]]
  BY DEF SwitchInit
<1>2. PICK b \in StartIF :
        stack = [o \in Owner |->
          IF o = Main THEN ZeroStacks[o]
          ELSE Pushed(ZeroStacks, <<o, StackSize>>, InitialWords(b))[o]]
  BY DEF SwitchInit
<1>3. b \in BOOLEAN /\ Main \in Owner /\ StackSize \in Depth /\ StackSize - 11 \in Depth
  BY SwitchAssumption DEF Owner, Depth
<1>4. ZeroStacks \in Stacks
  BY Kinds DEF ZeroStacks, Stacks, Index
<1> DEFINE ws == InitialWords(b)
           S == StackSize
<1>5. ws \in Seq(Word) /\ Len(ws) = 11
  <2>1. "thread_shutdown" \in Code \cup {"thread_shutdown"} /\ "fun" \in Code /\ "thread_start" \in Code
    BY DEF Code
  <2>2. QED
    BY <1>3, <2>1, Kinds DEF InitialWords
<1>6. /\ ws[1] = Zero /\ ws[2] = <<"code", "thread_shutdown">> /\ ws[3] = <<"code", "fun">>
      /\ ws[4] = <<"flags", b>> /\ ws[5] = KERNEL_CS /\ ws[6] = <<"code", "thread_start">>
      /\ ws[7] = Zero /\ ws[8] = Zero /\ ws[9] = Zero /\ ws[10] = Zero /\ ws[11] = KERNEL_DS
  BY DEF InitialWords
<1> HIDE DEF ws
<1>7. ws \in Seq(Word)
  BY <1>5
<1>8. S - Len(ws) >= 0
  BY <1>5, IndexInt
<1>9. \A t \in Thread : Pushed(ZeroStacks, <<t, S>>, ws) \in Stacks
  BY <1>3, <1>4, <1>7, <1>8, PushedFacts DEF Owner
<1>10. \A t \in Thread : t # Main /\ t \in Owner /\ stack[t] = Pushed(ZeroStacks, <<t, S>>, ws)[t]
  BY <1>2, SwitchAssumption DEF Owner, ws
<1>11. stack \in Stacks
  <2> SUFFICES ASSUME NEW o \in Owner PROVE stack[o] \in [Index -> Word]
    BY <1>2 DEF Stacks
  <2>1. CASE o = Main
    <3>1. stack[o] = ZeroStacks[o]
      BY <1>2, <2>1
    <3>2. QED
      BY <1>4, <3>1 DEF Stacks
  <2>2. CASE o # Main
    BY <1>9, <1>10, <2>2 DEF Owner, Stacks
  <2>3. QED
    BY <2>1, <2>2
<1>12. \A t \in Thread : \A n \in 1 .. 11 : S - n \in Index /\ stack[t][S - n] = ws[n]
  <2> SUFFICES ASSUME NEW t \in Thread, NEW n \in 1 .. 11
               PROVE  S - n \in Index /\ stack[t][S - n] = ws[n]
    OBVIOUS
  <2>1. S - n \in Index /\ S - n \in (S - Len(ws)) .. (S - 1) /\ S - (S - n) = n
    BY <1>5, SwitchAssumption DEF Index
  <2>2. \A k \in Index : Pushed(ZeroStacks, <<t, S>>, ws)[t][k] =
          IF k \in (S - Len(ws)) .. (S - 1) THEN ws[S - k] ELSE ZeroStacks[t][k]
    BY <1>3, <1>4, <1>7, <1>8, <1>10, PushedFacts
  <2>3. QED
    BY <1>10, <2>1, <2>2
<1>13. SwitchTypeOK
  <2>1. \A t \in Thread : <<t, S - 11>> \in Owner \X Depth /\ <<t, S>> \in Owner \X Depth
    BY <1>3 DEF Owner
  <2>2. /\ thread_esp \in [Thread -> Owner \X Depth]
        /\ called \in [Thread -> [n : {0, 1}, esp : Owner \X Depth, flag : BOOLEAN]]
    BY <1>1, <2>1
  <2>3. esp \in Owner \X Depth /\ eip \in Code
    BY <1>1, <1>3 DEF Code
  <2>4. QED
    BY <1>1, <1>11, <2>2, <2>3, Kinds DEF SwitchTypeOK, Stacks, Index
<1>14. ~InHandler /\ LabelNow = "main" /\ EspNow = S /\ EaxNow = Zero /\ RestNow = Zero /\ FlagNow = TRUE
  BY <1>1 DEF InHandler, LabelNow, EspNow, EaxNow, RestNow, FlagNow
<1>15. RegOK(Zero)
  BY Kinds DEF RegOK
<1>16. RunningInv
  <2>1. esp[1] = Main
    BY <1>1
  <2>2. PlaceOK(Main, stack[Main], called[Main], S, "main", Zero, Zero, TRUE)
    BY <1>15 DEF PlaceOK
  <2>3. FramesOK(Main, stack[Main], called[Main], S)
    <3>1. \A d \in Index : ~(d >= S)
      BY IndexInt
    <3>2. QED
      BY <3>1 DEF FramesOK
  <2>4. QED
    BY <1>14, <2>1, <2>2, <2>3 DEF RunningInv
<1>17. CurrentInv
  BY <1>1, <1>14 DEF CurrentInv
<1>18. WaitingInv
  <2> SUFFICES ASSUME NEW t \in Thread
               PROVE  /\ thread_esp[t] = left[t] /\ thread_esp[t][1] = t
                      /\ FrameToResume(stack[t], thread_esp[t][2])
                      /\ FramesOK(t, stack[t], called[t], thread_esp[t][2])
    BY DEF WaitingInv
  <2> DEFINE w == stack[t]
             c == called[t]
             d == S - 11
  <2>1. thread_esp[t] = left[t] /\ thread_esp[t] = <<t, d>>
    BY <1>1
  <2>2. /\ w[S - 1] = Zero /\ w[S - 2] = <<"code", "thread_shutdown">> /\ w[S - 3] = <<"code", "fun">>
        /\ w[S - 4] = <<"flags", b>> /\ w[S - 5] = KERNEL_CS
        /\ w[S - 6] = <<"code", "thread_start">>
        /\ w[S - 7] = Zero /\ w[S - 8] = Zero /\ w[S - 9] = Zero /\ w[S - 10] = Zero
        /\ w[S - 11] = KERNEL_DS
        /\ S - 11 \in Index /\ S - 4 \in Index /\ S - 3 \in Index
    BY <1>6, <1>12
  <2>3. /\ d + 1 = S - 10 /\ d + 2 = S - 9 /\ d + 3 = S - 8 /\ d + 4 = S - 7 /\ d + 5 = S - 6
        /\ d + 6 = S - 5 /\ d + 7 = S - 4 /\ d + 8 = S - 3
    BY IndexInt
  <2>4. "thread_start" \in Resumed /\ "thread_start" \in Code /\ "thread_start" \notin BelowEsp \cup EspInUse
    BY DEF Resumed, Code, BelowEsp, EspInUse
  <2> HIDE DEF w, c
  <2>5. FrameToResume(w, d)
    BY <2>2, <2>3, <2>4 DEF FrameToResume
  <2>6. FrameShape(w, d)
    <3>1. w[d + 5] = <<"code", "thread_start">> /\ w[d + 7] = <<"flags", b>>
      BY <2>2, <2>3
    <3>2. w[d + 5] \in {<<"code", l>> : l \in Code}
      BY <2>4, <3>1
    <3>3. w[d + 7] \in FlagsWord
      BY <1>3, <3>1, Kinds
    <3>4. QED
      BY <2>2, <2>3, <3>2, <3>3 DEF FrameShape
  <2>7. PlaceOK(t, w, c, S - 3, "thread_start", Zero, Zero, b)
    BY <1>3, <1>15, <2>2, <2>4 DEF PlaceOK, After
  <2>8. <<"code", "thread_start">>[2] = "thread_start" /\ <<"flags", b>>[2] = b
    OBVIOUS
  <2>9. FrameOK(t, w, c, d)
    BY <2>2, <2>3, <2>4, <2>6, <2>7, <2>8 DEF FrameOK
  <2>10. FramesOK(t, w, c, d)
    <3> SUFFICES ASSUME NEW k \in Index, k >= d, w[k] = KERNEL_DS PROVE k = d
      BY <2>9 DEF FramesOK
    <3>1. \/ k = S - 1 \/ k = S - 2 \/ k = S - 3 \/ k = S - 4 \/ k = S - 5 \/ k = S - 6
          \/ k = S - 7 \/ k = S - 8 \/ k = S - 9 \/ k = S - 10 \/ k = S - 11
      BY IndexInt
    <3>2. QED
      BY <1>3, <2>2, <3>1, Kinds
  <2>11. QED
    BY <2>1, <2>5, <2>10 DEF w, c
<1>19. HandlerInv
  BY <1>14 DEF HandlerInv
<1>20. QED
  BY <1>13, <1>16, <1>17, <1>18, <1>19 DEF SwitchInv

LEMMA SwitchStep == SwitchInv /\ [SwitchNext]_switchVars => SwitchInv'
<1> SUFFICES ASSUME SwitchInv, [SwitchNext]_switchVars PROVE SwitchInv'
  OBVIOUS
<1>1. CASE UNCHANGED switchVars
  BY <1>1 DEF SwitchInv, SwitchTypeOK, HandlerInv, RunningInv, CurrentInv, WaitingInv, InHandler,
              Interrupted, LabelNow, EspNow, EaxNow, RestNow, FlagNow,
              switchVars, registers, auxiliary
<1>2. CASE SwitchNext
  <2>1. ~torn
    BY <1>2 DEF SwitchNext
  <2>2. CASE SwitchTo
    BY <2>1, <2>2, CompareKeeps, SaveEaxKeeps, GetReturnAddressKeeps, MoveReturnAddressKeeps,
       MoveUpKeeps, PushFlagsKeeps, RestoreEaxKeeps, PushCSKeeps, PointAtReturnKeeps,
       PushErrorCodeKeeps, PushInterruptNoKeeps, SaveRegistersKeeps, GetCurrentKeeps,
       SaveEspKeeps, GetParameterKeeps, SetCurrentKeeps, LoadEspKeeps, RestoreRegistersKeeps,
       IretKeeps
       DEF SwitchTo
  <2>3. CASE ThreadStart
    BY <2>1, <2>3, FunctionStep DEF ThreadStart
  <2>4. CASE Back
    BY <2>1, <2>4, FunctionStep DEF Back
  <2>5. CASE Interrupt
    BY <2>1, <2>5, InterruptKeeps
  <2>6. CASE HandlerReturn
    BY <2>1, <2>6, HandlerReturnKeeps
  <2>7. CASE \E to \in Thread : KickOff(to) \/ Dispatch(to) \/ Preempt(to)
    BY <2>1, <2>7, KickOffKeeps, DispatchKeeps, PreemptKeeps
  <2>8. QED
    BY <1>2, <2>2, <2>3, <2>4, <2>5, <2>6, <2>7 DEF SwitchNext
<1>3. QED
  BY <1>1, <1>2

\* The invariant of the context switch.
THEOREM SwitchInductive == SwitchSpec => []SwitchInv
BY SwitchStart, SwitchStep, PTL DEF SwitchSpec

\* Whatever is pushed, popped and moved, by the switch or by an interrupt: every
\* word is of a kind the code knows, and every stack pointer within a stack.
THEOREM SwitchTypeCorrect == SwitchSpec => []SwitchTypeOK
<1>1. SwitchInv => SwitchTypeOK
  BY DEF SwitchInv
<1>2. QED
  BY <1>1, SwitchInductive, PTL

\* threads_low.asm:67-99, 107-108: a thread is loaded with the stack pointer with
\* which it was left, iret finds a return address, and dispatch_to returns with
\* the registers, the interrupt flag and the stack pointer of the call, for any
\* number of threads, stacks of any size and interrupts nested to any depth, unless
\* the switch was hit at one of the places that torn stands for.
THEOREM ThreadsResumeWhole == SwitchSpec => []ResumesWhole
<1>1. SwitchInv => ResumesWhole
  <2> SUFFICES ASSUME SwitchInv, ~torn
               PROVE  /\ eip \in {"108", "126"} =>
                           thread_esp[current_thread] =
                             IF esp[1] = current_thread THEN esp ELSE left[current_thread]
                      /\ eip = "116" => At(esp)[1] = "code"
                      /\ eip = "back" =>
                           LET t == current_thread
                           IN  /\ eax = <<"register", t, called[t].n>> /\ rest = eax
                               /\ IF_flag = called[t].flag
                               /\ Above(esp, 1) = called[t].esp
    BY DEF ResumesWhole
  <2>1. ASSUME eip \in {"108", "126"}
        PROVE  thread_esp[current_thread] =
                 IF esp[1] = current_thread THEN esp ELSE left[current_thread]
    <3>1. eax = <<"thread", current_thread>> /\ eax \in ThreadWord /\ esp[1] \in Owner
      BY <2>1, NowOK DEF PlaceOK, Resumed
    <3>2. eax[2] = current_thread
      BY <3>1
    <3>3. current_thread \in Thread
      BY <3>1, <3>2, Kinds
    <3>4. CASE esp[1] = current_thread
      <4>1. esp[1] # Main
        BY <3>3, <3>4, SwitchAssumption
      <4>2. eip = "108"
        BY <2>1, <4>1, NowOK DEF PlaceOK, Resumed
      <4>3. QED
        BY <3>4, <4>2, NowOK
    <3>5. CASE esp[1] # current_thread
      BY <3>3, <3>5 DEF SwitchInv, WaitingInv
    <3>6. QED
      BY <3>4, <3>5
  <2>2. ASSUME eip = "116" PROVE At(esp)[1] = "code"
    <3>1. IretWords(esp[1], stack[esp[1]], called[esp[1]], esp[2], eax, rest)
      BY <2>2, NowOK DEF PlaceOK, Resumed
    <3>2. PICK l \in Code : stack[esp[1]][esp[2]] = <<"code", l>>
      BY <3>1 DEF IretWords, Return
    <3>3. QED
      BY <3>2 DEF At
  <2>3. ASSUME eip = "back"
        PROVE  LET t == current_thread
               IN  /\ eax = <<"register", t, called[t].n>> /\ rest = eax
                   /\ IF_flag = called[t].flag
                   /\ Above(esp, 1) = called[t].esp
    <3>1. /\ esp[1] \in Thread /\ esp[2] = StackSize - 3
          /\ eax = <<"register", esp[1], called[esp[1]].n>> /\ rest = eax
          /\ IF_flag = called[esp[1]].flag /\ called[esp[1]].esp = <<esp[1], StackSize - 2>>
      BY <2>3, NowOK DEF PlaceOK, Resumed, After
    <3>2. current_thread = esp[1]
      BY <2>3, <3>1, NowOK, SwitchAssumption
    <3>3. Above(esp, 1) = <<esp[1], StackSize - 2>>
      BY <3>1, IndexInt DEF Above
    <3>4. QED
      BY <3>1, <3>2, <3>3
  <2>4. QED
    BY <2>1, <2>2, <2>3
<1>2. QED
  BY <1>1, SwitchInductive, PTL
==============================================================================
