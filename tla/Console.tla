------------------------------- MODULE Console -------------------------------
(***************************************************************************)
(* The text console that every kernel has (console.C) and two users of it: *)
(* main(), whose puts runs with interrupts enabled, and the timer handler, *)
(* which prints a line of its own once a second.  Nothing interrupts the   *)
(* handler, so each of its characters is one step.                         *)
(* The kernels are compiled without optimization, so cursor and text live  *)
(* in memory between any two statements, and x++ is a load and a store.    *)
(*                                                                         *)
(* Colours, the copy on port 0xE9 and the hardware cursor are left out; so *)
(* is the backspace, which no kernel prints.                               *)
(***************************************************************************)
EXTENDS Integers, Sequences

CONSTANTS
  Rows, Cols, Tab,    \* 25, 80 and 8
  Printable,          \* the printable characters main() prints
  Message,            \* what the timer handler prints: "One second has passed\n"
  Blank,
  MaxChars, MaxTicks  \* bounds: characters of main(), lines of the handler

NewLine == "\n"
TabChar == "\t"

ASSUME ConsoleAssumption ==
  /\ Rows \in Nat /\ Rows >= 2
  /\ Cols \in Nat \ {0} /\ Tab \in Nat \ {0} /\ Cols % Tab = 0
  /\ Message \in Seq(Printable \cup {"t", NewLine})
  /\ Message # <<>> /\ Message[Len(Message)] = NewLine
  /\ MaxChars \in Nat /\ MaxTicks \in Nat

\* Text memory: the screen, and two rows behind it.
Cell   == 0 .. ((Rows + 2) * Cols - 1)
Screen == 0 .. (Rows * Cols - 1)

VARIABLES
  csr_x, csr_y, text,
  pc,         \* main()'s place in putch and scroll
  char,       \* its character
  temp,       \* what it has loaded or computed: where, csr_x, csr_y or temp
  line,       \* the handler's place in Message, 0 outside the handler
  chars, ticks,
  paper,      \* auxiliary: what endless paper would show
  quiet       \* auxiliary: no line of the handler has come inside a putch

cursorVars == <<csr_x, csr_y, text>>
countVars  == <<chars, ticks>>
consoleVars == <<cursorVars, pc, char, temp, line, countVars, paper, quiet>>

PC == {"idle", "where", "put", "inc_x", "store_x", "tab", "return", "inc_y", "store_y", "edge",
       "edge_y", "edge_store", "scroll", "rows", "copy", "blank", "last"}

------------------------------------------------------------------------------
(* Printing on endless paper.                                              *)

Typed(p, c) ==
  CASE c = NewLine -> [p EXCEPT !.row = @ + 1, !.col = 0]
    [] c = TabChar ->
         LET stop == CHOOSE k \in (p.col + 1) .. (p.col + Tab) : k % Tab = 0
         IN  IF stop = Cols THEN [p EXCEPT !.row = @ + 1, !.col = 0] ELSE [p EXCEPT !.col = stop]
    [] OTHER ->
         [marks |-> p.marks \cup {<<p.row, p.col, c>>},
          row |-> IF p.col = Cols - 1 THEN p.row + 1 ELSE p.row,
          col |-> (p.col + 1) % Cols]

Ink == Printable \cup {"t"}

Visible(p, row, col) ==
  IF \E c \in Ink : <<row, col, c>> \in p.marks
  THEN CHOOSE c \in Ink : <<row, col, c>> \in p.marks ELSE Blank

NewPaper == [row |-> 0, col |-> 0, marks |-> {}]

------------------------------------------------------------------------------

\* Console::init and cls
ConsoleInit ==
  /\ csr_x = 0 /\ csr_y = 0
  /\ text = [k \in Cell |-> Blank]
  /\ pc = "idle" /\ char = Blank /\ temp = 0
  /\ line = 0
  /\ chars = 0 /\ ticks = 0
  /\ paper = NewPaper
  /\ quiet = TRUE

------------------------------------------------------------------------------
(* Operations on text memory.                                               *)

\* memcpy(textmemptr, textmemptr + n * 80, (25 - n) * 80 * 2)
memcpy(m, n) ==
  [k \in Cell |-> IF k < (Rows - n) * Cols THEN m[k + n * Cols] ELSE m[k]]

\* memsetw(textmemptr + (25 - n) * 80, blank, 80)
memsetw(m, n) ==
  [k \in Cell |-> IF k \div Cols = Rows - n THEN Blank ELSE m[k]]

\* Mutant of RoundUp: one column more.
StepUp(x) == x + Tab

\* (csr_x + 8) & ~(8 - 1)
RoundUp(x) == ((x + Tab) \div Tab) * Tab

------------------------------------------------------------------------------
(* The handler's putch, which nothing interrupts.                           *)

Display(x, y, m) == [x |-> x, y |-> y, text |-> m]

Placed(s, c) ==
  CASE c = NewLine -> Display(0, s.y + 1, s.text)
    [] c = TabChar -> Display(RoundUp(s.x), s.y, s.text)
    [] OTHER -> Display(s.x + 1, s.y, [s.text EXCEPT ![s.y * Cols + s.x] = c])

Wrapped(s) == IF s.x >= Cols THEN Display(0, s.y + 1, s.text) ELSE s

Scrolled(s) ==
  LET n == s.y - Rows + 1
  IN  IF s.y >= Rows THEN Display(s.x, Rows - 1, memsetw(memcpy(s.text, n), n)) ELSE s

Put(s, c) == Scrolled(Wrapped(Placed(s, c)))

\* SimpleTimer::handle_interrupt when a second is over.
Tick ==
  /\ line = 0
  /\ ticks < MaxTicks
  /\ ticks' = ticks + 1
  /\ line' = 1
  /\ quiet' = (quiet /\ pc = "idle")
  /\ paper' = IF quiet' THEN paper ELSE NewPaper
  /\ UNCHANGED <<cursorVars, pc, char, temp, chars>>

\* One putch of the handler.
PutMessage ==
  /\ line # 0
  /\ LET c == Message[line]
         s == Put(Display(csr_x, csr_y, text), c)
     IN  /\ csr_x' = s.x /\ csr_y' = s.y /\ text' = s.text
         /\ paper' = IF quiet THEN Typed(paper, c) ELSE paper
  /\ line' = IF line = Len(Message) THEN 0 ELSE line + 1
  /\ UNCHANGED <<pc, char, temp, countVars, quiet>>

------------------------------------------------------------------------------
(* main()'s putch, statement by statement.                                  *)

unchanged_rest == UNCHANGED <<char, line, countVars, paper, quiet>>

\* The next character of what puts prints.
Begin(c) ==
  /\ pc = "idle"
  /\ chars < MaxChars
  /\ chars' = chars + 1
  /\ char' = c
  /\ pc' = CASE c = NewLine -> "return" [] c = TabChar -> "tab" [] OTHER -> "where"
  /\ temp' = IF c = NewLine THEN 0 ELSE IF c = TabChar THEN csr_x ELSE csr_y
  /\ UNCHANGED <<cursorVars, line, ticks, paper, quiet>>

\* where = textmemptr + (csr_y * 80 + csr_x), csr_y loaded first.
Where ==
  /\ pc = "where"
  /\ temp' = temp * Cols + csr_x
  /\ pc' = "put"
  /\ UNCHANGED cursorVars /\ unchanged_rest

PutChar ==
  /\ pc = "put"
  /\ text' = [text EXCEPT ![temp] = char]
  /\ pc' = "inc_x"
  /\ UNCHANGED <<csr_x, csr_y, temp>> /\ unchanged_rest

LoadX ==
  /\ pc = "inc_x"
  /\ temp' = csr_x
  /\ pc' = "store_x"
  /\ UNCHANGED cursorVars /\ unchanged_rest

StoreX ==
  /\ pc \in {"store_x", "tab"}
  /\ csr_x' = IF pc = "tab" THEN RoundUp(temp) ELSE temp + 1
  /\ pc' = "edge"
  /\ UNCHANGED <<csr_y, text, temp>> /\ unchanged_rest

\* csr_x = 0, for a new line and at the edge.
ToMargin ==
  /\ \/ pc = "return" /\ pc' = "inc_y"
     \/ pc = "edge" /\ csr_x >= Cols /\ pc' = "edge_y"
  /\ csr_x' = 0
  /\ UNCHANGED <<csr_y, text, temp>> /\ unchanged_rest

LoadY ==
  /\ \/ pc = "inc_y" /\ pc' = "store_y"
     \/ pc = "edge_y" /\ pc' = "edge_store"
  /\ temp' = csr_y
  /\ UNCHANGED cursorVars /\ unchanged_rest

StoreY ==
  /\ \/ pc = "store_y" /\ pc' = "edge"
     \/ pc = "edge_store" /\ pc' = "scroll"
  /\ csr_y' = temp + 1
  /\ UNCHANGED <<csr_x, text, temp>> /\ unchanged_rest

NoEdge ==
  /\ pc = "edge" /\ csr_x < Cols
  /\ pc' = "scroll"
  /\ UNCHANGED <<cursorVars, temp>> /\ unchanged_rest

\* putch returns.
PutDone ==
  /\ pc' = "idle"
  /\ paper' = IF quiet THEN Typed(paper, char) ELSE paper

\* Mutant of Scroll: the test is off by one.
ScrollLate ==
  /\ pc = "scroll"
  /\ \/ csr_y > Rows /\ pc' = "rows" /\ UNCHANGED paper
     \/ csr_y <= Rows /\ PutDone
  /\ UNCHANGED <<cursorVars, temp, char, line, countVars, quiet>>

\* if (csr_y >= 25)
Scroll ==
  /\ pc = "scroll"
  /\ \/ csr_y >= Rows /\ pc' = "rows" /\ UNCHANGED paper
     \/ csr_y < Rows /\ PutDone
  /\ UNCHANGED <<cursorVars, temp, char, line, countVars, quiet>>

\* temp = csr_y - 25 + 1, a second reading of csr_y.
RowsToGo ==
  /\ pc = "rows"
  /\ temp' = csr_y - Rows + 1
  /\ pc' = "copy"
  /\ UNCHANGED cursorVars /\ unchanged_rest

\* Each of the two loops is one step; how an interrupt in the midst of one mixes
\* the rows it moves is not modelled, where it writes is the same.
CopyRows ==
  /\ pc = "copy"
  /\ text' = memcpy(text, temp)
  /\ pc' = "blank"
  /\ UNCHANGED <<csr_x, csr_y, temp>> /\ unchanged_rest

BlankRow ==
  /\ pc = "blank"
  /\ text' = memsetw(text, temp)
  /\ pc' = "last"
  /\ UNCHANGED <<csr_x, csr_y, temp>> /\ unchanged_rest

LastRow ==
  /\ pc = "last"
  /\ csr_y' = Rows - 1
  /\ PutDone
  /\ UNCHANGED <<csr_x, text, temp, char, line, countVars, quiet>>

PutChars ==
  \/ \E c \in Printable \cup {NewLine, TabChar} : Begin(c)
  \/ Where \/ PutChar \/ LoadX \/ StoreX \/ ToMargin \/ LoadY \/ StoreY \/ NoEdge
  \/ Scroll \/ RowsToGo \/ CopyRows \/ BlankRow \/ LastRow

\* main() goes on when the handler has returned.
ConsoleNext == Tick \/ PutMessage \/ (line = 0 /\ PutChars)

ConsoleSpec == ConsoleInit /\ [][ConsoleNext]_consoleVars

------------------------------------------------------------------------------

(***************************************************************************)
(* Types.  The cursor is never more than the one step off the screen that  *)
(* putch corrects before it returns, wherever the handler comes in between *)
(* (console.C:80 and :84 read csr_y twice, :164 and :177 load and store),  *)
(* and no text is ever written but to the screen and the row behind it.    *)
(***************************************************************************)
ConsoleTypeOK ==
  /\ csr_x \in 0 .. Cols /\ csr_y \in 0 .. Rows
  /\ pc = "idle" => csr_x < Cols /\ csr_y < Rows
  /\ text \in [Cell -> Printable \cup {"t", Blank}]
  /\ \A k \in Cell : k >= (Rows + 1) * Cols => text[k] = Blank
  /\ pc \in PC
  /\ char \in Printable \cup {NewLine, TabChar, Blank}
  /\ temp \in 0 .. ((Rows + 1) * Cols)
  /\ line \in 0 .. Len(Message)
  /\ chars \in 0 .. MaxChars /\ ticks \in 0 .. MaxTicks
  /\ paper \in [row : Nat, col : 0 .. (Cols - 1), marks : SUBSET (Nat \X Nat \X Ink)]
  /\ quiet \in BOOLEAN

(***************************************************************************)
(* console.C:73-92, 135-194.  As long as the handler has printed only      *)
(* between two calls of putch, the screen shows the last rows of all the   *)
(* output, main()'s and the handler's in the order they were made, and the *)
(* cursor is behind the last character.                                    *)
(***************************************************************************)
ScreenShowsOutput ==
  quiet /\ pc = "idle" =>
    LET gone == IF paper.row >= Rows THEN paper.row - (Rows - 1) ELSE 0
    IN  /\ csr_x = paper.col /\ csr_y = paper.row - gone
        /\ \A k \in Screen : text[k] = Visible(paper, k \div Cols + gone, k % Cols)
==============================================================================
