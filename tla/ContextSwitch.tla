---------------------------- MODULE ContextSwitch ----------------------------
(***************************************************************************)
(* The context switch of mp5 and mp6 (threads_low.asm), instruction by     *)
(* instruction, on the stacks that thread.C sets up, with the timer        *)
(* interrupt (irq_low.asm, interrupts.C) between any two of them.  The     *)
(* labels "64" .. "134" are the lines of threads_low.asm.                  *)
(*                                                                         *)
(* A stack is a sequence of words that grows towards index 0.  All general *)
(* registers but eax are one word here, and so are the four segment        *)
(* registers: a frame has eight words instead of 17.                       *)
(***************************************************************************)
EXTENDS Integers, Sequences

CONSTANTS
  Thread, NULL,
  Main,          \* the start-up code, with a stack of its own
  StackSize,     \* words of a stack
  StartIF,       \* the IF bit setup_context pushes: TRUE in mp5, FALSE in mp6
  Timers         \* "simple": SimpleTimer; "eoq": EOQTimer, which may preempt

Owner == Thread \cup {Main}
Depth == 0 .. StackSize

ASSUME SwitchAssumption ==
  /\ NULL \notin Thread /\ Main \notin Thread
  /\ StackSize \in Nat /\ StackSize >= 28
  /\ StartIF \subseteq BOOLEAN
  /\ Timers \subseteq {"simple", "eoq"}

\* Where the processor can be: lines of threads_low.asm; thread_start; the
\* function of a thread, and the place where it gets its switches back; the
\* interrupt handler before and after a switch; main().
Line == {"64", "80", "81", "83", "84", "85", "86", "87", "88", "91", "92", "95", "98", "99",
         "104", "107", "108", "112", "116", "122", "125", "126"}
Code == Line \cup {"thread_start", "fun", "back", "handler", "handler_back", "main"}

\* Words, each with its kind: a code address, a flags register, a pointer to a
\* thread, a register value of a thread's function, and anything else.
CodeWord     == {<<"code", l>> : l \in Code \cup {"thread_shutdown"}}
FlagsWord    == {<<"flags", b>> : b \in BOOLEAN}
ThreadWord   == {<<"thread", t>> : t \in Thread}
RegisterWord == {<<"register", t, n>> : t \in Thread, n \in {0, 1}}
Zero         == <<"other", 0>>
KERNEL_CS    == <<"other", 8>>
KERNEL_DS    == <<"other", 16>>
Word == CodeWord \cup FlagsWord \cup ThreadWord \cup RegisterWord
          \cup {Zero, KERNEL_CS, KERNEL_DS}

VARIABLES
  timer,           \* which timer the kernel uses
  stack,           \* stack[o][k]: word k of o's stack
  esp, eax, rest, IF_flag, eip,   \* the processor; esp is <<owner, index>>
  current_thread,
  thread_esp,      \* member esp of each thread
  called,          \* auxiliary: what each thread had when it called the switch
  left,            \* auxiliary: esp when the processor left the thread's stack
  torn             \* auxiliary: an interrupt hit the switch where it must not

registers == <<esp, eax, rest, IF_flag, eip>>
auxiliary == <<called, left, torn>>
switchVars == <<timer, stack, registers, current_thread, thread_esp, auxiliary>>

------------------------------------------------------------------------------
(* Stacks.                                                                  *)

Above(p, n) == <<p[1], p[2] + n>>
Below(p, n) == <<p[1], p[2] - n>>
At(p) == stack[p[1]][p[2]]
OnStack(p) == p[1] \in Owner /\ p[2] \in 0 .. (StackSize - 1)

\* ws pushed one after the other below p.
Pushed(s, p, ws) ==
  [s EXCEPT ![p[1]] =
     [k \in DOMAIN @ |-> IF k \in (p[2] - Len(ws)) .. (p[2] - 1) THEN ws[p[2] - k] ELSE @[k]]]

\* Nothing but line 86 reads a word below the stack pointer, and it reads what
\* line 80 wrote.  So the words below p are forgotten when iret sets esp to p.
Forgotten(s, p) ==
  [s EXCEPT ![p[1]] = [k \in DOMAIN @ |-> IF k < p[2] THEN Zero ELSE @[k]]]

------------------------------------------------------------------------------
(* Thread::setup_context: the stack of a new thread looks like that of one  *)
(* that was switched out, about to return to thread_start and from there to *)
(* its function.                                                            *)

InitialWords(b) ==
  <<Zero, <<"code", "thread_shutdown">>, <<"code", "fun">>,
    <<"flags", b>>, KERNEL_CS, <<"code", "thread_start">>, Zero, Zero,
    Zero, Zero, KERNEL_DS>>

ZeroStacks == [o \in Owner |-> [k \in 0 .. (StackSize - 1) |-> Zero]]

SwitchInit ==
  /\ timer \in Timers
  /\ \E b \in StartIF :
       stack = [o \in Owner |->
         IF o = Main THEN ZeroStacks[o] ELSE Pushed(ZeroStacks, <<o, StackSize>>, InitialWords(b))[o]]
  /\ esp = <<Main, StackSize>> /\ eax = Zero /\ rest = Zero /\ IF_flag = TRUE
  /\ eip = "main"
  /\ current_thread = NULL
  /\ thread_esp = [t \in Thread |-> <<t, StackSize - 11>>]
  /\ called = [t \in Thread |-> [n |-> 0, esp |-> <<t, StackSize>>, flag |-> TRUE]]
  /\ left = thread_esp
  /\ torn = FALSE

------------------------------------------------------------------------------
(* Instructions.  A step that would use a word of the wrong kind, or memory *)
(* that is no stack, is not modelled: no step is possible.                  *)

unchanged_memory == UNCHANGED <<timer, stack, current_thread, thread_esp, auxiliary>>

Push(w, l) ==
  /\ OnStack(Below(esp, 1))
  /\ stack' = Pushed(stack, esp, <<w>>)
  /\ esp' = Below(esp, 1)
  /\ eip' = l
  /\ UNCHANGED <<timer, eax, rest, IF_flag, current_thread, thread_esp, auxiliary>>

LoadEax(w, l) == eax' = w /\ eip' = l /\ UNCHANGED <<esp, rest, IF_flag>> /\ unchanged_memory

SetEsp(p, l) == esp' = p /\ eip' = l /\ UNCHANGED <<eax, rest, IF_flag>> /\ unchanged_memory

\* The words of a frame, and what restore_registers and iret make of the one
\* at p.
Frame(l) == <<<<"flags", IF_flag>>, KERNEL_CS, <<"code", l>>, Zero, Zero, eax, rest, KERNEL_DS>>

restore_registers(p) ==
  /\ OnStack(Above(p, 2))
  /\ rest' = At(Above(p, 1)) /\ eax' = At(Above(p, 2))

iret(p) ==
  /\ OnStack(Above(p, 2))
  /\ At(p)[1] = "code" /\ At(p)[2] \in Code
  /\ At(Above(p, 1)) = KERNEL_CS
  /\ At(Above(p, 2))[1] = "flags"
  /\ eip' = At(p)[2] /\ IF_flag' = At(Above(p, 2))[2] /\ esp' = Above(p, 3)
  /\ stack' = Forgotten(stack, Above(p, 3))
  /\ UNCHANGED <<timer, current_thread, thread_esp, auxiliary>>

------------------------------------------------------------------------------
(* threads_low_switch_to.                                                   *)

Compare ==
  eip = "64" /\ SetEsp(esp, IF current_thread = NULL THEN "122" ELSE "80")

SaveEax           == eip = "80" /\ Push(eax, "81")
GetReturnAddress  == eip = "81" /\ OnStack(Above(esp, 1)) /\ LoadEax(At(Above(esp, 1)), "83")

MoveReturnAddress ==
  /\ eip = "83"
  /\ OnStack(Below(esp, 1))
  /\ stack' = Pushed(stack, esp, <<eax>>)
  /\ eip' = "84"
  /\ UNCHANGED <<timer, esp, eax, rest, IF_flag, current_thread, thread_esp, auxiliary>>

MoveUp            == eip = "84" /\ SetEsp(Above(esp, 2), "85")
PushFlags         == eip = "85" /\ Push(<<"flags", IF_flag>>, "86")

\* Mutant of RestoreEax: the instruction is left out.
SkipRestoreEax    == eip = "86" /\ LoadEax(eax, "87")

RestoreEax        == eip = "86" /\ OnStack(Below(esp, 1)) /\ LoadEax(At(Below(esp, 1)), "87")
PushCS            == eip = "87" /\ Push(KERNEL_CS, "88")
PointAtReturn     == eip = "88" /\ SetEsp(Below(esp, 1), "91")
PushErrorCode     == eip = "91" /\ Push(Zero, "92")
PushInterruptNo   == eip = "92" /\ Push(Zero, "95")

SaveRegisters ==
  /\ eip = "95"
  /\ OnStack(Below(esp, 3))
  /\ stack' = Pushed(stack, esp, <<eax, rest, KERNEL_DS>>)
  /\ esp' = Below(esp, 3)
  /\ eip' = "98"
  /\ UNCHANGED <<timer, eax, rest, IF_flag, current_thread, thread_esp, auxiliary>>

GetCurrent        == eip = "98" /\ LoadEax(<<"thread", current_thread>>, "99")

\* Mutant of SaveEsp: the wrong register is stored.
SaveWrongRegister ==
  /\ eip = "99"
  /\ thread_esp' = [thread_esp EXCEPT ![eax[2]] = eax]
  /\ eip' = "104"
  /\ UNCHANGED <<timer, stack, esp, eax, rest, IF_flag, current_thread, auxiliary>>

SaveEsp ==
  /\ eip = "99"
  /\ thread_esp' = [thread_esp EXCEPT ![eax[2]] = esp]
  /\ eip' = "104"
  /\ UNCHANGED <<timer, stack, esp, eax, rest, IF_flag, current_thread, auxiliary>>

GetParameter ==
  \/ eip = "104" /\ OnStack(Above(esp, 8)) /\ LoadEax(At(Above(esp, 8)), "107")
  \/ eip = "122" /\ OnStack(Above(esp, 1)) /\ LoadEax(At(Above(esp, 1)), "125")

SetCurrent ==
  /\ eip \in {"107", "125"}
  /\ eax[1] = "thread"
  /\ current_thread' = eax[2]
  /\ eip' = IF eip = "107" THEN "108" ELSE "126"
  /\ UNCHANGED <<timer, stack, esp, eax, rest, IF_flag, thread_esp, auxiliary>>

LoadEsp ==
  /\ eip \in {"108", "126"}
  /\ esp' = thread_esp[eax[2]]
  /\ left' = IF esp[1] = Main THEN left ELSE [left EXCEPT ![esp[1]] = esp]
  /\ eip' = "112"
  /\ UNCHANGED <<timer, stack, eax, rest, IF_flag, current_thread, thread_esp, called, torn>>

\* Lines 112 and 130, 116 and 134.
RestoreRegisters ==
  /\ eip = "112"
  /\ restore_registers(esp)
  /\ esp' = Above(esp, 5)
  /\ eip' = "116"
  /\ UNCHANGED IF_flag /\ unchanged_memory

Iret == eip = "116" /\ iret(esp) /\ UNCHANGED <<eax, rest>>

SwitchTo ==
  \/ Compare \/ SaveEax \/ GetReturnAddress \/ MoveReturnAddress \/ MoveUp \/ PushFlags
  \/ RestoreEax \/ PushCS \/ PointAtReturn \/ PushErrorCode \/ PushInterruptNo
  \/ SaveRegisters \/ GetCurrent \/ SaveEsp \/ GetParameter \/ SetCurrent \/ LoadEsp
  \/ RestoreRegisters \/ Iret

------------------------------------------------------------------------------
(* Its callers: dispatch_to(to), from main(), from a thread's function, and *)
(* from the interrupt handler.  The scheduler's choice is left open.        *)

Call(to, l) ==
  /\ OnStack(Below(esp, 2))
  /\ stack' = Pushed(stack, esp, <<<<"thread", to>>, <<"code", l>>>>)
  /\ esp' = Below(esp, 2)
  /\ eip' = "64"
  /\ UNCHANGED <<timer, IF_flag, current_thread, thread_esp, left>>

KickOff(to) == eip = "main" /\ Call(to, "main") /\ UNCHANGED <<eax, rest, called, torn>>

\* thread_start does nothing but return.
ThreadStart ==
  eip = "thread_start" /\ At(esp) = <<"code", "fun">> /\ SetEsp(Above(esp, 1), "fun")

\* The function calls with new register contents.
Dispatch(to) ==
  LET t == esp[1]
      n == 1 - called[t].n
  IN  /\ eip = "fun"
      /\ Call(to, "back")
      /\ eax' = <<"register", t, n>> /\ rest' = <<"register", t, n>>
      /\ called' = [called EXCEPT ![t] = [n |-> n, esp |-> esp, flag |-> IF_flag]]
      /\ UNCHANGED torn

Back == eip = "back" /\ SetEsp(Above(esp, 1), "fun")

------------------------------------------------------------------------------
(* The timer interrupt.  The gate clears IF (0x8E), so the handler runs to  *)
(* its end, or until it switches.                                           *)

\* Between these two the return address lies below the stack pointer.
BelowEsp == {"84", "85", "86", "87", "88"}

Interrupt ==
  /\ IF_flag
  /\ OnStack(Below(esp, 8))
  /\ stack' = Pushed(stack, esp, Frame(eip))
  /\ esp' = Below(esp, 8)
  /\ IF_flag' = FALSE
  /\ eip' = "handler"
  /\ torn' = (torn \/ eip \in BelowEsp)
  /\ UNCHANGED <<timer, eax, rest, current_thread, thread_esp, called, left>>

\* The end of irq_common_stub.
HandlerReturn ==
  /\ eip \in {"handler", "handler_back"}
  /\ LET p == IF eip = "handler" THEN esp ELSE Above(esp, 1)
     IN  restore_registers(p) /\ iret(Above(p, 5))

\* A switch by the handler changes esp in a thread object that the interrupted
\* switch has saved it to, or has not read it from.
EspInUse == {"104", "107", "108", "126"}

\* EOQTimer::handle_interrupt at the end of a quantum: resume and yield.
Preempt(to) ==
  /\ eip = "handler"
  /\ timer = "eoq"
  /\ current_thread # NULL
  /\ Call(to, "handler_back")
  /\ torn' = (torn \/ At(Above(esp, 5))[2] \in EspInUse)
  /\ UNCHANGED <<eax, rest, called>>

\* A switch that has been hit goes on with a wrong word or a stale stack; where
\* that leads is not modelled.
SwitchNext ==
  /\ ~torn
  /\ \/ SwitchTo \/ ThreadStart \/ Back \/ Interrupt \/ HandlerReturn
     \/ \E to \in Thread : KickOff(to) \/ Dispatch(to) \/ Preempt(to)

SwitchSpec == SwitchInit /\ [][SwitchNext]_switchVars

------------------------------------------------------------------------------

SwitchTypeOK ==
  /\ timer \in Timers
  /\ stack \in [Owner -> [0 .. (StackSize - 1) -> Word]]
  /\ esp \in Owner \X Depth
  /\ eax \in Word /\ rest \in Word
  /\ IF_flag \in BOOLEAN
  /\ eip \in Code
  /\ current_thread \in Thread \cup {NULL}
  /\ thread_esp \in [Thread -> Owner \X Depth]
  /\ called \in [Thread -> [n : {0, 1}, esp : Owner \X Depth, flag : BOOLEAN]]
  /\ left \in [Thread -> Owner \X Depth]
  /\ torn \in BOOLEAN

(***************************************************************************)
(* threads_low.asm:67-99, 107-108.  Whatever switches lie in between, and  *)
(* wherever the timer interrupts them, a thread is loaded with the stack   *)
(* pointer with which it was left, iret finds a return address, and the    *)
(* thread's call of dispatch_to returns with its registers, its interrupt  *)
(* flag and its stack pointer - unless an interrupt has come while the     *)
(* return address lay below the stack pointer, or has preempted a thread   *)
(* between the saving of its stack pointer and the loading of the next     *)
(* one.                                                                    *)
(***************************************************************************)
ResumesWhole ==
  ~torn =>
    /\ eip \in {"108", "126"} =>
         thread_esp[current_thread] =
           IF esp[1] = current_thread THEN esp ELSE left[current_thread]
    /\ eip = "116" => At(esp)[1] = "code"
    /\ eip = "back" =>
         LET t == current_thread
         IN  /\ eax = <<"register", t, called[t].n>> /\ rest = eax
             /\ IF_flag = called[t].flag
             /\ Above(esp, 1) = called[t].esp
==============================================================================
