-------------------------- MODULE RRSchedulerProofs --------------------------
(***************************************************************************)
(* The round-robin scheduler, for any threads, any quantum and any number  *)
(* of list nodes: the quantum handler never nests, also when the list is   *)
(* damaged; the list is whole until a quantum ends in the midst of a read  *)
(* and write of the pool's pointer or of the list, and until then the      *)
(* threads take turns as RoundRobin wants them to.                         *)
(***************************************************************************)
EXTENDS RRScheduler, FiniteSetTheorems, SequenceTheorems, WellFoundedInduction, TLAPS

(***************************************************************************)
(* The inductive invariant.  Only the current thread is at a statement it  *)
(* can execute; every other one is where a context switch left it.  And    *)
(* the local variables of add and yield hold nodes where they are used, so *)
(* that a switch never goes to nobody - which is all that typing needs of  *)
(* the list.                                                               *)
(***************************************************************************)
OneRuns ==
  /\ pc[current_thread] \in Preemptible \cup {"handler"}
  /\ \A t \in Thread \ {current_thread} : pc[t] \in {"new", "away", "preempted"}

Added == {"load", "move", "fill", "last", "link", "set_tail"}
Taken == {"peek", "store", "dispatch"}

LocalsSet ==
  ~fault => \A t \in Thread :
              /\ Place(t) \in Added => local[t].new \in Node
              /\ Place(t) \in Taken => local[t].node \in Node

IInv == TypeOK /\ OneRuns /\ LocalsSet /\ OneInHandler

LEMMA NodeFacts ==
  /\ NULL \notin Node
  /\ Thread # {}
  /\ Start[1] \in Thread
  /\ 1 \in Node /\ Len(Start) - 1 \in Node
  /\ \A n \in Node : n < Len(Start) => Start[n + 1] \in Thread
  /\ \A n \in Node : n < Len(Start) - 1 => n + 1 \in Node
  /\ Len(Start) \in Node
<1>1. Len(Start) \in Nat /\ Len(Start) > 1 /\ Len(Start) <= MaxNode /\ MaxNode \in Nat
  BY RRAssumption
<1>2. \A k \in 1 .. Len(Start) : Start[k] \in Thread
  BY RRAssumption
<1>3. Start[1] \in Thread
  BY <1>1, <1>2
<1>4. QED
  BY <1>1, <1>2, <1>3 DEF Node, NULL

------------------------------------------------------------------------------
(* The pool.                                                                *)

LEMMA FreshIsNode ==
  ASSUME Unused # {}
  PROVE  Fresh \in Node /\ Fresh \in Unused
BY DEF Fresh, Unused

LEMMA BehindIsAddress ==
  ASSUME NEW a \in Seq(Node), Room(a)
  PROVE  Behind(a) \in Seq(Node) \ {<<>>}
<1>1. CASE Len(a) > 1
  BY <1>1 DEF Behind
<1>2. CASE ~(Len(a) > 1)
  BY <1>2, FreshIsNode DEF Behind, Room
<1>3. QED
  BY <1>1, <1>2

\* What a thread sees of the pool is all that changes.
LEMMA SeenFacts ==
  ASSUME NEW l \in [Thread -> Local], NEW a \in Seq(Node), Room(a), NEW t \in Thread
  PROVE  /\ Seen(l, a)[t] \in Local
         /\ Seen(l, a)[t].new = l[t].new
         /\ Seen(l, a)[t].last = l[t].last
         /\ Seen(l, a)[t].node = l[t].node
         /\ Seen(l, a)[t].rest = l[t].rest
         /\ l[t].pool = <<>> => Seen(l, a)[t].pool = <<>>
<1>1. l[t] \in Local
  OBVIOUS
<1>2. CASE Len(a) = 1 /\ l[t].pool # <<>>
  <2>1. Seen(l, a)[t] = [l[t] EXCEPT !.pool = Append(l[t].pool, Fresh)]
    BY <1>2 DEF Seen
  <2>2. Append(l[t].pool, Fresh) \in Seq(Node)
    BY <1>1, <1>2, FreshIsNode DEF Room, Local
  <2>3. QED
    BY <1>1, <1>2, <2>1, <2>2 DEF Local
<1>3. CASE ~(Len(a) = 1 /\ l[t].pool # <<>>)
  BY <1>1, <1>3 DEF Seen
<1>4. QED
  BY <1>2, <1>3

LEMMA SeenIsFunction ==
  ASSUME NEW l \in [Thread -> Local], NEW a \in Seq(Node), Room(a)
  PROVE  Seen(l, a) \in [Thread -> Local]
<1>1. \A t \in Thread : Seen(l, a)[t] \in Local
  BY SeenFacts
<1>2. Seen(l, a) = [t \in Thread |-> Seen(l, a)[t]]
  BY DEF Seen
<1>3. QED
  BY <1>1, <1>2

LEMMA WipedFacts ==
  ASSUME TypeOK
  PROVE  /\ Wiped(thread, Start[1]) \in [Node -> Thread]
         /\ Wiped(next, NULL) \in [Node -> Node \cup {NULL}]
         /\ \A n \in Node \ Unused : /\ Wiped(thread, Start[1])[n] = thread[n]
                                   /\ Wiped(next, NULL)[n] = next[n]
BY NodeFacts DEF Wiped, TypeOK

------------------------------------------------------------------------------
(* A context switch.                                                        *)

LEMMA LoadedPlaces ==
  /\ LoadedAt("new") = "burst"
  /\ LoadedAt("preempted") = "handler"
  /\ LoadedAt("away") = "back"
BY DEF LoadedAt

\* A switch from t, saved as away or preempted, leaves one thread that runs;
\* every other thread u but t is in the timer interrupt when it was before.
LEMMA Switched ==
  ASSUME TypeOK, OneRuns, NEW t \in Thread, t = current_thread,
         NEW to \in Thread, NEW saved \in {"away", "preempted"},
         SwitchTo(t, to, saved)
  PROVE  /\ current_thread' = to
         /\ pc' \in [Thread -> PC]
         /\ OneRuns'
         /\ \A u \in Thread \ {t} :
              /\ pc'[u] \in {"preempted", "handler"} <=> pc[u] \in {"preempted", "handler"}
              /\ pc'[u] = pc[u] \/ pc'[u] \in {"burst", "back", "handler"}
              /\ pc'[u] = pc[u] \/ pc[u] \in {"new", "away", "preempted"}
         /\ pc'[t] \in {"preempted", "handler"} <=> saved = "preempted"
         /\ pc'[t] \in {saved, "back", "handler"}
<1> DEFINE out == [pc EXCEPT ![t] = saved]
<1>1. /\ current_thread' = to
      /\ pc' = [out EXCEPT ![to] = LoadedAt(out[to])]
  BY DEF SwitchTo
<1>2. pc \in [Thread -> PC]
  BY DEF TypeOK
<1>3. /\ out \in [Thread -> PC] /\ out[t] = saved
      /\ \A u \in Thread \ {t} : out[u] = pc[u] /\ out[u] \in {"new", "away", "preempted"}
  BY <1>2 DEF OneRuns, PC
<1>4. LoadedAt(out[to]) \in {"burst", "back", "handler"}
  BY <1>3, LoadedPlaces
<1>5. /\ out[to] = "preempted" <=> LoadedAt(out[to]) = "handler"
      /\ to = t => LoadedAt(out[to]) \in {"back", "handler"}
  BY <1>3, LoadedPlaces
<1> HIDE DEF out
<1>6. /\ pc' \in [Thread -> PC]
      /\ pc'[to] = LoadedAt(out[to])
      /\ \A u \in Thread \ {to} : pc'[u] = out[u]
  BY <1>1, <1>3, <1>4 DEF PC, Preemptible
<1>7. OneRuns'
  BY <1>1, <1>3, <1>4, <1>6 DEF OneRuns, Preemptible
<1>8. \A u \in Thread \ {t} :
        /\ pc'[u] \in {"preempted", "handler"} <=> pc[u] \in {"preempted", "handler"}
        /\ pc'[u] = pc[u] \/ pc'[u] \in {"burst", "back", "handler"}
        /\ pc'[u] = pc[u] \/ pc[u] \in {"new", "away", "preempted"}
  BY <1>3, <1>4, <1>5, <1>6
<1>9. /\ pc'[t] \in {"preempted", "handler"} <=> saved = "preempted"
      /\ pc'[t] \in {saved, "back", "handler"}
  BY <1>3, <1>4, <1>5, <1>6
<1>10. QED
  BY <1>1, <1>6, <1>7, <1>8, <1>9

------------------------------------------------------------------------------
(* The steps.                                                               *)

LEMMA InitInv ==
  ASSUME Init
  PROVE  IInv
<1>1. TypeOK
  <2>1. head \in Node /\ tail \in Node /\ current_thread \in Thread
    BY NodeFacts DEF Init
  <2>2. thread \in [Node -> Thread]
    BY NodeFacts DEF Init
  <2>3. next \in [Node -> Node \cup {NULL}] /\ start_address \in Seq(Node) \ {<<>>}
    <3>1. next \in [Node -> Node \cup {NULL}]
      BY NodeFacts DEF Init
    <3>2. start_address \in Seq(Node) \ {<<>>}
      BY NodeFacts DEF Init
    <3>3. QED
      BY <3>1, <3>2
  <2>4. ticks \in 0 .. (Quantum - 1)
    BY RRAssumption DEF Init
  <2>5. NoLocals \in Local
    BY DEF NoLocals, Local
  <2>6. local \in [Thread -> Local]
    BY <2>5 DEF Init
  <2>7. pc \in [Thread -> PC] /\ interrupted \in [Thread -> Preemptible]
    BY DEF Init, PC, Preemptible
  <2>8. /\ rr_yield_flag \in BOOLEAN /\ in_service \in BOOLEAN /\ fault \in BOOLEAN
        /\ returned \subseteq Terminating /\ torn \in 0 .. MaxTorn
    <3>1. MaxTorn \in Nat
      BY RRAssumption
    <3>2. torn \in 0 .. MaxTorn
      BY <3>1 DEF Init
    <3>3. QED
      BY <3>2, Zenon DEF Init
  <2>9. QED
    BY <2>1, <2>2, <2>3, <2>4, <2>6, <2>7, <2>8 DEF TypeOK
<1>2. OneRuns
  BY NodeFacts DEF Init, OneRuns, Preemptible
<1>3. LocalsSet
  BY DEF Init, LocalsSet, Place, Added, Taken
<1>4. OneInHandler
  BY DEF Init, OneInHandler, Inside
<1>5. QED
  BY <1>1, <1>2, <1>3, <1>4 DEF IInv

\* Statements that move the current thread from one place to another and
\* neither switch threads nor touch the timer.
LEMMA MoveKeepsOthers ==
  ASSUME IInv, NEW t \in Thread, NEW l \in Preemptible,
         current_thread = t, pc[t] \in Preemptible,
         Goto(t, l), UNCHANGED <<current_thread, in_service, interrupted>>,
         fault' \in BOOLEAN, fault => fault'
  PROVE  /\ pc' \in [Thread -> PC] /\ OneRuns' /\ OneInHandler'
         /\ Place(t)' = l
         /\ \A u \in Thread \ {t} : Place(u)' = Place(u)
<1>1. pc \in [Thread -> PC]
  BY DEF IInv, TypeOK
<1>2. pc' = [pc EXCEPT ![t] = l]
  BY DEF Goto
<1>3. /\ pc' \in [Thread -> PC] /\ pc'[t] = l
      /\ \A u \in Thread \ {t} : pc'[u] = pc[u]
  BY <1>1, <1>2 DEF PC
<1>4. OneRuns'
  BY <1>3 DEF IInv, OneRuns
<1>5. Inside' = Inside
  BY <1>3 DEF Inside, Preemptible
<1>6. OneInHandler'
  BY <1>5 DEF IInv, OneInHandler
<1>7. Place(t)' = l
  BY <1>3 DEF Place, Preemptible
<1>8. \A u \in Thread \ {t} : Place(u)' = Place(u)
  BY <1>3 DEF Place
<1>9. QED
  BY <1>3, <1>4, <1>6, <1>7, <1>8

\* When only t moves and only t's locals change.
LEMMA LocalsStay ==
  ASSUME IInv, NEW t \in Thread,
         \A u \in Thread \ {t} : /\ Place(u)' = Place(u)
                                /\ local'[u].new = local[u].new /\ local'[u].node = local[u].node,
         fault => fault',
         ~fault' /\ Place(t)' \in Added => local'[t].new \in Node,
         ~fault' /\ Place(t)' \in Taken => local'[t].node \in Node
  PROVE  LocalsSet'
BY DEF IInv, LocalsSet

LEMMA ExecuteKeepsInv ==
  ASSUME IInv, NEW t \in Thread, Execute(t)
  PROVE  IInv'
<1>0. /\ pc \in [Thread -> PC] /\ local \in [Thread -> Local]
      /\ head \in Node \cup {NULL} /\ tail \in Node
      /\ thread \in [Node -> Thread] /\ next \in [Node -> Node \cup {NULL}]
  BY DEF IInv, TypeOK
<1>1. CASE PassOn(t)
  <2>1. local' \in [Thread -> Local] /\ local'[t].new \in Node
        /\ \A u \in Thread \ {t} : local'[u] = local[u]
    <3>1. Head(start_address) \in Node
      BY DEF IInv, TypeOK
    <3>2. QED
      BY <1>0, <1>1, <3>1 DEF PassOn, Local
  <2>2. /\ pc' \in [Thread -> PC] /\ OneRuns' /\ OneInHandler' /\ Place(t)' = "load"
        /\ \A u \in Thread \ {t} : Place(u)' = Place(u)
    BY <1>1, MoveKeepsOthers DEF PassOn, Runs, Preemptible, timerVars, IInv, TypeOK
  <2>3. LocalsSet'
    BY <1>1, <2>1, <2>2, LocalsStay DEF PassOn, Runs, Taken
  <2>4. torn' \in 0 .. MaxTorn
    <3>1. MaxTorn \in Nat /\ torn \in 0 .. MaxTorn
      BY RRAssumption DEF IInv, TypeOK
    <3>2. (torn = 0 \/ torn < MaxTorn) /\ torn' = IF torn = 0 THEN 0 ELSE torn + 1
      BY <1>1 DEF PassOn
    <3>3. QED
      BY <3>1, <3>2
  <2>5. TypeOK'
    BY <1>1, <2>1, <2>2, <2>4 DEF PassOn, listVars, timerVars, IInv, TypeOK
  <2>6. QED
    BY <2>2, <2>3, <2>5 DEF IInv
<1>2. CASE LoadAddress(t)
  <2>1. local' \in [Thread -> Local] /\ local'[t].new = local[t].new
        /\ \A u \in Thread \ {t} : local'[u] = local[u]
    <3>1. start_address \in Seq(Node)
      BY DEF IInv, TypeOK
    <3>2. QED
      BY <1>0, <1>2, <3>1 DEF LoadAddress, Local
  <2>2. /\ pc' \in [Thread -> PC] /\ OneRuns' /\ OneInHandler' /\ Place(t)' = "move"
        /\ \A u \in Thread \ {t} : Place(u)' = Place(u)
    BY <1>2, MoveKeepsOthers DEF LoadAddress, Runs, Preemptible, timerVars, history, IInv, TypeOK
  <2>3. LocalsSet'
    BY <1>2, <2>1, <2>2, LocalsStay DEF LoadAddress, Runs, history, Place, Added, Taken, IInv, LocalsSet
  <2>4. TypeOK'
    BY <1>2, <2>1, <2>2 DEF LoadAddress, listVars, timerVars, history, IInv, TypeOK
  <2>5. QED
    BY <2>2, <2>3, <2>4 DEF IInv
<1>3. CASE MoveAddress(t)
  <2> DEFINE a == local[t].pool
             cleared == [local EXCEPT ![t].pool = <<>>]
  <2>1. a \in Seq(Node) /\ cleared \in [Thread -> Local]
        /\ \A u \in Thread : cleared[u].new = local[u].new /\ cleared[u].node = local[u].node
    <3>1. cleared = [local EXCEPT ![t] = [local[t] EXCEPT !.pool = <<>>]] /\ local[t] \in Local
      BY <1>0
    <3>2. [local[t] EXCEPT !.pool = <<>>] \in Local
      BY <3>1, EmptySeq DEF Local
    <3>3. [local[t] EXCEPT !.pool = <<>>].new = local[t].new
          /\ [local[t] EXCEPT !.pool = <<>>].node = local[t].node
      BY <3>1 DEF Local
    <3>4. a \in Seq(Node)
      BY <3>1 DEF Local
    <3> HIDE DEF a, cleared
    <3>5. QED
      BY <1>0, <3>1, <3>2, <3>3, <3>4
  <2>2. Room(a) /\ start_address' = Behind(a) /\ local' = Seen(cleared, a)
    BY <1>3 DEF MoveAddress
  <2> HIDE DEF a, cleared
  <2>3. /\ local' \in [Thread -> Local]
        /\ \A u \in Thread : local'[u].new = local[u].new /\ local'[u].node = local[u].node
    <3>1. a \in Seq(Node) /\ cleared \in [Thread -> Local] /\ Room(a)
      BY <2>1, <2>2
    <3>2. Seen(cleared, a) \in [Thread -> Local]
      BY <3>1, SeenIsFunction
    <3>3. \A u \in Thread : /\ Seen(cleared, a)[u].new = cleared[u].new
                            /\ Seen(cleared, a)[u].node = cleared[u].node
      BY <3>1, SeenFacts, Zenon
    <3>4. QED
      BY <2>1, <2>2, <3>2, <3>3
  <2>4. start_address' \in Seq(Node) \ {<<>>}
    BY <2>1, <2>2, BehindIsAddress
  <2>5. thread' \in [Node -> Thread] /\ next' \in [Node -> Node \cup {NULL}]
    BY <1>3, WipedFacts DEF MoveAddress, IInv
  <2>6. /\ pc' \in [Thread -> PC] /\ OneRuns' /\ OneInHandler' /\ Place(t)' = "fill"
        /\ \A u \in Thread \ {t} : Place(u)' = Place(u)
    BY <1>3, MoveKeepsOthers DEF MoveAddress, Runs, Preemptible, timerVars, history, IInv, TypeOK
  <2>7. Place(t) = "move"
    BY <1>3 DEF MoveAddress, Runs, Place
  <2>8. LocalsSet'
    <3>1. local[t].new \in Node /\ ~fault /\ ~fault'
      BY <1>3, <2>7 DEF MoveAddress, Runs, history, IInv, LocalsSet, Added
    <3>2. Place(t)' \notin Taken
      BY <2>6 DEF Taken
    <3>3. QED
      BY <2>3, <2>6, <3>1, <3>2, LocalsStay
  <2>9. TypeOK'
    BY <1>3, <2>3, <2>4, <2>5, <2>6 DEF MoveAddress, timerVars, history, IInv, TypeOK
  <2>10. QED
    BY <2>6, <2>8, <2>9 DEF IInv
<1>4. CASE Fill(t)
  <2>1. thread' \in [Node -> Thread] /\ next' \in [Node -> Node \cup {NULL}]
    BY <1>0, <1>4 DEF Fill
  <2>2. /\ pc' \in [Thread -> PC] /\ OneRuns' /\ OneInHandler' /\ Place(t)' = "last"
        /\ \A u \in Thread \ {t} : Place(u)' = Place(u)
    BY <1>4, MoveKeepsOthers DEF Fill, Runs, Preemptible, timerVars, history, IInv, TypeOK
  <2>3. LocalsSet'
    BY <1>0, <1>4, <2>2, LocalsStay DEF Fill, Runs, history, Place, Added, Taken, IInv, LocalsSet
  <2>4. TypeOK'
    BY <1>4, <2>1, <2>2 DEF Fill, listVars, timerVars, history, IInv, TypeOK
  <2>5. QED
    BY <2>2, <2>3, <2>4 DEF IInv
<1>5. CASE ReadTail(t)
  <2>1. local' \in [Thread -> Local]
    BY <1>0, <1>5 DEF ReadTail, Local
  <2>2. /\ pc' \in [Thread -> PC] /\ OneRuns' /\ OneInHandler' /\ Place(t)' = "link"
        /\ \A u \in Thread \ {t} : Place(u)' = Place(u)
    BY <1>5, MoveKeepsOthers DEF ReadTail, Runs, Preemptible, timerVars, history, IInv, TypeOK
  <2>3. LocalsSet'
    BY <1>0, <1>5, <2>2, LocalsStay DEF ReadTail, Runs, history, Place, Added, Taken, IInv, LocalsSet
  <2>4. TypeOK'
    BY <1>5, <2>1, <2>2 DEF ReadTail, listVars, timerVars, history, IInv, TypeOK
  <2>5. QED
    BY <2>2, <2>3, <2>4 DEF IInv
<1>6. CASE Link(t)
  <2>1. next' \in [Node -> Node \cup {NULL}] /\ local' \in [Thread -> Local]
    BY <1>0, <1>6 DEF Link, Local
  <2>2. /\ pc' \in [Thread -> PC] /\ OneRuns' /\ OneInHandler' /\ Place(t)' = "set_tail"
        /\ \A u \in Thread \ {t} : Place(u)' = Place(u)
    BY <1>6, MoveKeepsOthers DEF Link, Runs, Preemptible, timerVars, history, IInv, TypeOK
  <2>3. LocalsSet'
    BY <1>0, <1>6, <2>2, LocalsStay DEF Link, Runs, history, Place, Added, Taken, IInv, LocalsSet
  <2>4. TypeOK'
    BY <1>6, <2>1, <2>2 DEF Link, listVars, timerVars, history, IInv, TypeOK
  <2>5. QED
    BY <2>2, <2>3, <2>4 DEF IInv
<1>7. CASE SetTail(t)
  <2>1. tail' \in Node /\ local' \in [Thread -> Local]
    BY <1>0, <1>7 DEF SetTail, Local, Runs, Place, Added, IInv, LocalsSet
  <2>2. /\ pc' \in [Thread -> PC] /\ OneRuns' /\ OneInHandler' /\ Place(t)' = "yield"
        /\ \A u \in Thread \ {t} : Place(u)' = Place(u)
    BY <1>7, MoveKeepsOthers DEF SetTail, Runs, Preemptible, timerVars, history, IInv, TypeOK
  <2>3. LocalsSet'
    BY <1>0, <1>7, <2>2, LocalsStay DEF SetTail, Runs, history, Place, Added, Taken, IInv, LocalsSet
  <2>4. TypeOK'
    BY <1>7, <2>1, <2>2 DEF SetTail, listVars, timerVars, history, IInv, TypeOK
  <2>5. QED
    BY <2>2, <2>3, <2>4 DEF IInv
<1>8. CASE Finish(t)
  <2>1. returned' \subseteq Terminating
    BY <1>8 DEF Finish, IInv, TypeOK
  <2>2. /\ pc' \in [Thread -> PC] /\ OneRuns' /\ OneInHandler' /\ Place(t)' = "yield"
        /\ \A u \in Thread \ {t} : Place(u)' = Place(u)
    BY <1>8, MoveKeepsOthers DEF Finish, Runs, Preemptible, timerVars, history, IInv, TypeOK
  <2>3. LocalsSet'
    BY <1>0, <1>8, <2>2, LocalsStay DEF Finish, Runs, history, Place, Added, Taken, IInv, LocalsSet
  <2>4. TypeOK'
    BY <1>8, <2>1, <2>2 DEF Finish, listVars, timerVars, history, IInv, TypeOK
  <2>5. QED
    BY <2>2, <2>3, <2>4 DEF IInv
<1>9. CASE CheckFlag(t)
  <2>1. ticks' \in 0 .. (Quantum - 1)
    BY <1>9, RRAssumption DEF CheckFlag, IInv, TypeOK
  <2>2. /\ pc' \in [Thread -> PC] /\ OneRuns' /\ OneInHandler' /\ Place(t)' = "take"
        /\ \A u \in Thread \ {t} : Place(u)' = Place(u)
    BY <1>9, MoveKeepsOthers DEF CheckFlag, Runs, Preemptible, timerVars, history, IInv, TypeOK
  <2>3. LocalsSet'
    BY <1>0, <1>9, <2>2, LocalsStay DEF CheckFlag, Runs, history, Place, Added, Taken, IInv, LocalsSet
  <2>4. TypeOK'
    BY <1>9, <2>1, <2>2 DEF CheckFlag, listVars, timerVars, history, IInv, TypeOK
  <2>5. QED
    BY <2>2, <2>3, <2>4 DEF IInv
<1>10. CASE TakeHead(t)
  <2>1. local' \in [Thread -> Local]
    BY <1>0, <1>10 DEF TakeHead, Local
  <2>2. /\ pc' \in [Thread -> PC] /\ OneRuns' /\ OneInHandler' /\ Place(t)' = "peek"
        /\ \A u \in Thread \ {t} : Place(u)' = Place(u)
    BY <1>10, MoveKeepsOthers DEF TakeHead, Runs, Preemptible, timerVars, history, IInv, TypeOK
  <2>3. LocalsSet'
    <3>1. local'[t] = [local[t] EXCEPT !.node = head] /\ local[t] \in Local
      BY <1>0, <1>10 DEF TakeHead
    <3>2. local'[t].node = head
      BY <3>1 DEF Local
    <3>3. fault' \/ local'[t].node \in Node
      BY <1>0, <1>10, <3>2 DEF TakeHead
    <3>4. \A u \in Thread \ {t} : local'[u] = local[u]
      BY <1>0, <1>10 DEF TakeHead
    <3>5. ~fault
      BY <1>10 DEF TakeHead, Runs
    <3>6. QED
      BY <2>2, <3>3, <3>4, <3>5, LocalsStay DEF Added
  <2>4. TypeOK'
    BY <1>10, <2>1, <2>2 DEF TakeHead, listVars, timerVars, history, IInv, TypeOK
  <2>5. QED
    BY <2>2, <2>3, <2>4 DEF IInv
<1>11. CASE PeekNext(t)
  <2>1. local' \in [Thread -> Local]
    BY <1>0, <1>11 DEF PeekNext, Local
  <2>2. /\ pc' \in [Thread -> PC] /\ OneRuns' /\ OneInHandler' /\ Place(t)' = "store"
        /\ \A u \in Thread \ {t} : Place(u)' = Place(u)
    BY <1>11, MoveKeepsOthers DEF PeekNext, Runs, Preemptible, timerVars, history, IInv, TypeOK
  <2>3. LocalsSet'
    BY <1>0, <1>11, <2>2, LocalsStay DEF PeekNext, Runs, history, Place, Added, Taken, IInv, LocalsSet
  <2>4. TypeOK'
    BY <1>11, <2>1, <2>2 DEF PeekNext, listVars, timerVars, history, IInv, TypeOK
  <2>5. QED
    BY <2>2, <2>3, <2>4 DEF IInv
<1>12. CASE StoreHead(t)
  <2>1. head' \in Node \cup {NULL} /\ local' \in [Thread -> Local]
    BY <1>0, <1>12 DEF StoreHead, Local
  <2>2. /\ pc' \in [Thread -> PC] /\ OneRuns' /\ OneInHandler' /\ Place(t)' = "dispatch"
        /\ \A u \in Thread \ {t} : Place(u)' = Place(u)
    BY <1>12, MoveKeepsOthers DEF StoreHead, Runs, Preemptible, timerVars, history, IInv, TypeOK
  <2>3. LocalsSet'
    BY <1>0, <1>12, <2>2, LocalsStay DEF StoreHead, Runs, history, Place, Added, Taken, IInv, LocalsSet
  <2>4. TypeOK'
    BY <1>12, <2>1, <2>2 DEF StoreHead, listVars, timerVars, history, IInv, TypeOK
  <2>5. QED
    BY <2>2, <2>3, <2>4 DEF IInv
<1>13. CASE Back(t)
  <2>1. local' \in [Thread -> Local]
    BY <1>0, <1>13 DEF Back
  <2>2. /\ pc' \in [Thread -> PC] /\ OneRuns' /\ OneInHandler' /\ Place(t)' = "burst"
        /\ \A u \in Thread \ {t} : Place(u)' = Place(u)
    BY <1>13, MoveKeepsOthers DEF Back, Runs, Preemptible, timerVars, history, IInv, TypeOK
  <2>3. LocalsSet'
    BY <1>0, <1>13, <2>2, LocalsStay DEF Back, Runs, history, Place, Added, Taken, IInv, LocalsSet
  <2>4. TypeOK'
    BY <1>13, <2>1, <2>2 DEF Back, listVars, timerVars, history, IInv, TypeOK
  <2>5. QED
    BY <2>2, <2>3, <2>4 DEF IInv
<1>14. CASE Dispatch(t)
  <2>1. /\ pc[t] = "dispatch" /\ t = current_thread /\ ~fault /\ ~fault'
        /\ local[t].node \in Node
    BY <1>14 DEF Dispatch, Runs, history, Place, Added, Taken, IInv, LocalsSet
  <2>2. thread[local[t].node] \in Thread /\ SwitchTo(t, thread[local[t].node], "away")
    BY <1>0, <1>14, <2>1 DEF Dispatch
  <2>3. /\ current_thread' \in Thread /\ pc' \in [Thread -> PC] /\ OneRuns'
        /\ \A u \in Thread \ {t} :
             /\ pc'[u] \in {"preempted", "handler"} <=> pc[u] \in {"preempted", "handler"}
             /\ pc'[u] = pc[u] \/ pc'[u] \in {"burst", "back", "handler"}
        /\ pc'[t] \notin {"preempted", "handler"}
        /\ pc'[t] \in {"away", "back", "handler"}
    BY <2>1, <2>2, Switched DEF IInv
  <2>4. local' \in [Thread -> Local]
    BY <1>0, <1>14 DEF Dispatch, Local
  <2>5. Inside' = Inside
    BY <2>1, <2>3 DEF Inside
  <2>6. OneInHandler'
    BY <1>14, <2>1, <2>5 DEF Dispatch, timerVars, IInv, OneInHandler
  <2>7. LocalsSet'
    BY <1>0, <1>14, <2>1, <2>3 DEF Dispatch, Place, Added, Taken, IInv, LocalsSet
  <2>8. TypeOK'
    BY <1>14, <2>3, <2>4 DEF Dispatch, listVars, timerVars, history, IInv, TypeOK
  <2>9. QED
    BY <2>3, <2>6, <2>7, <2>8 DEF IInv
<1>15. QED
  BY <1>1, <1>4, <1>5, <1>6, <1>7, <1>8, <1>9, <1>10, <1>11, <1>12, <1>13, <1>14, <1>2, <1>3
  DEF Execute

LEMMA TickKeepsInv ==
  ASSUME IInv, NEW t \in Thread, Tick(t)
  PROVE  IInv'
<1>1. ticks' \in 0 .. (Quantum - 1)
  BY RRAssumption DEF Tick, IInv, TypeOK
<1>2. UNCHANGED <<listVars, current_thread, rr_yield_flag, in_service, pc, interrupted, local, history>>
  BY DEF Tick
<1>3. TypeOK'
  BY <1>1, <1>2 DEF listVars, history, IInv, TypeOK
<1>4. OneRuns' /\ LocalsSet' /\ OneInHandler'
  BY <1>2 DEF history, IInv, OneRuns, LocalsSet, Place, OneInHandler, Inside
<1>5. QED
  BY <1>3, <1>4 DEF IInv

LEMMA PreemptKeepsInv ==
  ASSUME IInv, NEW t \in Thread, Preempt(t)
  PROVE  IInv'
<1> DEFINE n      == Head(start_address)
           linked == [Wiped(next, NULL) EXCEPT ![n] = NULL, ![tail] = n]
           filled == [Wiped(thread, Start[1]) EXCEPT ![n] = t]
<1>1. /\ t = current_thread /\ pc[t] \in Preemptible /\ ~in_service /\ ~fault
      /\ Room(start_address) /\ ticks' = 0 /\ rr_yield_flag' = TRUE
      /\ start_address' = Behind(start_address) /\ local' = Seen(local, start_address)
      /\ thread' = filled /\ next' = linked /\ tail' = n
      /\ torn < MaxTorn
      /\ torn' = IF torn = 0 /\ pc[t] \in Harmless THEN 0 ELSE torn + 1
      /\ interrupted' = [interrupted EXCEPT ![t] = pc[t]]
      /\ in_service' = TRUE
      /\ \/ /\ fault' = TRUE /\ UNCHANGED <<head, current_thread, pc>>
         \/ /\ head # NULL /\ head' = linked[head]
            /\ SwitchTo(t, filled[head], "preempted")
            /\ UNCHANGED fault
      /\ UNCHANGED returned
  BY DEF Preempt, Interruptible
<1>2. n \in Node
  BY DEF IInv, TypeOK
<1> HIDE DEF n
<1>3. /\ thread' \in [Node -> Thread] /\ next' \in [Node -> Node \cup {NULL}]
      /\ tail' \in Node /\ linked \in [Node -> Node \cup {NULL}] /\ filled \in [Node -> Thread]
  <2>1. /\ Wiped(thread, Start[1]) \in [Node -> Thread]
        /\ Wiped(next, NULL) \in [Node -> Node \cup {NULL}]
    BY WipedFacts DEF IInv
  <2>2. linked \in [Node -> Node \cup {NULL}] /\ filled \in [Node -> Thread]
    BY <1>2, <2>1
  <2>3. QED
    BY <1>1, <1>2, <2>2
<1>4. /\ local' \in [Thread -> Local] /\ start_address' \in Seq(Node) \ {<<>>}
      /\ \A u \in Thread : local'[u].new = local[u].new /\ local'[u].node = local[u].node
  <2>1. local \in [Thread -> Local] /\ start_address \in Seq(Node) /\ Room(start_address)
    BY <1>1 DEF IInv, TypeOK
  <2>2. Seen(local, start_address) \in [Thread -> Local]
    BY <2>1, SeenIsFunction
  <2>3. \A u \in Thread : /\ Seen(local, start_address)[u].new = local[u].new
                          /\ Seen(local, start_address)[u].node = local[u].node
    BY <2>1, SeenFacts, Zenon
  <2>4. Behind(start_address) \in Seq(Node) \ {<<>>}
    BY <2>1, BehindIsAddress
  <2>5. QED
    BY <1>1, <2>2, <2>3, <2>4
<1> HIDE DEF linked, filled
<1>5. torn' \in 0 .. MaxTorn /\ ticks' \in 0 .. (Quantum - 1)
  BY <1>1, RRAssumption DEF IInv, TypeOK
<1>6. /\ interrupted' \in [Thread -> Preemptible] /\ interrupted'[t] = pc[t]
      /\ \A u \in Thread \ {t} : interrupted'[u] = interrupted[u]
  BY <1>1 DEF IInv, TypeOK
<1>7. CASE fault' = TRUE /\ UNCHANGED <<head, current_thread, pc>>
  <2>1. TypeOK'
    BY <1>1, <1>3, <1>5, <1>6, <1>7, <1>4 DEF IInv, TypeOK
  <2>2. QED
    BY <1>7, <2>1 DEF IInv, OneRuns, LocalsSet, OneInHandler
<1>8. CASE /\ head # NULL /\ head' = linked[head]
           /\ SwitchTo(t, filled[head], "preempted")
           /\ UNCHANGED fault
  <2>1. head \in Node
    BY <1>8 DEF IInv, TypeOK
  <2>2. filled[head] \in Thread /\ head' \in Node \cup {NULL}
    BY <1>3, <1>8, <2>1
  <2>3. /\ current_thread' \in Thread /\ pc' \in [Thread -> PC] /\ OneRuns'
        /\ \A u \in Thread \ {t} :
             /\ pc'[u] \in {"preempted", "handler"} <=> pc[u] \in {"preempted", "handler"}
             /\ pc'[u] = pc[u] \/ pc'[u] \in {"burst", "back", "handler"}
        /\ pc'[t] \in {"preempted", "handler"}
    BY <1>1, <1>8, <2>2, Switched DEF IInv
  <2>4. Inside = {}
    BY <1>1 DEF IInv, OneInHandler
  <2>5. Inside' = {t}
    BY <2>3, <2>4 DEF Inside
  <2>6. OneInHandler'
    BY <1>1, <2>5 DEF OneInHandler
  <2>7. Place(t)' = pc[t] /\ Place(t) = pc[t]
    BY <1>1, <1>6, <2>3 DEF Place, Preemptible
  <2>8. \A u \in Thread \ {t} :
          Place(u)' = Place(u) \/ Place(u)' \in {"burst", "back"}
    BY <1>6, <2>3 DEF Place
  <2>9. LocalsSet'
    BY <1>1, <1>8, <1>4, <2>7, <2>8 DEF IInv, LocalsSet, Added, Taken
  <2>10. TypeOK'
    BY <1>1, <1>3, <1>5, <1>6, <1>8, <1>4, <2>2, <2>3 DEF IInv, TypeOK
  <2>11. QED
    BY <2>3, <2>6, <2>9, <2>10 DEF IInv
<1>9. QED
  BY <1>1, <1>7, <1>8

LEMMA HandlerReturnKeepsInv ==
  ASSUME IInv, NEW t \in Thread, HandlerReturn(t)
  PROVE  IInv'
<1>1. /\ pc \in [Thread -> PC] /\ interrupted \in [Thread -> Preemptible]
      /\ t = current_thread /\ pc[t] = "handler" /\ ~fault
      /\ pc' = [pc EXCEPT ![t] = interrupted[t]]
      /\ interrupted' = [interrupted EXCEPT ![t] = "burst"]
  BY DEF HandlerReturn, Runs, Goto, IInv, TypeOK
<1>2. /\ pc' \in [Thread -> PC] /\ interrupted' \in [Thread -> Preemptible]
      /\ pc'[t] = interrupted[t] /\ pc'[t] \in Preemptible
      /\ \A u \in Thread \ {t} : pc'[u] = pc[u] /\ interrupted'[u] = interrupted[u]
  BY <1>1 DEF PC, Preemptible
<1>3. TypeOK'
  BY <1>2 DEF HandlerReturn, listVars, history, IInv, TypeOK
<1>4. OneRuns'
  BY <1>1, <1>2 DEF HandlerReturn, IInv, OneRuns
<1>5. Inside = {t}
  BY <1>1 DEF IInv, OneInHandler, Inside
<1>6. Inside' = {}
  BY <1>2, <1>5 DEF Inside, Preemptible
<1>7. OneInHandler'
  BY <1>6 DEF HandlerReturn, OneInHandler
<1>8. \A u \in Thread : Place(u)' = Place(u)
  BY <1>1, <1>2 DEF Place, Preemptible
<1>9. LocalsSet'
  BY <1>8 DEF HandlerReturn, history, IInv, LocalsSet
<1>10. QED
  BY <1>3, <1>4, <1>7, <1>9 DEF IInv

------------------------------------------------------------------------------

LEMMA Preserved ==
  ASSUME IInv, [Next]_vars
  PROVE  IInv'
<1>1. CASE Next
  BY <1>1, ExecuteKeepsInv, TickKeepsInv, PreemptKeepsInv, HandlerReturnKeepsInv DEF Next
<1>2. CASE UNCHANGED vars
  BY <1>2 DEF vars, listVars, timerVars, history, IInv, TypeOK, OneRuns, LocalsSet,
              Place, OneInHandler, Inside
<1>3. QED
  BY <1>1, <1>2

(***************************************************************************)
(* IInv holds in every state of every instance.                            *)
(***************************************************************************)
THEOREM Inductive == Spec => []IInv
<1>1. Init => IInv
  BY InitInv
<1>2. IInv /\ [Next]_vars => IInv'
  BY Preserved
<1>3. QED
  BY <1>1, <1>2, PTL DEF Spec

(***************************************************************************)
(* The scheduler's variables keep their types; in particular no switch     *)
(* loads the context of a thread that does not exist.                      *)
(***************************************************************************)
THEOREM TypeCorrect == Spec => []TypeOK
<1>1. IInv => TypeOK
  BY DEF IInv
<1>2. QED
  BY <1>1, Inductive, PTL

(***************************************************************************)
(* The quantum handler never nests: the late end-of-interrupt keeps every  *)
(* tick away from the moment a thread is preempted until that same thread  *)
(* returns from its interrupt.                                             *)
(***************************************************************************)
THEOREM HandlerNeverNests == Spec => []OneInHandler
<1>1. IInv => OneInHandler
  BY DEF IInv
<1>2. QED
  BY <1>1, Inductive, PTL


------------------------------------------------------------------------------
(* The list as long as no quantum has ended where that may damage it.       *)

\* The condition under which yield always finds a thread: two that stay.
TwoStay == \E u, v \in Thread \ Terminating : u # v

\* q is the sequence of nodes that head reaches.
Chain(q) ==
  /\ q \in Seq(Node) /\ q # <<>>
  /\ \A k, l \in 1 .. Len(q) : q[k] = q[l] => k = l
  /\ head = q[1]
  /\ \A k \in 1 .. Len(q) : next[q[k]] = IF k = Len(q) THEN NULL ELSE q[k + 1]

OnList(q, t) == \E k \in 1 .. Len(q) : thread[q[k]] = t

\* A thread that is not on the list.
Elsewhere(t) ==
  t \in returned \/ (t = current_thread /\ ~Resumed(t)) \/ Picked(t)

OncePerThread(q) ==
  /\ \A t \in Thread : OnList(q, t) <=> ~Elsewhere(t)
  /\ \A k, l \in 1 .. Len(q) : thread[q[k]] = thread[q[l]] => k = l
  /\ \A t \in Thread : Picked(t) => t \notin returned

\* tail is one behind between Link and SetTail.
TailOf(q) ==
  IF pc[current_thread] = "set_tail"
  THEN Len(q) > 1 /\ tail = q[Len(q) - 1] /\ local[current_thread].new = q[Len(q)]
  ELSE tail = q[Len(q)]

Adding == {"load", "move", "fill", "last", "link"}

\* The node a thread is about to hang in is nobody else's and not on the list -
\* but for the one the handler got at the same address when it interrupted the
\* allocation, which is gone from the list when the thread goes on.
OwnNodes(q) ==
  \A t \in Thread : Place(t) \in Adding =>
    /\ \A k \in 1 .. Len(q) : q[k] = local[t].new => Place(t) = "load" /\ thread[q[k]] = t
    /\ Place(t) \in {"last", "link"} => thread[local[t].new] = t /\ next[local[t].new] = NULL
    /\ \A u \in Thread \ {t} : Place(u) \in Adding => local[u].new # local[t].new

\* The pool's pointer was never moved back, and the node at it is nobody's but
\* the running thread's between its two reads of the pointer and its store.
PoolNew(q) ==
  /\ Len(start_address) = 1
  /\ \A k \in 1 .. Len(q) : q[k] # start_address[1]
  /\ \A t \in Thread : Place(t) \in Adding /\ local[t].new = start_address[1] =>
       t = current_thread /\ pc[t] \in {"load", "move"}
  /\ \A t \in Thread :
       local[t].pool = IF t = current_thread /\ pc[t] = "move" THEN start_address ELSE <<>>

\* What the running thread has read is still so; what was interrupted is not in
\* the midst of the list; a thread that has returned is on its way out.
UpToDate ==
  LET l == local[current_thread]
  IN  /\ pc[current_thread] = "link" => l.last = tail
      /\ pc[current_thread] \in {"peek", "store"} => l.node = head
      /\ pc[current_thread] = "store" => l.rest = next[head]
      /\ \A t \in Inside : interrupted[t] \in Harmless
      /\ current_thread \in returned =>
           pc[current_thread] \in {"yield", "take", "peek", "store", "dispatch"}

Whole(q) ==
  /\ ~fault
  /\ Chain(q) /\ OncePerThread(q) /\ TailOf(q) /\ OwnNodes(q) /\ PoolNew(q)
  /\ UpToDate

LEMMA QueueFacts ==
  ASSUME NEW q, Chain(q)
  PROVE  /\ Len(q) \in Nat /\ Len(q) > 0
         /\ q \in [1 .. Len(q) -> Node]
         /\ head \in Node /\ head # NULL
BY NodeFacts DEF Chain

\* A queue is no longer than there are nodes.
LEMMA QueueFits ==
  ASSUME NEW q, Chain(q)
  PROVE  Len(q) <= MaxNode
<1>1. /\ Len(q) \in Nat /\ q \in [1 .. Len(q) -> Node]
      /\ \A k, l \in 1 .. Len(q) : q[k] = q[l] => k = l
  BY QueueFacts DEF Chain
<1>2. MaxNode \in Nat
  BY RRAssumption
<1>3. \A n \in Nat : IsFiniteSet(1 .. n) /\ Cardinality(1 .. n) = n
  <2>1. ASSUME NEW n \in Nat PROVE IsFiniteSet(1 .. n) /\ Cardinality(1 .. n) = n
    <3>1. 1 \in Int /\ n \in Int
      OBVIOUS
    <3>2. /\ IsFiniteSet(1 .. n)
          /\ Cardinality(1 .. n) = IF 1 > n THEN 0 ELSE n - 1 + 1
      BY <3>1, FS_Interval
    <3>3. QED
      BY <3>2
  <2>2. QED
    BY <2>1
<1>4. ~(Cardinality(Node) < Cardinality(1 .. Len(q)))
  <2>1. /\ IsFiniteSet(1 .. Len(q)) /\ IsFiniteSet(Node) /\ q \in [1 .. Len(q) -> Node]
    BY <1>1, <1>2, <1>3 DEF Node
  <2>2. SUFFICES ASSUME Cardinality(Node) < Cardinality(1 .. Len(q)) PROVE FALSE
    OBVIOUS
  <2>3. \E x, y \in 1 .. Len(q) : x # y /\ q[x] = q[y]
    BY <2>1, <2>2, FS_PigeonHole
  <2>4. QED
    BY <1>1, <2>3
<1>5. QED
  BY <1>1, <1>2, <1>3, <1>4 DEF Node

\* What head reaches, as long as it reaches something.
LEMMA ReachIsQueue ==
  ASSUME NEW q, Chain(q)
  PROVE  /\ DOMAIN Reach = 1 .. MaxNode
         /\ \A k \in 1 .. MaxNode : Reach[k] = IF k <= Len(q) THEN q[k] ELSE NULL
<1> DEFINE Value(f, k) == IF k = 1 THEN head ELSE IF f[k - 1] = NULL THEN NULL ELSE next[f[k - 1]]
           Def(f) == f = [k \in 1 .. MaxNode |-> Value(f, k)]
           g == [k \in 1 .. MaxNode |-> IF k <= Len(q) THEN q[k] ELSE NULL]
<1>1. MaxNode \in Nat
  BY RRAssumption
<1>2. Len(q) \in Nat /\ Len(q) > 0 /\ Len(q) <= MaxNode
  BY QueueFacts, QueueFits
<1>3. \A k \in 1 .. Len(q) : q[k] # NULL
  BY QueueFacts, NodeFacts
<1>4. /\ head = q[1]
      /\ \A k \in 1 .. Len(q) : next[q[k]] = IF k = Len(q) THEN NULL ELSE q[k + 1]
  BY DEF Chain
<1>5. \A k \in 1 .. MaxNode : g[k] = IF k <= Len(q) THEN q[k] ELSE NULL
  OBVIOUS
<1>6. g = [k \in 1 .. MaxNode |-> g[k]]
  OBVIOUS
<1> HIDE DEF g
<1>7. ASSUME NEW k \in 1 .. MaxNode
      PROVE  g[k] = Value(g, k)
  <2>1. CASE k = 1
    BY <1>2, <1>4, <1>5, <2>1
  <2>2. CASE k > 1 /\ k - 1 <= Len(q)
    <3>1. k - 1 \in 1 .. Len(q) /\ k - 1 \in 1 .. MaxNode /\ (k - 1) + 1 = k
      BY <1>1, <1>2, <2>2
    <3>2. g[k - 1] = q[k - 1] /\ g[k - 1] # NULL
      BY <1>2, <1>3, <1>5, <3>1
    <3>3. next[q[k - 1]] = IF k - 1 = Len(q) THEN NULL ELSE q[k]
      BY <1>4, <3>1
    <3>4. g[k] = IF k - 1 = Len(q) THEN NULL ELSE q[k]
      BY <1>1, <1>2, <1>5, <2>2
    <3>5. QED
      BY <2>2, <3>2, <3>3, <3>4
  <2>3. CASE k > 1 /\ k - 1 > Len(q)
    <3>1. k - 1 \in 1 .. MaxNode /\ ~(k - 1 <= Len(q)) /\ ~(k <= Len(q))
      BY <1>1, <1>2, <2>3
    <3>2. g[k - 1] = NULL /\ g[k] = NULL
      BY <1>5, <3>1
    <3>3. QED
      BY <2>3, <3>2
  <2>4. QED
    BY <1>1, <1>2, <2>1, <2>2, <2>3
<1>8. Def(g)
  BY <1>6, <1>7, Zenon
<1>9. Def(Reach)
  <2>1. Reach = CHOOSE f : Def(f)
    BY DEF Reach, Path
  <2>2. QED
    BY <1>8, <2>1, Zenon
<1>10. DOMAIN Reach = 1 .. MaxNode /\ \A k \in 1 .. MaxNode : Reach[k] = Value(Reach, k)
  BY <1>9
<1> HIDE DEF Def
<1>11. \A k \in 1 .. MaxNode : Reach[k] = g[k]
  <2> DEFINE Smaller == {p \in Nat \X Nat : p[1] < p[2]}
             Wrong == {k \in 1 .. MaxNode : Reach[k] # g[k]}
  <2>1. IsWellFoundedOn(Smaller, Nat)
    BY NatLessThanWellFounded DEF OpToRel
  <2>2. \A x, y \in Nat : x < y => <<x, y>> \in Smaller
    OBVIOUS
  <2>3. SUFFICES ASSUME Wrong # {} PROVE FALSE
    OBVIOUS
  <2>4. Wrong \subseteq Nat
    <3>1. 1 .. MaxNode \subseteq Nat
      BY <1>1
    <3>2. Wrong \subseteq 1 .. MaxNode
      OBVIOUS
    <3>3. QED
      BY <3>1, <3>2, Zenon
  <2> HIDE DEF Smaller
  <2>5. PICK x \in Wrong : \A y \in Wrong : <<y, x>> \notin Smaller
    BY <2>1, <2>3, <2>4, WFMin
  <2>6. x \in 1 .. MaxNode /\ Reach[x] # g[x]
    BY <2>5
  <2>7. x # 1
    BY <1>7, <1>10, <2>6
  <2>8. x - 1 \in 1 .. MaxNode /\ x - 1 \in Nat /\ x \in Nat /\ x - 1 < x
    BY <1>1, <2>6, <2>7
  <2>9. x - 1 \notin Wrong
    BY <2>2, <2>5, <2>8
  <2>10. Reach[x - 1] = g[x - 1]
    BY <2>8, <2>9
  <2>11. QED
    BY <1>7, <1>10, <2>6, <2>7, <2>10
<1>12. QED
  BY <1>5, <1>10, <1>11

\* The pool takes no memory again that the list or a thread still needs.
LEMMA InUse ==
  ASSUME TypeOK, NEW q, Chain(q)
  PROVE  /\ \A k \in 1 .. Len(q) : q[k] \notin Unused
         /\ \A t \in Thread : local[t].new \notin Unused
         /\ start_address[1] \notin Unused
<1>1. ASSUME NEW k \in 1 .. Len(q) PROVE q[k] \notin Unused
  <2>1. k \in 1 .. MaxNode /\ Path(head)[k] = q[k]
    BY ReachIsQueue, QueueFits, QueueFacts, RRAssumption DEF Reach
  <2>2. q[k] \in {Path(r)[l] : r \in Followed, l \in 1 .. MaxNode}
    BY <2>1 DEF Followed
  <2>3. QED
    BY <2>2 DEF Unused
<1>2. \A t \in Thread : local[t].new \in Held
  BY DEF Held
<1>3. start_address[1] \in Held
  <2>1. start_address[1] \in Range(start_address)
    BY DEF TypeOK, Range
  <2>2. QED
    BY <2>1 DEF Held
<1>4. QED
  BY <1>1, <1>2, <1>3 DEF Unused

------------------------------------------------------------------------------
(* Each step keeps the list whole.                                          *)

Keeps == \E p \in Seq(Node) : Whole(p)'

\* A statement of the running thread that switches nothing.
LEMMA Moved ==
  ASSUME IInv, NEW t \in Thread, NEW l \in Preemptible,
         current_thread = t, pc[t] \in Preemptible,
         Goto(t, l), UNCHANGED <<current_thread, interrupted>>
  PROVE  /\ current_thread' = t /\ pc'[t] = l
         /\ Place(t) = pc[t] /\ Place(t)' = l
         /\ \A u \in Thread \ {t} : Place(u)' = Place(u) /\ pc'[u] = pc[u]
         /\ Inside' = Inside
<1>1. pc \in [Thread -> PC] /\ pc' = [pc EXCEPT ![t] = l]
  BY DEF IInv, TypeOK, Goto
<1>2. pc'[t] = l /\ \A u \in Thread \ {t} : pc'[u] = pc[u]
  BY <1>1
<1>3. l \notin {"preempted", "handler"} /\ pc[t] \notin {"preempted", "handler"}
  BY DEF Preemptible
<1>4. Place(t) = pc[t] /\ Place(t)' = l /\ Inside' = Inside
  BY <1>2, <1>3 DEF Place, Inside
<1>5. \A u \in Thread \ {t} : Place(u)' = Place(u)
  BY <1>2 DEF Place
<1>6. QED
  BY <1>2, <1>4, <1>5

\* The pool is left alone, and so are the nodes of the list or all but those that
\* threads held already.
LEMMA PoolStays ==
  ASSUME NEW q, PoolNew(q), NEW p,
         UNCHANGED start_address, \A t \in Thread : local'[t].pool = local[t].pool,
         \A k \in 1 .. Len(p) : p[k] # start_address[1],
         \A t \in Thread : Place(t)' \in Adding =>
           Place(t) \in Adding /\ local'[t].new = local[t].new,
         pc[current_thread] \notin {"load", "move"}, pc'[current_thread'] # "move"
  PROVE  PoolNew(p)'
<1>1. Len(start_address') = 1 /\ \A k \in 1 .. Len(p) : p[k] # start_address'[1]
  BY DEF PoolNew
<1>2. \A t \in Thread : Place(t)' \in Adding => local'[t].new # start_address'[1]
  BY DEF PoolNew
<1>3. \A t \in Thread : local'[t].pool = <<>>
  BY DEF PoolNew
<1>4. QED
  BY <1>1, <1>2, <1>3 DEF PoolNew

Outside == {"burst", "last", "link", "back"}
Leaving == {"yield", "take", "peek", "store"}

\* A statement that leaves the list and everything that hangs on it alone.
LEMMA QuietStep ==
  ASSUME IInv, NEW q \in Seq(Node), Whole(q), NEW t \in Thread, NEW l \in Preemptible,
         current_thread = t, Goto(t, l), UNCHANGED <<listVars, current_thread, interrupted, returned>>,
         \/ pc[t] \in Outside /\ l \in Outside
         \/ pc[t] \in Leaving /\ l \in Leaving,
         l \in Adding => pc[t] = "last",
         \A u \in Thread : local'[u].new = local[u].new /\ local'[u].pool = local[u].pool,
         ~fault',
         l = "link" => local'[t].last = tail,
         l \in {"peek", "store"} => local'[t].node = head,
         l = "store" => local'[t].rest = next[head]
  PROVE  Keeps
<1>1. /\ current_thread' = t /\ pc'[t] = l
      /\ Place(t) = pc[t] /\ Place(t)' = l
      /\ \A u \in Thread \ {t} : Place(u)' = Place(u) /\ pc'[u] = pc[u]
      /\ Inside' = Inside
  BY Moved DEF Outside, Leaving, Preemptible
<1>2. Chain(q)'
  BY DEF Whole, Chain, listVars
<1>3. \A u \in Thread : ~Picked(u) /\ ~Picked(u)' /\ (Elsewhere(u)' <=> Elsewhere(u))
  BY <1>1 DEF Elsewhere, Picked, Resumed, Outside, Leaving
<1>4. \A u \in Thread : OnList(q, u)' <=> OnList(q, u)
  BY DEF OnList, listVars
<1>5. OncePerThread(q)'
  BY <1>3, <1>4 DEF Whole, OncePerThread, listVars
<1>6. TailOf(q)'
  BY <1>1 DEF Whole, TailOf, listVars, Outside, Leaving
<1>7. OwnNodes(q)'
  <2>1. \A u \in Thread : Place(u)' \in Adding =>
          /\ Place(u) \in Adding /\ (Place(u)' = "load" <=> Place(u) = "load")
          /\ Place(u)' \in {"last", "link"} => Place(u) \in {"last", "link"}
    BY <1>1 DEF Adding, Outside, Leaving
  <2>2. QED
    BY <2>1 DEF Whole, OwnNodes, listVars
<1>8. UpToDate'
  BY <1>1 DEF Whole, UpToDate, listVars, Outside, Leaving
<1>9. PoolNew(q)'
  <2>1. \A u \in Thread : Place(u)' \in Adding => Place(u) \in Adding
    BY <1>1 DEF Adding, Outside, Leaving
  <2>2. pc[current_thread] \notin {"load", "move"} /\ pc'[current_thread'] # "move"
    BY <1>1 DEF Outside, Leaving
  <2>3. PoolNew(q)
    BY DEF Whole
  <2>4. \A k \in 1 .. Len(q) : q[k] # start_address[1]
    BY <2>3 DEF PoolNew
  <2>5. QED
    BY <2>1, <2>2, <2>3, <2>4, PoolStays DEF listVars
<1>10. QED
  BY <1>2, <1>5, <1>6, <1>7, <1>8, <1>9 DEF Keeps, Whole

LEMMA QuietActions ==
  ASSUME IInv, NEW q \in Seq(Node), Whole(q), NEW t \in Thread,
         \/ ReadTail(t) \/ CheckFlag(t) \/ TakeHead(t) \/ PeekNext(t) \/ Back(t)
  PROVE  Keeps
<1>0. /\ local \in [Thread -> Local] /\ head # NULL /\ ~fault
  BY QueueFacts DEF IInv, TypeOK, Whole
<1>1. CASE ReadTail(t)
  <2>1. local' = [local EXCEPT ![t].last = tail]
    BY <1>1 DEF ReadTail
  <2>2. /\ local'[t].last = tail
        /\ \A u \in Thread : local'[u].new = local[u].new /\ local'[u].pool = local[u].pool
    BY <1>0, <2>1 DEF Local
  <2>3. QED
    BY <1>0, <1>1, <2>2, QuietStep DEF ReadTail, Runs, Outside, Leaving, Adding, Preemptible, history
<1>2. CASE CheckFlag(t)
  BY <1>0, <1>2, QuietStep DEF CheckFlag, Runs, Outside, Leaving, Adding, Preemptible, history
<1>3. CASE TakeHead(t)
  <2>1. local' = [local EXCEPT ![t].node = head]
    BY <1>3 DEF TakeHead
  <2>2. /\ local'[t].node = head
        /\ \A u \in Thread : local'[u].new = local[u].new /\ local'[u].pool = local[u].pool
    BY <1>0, <2>1 DEF Local
  <2>3. QED
    BY <1>0, <1>3, <2>2, QuietStep DEF TakeHead, Runs, Outside, Leaving, Adding, Preemptible
<1>4. CASE PeekNext(t)
  <2>1. local' = [local EXCEPT ![t].rest = next[head]]
    BY <1>0, <1>4 DEF PeekNext
  <2>2. /\ local'[t].rest = next[head] /\ local'[t].node = local[t].node
        /\ \A u \in Thread : local'[u].new = local[u].new /\ local'[u].pool = local[u].pool
    BY <1>0, <2>1 DEF Local
  <2>3. local[t].node = head
    BY <1>4 DEF PeekNext, Runs, Whole, UpToDate
  <2>4. QED
    BY <1>0, <1>4, <2>2, <2>3, QuietStep DEF PeekNext, Runs, Outside, Leaving, Adding, Preemptible
<1>5. CASE Back(t)
  <2>1. t \notin returned
    BY <1>5 DEF Back, Runs, Whole, UpToDate
  <2>2. QED
    BY <1>0, <1>5, <2>1, QuietStep DEF Back, Runs, Outside, Leaving, Adding, Preemptible
<1>6. QED
  BY <1>1, <1>2, <1>3, <1>4, <1>5

LEMMA PassOnKeeps ==
  ASSUME IInv, NEW q \in Seq(Node), Whole(q), NEW t \in Thread, PassOn(t)
  PROVE  Keeps
<1>1. /\ current_thread = t /\ pc[t] = "burst" /\ ~fault
      /\ local' = [local EXCEPT ![t].new = start_address[1]] /\ Goto(t, "load")
      /\ UNCHANGED <<listVars, current_thread, interrupted, returned, fault>>
  BY DEF PassOn, Runs, IInv, TypeOK
<1>2. /\ Len(start_address) = 1 /\ \A k \in 1 .. Len(q) : q[k] # start_address[1]
      /\ \A u \in Thread : Place(u) \in Adding => local[u].new # start_address[1]
      /\ \A u \in Thread : local[u].pool = <<>>
  BY <1>1 DEF Whole, PoolNew
<1>3. /\ local'[t].new = start_address[1]
      /\ \A u \in Thread \ {t} : local'[u].new = local[u].new
      /\ \A u \in Thread : local'[u].pool = local[u].pool
  BY <1>1 DEF IInv, TypeOK, Local
<1>4. /\ current_thread' = t /\ pc'[t] = "load" /\ Place(t)' = "load"
      /\ \A u \in Thread \ {t} : Place(u)' = Place(u) /\ pc'[u] = pc[u]
      /\ Inside' = Inside
  BY <1>1, Moved DEF Preemptible
<1>5. Chain(q)'
  BY <1>1 DEF Whole, Chain, listVars
<1>6. \A u \in Thread : ~Picked(u) /\ ~Picked(u)' /\ (Elsewhere(u)' <=> Elsewhere(u))
  BY <1>1, <1>4 DEF Elsewhere, Picked, Resumed
<1>7. OncePerThread(q)'
  BY <1>1, <1>6 DEF Whole, OncePerThread, OnList, listVars
<1>8. TailOf(q)'
  BY <1>1, <1>4 DEF Whole, TailOf, listVars
<1>9. OwnNodes(q)'
  BY <1>1, <1>2, <1>3, <1>4 DEF Whole, OwnNodes, listVars
<1>10. PoolNew(q)'
  BY <1>1, <1>2, <1>3, <1>4 DEF PoolNew, listVars
<1>11. UpToDate'
  BY <1>1, <1>4 DEF Whole, UpToDate
<1>12. QED
  BY <1>1, <1>5, <1>7, <1>8, <1>9, <1>10, <1>11 DEF Keeps, Whole

\* The running thread's node is not on the list: not even the one of a thread
\* that was interrupted while it allocated.
LEMMA NotOnList ==
  ASSUME NEW q, Whole(q), NEW t \in Thread, current_thread = t, pc[t] \in Adding
  PROVE  /\ t \notin returned /\ Place(t) = pc[t]
         /\ \A k \in 1 .. Len(q) : thread[q[k]] # t
         /\ \A k \in 1 .. Len(q) : q[k] # local[t].new
<1>1. t \notin returned /\ Place(t) = pc[t]
  BY DEF Whole, UpToDate, Adding, Place
<1>2. ~OnList(q, t)
  BY DEF Whole, OncePerThread, Elsewhere, Resumed, Adding
<1>3. QED
  BY <1>1, <1>2 DEF Whole, OwnNodes, OnList

LEMMA LoadAddressKeeps ==
  ASSUME IInv, NEW q \in Seq(Node), Whole(q), NEW t \in Thread, LoadAddress(t)
  PROVE  Keeps
<1>1. /\ current_thread = t /\ pc[t] = "load" /\ ~fault
      /\ local' = [local EXCEPT ![t].pool = start_address] /\ Goto(t, "move")
      /\ UNCHANGED <<listVars, current_thread, interrupted, returned, fault>>
  BY DEF LoadAddress, Runs, history
<1>2. Place(t) = "load" /\ \A k \in 1 .. Len(q) : q[k] # local[t].new
  BY <1>1, NotOnList DEF Adding
<1>3. /\ local'[t].pool = start_address
      /\ \A u \in Thread \ {t} : local'[u].pool = local[u].pool
      /\ \A u \in Thread : local'[u].new = local[u].new
  BY <1>1 DEF IInv, TypeOK, Local
<1>4. /\ current_thread' = t /\ pc'[t] = "move" /\ Place(t)' = "move"
      /\ \A u \in Thread \ {t} : Place(u)' = Place(u) /\ pc'[u] = pc[u]
      /\ Inside' = Inside
  BY <1>1, Moved DEF Preemptible
<1>5. Chain(q)'
  BY <1>1 DEF Whole, Chain, listVars
<1>6. \A u \in Thread : ~Picked(u) /\ ~Picked(u)' /\ (Elsewhere(u)' <=> Elsewhere(u))
  BY <1>1, <1>4 DEF Elsewhere, Picked, Resumed
<1>7. OncePerThread(q)'
  BY <1>1, <1>6 DEF Whole, OncePerThread, OnList, listVars
<1>8. TailOf(q)'
  BY <1>1, <1>4 DEF Whole, TailOf, listVars
<1>9. OwnNodes(q)'
  <2>1. \A u \in Thread : Place(u)' \in Adding => Place(u) \in Adding
    BY <1>2, <1>4 DEF Adding
  <2>2. QED
    BY <1>1, <1>2, <1>3, <1>4, <2>1 DEF Whole, OwnNodes, listVars
<1>10. PoolNew(q)'
  <2>1. \A u \in Thread : Place(u)' \in Adding => Place(u) \in Adding
    BY <1>2, <1>4 DEF Adding
  <2>2. QED
    BY <1>1, <1>3, <1>4, <2>1 DEF Whole, PoolNew, listVars
<1>11. UpToDate'
  BY <1>1, <1>4 DEF Whole, UpToDate
<1>12. QED
  BY <1>1, <1>5, <1>7, <1>8, <1>9, <1>10, <1>11 DEF Keeps, Whole

\* The pointer that is stored is one behind the one that is there, and the memory
\* it now leads to is nobody's.
LEMMA MoveAddressKeeps ==
  ASSUME IInv, NEW q \in Seq(Node), Whole(q), NEW t \in Thread, MoveAddress(t)
  PROVE  /\ Whole(q)'
         /\ \A k \in 1 .. Len(q) : thread'[q[k]] = thread[q[k]]
<1> DEFINE cleared == [local EXCEPT ![t].pool = <<>>]
<1>1. /\ current_thread = t /\ pc[t] = "move" /\ ~fault
      /\ Room(local[t].pool) /\ start_address' = Behind(local[t].pool)
      /\ thread' = Wiped(thread, Start[1]) /\ next' = Wiped(next, NULL)
      /\ local' = Seen(cleared, local[t].pool)
      /\ Goto(t, "fill")
      /\ UNCHANGED <<head, tail, current_thread, interrupted, returned, fault>>
  BY DEF MoveAddress, Runs, history
<1>2. /\ local[t].pool = start_address /\ Len(start_address) = 1
      /\ start_address \in Seq(Node)
      /\ \A u \in Thread \ {t} : local[u].pool = <<>>
  BY <1>1 DEF Whole, PoolNew, IInv, TypeOK
<1>3. Fresh \in Unused /\ start_address' = <<Fresh>>
  <2>1. Unused # {} /\ ~(Len(start_address) > 1)
    BY <1>1, <1>2 DEF Room
  <2>2. QED
    BY <1>1, <1>2, <2>1, FreshIsNode DEF Behind
<1>4. /\ cleared \in [Thread -> Local]
      /\ \A u \in Thread : cleared[u].new = local[u].new /\ cleared[u].pool = <<>>
  <2>1. /\ cleared = [local EXCEPT ![t] = [local[t] EXCEPT !.pool = <<>>]]
        /\ local \in [Thread -> Local] /\ local[t] \in Local
    BY DEF IInv, TypeOK
  <2>2. [local[t] EXCEPT !.pool = <<>>] \in Local
    BY <2>1, EmptySeq DEF Local
  <2>3. /\ [local[t] EXCEPT !.pool = <<>>].new = local[t].new
        /\ [local[t] EXCEPT !.pool = <<>>].pool = <<>>
    BY <2>1 DEF Local
  <2> HIDE DEF cleared
  <2>4. QED
    BY <1>2, <2>1, <2>2, <2>3
<1> HIDE DEF cleared
<1>5. \A u \in Thread : local'[u].new = local[u].new /\ local'[u].pool = <<>>
  <2>1. Room(start_address)
    BY <1>1, <1>2
  <2>2. \A u \in Thread :
          /\ Seen(cleared, start_address)[u].new = cleared[u].new
          /\ cleared[u].pool = <<>> => Seen(cleared, start_address)[u].pool = <<>>
    BY <1>2, <1>4, <2>1, SeenFacts, Zenon
  <2>3. QED
    BY <1>1, <1>2, <1>4, <2>2
<1>6. /\ \A k \in 1 .. Len(q) : q[k] \in Node \ Unused
      /\ \A u \in Thread : local[u].new \notin Unused
  BY InUse, QueueFacts DEF Whole, IInv
<1>7. \A n \in Node \ Unused : thread'[n] = thread[n] /\ next'[n] = next[n]
  BY <1>1, WipedFacts DEF IInv
<1>8. /\ current_thread' = t /\ pc'[t] = "fill" /\ Place(t)' = "fill" /\ Place(t) = "move"
      /\ \A u \in Thread \ {t} : Place(u)' = Place(u) /\ pc'[u] = pc[u]
      /\ Inside' = Inside
  BY <1>1, Moved DEF Preemptible
<1>9. Chain(q)'
  BY <1>1, <1>6, <1>7 DEF Whole, Chain
<1>10. \A u \in Thread : ~Picked(u) /\ ~Picked(u)' /\ (Elsewhere(u)' <=> Elsewhere(u))
  BY <1>1, <1>8 DEF Elsewhere, Picked, Resumed
<1>11. OncePerThread(q)'
  BY <1>1, <1>6, <1>7, <1>10 DEF Whole, OncePerThread, OnList
<1>12. TailOf(q)'
  BY <1>1, <1>8 DEF Whole, TailOf
<1>13. \A u \in Thread : Place(u)' \in Adding => Place(u) \in Adding
  BY <1>8 DEF Adding
<1>14. OwnNodes(q)'
  <2>1. ASSUME NEW u \in Thread, Place(u)' \in Adding
        PROVE  /\ \A k \in 1 .. Len(q) : q[k] = local'[u].new => Place(u)' = "load" /\ thread'[q[k]] = u
               /\ Place(u)' \in {"last", "link"} => thread'[local'[u].new] = u /\ next'[local'[u].new] = NULL
               /\ \A v \in Thread \ {u} : Place(v)' \in Adding => local'[v].new # local'[u].new
    <3>1. Place(u) \in Adding /\ local[u].new \in Node \ Unused
      BY <1>1, <1>6, <1>13, <2>1 DEF IInv, LocalsSet, Added, Adding
    <3>2. \A k \in 1 .. Len(q) : q[k] = local'[u].new => Place(u)' = "load" /\ thread'[q[k]] = u
      BY <1>5, <1>6, <1>7, <1>8, <3>1 DEF Whole, OwnNodes
    <3>3. Place(u)' \in {"last", "link"} => thread'[local'[u].new] = u /\ next'[local'[u].new] = NULL
      BY <1>5, <1>7, <1>8, <3>1 DEF Whole, OwnNodes
    <3>4. \A v \in Thread \ {u} : Place(v)' \in Adding => local'[v].new # local'[u].new
      BY <1>5, <1>13, <3>1 DEF Whole, OwnNodes
    <3>5. QED
      BY <3>2, <3>3, <3>4
  <2>2. QED
    BY <2>1 DEF OwnNodes
<1>15. PoolNew(q)'
  BY <1>3, <1>5, <1>6, <1>8 DEF PoolNew
<1>16. UpToDate'
  BY <1>1, <1>8 DEF Whole, UpToDate
<1>17. QED
  BY <1>1, <1>6, <1>7, <1>9, <1>11, <1>12, <1>14, <1>15, <1>16 DEF Whole

LEMMA FillKeeps ==
  ASSUME IInv, NEW q \in Seq(Node), Whole(q), NEW t \in Thread, Fill(t)
  PROVE  /\ Whole(q)'
         /\ \A k \in 1 .. Len(q) : thread'[q[k]] = thread[q[k]]
<1> DEFINE n == local[t].new
<1>1. /\ current_thread = t /\ pc[t] = "fill" /\ ~fault
      /\ thread' = [thread EXCEPT ![n] = t] /\ next' = [next EXCEPT ![n] = NULL]
      /\ Goto(t, "last")
      /\ UNCHANGED <<head, tail, start_address, current_thread, interrupted, local, returned, fault>>
  BY DEF Fill, Runs, history
<1>2. \A k \in 1 .. Len(q) : q[k] # n
  BY <1>1, NotOnList DEF Adding
<1>3. Place(t) = "fill"
  BY <1>1 DEF Place
<1>4. n \in Node
  BY <1>1, <1>3 DEF IInv, LocalsSet, Added
<1>5. \A u \in Thread \ {t} : Place(u) \in Adding => local[u].new # n
  BY <1>3 DEF Whole, OwnNodes, Adding
<1> HIDE DEF n
<1>6. /\ thread'[n] = t /\ next'[n] = NULL
      /\ \A m \in Node \ {n} : thread'[m] = thread[m] /\ next'[m] = next[m]
  BY <1>1, <1>4 DEF IInv, TypeOK
<1>7. \A k \in 1 .. Len(q) : q[k] \in Node \ {n} 
  BY <1>2, QueueFacts DEF Whole
<1>8. /\ current_thread' = t /\ pc'[t] = "last" /\ Place(t)' = "last"
      /\ \A u \in Thread \ {t} : Place(u)' = Place(u) /\ pc'[u] = pc[u]
      /\ Inside' = Inside
  BY <1>1, Moved DEF Preemptible
<1>9. Chain(q)'
  BY <1>1, <1>6, <1>7 DEF Whole, Chain
<1>10. \A u \in Thread : ~Picked(u) /\ ~Picked(u)' /\ (Elsewhere(u)' <=> Elsewhere(u))
  BY <1>1, <1>8 DEF Elsewhere, Picked, Resumed
<1>11. OncePerThread(q)'
  BY <1>6, <1>7, <1>10 DEF Whole, OncePerThread, OnList
<1>12. TailOf(q)'
  BY <1>1, <1>8 DEF Whole, TailOf
<1>13. OwnNodes(q)'
  <2>1. \A u \in Thread \ {t} : Place(u) \in Adding => local[u].new \in Node \ {n}
    BY <1>1, <1>5 DEF IInv, LocalsSet, Added, Adding
  <2>2. ASSUME NEW u \in Thread \ {t}, Place(u)' \in Adding
        PROVE  /\ \A k \in 1 .. Len(q) : q[k] = local'[u].new => Place(u)' = "load" /\ thread'[q[k]] = u
               /\ Place(u)' \in {"last", "link"} => thread'[local'[u].new] = u /\ next'[local'[u].new] = NULL
               /\ \A v \in Thread \ {u} : Place(v)' \in Adding => local'[v].new # local'[u].new
    <3>1. Place(u) \in Adding /\ Place(u)' = Place(u) /\ local' = local
      BY <1>1, <1>8, <2>2
    <3>2. local[u].new \in Node \ {n}
      BY <2>1, <3>1
    <3>3. \A v \in Thread \ {u} : Place(v)' \in Adding => Place(v) \in Adding
      BY <1>3, <1>8 DEF Adding
    <3>4. QED
      BY <1>6, <1>7, <3>1, <3>2, <3>3 DEF Whole, OwnNodes
  <2>3. /\ \A k \in 1 .. Len(q) : q[k] # local'[t].new
        /\ thread'[local'[t].new] = t /\ next'[local'[t].new] = NULL
        /\ \A v \in Thread \ {t} : Place(v)' \in Adding => local'[v].new # local'[t].new
    BY <1>1, <1>2, <1>5, <1>6, <1>8 DEF n
  <2>4. QED
    BY <2>2, <2>3 DEF OwnNodes
<1>14. UpToDate'
  BY <1>1, <1>8 DEF Whole, UpToDate
<1>15. PoolNew(q)'
  <2>1. \A u \in Thread : Place(u)' \in Adding => Place(u) \in Adding
    BY <1>3, <1>8 DEF Adding
  <2>2. PoolNew(q) /\ \A k \in 1 .. Len(q) : q[k] # start_address[1]
    BY DEF Whole, PoolNew
  <2>3. pc[current_thread] \notin {"load", "move"} /\ pc'[current_thread'] # "move"
    BY <1>1, <1>8
  <2>4. QED
    BY <1>1, <2>1, <2>2, <2>3, PoolStays
<1>16. QED
  BY <1>1, <1>6, <1>7, <1>9, <1>11, <1>12, <1>13, <1>14, <1>15 DEF Whole

LEMMA LinkKeeps ==
  ASSUME IInv, NEW q \in Seq(Node), Whole(q), NEW t \in Thread, Link(t)
  PROVE  \E p \in Seq(Node) :
           /\ Whole(p)' /\ Len(p) = Len(q) + 1
           /\ \A k \in 1 .. Len(q) : thread'[p[k]] = thread[q[k]]
           /\ thread'[p[Len(q) + 1]] = t
<1> DEFINE m == Len(q)
<1>0. PICK n : n = local[t].new
  OBVIOUS
<1>1. /\ current_thread = t /\ pc[t] = "link" /\ ~fault
      /\ next' = [next EXCEPT ![local[t].last] = n]
      /\ local' = [local EXCEPT ![t].last = NULL]
      /\ Goto(t, "set_tail")
      /\ UNCHANGED <<head, tail, thread, start_address, current_thread, interrupted, returned, fault>>
  BY <1>0 DEF Link, Runs, history
<1>2. /\ t \notin returned /\ Place(t) = "link"
      /\ \A k \in 1 .. m : thread[q[k]] # t /\ q[k] # n
  BY <1>0, <1>1, NotOnList DEF Adding
<1>3. n \in Node /\ thread[n] = t /\ next[n] = NULL
  BY <1>0, <1>2 DEF Whole, OwnNodes, Adding, IInv, LocalsSet, Added
<1>4. \A u \in Thread : local'[u].new = local[u].new /\ local'[u].pool = local[u].pool
  BY <1>1 DEF IInv, TypeOK, Local
<1>5. \A u \in Thread \ {t} : Place(u) \in Adding => local[u].new # n
  BY <1>0, <1>2 DEF Whole, OwnNodes, Adding
<1>6. m \in Nat /\ m > 0 /\ q \in [1 .. m -> Node]
  BY QueueFacts DEF Whole
<1>7. PICK p \in Seq(Node) : /\ Len(p) = m + 1 /\ p[m + 1] = n
                           /\ \A k \in 1 .. m : p[k] = q[k]
  <2>1. Append(q, n) \in Seq(Node) /\ Len(Append(q, n)) = m + 1 /\ Append(q, n)[m + 1] = n
    BY <1>3, <1>6
  <2>2. \A k \in 1 .. m : Append(q, n)[k] = q[k]
    BY <1>3, <1>6
  <2>3. QED
    BY <2>1, <2>2
<1> HIDE DEF m
<1>8. local[t].last = tail /\ tail = q[m]
  BY <1>1 DEF Whole, UpToDate, TailOf, m
<1>9. /\ next'[q[m]] = n
      /\ \A x \in Node : x # q[m] => next'[x] = next[x]
  BY <1>1, <1>6, <1>8 DEF IInv, TypeOK
<1>10. /\ current_thread' = t /\ pc'[t] = "set_tail" /\ Place(t)' = "set_tail"
       /\ \A u \in Thread \ {t} : Place(u)' = Place(u) /\ pc'[u] = pc[u]
       /\ Inside' = Inside
  BY <1>1, Moved DEF Preemptible
<1>11. /\ \A k, l \in 1 .. m : q[k] = q[l] => k = l
       /\ head = q[1]
       /\ \A k \in 1 .. m : next[q[k]] = IF k = m THEN NULL ELSE q[k + 1]
  BY DEF Whole, Chain, m
<1>12. Chain(p)'
  <2>1. p # <<>>
    BY <1>6, <1>7
  <2>2. \A k, l \in 1 .. m + 1 : p[k] = p[l] => k = l
    <3>1. \A k \in 1 .. m + 1 : k = m + 1 \/ k \in 1 .. m
      BY <1>6
    <3>2. QED
      BY <1>2, <1>7, <1>11, <3>1
  <2>3. head' = p[1]
    BY <1>1, <1>6, <1>7, <1>11
  <2>4. ASSUME NEW k \in 1 .. m + 1
        PROVE  next'[p[k]] = IF k = m + 1 THEN NULL ELSE p[k + 1]
    <3>1. CASE k = m + 1
      BY <1>2, <1>3, <1>6, <1>7, <1>9, <3>1 DEF m
    <3>2. CASE k = m
      BY <1>6, <1>7, <1>9, <3>2
    <3>3. CASE k < m
      <4>1. k \in 1 .. m /\ k + 1 \in 1 .. m /\ m \in 1 .. m /\ k # m
        BY <1>6, <3>3
      <4>2. p[k] = q[k] /\ p[k + 1] = q[k + 1] /\ q[k] # q[m] /\ q[k] \in Node
        BY <1>6, <1>7, <1>11, <4>1
      <4>3. next'[q[k]] = q[k + 1]
        BY <1>9, <1>11, <4>1, <4>2
      <4>4. QED
        BY <1>6, <3>3, <4>2, <4>3
    <3>4. QED
      BY <1>6, <3>1, <3>2, <3>3
  <2>5. QED
    BY <1>7, <2>1, <2>2, <2>3, <2>4 DEF Chain
<1>13. \A u \in Thread : OnList(p, u)' <=> OnList(q, u) \/ u = t
  <2>1. \A u \in Thread : OnList(p, u)' <=> \E k \in 1 .. m + 1 : thread[p[k]] = u
    BY <1>1, <1>7 DEF OnList
  <2>2. \A u \in Thread : OnList(q, u) <=> \E k \in 1 .. m : thread[q[k]] = u
    BY DEF OnList, m
  <2>3. \A k \in 1 .. m + 1 : k = m + 1 \/ k \in 1 .. m
    BY <1>6
  <2>4. \A k \in 1 .. m : k \in 1 .. m + 1
    BY <1>6
  <2>5. m + 1 \in 1 .. m + 1
    BY <1>6
  <2>6. QED
    BY <1>3, <1>7, <2>1, <2>2, <2>3, <2>4, <2>5
<1>14. \A u \in Thread : ~Picked(u) /\ ~Picked(u)' /\ (Elsewhere(u)' <=> Elsewhere(u) /\ u # t)
  BY <1>1, <1>2, <1>10 DEF Elsewhere, Picked, Resumed
<1>15. \A k, l \in 1 .. m + 1 : thread[p[k]] = thread[p[l]] => k = l
  <2>1. \A k, l \in 1 .. m : thread[q[k]] = thread[q[l]] => k = l
    BY DEF Whole, OncePerThread, m
  <2>2. QED
    BY <1>2, <1>3, <1>6, <1>7, <2>1 DEF m
<1>16. OncePerThread(p)'
  <2>1. \A u \in Thread : OnList(p, u)' <=> ~Elsewhere(u)'
    BY <1>13, <1>14 DEF Whole, OncePerThread
  <2>2. QED
    BY <1>1, <1>7, <1>14, <1>15, <2>1 DEF OncePerThread
<1>17. TailOf(p)'
  BY <1>0, <1>1, <1>4, <1>6, <1>7, <1>8, <1>10 DEF TailOf
<1>18. OwnNodes(p)'
  <2>1. ASSUME NEW u \in Thread, Place(u)' \in Adding
        PROVE  /\ \A k \in 1 .. m + 1 : p[k] = local'[u].new => Place(u)' = "load" /\ thread'[p[k]] = u
               /\ Place(u)' \in {"last", "link"} => thread'[local'[u].new] = u /\ next'[local'[u].new] = NULL
               /\ \A v \in Thread \ {u} : Place(v)' \in Adding => local'[v].new # local'[u].new
    <3>1. u # t /\ Place(u) \in Adding /\ Place(u)' = Place(u)
      BY <1>10, <2>1 DEF Adding
    <3>2. local[u].new \in Node /\ local[u].new # n /\ local'[u].new = local[u].new
      BY <1>1, <1>4, <1>5, <3>1 DEF IInv, LocalsSet, Added, Adding
    <3>3. /\ \A k \in 1 .. m : q[k] = local[u].new => Place(u) = "load" /\ thread[q[k]] = u
          /\ Place(u) \in {"last", "link"} => thread[local[u].new] = u /\ next[local[u].new] = NULL
      BY <3>1 DEF Whole, OwnNodes, m
    <3>4. \A k \in 1 .. m + 1 : p[k] = local[u].new => k \in 1 .. m
      BY <1>6, <1>7, <3>2
    <3>5. m \in 1 .. m
      BY <1>6
    <3>6. Place(u) \in {"last", "link"} => next'[local[u].new] = NULL
      BY <1>9, <3>2, <3>3, <3>5
    <3>7. \A v \in Thread \ {u} : Place(v)' \in Adding => v # t /\ Place(v) \in Adding
      BY <1>10 DEF Adding
    <3>8. \A v \in Thread \ {u} : Place(v)' \in Adding => local'[v].new # local'[u].new
      BY <1>4, <3>1, <3>7 DEF Whole, OwnNodes
    <3>9. QED
      BY <1>1, <1>7, <3>1, <3>2, <3>3, <3>4, <3>6, <3>8
  <2>2. QED
    BY <1>7, <2>1 DEF OwnNodes
<1>19. UpToDate'
  BY <1>1, <1>2, <1>10 DEF Whole, UpToDate
<1>20. PoolNew(p)'
  <2>1. \A u \in Thread : Place(u)' \in Adding => Place(u) \in Adding
    BY <1>2, <1>10 DEF Adding
  <2>2. PoolNew(q) /\ n # start_address[1] /\ \A k \in 1 .. m : q[k] # start_address[1]
    BY <1>0, <1>1, <1>2 DEF Whole, PoolNew, Adding, m
  <2>3. \A k \in 1 .. m + 1 : k = m + 1 \/ k \in 1 .. m
    BY <1>6
  <2>4. \A k \in 1 .. Len(p) : p[k] # start_address[1]
    BY <1>7, <2>2, <2>3
  <2>5. pc[current_thread] \notin {"load", "move"} /\ pc'[current_thread'] # "move"
    BY <1>1, <1>10
  <2>6. QED
    BY <1>1, <1>4, <2>1, <2>2, <2>4, <2>5, PoolStays
<1>21. Whole(p)'
  BY <1>1, <1>12, <1>16, <1>17, <1>18, <1>19, <1>20 DEF Whole
<1>22. /\ \A k \in 1 .. m : thread'[p[k]] = thread[q[k]]
       /\ thread'[p[m + 1]] = t
  BY <1>1, <1>3, <1>7
<1>23. QED
  BY <1>7, <1>21, <1>22 DEF m

LEMMA SetTailKeeps ==
  ASSUME IInv, NEW q \in Seq(Node), Whole(q), NEW t \in Thread, SetTail(t)
  PROVE  Keeps
<1>1. /\ current_thread = t /\ pc[t] = "set_tail" /\ ~fault
      /\ tail' = local[t].new /\ local' = [local EXCEPT ![t].new = NULL]
      /\ Goto(t, "yield")
      /\ UNCHANGED <<head, thread, next, start_address, current_thread, interrupted, returned, fault>>
  BY DEF SetTail, Runs, history
<1>2. /\ \A u \in Thread \ {t} : local'[u] = local[u]
      /\ \A u \in Thread : local'[u].pool = local[u].pool
  BY <1>1 DEF IInv, TypeOK, Local
<1>3. /\ current_thread' = t /\ pc'[t] = "yield" /\ Place(t)' = "yield"
      /\ \A u \in Thread \ {t} : Place(u)' = Place(u) /\ pc'[u] = pc[u]
      /\ Inside' = Inside
  BY <1>1, Moved DEF Preemptible
<1>4. Chain(q)'
  BY <1>1 DEF Whole, Chain
<1>5. \A u \in Thread : ~Picked(u) /\ ~Picked(u)' /\ (Elsewhere(u)' <=> Elsewhere(u))
  BY <1>1, <1>3 DEF Elsewhere, Picked, Resumed
<1>6. OncePerThread(q)'
  BY <1>1, <1>5 DEF Whole, OncePerThread, OnList
<1>7. TailOf(q)'
  BY <1>1, <1>3 DEF Whole, TailOf
<1>8. OwnNodes(q)'
  <2>1. \A u \in Thread : Place(u)' \in Adding => u # t /\ Place(u) = Place(u)' /\ local'[u] = local[u]
    BY <1>2, <1>3 DEF Adding
  <2>2. QED
    BY <1>1, <2>1 DEF Whole, OwnNodes
<1>9. UpToDate'
  BY <1>1, <1>3 DEF Whole, UpToDate
<1>10. PoolNew(q)'
  <2>1. \A u \in Thread : Place(u)' \in Adding => Place(u) \in Adding /\ local'[u].new = local[u].new
    BY <1>2, <1>3 DEF Adding
  <2>2. PoolNew(q) /\ \A k \in 1 .. Len(q) : q[k] # start_address[1]
    BY DEF Whole, PoolNew
  <2>3. pc[current_thread] \notin {"load", "move"} /\ pc'[current_thread'] # "move"
    BY <1>1, <1>3
  <2>4. QED
    BY <1>1, <1>2, <2>1, <2>2, <2>3, PoolStays
<1>11. QED
  BY <1>1, <1>4, <1>6, <1>7, <1>8, <1>9, <1>10 DEF Keeps, Whole

LEMMA FinishKeeps ==
  ASSUME IInv, NEW q \in Seq(Node), Whole(q), NEW t \in Thread, Finish(t)
  PROVE  Keeps
<1>1. /\ current_thread = t /\ pc[t] = "burst" /\ ~fault
      /\ returned' = returned \cup {t} /\ Goto(t, "yield")
      /\ UNCHANGED <<listVars, current_thread, interrupted, local, fault>>
  BY DEF Finish, Runs
<1>2. /\ current_thread' = t /\ pc'[t] = "yield" /\ Place(t)' = "yield"
      /\ \A u \in Thread \ {t} : Place(u)' = Place(u) /\ pc'[u] = pc[u]
      /\ Inside' = Inside
  BY <1>1, Moved DEF Preemptible
<1>3. Chain(q)'
  BY <1>1 DEF Whole, Chain, listVars
<1>4. \A u \in Thread : ~Picked(u) /\ ~Picked(u)' /\ (Elsewhere(u)' <=> Elsewhere(u))
  BY <1>1, <1>2 DEF Elsewhere, Picked, Resumed
<1>5. OncePerThread(q)'
  BY <1>1, <1>4 DEF Whole, OncePerThread, OnList, listVars
<1>6. TailOf(q)'
  BY <1>1, <1>2 DEF Whole, TailOf, listVars
<1>7. OwnNodes(q)'
  <2>1. \A u \in Thread : Place(u)' \in Adding => u # t /\ Place(u) = Place(u)'
    BY <1>2 DEF Adding
  <2>2. QED
    BY <1>1, <2>1 DEF Whole, OwnNodes, listVars
<1>8. UpToDate'
  BY <1>1, <1>2 DEF Whole, UpToDate
<1>9. PoolNew(q)'
  <2>1. \A u \in Thread : Place(u)' \in Adding => Place(u) \in Adding
    BY <1>2 DEF Adding
  <2>2. PoolNew(q) /\ \A k \in 1 .. Len(q) : q[k] # start_address[1]
    BY DEF Whole, PoolNew
  <2>3. pc[current_thread] \notin {"load", "move"} /\ pc'[current_thread'] # "move"
    BY <1>1, <1>2
  <2>4. QED
    BY <1>1, <2>1, <2>2, <2>3, PoolStays DEF listVars
<1>10. QED
  BY <1>1, <1>3, <1>5, <1>6, <1>7, <1>8, <1>9 DEF Keeps, Whole

\* The running thread has put itself on the list or returned, so one of the two
\* that stay is on the list besides it.
LEMMA TwoQueued ==
  ASSUME IInv, TwoStay, NEW q \in Seq(Node), Whole(q), pc[current_thread] = "store"
  PROVE  Len(q) > 1
<1>1. PICK u, v \in Thread \ Terminating : u # v
  BY DEF TwoStay
<1>2. \A x \in Thread \ Terminating : ~Elsewhere(x)
  BY DEF Elsewhere, Picked, Resumed, IInv, TypeOK
<1>3. OnList(q, u) /\ OnList(q, v)
  BY <1>1, <1>2 DEF Whole, OncePerThread
<1>4. PICK k, l \in 1 .. Len(q) : thread[q[k]] = u /\ thread[q[l]] = v
  BY <1>3 DEF OnList
<1>5. k # l
  BY <1>1, <1>4
<1>6. QED
  BY <1>4, <1>5, QueueFacts DEF Whole

\* What is left of a queue without its first node.
LEMMA TailFacts ==
  ASSUME NEW S, NEW q \in Seq(S), q # <<>>
  PROVE  \E p \in Seq(S) : /\ Len(p) = Len(q) - 1
                           /\ \A k \in 1 .. Len(q) - 1 : p[k] = q[k + 1]
<1>1. Tail(q) \in Seq(S) /\ Len(Tail(q)) = Len(q) - 1
  OBVIOUS
<1>2. \A k \in 1 .. Len(q) - 1 : Tail(q)[k] = q[k + 1]
  OBVIOUS
<1>3. QED
  BY <1>1, <1>2

LEMMA StoreHeadKeeps ==
  ASSUME IInv, TwoStay, NEW q \in Seq(Node), Whole(q), NEW t \in Thread, StoreHead(t)
  PROVE  \E p \in Seq(Node) :
           /\ Whole(p)' /\ Len(p) = Len(q) - 1
           /\ \A k \in 1 .. Len(q) - 1 : thread'[p[k]] = thread[q[k + 1]]
<1> DEFINE m == Len(q)
<1>1. /\ current_thread = t /\ pc[t] = "store" /\ ~fault
      /\ head' = local[t].rest /\ local' = [local EXCEPT ![t].rest = NULL]
      /\ Goto(t, "dispatch")
      /\ UNCHANGED <<tail, thread, next, start_address, current_thread, interrupted, returned, fault>>
  BY DEF StoreHead, Runs, history
<1>2. m \in Nat /\ m > 1 /\ q \in [1 .. m -> Node]
  BY <1>1, TwoQueued, QueueFacts DEF Whole
<1>3. PICK p \in Seq(Node) : Len(p) = m - 1 /\ \A k \in 1 .. m - 1 : p[k] = q[k + 1]
  <2>1. q # <<>>
    BY DEF Whole, Chain
  <2>2. QED
    BY <2>1, TailFacts
<1> HIDE DEF m
<1>4. /\ \A u \in Thread : local'[u].new = local[u].new /\ local'[u].pool = local[u].pool
      /\ local'[t].node = local[t].node
  BY <1>1 DEF IInv, TypeOK, Local
<1>5. /\ current_thread' = t /\ pc'[t] = "dispatch" /\ Place(t)' = "dispatch"
      /\ \A u \in Thread \ {t} : Place(u)' = Place(u) /\ pc'[u] = pc[u]
      /\ Inside' = Inside
  BY <1>1, Moved DEF Preemptible
<1>6. /\ \A k, l \in 1 .. m : q[k] = q[l] => k = l
      /\ head = q[1]
      /\ \A k \in 1 .. m : next[q[k]] = IF k = m THEN NULL ELSE q[k + 1]
      /\ local[t].node = head /\ local[t].rest = next[head] /\ tail = q[m]
  BY <1>1 DEF Whole, Chain, UpToDate, TailOf, m
<1>7. \A k \in 1 .. m - 1 : k \in 1 .. m /\ k + 1 \in 1 .. m /\ k + 1 # 1 /\ (k + 1 = m <=> k = m - 1)
  BY <1>2
<1>8. Chain(p)'
  <2>1. p # <<>>
    BY <1>2, <1>3
  <2>2. \A k, l \in 1 .. m - 1 : p[k] = p[l] => k = l
    <3>1. ASSUME NEW k \in 1 .. m - 1, NEW l \in 1 .. m - 1, p[k] = p[l] PROVE k = l
      <4>1. q[k + 1] = q[l + 1] /\ k + 1 \in 1 .. m /\ l + 1 \in 1 .. m
        BY <1>3, <1>7, <3>1
      <4>2. k + 1 = l + 1
        BY <1>6, <4>1
      <4>3. QED
        BY <1>2, <4>2
    <3>2. QED
      BY <3>1
  <2>3. head' = p[1]
    <3>1. 1 \in 1 .. m - 1 /\ 1 \in 1 .. m /\ 1 # m
      BY <1>2
    <3>2. next[q[1]] = q[1 + 1] /\ p[1] = q[1 + 1]
      BY <1>3, <1>6, <3>1
    <3>3. QED
      BY <1>1, <1>6, <3>2
  <2>4. ASSUME NEW k \in 1 .. m - 1
        PROVE  next'[p[k]] = IF k = m - 1 THEN NULL ELSE p[k + 1]
    <3>1. p[k] = q[k + 1] /\ next' = next /\ k + 1 \in 1 .. m
      BY <1>1, <1>3, <1>7
    <3>2. next[q[k + 1]] = IF k = m - 1 THEN NULL ELSE q[(k + 1) + 1]
      BY <1>6, <1>7, <3>1
    <3>3. k # m - 1 => k + 1 \in 1 .. m - 1
      BY <1>2
    <3>4. k # m - 1 => p[k + 1] = q[(k + 1) + 1]
      BY <1>3, <3>3
    <3>5. QED
      BY <3>1, <3>2, <3>4
  <2>5. QED
    BY <1>3, <2>1, <2>2, <2>3, <2>4 DEF Chain
<1>9. \A k, l \in 1 .. m : thread[q[k]] = thread[q[l]] => k = l
  BY DEF Whole, OncePerThread, m
<1>10. \A u \in Thread : OnList(p, u)' <=> OnList(q, u) /\ u # thread[head]
  <2>1. \A u \in Thread : OnList(p, u)' <=> \E k \in 1 .. m - 1 : thread[q[k + 1]] = u
    BY <1>1, <1>3 DEF OnList
  <2>2. \A u \in Thread : OnList(q, u) <=> \E k \in 1 .. m : thread[q[k]] = u
    BY DEF OnList, m
  <2>3. 1 \in 1 .. m /\ \A k \in 1 .. m : k # 1 => k - 1 \in 1 .. m - 1 /\ (k - 1) + 1 = k
    BY <1>2
  <2>4. ASSUME NEW u \in Thread, NEW k \in 1 .. m - 1, thread[q[k + 1]] = u
        PROVE  (\E l \in 1 .. m : thread[q[l]] = u) /\ u # thread[head]
    BY <1>6, <1>7, <1>9, <2>3, <2>4
  <2>5. ASSUME NEW u \in Thread, u # thread[head], NEW k \in 1 .. m, thread[q[k]] = u
        PROVE  \E l \in 1 .. m - 1 : thread[q[l + 1]] = u
    <3>1. k # 1
      BY <1>6, <2>5
    <3>2. k - 1 \in 1 .. m - 1 /\ (k - 1) + 1 = k
      BY <2>3, <3>1
    <3>3. thread[q[(k - 1) + 1]] = u
      BY <2>5, <3>2
    <3>4. QED
      BY <3>2, <3>3
  <2>6. QED
    BY <2>1, <2>2, <2>4, <2>5
<1>11. \A u \in Thread : ~Picked(u) /\ (Picked(u)' <=> u = thread[head])
  BY <1>1, <1>4, <1>5, <1>6 DEF Picked
<1>12. \A u \in Thread : Elsewhere(u)' <=> Elsewhere(u) \/ u = thread[head]
  BY <1>1, <1>5, <1>11 DEF Elsewhere, Resumed
<1>13. ~Elsewhere(thread[head]) /\ thread[head] \in Thread
  <2>1. thread[head] \in Thread
    BY QueueFacts DEF Whole, IInv, TypeOK
  <2>2. OnList(q, thread[head])
    <3>1. 1 \in 1 .. m /\ thread[q[1]] = thread[head]
      BY <1>2, <1>6
    <3>2. QED
      BY <3>1 DEF OnList, m
  <2>3. QED
    BY <2>1, <2>2 DEF Whole, OncePerThread
<1>14. OncePerThread(p)'
  <2>1. \A u \in Thread : OnList(p, u)' <=> ~Elsewhere(u)'
    BY <1>10, <1>12 DEF Whole, OncePerThread
  <2>2. \A u \in Thread : Picked(u)' => u \notin returned'
    BY <1>1, <1>11, <1>13 DEF Elsewhere
  <2>3. ASSUME NEW k \in 1 .. m - 1, NEW l \in 1 .. m - 1, thread'[p[k]] = thread'[p[l]] PROVE k = l
    <3>1. thread[q[k + 1]] = thread[q[l + 1]] /\ k + 1 \in 1 .. m /\ l + 1 \in 1 .. m
      BY <1>1, <1>3, <1>7, <2>3
    <3>2. k + 1 = l + 1
      BY <1>9, <3>1
    <3>3. QED
      BY <1>2, <3>2
  <2>4. QED
    BY <1>3, <2>1, <2>2, <2>3 DEF OncePerThread
<1>15. TailOf(p)'
  <2>1. m - 1 \in 1 .. m - 1 /\ (m - 1) + 1 = m
    BY <1>2
  <2>2. p[m - 1] = q[m]
    BY <1>3, <2>1
  <2>3. QED
    BY <1>1, <1>3, <1>5, <1>6, <2>2 DEF TailOf
<1>16. OwnNodes(p)'
  <2>1. \A u \in Thread : Place(u)' \in Adding => u # t /\ Place(u) = Place(u)'
    BY <1>5 DEF Adding
  <2>2. \A u \in Thread : Place(u) \in Adding =>
          \A k \in 1 .. m : q[k] = local[u].new => Place(u) = "load" /\ thread[q[k]] = u
    BY DEF Whole, OwnNodes, m
  <2>3. \A u \in Thread : Place(u)' \in Adding =>
          \A k \in 1 .. m - 1 : p[k] = local'[u].new => Place(u)' = "load" /\ thread'[p[k]] = u
    <3>1. ASSUME NEW u \in Thread, Place(u)' \in Adding, NEW k \in 1 .. m - 1, p[k] = local'[u].new
          PROVE  Place(u)' = "load" /\ thread'[p[k]] = u
      <4>1. Place(u) \in Adding /\ Place(u)' = Place(u)
        BY <2>1, <3>1
      <4>2. k + 1 \in 1 .. m /\ p[k] = q[k + 1] /\ q[k + 1] = local[u].new
        BY <1>3, <1>4, <1>7, <3>1
      <4>3. QED
        BY <1>1, <2>2, <4>1, <4>2
    <3>2. QED
      BY <3>1
  <2>4. QED
    BY <1>1, <1>3, <1>4, <2>1, <2>3 DEF Whole, OwnNodes
<1>17. UpToDate'
  BY <1>1, <1>5 DEF Whole, UpToDate
<1>18. PoolNew(p)'
  <2>1. \A u \in Thread : Place(u)' \in Adding => Place(u) \in Adding
    BY <1>5 DEF Adding
  <2>2. PoolNew(q) /\ \A k \in 1 .. m : q[k] # start_address[1]
    BY DEF Whole, PoolNew, m
  <2>3. \A k \in 1 .. Len(p) : p[k] # start_address[1]
    BY <1>3, <1>7, <2>2
  <2>4. pc[current_thread] \notin {"load", "move"} /\ pc'[current_thread'] # "move"
    BY <1>1, <1>5
  <2>5. QED
    BY <1>1, <1>4, <2>1, <2>2, <2>3, <2>4, PoolStays
<1>19. Whole(p)'
  BY <1>1, <1>8, <1>14, <1>15, <1>16, <1>17, <1>18 DEF Whole
<1>20. \A k \in 1 .. m - 1 : thread'[p[k]] = thread[q[k + 1]]
  BY <1>1, <1>3
<1>21. QED
  BY <1>3, <1>19, <1>20 DEF m

\* After a switch to it a thread runs its function, or comes out of its yield or
\* its interrupt.
LEMMA SwitchedPlaces ==
  ASSUME IInv, NEW t \in Thread, t = current_thread,
         NEW to \in Thread, NEW saved \in {"away", "preempted"},
         SwitchTo(t, to, saved)
  PROVE  /\ pc'[to] \in {"burst", "back", "handler"}
         /\ \A u \in Thread \ {t} :
              /\ pc'[u] \in {"preempted", "handler"} <=> pc[u] \in {"preempted", "handler"}
              /\ pc'[u] = pc[u] \/ pc'[u] \in {"burst", "back", "handler"}
         /\ pc'[t] \in {"preempted", "handler"} <=> saved = "preempted"
         /\ pc'[t] \in {saved, "back", "handler"}
<1> DEFINE out == [pc EXCEPT ![t] = saved]
<1>1. pc' = [out EXCEPT ![to] = LoadedAt(out[to])]
  BY DEF SwitchTo
<1>2. out \in [Thread -> PC] /\ out[to] \in {"new", "away", "preempted"}
  BY DEF IInv, TypeOK, OneRuns, PC
<1>3. LoadedAt(out[to]) \in {"burst", "back", "handler"}
  BY <1>2, LoadedPlaces
<1>4. pc'[to] = LoadedAt(out[to])
  BY <1>1, <1>2
<1>5. TypeOK /\ OneRuns
  BY DEF IInv
<1>6. /\ \A u \in Thread \ {t} :
           /\ pc'[u] \in {"preempted", "handler"} <=> pc[u] \in {"preempted", "handler"}
           /\ pc'[u] = pc[u] \/ pc'[u] \in {"burst", "back", "handler"}
      /\ pc'[t] \in {"preempted", "handler"} <=> saved = "preempted"
      /\ pc'[t] \in {saved, "back", "handler"}
  BY <1>5, Switched
<1>7. QED
  BY <1>3, <1>4, <1>6

LEMMA DispatchKeeps ==
  ASSUME IInv, NEW q \in Seq(Node), Whole(q), NEW t \in Thread, Dispatch(t)
  PROVE  Keeps
<1>0. PICK to : to = thread[local[t].node]
  OBVIOUS
<1>1. /\ current_thread = t /\ pc[t] = "dispatch" /\ ~fault
      /\ SwitchTo(t, to, "away") /\ local' = [local EXCEPT ![t].node = NULL]
      /\ UNCHANGED <<listVars, interrupted, returned, fault>>
  BY <1>0 DEF Dispatch, Runs, history
<1>2. to \in Thread
  BY <1>0, <1>1 DEF IInv, TypeOK, LocalsSet, Place, Taken
<1>3. \A u \in Thread : Picked(u) <=> u = to
  BY <1>0, <1>1 DEF Picked
<1>4. /\ current_thread' = to /\ pc'[to] \in {"burst", "back", "handler"}
      /\ \A u \in Thread \ {t} :
           /\ pc'[u] \in {"preempted", "handler"} <=> pc[u] \in {"preempted", "handler"}
           /\ pc'[u] = pc[u] \/ pc'[u] \in {"burst", "back", "handler"}
      /\ pc'[t] \notin {"preempted", "handler"}
      /\ pc'[t] \in {"away", "back", "handler"}
  <2>1. current_thread' = to
    BY <1>1 DEF SwitchTo
  <2>2. QED
    BY <1>1, <1>2, <2>1, SwitchedPlaces
<1>5. \A u \in Thread : ~Picked(u)' /\ (Elsewhere(u)' <=> Elsewhere(u))
  BY <1>1, <1>3, <1>4 DEF Elsewhere, Picked, Resumed
<1>6. \A u \in Thread : Place(u)' \in Adding => u # t /\ Place(u)' = Place(u)
  BY <1>1, <1>4 DEF Place, Adding
<1>7. \A u \in Thread : local'[u].new = local[u].new /\ local'[u].pool = local[u].pool
  BY <1>1 DEF IInv, TypeOK, Local
<1>8. Chain(q)'
  BY <1>1 DEF Whole, Chain, listVars
<1>9. OncePerThread(q)'
  BY <1>1, <1>5 DEF Whole, OncePerThread, OnList, listVars
<1>10. TailOf(q)'
  BY <1>1, <1>4 DEF Whole, TailOf, listVars
<1>11. OwnNodes(q)'
  BY <1>1, <1>6, <1>7 DEF Whole, OwnNodes, listVars
<1>12. UpToDate'
  <2>1. Inside' = Inside
    BY <1>1, <1>4 DEF Inside
  <2>2. to \notin returned
    BY <1>2, <1>3 DEF Whole, OncePerThread
  <2>3. QED
    BY <1>1, <1>4, <2>1, <2>2 DEF Whole, UpToDate
<1>13. PoolNew(q)'
  <2>1. PoolNew(q) /\ \A k \in 1 .. Len(q) : q[k] # start_address[1]
    BY DEF Whole, PoolNew
  <2>2. pc[current_thread] \notin {"load", "move"} /\ pc'[current_thread'] # "move"
    BY <1>1, <1>4
  <2>3. QED
    BY <1>1, <1>6, <1>7, <2>1, <2>2, PoolStays DEF listVars
<1>14. QED
  BY <1>1, <1>8, <1>9, <1>10, <1>11, <1>12, <1>13 DEF Keeps, Whole

LEMMA HandlerReturnKeeps ==
  ASSUME IInv, NEW q \in Seq(Node), Whole(q), NEW t \in Thread, HandlerReturn(t)
  PROVE  Keeps
<1>1. /\ pc \in [Thread -> PC] /\ interrupted \in [Thread -> Preemptible]
      /\ t = current_thread /\ pc[t] = "handler" /\ ~fault
      /\ pc' = [pc EXCEPT ![t] = interrupted[t]]
      /\ interrupted' = [interrupted EXCEPT ![t] = "burst"]
      /\ UNCHANGED <<listVars, current_thread, local, returned, fault>>
  BY DEF HandlerReturn, Runs, Goto, IInv, TypeOK, history
<1>2. interrupted[t] \in Harmless /\ t \notin returned
  BY <1>1 DEF Whole, UpToDate, Inside
<1>3. /\ pc'[t] = interrupted[t]
      /\ \A u \in Thread \ {t} : pc'[u] = pc[u] /\ interrupted'[u] = interrupted[u]
  BY <1>1
<1>4. \A u \in Thread : Place(u)' = Place(u)
  BY <1>1, <1>2, <1>3 DEF Place, Harmless
<1>5. \A u \in Thread : ~Picked(u) /\ ~Picked(u)' /\ (Elsewhere(u)' <=> Elsewhere(u))
  BY <1>1, <1>2, <1>3 DEF Elsewhere, Picked, Resumed, Harmless
<1>6. Chain(q)'
  BY <1>1 DEF Whole, Chain, listVars
<1>7. OncePerThread(q)'
  BY <1>1, <1>5 DEF Whole, OncePerThread, OnList, listVars
<1>8. TailOf(q)'
  BY <1>1, <1>2, <1>3 DEF Whole, TailOf, listVars, Harmless
<1>9. OwnNodes(q)'
  BY <1>1, <1>4 DEF Whole, OwnNodes, listVars
<1>10. UpToDate'
  <2>1. \A u \in Inside' : u \in Inside /\ u # t
    BY <1>2, <1>3 DEF Inside, Harmless
  <2>2. QED
    BY <1>1, <1>2, <1>3, <2>1 DEF Whole, UpToDate, Harmless
<1>11. PoolNew(q)'
  <2>1. PoolNew(q) /\ \A k \in 1 .. Len(q) : q[k] # start_address[1]
    BY DEF Whole, PoolNew
  <2>2. pc[current_thread] \notin {"load", "move"} /\ pc'[current_thread'] # "move"
    BY <1>1, <1>2, <1>3 DEF Harmless
  <2>3. QED
    BY <1>1, <1>4, <2>1, <2>2, PoolStays DEF listVars
<1>12. QED
  BY <1>1, <1>6, <1>7, <1>8, <1>9, <1>10, <1>11 DEF Keeps, Whole

\* What Whole speaks of.
LEMMA NothingChanges ==
  ASSUME NEW q \in Seq(Node), Whole(q),
         UNCHANGED <<listVars, current_thread, pc, interrupted, local, returned, fault>>
  PROVE  Keeps
<1>1. /\ \A u \in Thread : (Elsewhere(u)' <=> Elsewhere(u)) /\ (Picked(u)' <=> Picked(u))
      /\ \A u \in Thread : Place(u)' = Place(u)
      /\ Inside' = Inside
  BY DEF Elsewhere, Picked, Resumed, Place, Inside, listVars
<1>2. Chain(q)'
  BY DEF Whole, Chain, listVars
<1>3. OncePerThread(q)'
  BY <1>1 DEF Whole, OncePerThread, OnList, listVars
<1>4. TailOf(q)'
  BY DEF Whole, TailOf, listVars
<1>5. OwnNodes(q)'
  BY <1>1 DEF Whole, OwnNodes, listVars
<1>6. UpToDate'
  BY <1>1 DEF Whole, UpToDate, listVars
<1>7. PoolNew(q)'
  BY <1>1 DEF Whole, PoolNew, listVars
<1>8. QED
  BY <1>2, <1>3, <1>4, <1>5, <1>6, <1>7 DEF Keeps, Whole

LEMMA PreemptKeeps ==
  ASSUME IInv, NEW q \in Seq(Node), Whole(q), torn = 0,
         NEW t \in Thread, Preempt(t), torn' = 0
  PROVE  /\ \E p \in Seq(Node) :
              /\ Whole(p)' /\ Len(p) = Len(q)
              /\ \A k \in 1 .. Len(q) - 1 : thread'[p[k]] = thread[q[k + 1]]
              /\ thread'[p[Len(q)]] = t
         /\ pc[t] \in Harmless /\ t = current_thread
         /\ current_thread' = thread[q[1]]
         /\ pc'[current_thread'] \in {"burst", "back", "handler"}
<1> DEFINE m == Len(q)
<1>0. PICK n, linked, filled :
        /\ n = Head(start_address)
        /\ linked = [Wiped(next, NULL) EXCEPT ![n] = NULL, ![tail] = n]
        /\ filled = [Wiped(thread, Start[1]) EXCEPT ![n] = t]
  OBVIOUS
<1>1. /\ t = current_thread /\ pc[t] \in Preemptible /\ ~in_service /\ ~fault
      /\ Room(start_address) /\ start_address' = Behind(start_address)
      /\ local' = Seen(local, start_address)
      /\ thread' = filled /\ next' = linked /\ tail' = n
      /\ torn' = IF torn = 0 /\ pc[t] \in Harmless THEN 0 ELSE torn + 1
      /\ interrupted' = [interrupted EXCEPT ![t] = pc[t]]
      /\ head # NULL => head' = linked[head] /\ SwitchTo(t, filled[head], "preempted") /\ fault' = fault
      /\ UNCHANGED returned
  BY <1>0 DEF Preempt, Interruptible
<1>2. pc[t] \in Harmless
  BY <1>1, RRAssumption
<1>3. /\ n = start_address[1] /\ n \in Node /\ start_address \in Seq(Node)
      /\ Len(start_address) = 1
      /\ \A k \in 1 .. m : q[k] # n
      /\ \A u \in Thread : Place(u) \in Adding /\ local[u].new = n => u = t /\ pc[u] = "load"
      /\ \A u \in Thread : local[u].pool = <<>>
  <2>1. start_address \in Seq(Node) \ {<<>>}
    BY DEF IInv, TypeOK
  <2>2. PoolNew(q)
    BY DEF Whole
  <2>3. n = start_address[1] /\ n \in Node
    BY <1>0, <2>1
  <2>4. \A u \in Thread : Place(u) \in Adding /\ local[u].new = n => u = t /\ pc[u] = "load"
    BY <1>1, <1>2, <2>2, <2>3 DEF PoolNew, Harmless
  <2>5. \A u \in Thread : local[u].pool = <<>>
    BY <1>1, <1>2, <2>2 DEF PoolNew, Harmless
  <2>6. QED
    BY <2>1, <2>2, <2>3, <2>4, <2>5 DEF PoolNew
<1>4. Fresh \in Unused /\ start_address' = <<Fresh>>
  <2>1. Unused # {} /\ ~(Len(start_address) > 1)
    BY <1>1, <1>3 DEF Room
  <2>2. QED
    BY <1>1, <2>1, FreshIsNode DEF Behind
<1>5. \A u \in Thread : local'[u].new = local[u].new /\ local'[u].pool = <<>>
  <2>1. local \in [Thread -> Local]
    BY DEF IInv, TypeOK
  <2>2. \A u \in Thread :
          /\ Seen(local, start_address)[u].new = local[u].new
          /\ local[u].pool = <<>> => Seen(local, start_address)[u].pool = <<>>
    BY <1>1, <1>3, <2>1, SeenFacts, Zenon
  <2>3. local' = Seen(local, start_address)
    BY <1>1
  <2>4. \A u \in Thread : local[u].pool = <<>>
    BY <1>3
  <2>5. QED
    BY <2>2, <2>3, <2>4
<1>6. /\ \A k \in 1 .. m : q[k] \notin Unused
      /\ \A u \in Thread : local[u].new \notin Unused
      /\ n \notin Unused
  BY <1>3, InUse DEF Whole, IInv
<1>7. n # tail
  BY <1>1, <1>2, <1>3, QueueFacts DEF Whole, TailOf, Harmless
<1>8. /\ m \in Nat /\ m > 0 /\ q \in [1 .. m -> Node] /\ head \in Node /\ head # NULL
  BY QueueFacts DEF Whole
<1> HIDE DEF m
<1>9. /\ \A k, l \in 1 .. m : q[k] = q[l] => k = l
      /\ head = q[1] /\ tail = q[m]
      /\ \A k \in 1 .. m : next[q[k]] = IF k = m THEN NULL ELSE q[k + 1]
  BY <1>1, <1>2 DEF Whole, Chain, TailOf, m, Harmless
<1>10. /\ thread'[n] = t /\ next'[n] = NULL /\ next'[tail] = n
       /\ \A x \in Node \ Unused : x # n => thread'[x] = thread[x]
       /\ \A x \in Node \ Unused : x # n /\ x # tail => next'[x] = next[x]
  <2>1. /\ Wiped(thread, Start[1]) \in [Node -> Thread]
        /\ Wiped(next, NULL) \in [Node -> Node \cup {NULL}]
        /\ \A x \in Node \ Unused : /\ Wiped(thread, Start[1])[x] = thread[x]
                                   /\ Wiped(next, NULL)[x] = next[x]
    BY WipedFacts DEF IInv
  <2>2. tail \in Node
    BY DEF IInv, TypeOK
  <2>3. QED
    BY <1>0, <1>1, <1>3, <1>7, <2>1, <2>2
<1>11. PICK to : to = thread[head]
  OBVIOUS
<1>12. /\ head # n /\ filled[head] = to /\ head' = next'[head] /\ to \in Thread
       /\ SwitchTo(t, to, "preempted") /\ current_thread' = to /\ ~fault'
  <2>1. head # n /\ head \notin Unused
    BY <1>3, <1>6, <1>8, <1>9
  <2>2. filled[head] = to /\ head' = next'[head] /\ to \in Thread
    BY <1>1, <1>8, <1>10, <1>11, <2>1 DEF IInv, TypeOK
  <2>3. QED
    BY <1>1, <1>8, <2>1, <2>2 DEF SwitchTo
<1>13. /\ t \notin returned
       /\ ~OnList(q, t)
       /\ \A u \in Thread : ~Picked(u)
       /\ \A u \in Thread : Elsewhere(u) <=> u \in returned \/ u = t
  <2>1. t \notin returned /\ \A u \in Thread : ~Picked(u)
    BY <1>1, <1>2 DEF Whole, UpToDate, Picked, Harmless
  <2>2. \A u \in Thread : Elsewhere(u) <=> u \in returned \/ u = t
    BY <1>1, <1>2, <2>1 DEF Elsewhere, Resumed, Harmless
  <2>3. QED
    BY <2>1, <2>2 DEF Whole, OncePerThread
<1>14. OnList(q, to) /\ to # t /\ to \notin returned
  <2>1. 1 \in 1 .. m /\ thread[q[1]] = to
    BY <1>8, <1>9, <1>11
  <2>2. OnList(q, to)
    BY <2>1 DEF OnList, m
  <2>3. QED
    BY <1>12, <1>13, <2>2 DEF Whole, OncePerThread
<1>15. /\ pc'[to] \in {"burst", "back", "handler"}
       /\ \A u \in Thread \ {t} :
            /\ pc'[u] \in {"preempted", "handler"} <=> pc[u] \in {"preempted", "handler"}
            /\ pc'[u] = pc[u] \/ pc'[u] \in {"burst", "back", "handler"}
       /\ pc'[t] \in {"preempted", "handler"}
  BY <1>1, <1>12, SwitchedPlaces
<1>16. \A u \in Thread : ~Picked(u)' /\ (Elsewhere(u)' <=> u \in returned \/ u = to)
  BY <1>1, <1>12, <1>15 DEF Elsewhere, Picked, Resumed
\* The list afterwards: q with n at its end and without its first node.
<1>17. PICK p \in Seq(Node) : /\ Len(p) = m /\ p[m] = n
                              /\ \A k \in 1 .. m - 1 : p[k] = q[k + 1]
  <2>1. PICK r \in Seq(Node) : Len(r) = m - 1 /\ \A k \in 1 .. m - 1 : r[k] = q[k + 1]
    <3>1. q # <<>>
      BY DEF Whole, Chain
    <3>2. QED
      BY <3>1, TailFacts DEF m
  <2>2. Append(r, n) \in Seq(Node) /\ Len(Append(r, n)) = m /\ Append(r, n)[m] = n
    BY <1>3, <1>8, <2>1
  <2>3. \A k \in 1 .. m - 1 : Append(r, n)[k] = q[k + 1]
    BY <1>3, <1>8, <2>1
  <2>4. QED
    BY <2>2, <2>3
<1>18. /\ \A k \in 1 .. m - 1 : k \in 1 .. m /\ k + 1 \in 1 .. m /\ k + 1 # 1 /\ (k + 1 = m <=> k = m - 1)
       /\ \A k \in 1 .. m : k = m \/ k \in 1 .. m - 1
       /\ 1 \in 1 .. m /\ m \in 1 .. m
       /\ \A k \in 1 .. m : k # 1 => k - 1 \in 1 .. m - 1 /\ (k - 1) + 1 = k
  BY <1>8
<1>19. Chain(p)'
  <2>1. p # <<>>
    BY <1>8, <1>17
  <2>2. ASSUME NEW k \in 1 .. m, NEW l \in 1 .. m, p[k] = p[l] PROVE k = l
    <3>1. CASE k \in 1 .. m - 1 /\ l \in 1 .. m - 1
      <4>1. q[k + 1] = q[l + 1] /\ k + 1 \in 1 .. m /\ l + 1 \in 1 .. m
        BY <1>17, <1>18, <2>2, <3>1
      <4>2. k + 1 = l + 1
        BY <1>9, <4>1
      <4>3. QED
        BY <1>8, <4>2
    <3>2. ASSUME NEW x \in 1 .. m - 1 PROVE p[x] # n
      <4>1. x + 1 \in 1 .. m /\ p[x] = q[x + 1]
        BY <1>17, <1>18
      <4>2. QED
        BY <1>3, <4>1
    <3>3. QED
      BY <1>17, <1>18, <2>2, <3>1, <3>2
  <2>3. head' = p[1]
    <3>1. CASE m = 1
      BY <1>9, <1>10, <1>12, <1>17, <3>1
    <3>2. CASE m # 1
      <4>1. 1 \in 1 .. m - 1
        BY <1>8, <3>2
      <4>2. head # tail /\ next[head] = q[1 + 1]
        BY <1>9, <1>18, <3>2
      <4>3. head \in Node \ Unused /\ head # n
        BY <1>6, <1>8, <1>9, <1>12, <1>18
      <4>4. QED
        BY <1>10, <1>12, <1>17, <4>1, <4>2, <4>3
    <3>3. QED
      BY <3>1, <3>2
  <2>4. ASSUME NEW k \in 1 .. m
        PROVE  next'[p[k]] = IF k = m THEN NULL ELSE p[k + 1]
    <3>1. CASE k = m
      BY <1>10, <1>17, <3>1
    <3>2. CASE k = m - 1 /\ k # m
      <4>1. k \in 1 .. m - 1 /\ k + 1 = m
        BY <1>8, <1>18, <3>2
      <4>2. p[k] = tail /\ p[k + 1] = n
        BY <1>9, <1>17, <4>1
      <4>3. QED
        BY <1>10, <3>2, <4>2
    <3>3. CASE k # m /\ k # m - 1
      <4>1. k \in 1 .. m - 1 /\ k + 1 \in 1 .. m - 1 /\ k + 1 # m /\ k + 1 \in 1 .. m
        BY <1>8, <3>3
      <4>2. p[k] = q[k + 1] /\ p[k + 1] = q[(k + 1) + 1]
        BY <1>17, <4>1
      <4>3. /\ q[k + 1] \in Node \ Unused /\ q[k + 1] # n /\ q[k + 1] # tail
            /\ next[q[k + 1]] = q[(k + 1) + 1]
        BY <1>3, <1>6, <1>8, <1>9, <1>18, <4>1
      <4>4. QED
        BY <1>10, <3>3, <4>2, <4>3
    <3>4. QED
      BY <3>1, <3>2, <3>3
  <2>5. QED
    BY <1>17, <2>1, <2>2, <2>3, <2>4 DEF Chain
<1>20. /\ \A k \in 1 .. m - 1 : p[k] \in Node \ {n} /\ thread'[p[k]] = thread[q[k + 1]]
       /\ thread'[p[m]] = t
  <2>1. \A k \in 1 .. m - 1 : p[k] = q[k + 1] /\ q[k + 1] \in Node \ Unused /\ q[k + 1] # n
    BY <1>3, <1>6, <1>8, <1>17, <1>18
  <2>2. QED
    BY <1>10, <1>17, <2>1
<1>21. /\ \A k, l \in 1 .. m : thread[q[k]] = thread[q[l]] => k = l
       /\ \A k \in 1 .. m : thread[q[k]] # t
  BY <1>13 DEF Whole, OncePerThread, OnList, m
<1>22. \A u \in Thread : OnList(p, u)' <=> u = t \/ (OnList(q, u) /\ u # to)
  <2>1. \A u \in Thread : OnList(p, u)' <=> \E k \in 1 .. m : thread'[p[k]] = u
    BY <1>17 DEF OnList
  <2>2. \A u \in Thread : OnList(q, u) <=> \E k \in 1 .. m : thread[q[k]] = u
    BY DEF OnList, m
  <2>3. ASSUME NEW u \in Thread, NEW k \in 1 .. m, thread'[p[k]] = u, u # t
        PROVE  (\E l \in 1 .. m : thread[q[l]] = u) /\ u # to
    <3>1. k \in 1 .. m - 1
      BY <1>18, <1>20, <2>3
    <3>2. thread[q[k + 1]] = u /\ k + 1 \in 1 .. m /\ k + 1 # 1
      BY <1>18, <1>20, <2>3, <3>1
    <3>3. thread[q[1]] = to
      BY <1>9, <1>11
    <3>4. u # to
      BY <1>18, <1>21, <3>2, <3>3
    <3>5. QED
      BY <3>2, <3>4
  <2>4. ASSUME NEW u \in Thread, u # to, NEW k \in 1 .. m, thread[q[k]] = u
        PROVE  \E l \in 1 .. m : thread'[p[l]] = u
    <3>1. k # 1
      BY <1>9, <1>11, <2>4
    <3>2. k - 1 \in 1 .. m - 1 /\ (k - 1) + 1 = k
      BY <1>18, <3>1
    <3>3. thread'[p[k - 1]] = u /\ k - 1 \in 1 .. m
      BY <1>18, <1>20, <2>4, <3>2
    <3>4. QED
      BY <3>3
  <2>5. \E l \in 1 .. m : thread'[p[l]] = t
    BY <1>18, <1>20
  <2>6. QED
    BY <2>1, <2>2, <2>3, <2>4, <2>5
<1>23. OncePerThread(p)'
  <2>1. \A u \in Thread : OnList(p, u)' <=> ~Elsewhere(u)'
    BY <1>13, <1>14, <1>16, <1>22 DEF Whole, OncePerThread
  <2>2. ASSUME NEW k \in 1 .. m, NEW l \in 1 .. m, thread'[p[k]] = thread'[p[l]] PROVE k = l
    <3>1. CASE k \in 1 .. m - 1 /\ l \in 1 .. m - 1
      <4>1. thread[q[k + 1]] = thread[q[l + 1]] /\ k + 1 \in 1 .. m /\ l + 1 \in 1 .. m
        BY <1>18, <1>20, <2>2, <3>1
      <4>2. k + 1 = l + 1
        BY <1>21, <4>1
      <4>3. QED
        BY <1>8, <4>2
    <3>2. ASSUME NEW x \in 1 .. m - 1 PROVE thread'[p[x]] # t
      <4>1. x + 1 \in 1 .. m /\ thread'[p[x]] = thread[q[x + 1]]
        BY <1>18, <1>20
      <4>2. QED
        BY <1>21, <4>1
    <3>3. QED
      BY <1>18, <1>20, <2>2, <3>1, <3>2
  <2>3. QED
    BY <1>16, <1>17, <2>1, <2>2 DEF OncePerThread
<1>24. TailOf(p)'
  BY <1>1, <1>12, <1>15, <1>17 DEF TailOf
<1>25. \A u \in Thread : Place(u)' \in Adding => Place(u)' = Place(u)
  <2>1. Place(t) = pc[t] /\ Place(t)' = pc[t]
    BY <1>1, <1>2, <1>15 DEF Place, Harmless, IInv, TypeOK
  <2>2. ASSUME NEW u \in Thread \ {t}, Place(u)' \in Adding PROVE Place(u)' = Place(u)
    <3>1. interrupted'[u] = interrupted[u]
      BY <1>1 DEF IInv, TypeOK
    <3>2. QED
      BY <1>15, <2>2, <3>1 DEF Place, Adding
  <2>3. QED
    BY <2>1, <2>2
<1>26. OwnNodes(p)'
  <2>1. ASSUME NEW u \in Thread, Place(u)' \in Adding
        PROVE  /\ \A k \in 1 .. m : p[k] = local[u].new => Place(u) = "load" /\ thread'[p[k]] = u
               /\ Place(u) \in {"last", "link"} => thread'[local[u].new] = u /\ next'[local[u].new] = NULL
               /\ \A v \in Thread \ {u} : Place(v)' \in Adding => local[v].new # local[u].new
    <3>1. Place(u) \in Adding /\ Place(u)' = Place(u) /\ local[u].new \in Node
      BY <1>1, <1>25, <2>1 DEF IInv, LocalsSet, Added, Adding
    <3>2. /\ \A k \in 1 .. m : q[k] = local[u].new => Place(u) = "load" /\ thread[q[k]] = u
          /\ Place(u) \in {"last", "link"} => thread[local[u].new] = u /\ next[local[u].new] = NULL
      BY <3>1 DEF Whole, OwnNodes, m
    <3>3. n = local[u].new => u = t /\ Place(u) = "load"
      <4>1. \A v \in Thread : Place(v) \in Adding /\ local[v].new = n => v = t /\ pc[v] = "load"
        BY <1>3
      <4>2. n = local[u].new => u = t /\ pc[u] = "load"
        BY <3>1, <4>1
      <4>3. QED
        BY <4>2 DEF Place
    <3>4. \A k \in 1 .. m - 1 : p[k] = local[u].new => Place(u) = "load" /\ thread'[p[k]] = u
      <4>1. ASSUME NEW k \in 1 .. m - 1, p[k] = local[u].new
            PROVE  Place(u) = "load" /\ thread'[p[k]] = u
        <5>1. k + 1 \in 1 .. m /\ q[k + 1] = local[u].new /\ thread'[p[k]] = thread[q[k + 1]]
          BY <1>17, <1>18, <1>20, <4>1
        <5>2. QED
          BY <3>2, <5>1
      <4>2. QED
        BY <4>1
    <3>5. p[m] = local[u].new => Place(u) = "load" /\ thread'[p[m]] = u
      BY <1>17, <1>20, <3>3
    <3>6. Place(u) \in {"last", "link"} =>
            local[u].new \in Node \ Unused /\ local[u].new # n /\ local[u].new # tail
      BY <1>6, <1>9, <1>18, <3>1, <3>2, <3>3
    <3>7. Place(u) \in {"last", "link"} => thread'[local[u].new] = u /\ next'[local[u].new] = NULL
      BY <1>10, <3>2, <3>6
    <3>8. \A v \in Thread \ {u} : Place(v)' \in Adding => local[v].new # local[u].new
      BY <1>25, <3>1 DEF Whole, OwnNodes
    <3>9. QED
      BY <1>18, <3>4, <3>5, <3>7, <3>8
  <2>2. QED
    BY <1>5, <1>17, <1>25, <2>1 DEF OwnNodes
<1>27. PoolNew(p)'
  <2>1. ASSUME NEW k \in 1 .. m PROVE p[k] # Fresh
    <3>1. CASE k = m
      BY <1>4, <1>6, <1>17, <3>1
    <3>2. CASE k \in 1 .. m - 1
      <4>1. k + 1 \in 1 .. m /\ p[k] = q[k + 1]
        BY <1>17, <1>18, <3>2
      <4>2. q[k + 1] \notin Unused
        BY <1>6, <4>1
      <4>3. QED
        BY <1>4, <4>1, <4>2
    <3>3. QED
      BY <1>18, <3>1, <3>2
  <2>2. \A u \in Thread : local'[u].new # Fresh
    <3>1. /\ \A u \in Thread : local'[u].new = local[u].new
          /\ \A u \in Thread : local[u].new \notin Unused
          /\ Fresh \in Unused
      BY <1>4, <1>5, <1>6
    <3>2. QED
      BY <3>1
  <2>3. pc'[current_thread'] # "move"
    BY <1>12, <1>15
  <2>4. QED
    BY <1>4, <1>5, <1>17, <2>1, <2>2, <2>3 DEF PoolNew
<1>28. UpToDate'
  <2>1. Inside = {}
    BY <1>1 DEF IInv, OneInHandler
  <2>2. \A u \in Inside' : u = t
    BY <1>15, <2>1 DEF Inside
  <2>3. interrupted'[t] \in Harmless
    BY <1>1, <1>2 DEF IInv, TypeOK
  <2>4. QED
    BY <1>1, <1>12, <1>14, <1>15, <2>2, <2>3 DEF UpToDate
<1>29. Whole(p)'
  BY <1>12, <1>19, <1>23, <1>24, <1>26, <1>27, <1>28 DEF Whole
<1>30. /\ \A k \in 1 .. m - 1 : thread'[p[k]] = thread[q[k + 1]]
       /\ thread'[p[m]] = t
  BY <1>20
<1>31. \E r \in Seq(Node) :
         /\ Whole(r)' /\ Len(r) = m
         /\ \A k \in 1 .. m - 1 : thread'[r[k]] = thread[q[k + 1]]
         /\ thread'[r[m]] = t
  BY <1>17, <1>29, <1>30
<1>32. current_thread' = thread[q[1]]
  BY <1>9, <1>11, <1>12
<1>33. QED
  BY <1>1, <1>2, <1>12, <1>15, <1>31, <1>32 DEF m

------------------------------------------------------------------------------

LEMMA InitWhole ==
  ASSUME Init
  PROVE  \E q \in Seq(Node) : /\ Whole(q) /\ Len(q) = Len(Start) - 1
                              /\ \A k \in 1 .. Len(q) : thread[q[k]] = Start[k + 1]
<1>1. PICK m : m = Len(Start) - 1
  OBVIOUS
<1>2. m \in Nat /\ m > 0 /\ m + 1 = Len(Start) /\ m + 1 <= MaxNode /\ MaxNode \in Nat
  BY <1>1, RRAssumption
<1>3. PICK q \in Seq(Node) : Len(q) = m /\ \A k \in 1 .. m : q[k] = k
  <2>1. [k \in 1 .. m |-> k] \in Seq(Node) /\ Len([k \in 1 .. m |-> k]) = m
    BY <1>2 DEF Node
  <2>2. QED
    BY <2>1
<1>4. /\ head = 1 /\ tail = m /\ current_thread = Start[1] /\ ~fault /\ returned = {}
      /\ \A k \in 1 .. m : /\ k \in Node /\ k + 1 \in 1 .. Len(Start)
                           /\ thread[k] = Start[k + 1]
                           /\ next[k] = IF k = m THEN NULL ELSE k + 1
  BY <1>1, <1>2 DEF Init, Node
<1>5. /\ pc = [t \in Thread |-> IF t = Start[1] THEN "burst" ELSE "new"]
      /\ Start[1] \in Thread /\ pc[current_thread] = "burst"
      /\ \A t \in Thread : Place(t) \in {"burst", "new"}
      /\ Inside = {}
  BY NodeFacts DEF Init, Place, Inside
<1>6. Chain(q)
  <2>1. q # <<>>
    BY <1>2, <1>3
  <2>2. 1 \in 1 .. m /\ \A k \in 1 .. m : k # m => k + 1 \in 1 .. m
    BY <1>2
  <2>3. QED
    BY <1>3, <1>4, <2>1, <2>2 DEF Chain
<1>7. \A t \in Thread : ~Picked(t) /\ (Elsewhere(t) <=> t = Start[1])
  BY <1>4, <1>5 DEF Elsewhere, Picked, Resumed
<1>8. /\ \A t \in Thread : \E k \in 1 .. m + 1 : Start[k] = t
      /\ \A k, l \in 1 .. m + 1 : Start[k] = Start[l] => k = l
  BY <1>2, RRAssumption
<1>9. OncePerThread(q)
  <2>1. \A t \in Thread : OnList(q, t) <=> \E k \in 1 .. m : Start[k + 1] = t
    BY <1>3, <1>4 DEF OnList
  <2>2. \A k \in 1 .. m : Start[k + 1] # Start[1]
    BY <1>2, <1>8
  <2>3. ASSUME NEW t \in Thread, t # Start[1]
        PROVE  \E k \in 1 .. m : Start[k + 1] = t
    <3>1. PICK j \in 1 .. m + 1 : Start[j] = t
      BY <1>8
    <3>2. j - 1 \in 1 .. m /\ (j - 1) + 1 = j
      BY <1>2, <2>3, <3>1
    <3>3. Start[(j - 1) + 1] = t
      BY <3>1, <3>2
    <3>4. QED
      BY <3>2, <3>3
  <2>4. ASSUME NEW k \in 1 .. m, NEW l \in 1 .. m, thread[q[k]] = thread[q[l]] PROVE k = l
    <3>1. Start[k + 1] = Start[l + 1] /\ k + 1 \in 1 .. m + 1 /\ l + 1 \in 1 .. m + 1
      BY <1>2, <1>3, <1>4, <2>4
    <3>2. k + 1 = l + 1
      BY <1>8, <3>1
    <3>3. QED
      BY <1>2, <3>2
  <2>5. QED
    BY <1>3, <1>7, <2>1, <2>2, <2>3, <2>4 DEF OncePerThread
<1>10. TailOf(q)
  BY <1>2, <1>3, <1>4, <1>5 DEF TailOf
<1>11. OwnNodes(q)
  BY <1>5 DEF OwnNodes, Adding
<1>12. UpToDate
  BY <1>4, <1>5 DEF UpToDate
<1>13. PoolNew(q)
  <2>1. Len(start_address) = 1 /\ start_address[1] = m + 1
    BY <1>2 DEF Init
  <2>2. \A k \in 1 .. m : q[k] # m + 1
    BY <1>2, <1>3
  <2>3. \A t \in Thread : local[t].pool = <<>>
    BY DEF Init, NoLocals
  <2>4. QED
    BY <1>3, <1>5, <2>1, <2>2, <2>3 DEF PoolNew, Adding
<1>14. Whole(q)
  BY <1>4, <1>6, <1>9, <1>10, <1>11, <1>12, <1>13 DEF Whole
<1>15. Len(q) = Len(Start) - 1 /\ \A k \in 1 .. Len(q) : thread[q[k]] = Start[k + 1]
  BY <1>1, <1>3, <1>4
<1>16. QED
  BY <1>14, <1>15

\* A whole list has each thread where WholeUnlessTorn wants it.
LEMMA WholeCounts ==
  ASSUME NEW q \in Seq(Node), Whole(q), NEW t \in Thread
  PROVE  TimesQueued(t) + (IF Picked(t) THEN 1 ELSE 0) =
           IF t \in returned \/ (t = current_thread /\ ~Resumed(t)) THEN 0 ELSE 1
<1> DEFINE There == {k \in DOMAIN Reach : Reach[k] # NULL /\ thread[Reach[k]] = t}
<1>1. Len(q) \in Nat /\ Len(q) <= MaxNode /\ MaxNode \in Nat /\ \A k \in 1 .. Len(q) : q[k] # NULL
  <2>1. Chain(q) /\ MaxNode \in Nat
    BY RRAssumption DEF Whole
  <2>2. Len(q) \in Nat /\ q \in [1 .. Len(q) -> Node] /\ Len(q) <= MaxNode
    BY <2>1, QueueFacts, QueueFits
  <2>3. QED
    BY <2>1, <2>2, NodeFacts
<1>2. /\ DOMAIN Reach = 1 .. MaxNode
      /\ \A k \in 1 .. MaxNode : Reach[k] = IF k <= Len(q) THEN q[k] ELSE NULL
  BY ReachIsQueue DEF Whole
<1>3. There = {k \in 1 .. Len(q) : thread[q[k]] = t}
  <2>1. \A k \in 1 .. Len(q) : k \in 1 .. MaxNode /\ Reach[k] = q[k]
    BY <1>1, <1>2
  <2>2. \A k \in 1 .. MaxNode : Reach[k] # NULL => k \in 1 .. Len(q)
    BY <1>1, <1>2
  <2>3. QED
    BY <1>1, <1>2, <2>1, <2>2
<1> HIDE DEF There
<1>4. TimesQueued(t) = IF OnList(q, t) THEN 1 ELSE 0
  <2>1. CASE OnList(q, t)
    <3>1. PICK k \in 1 .. Len(q) : thread[q[k]] = t
      BY <2>1 DEF OnList
    <3>2. There = {k}
      BY <1>3, <3>1 DEF Whole, OncePerThread
    <3>3. QED
      BY <2>1, <3>2, FS_Singleton DEF TimesQueued, There
  <2>2. CASE ~OnList(q, t)
    <3>1. There = {}
      BY <1>3, <2>2 DEF OnList
    <3>2. QED
      BY <2>2, <3>1, FS_EmptySet DEF TimesQueued, There
  <2>3. QED
    BY <2>1, <2>2
<1>5. /\ OnList(q, t) <=> ~Elsewhere(t)
      /\ Picked(t) => t \notin returned /\ (t = current_thread => Resumed(t))
  BY DEF Whole, OncePerThread, Picked, Resumed
<1>6. QED
  BY <1>4, <1>5 DEF Elsewhere

WInv == IInv /\ (torn = 0 => \E q \in Seq(Node) : Whole(q))

\* A list that may be damaged is never taken for whole again.
LEMMA StaysTorn ==
  ASSUME TypeOK, [Next]_vars, torn' = 0
  PROVE  torn = 0
<1>1. torn \in Nat
  BY RRAssumption DEF TypeOK
<1>2. ASSUME NEW t \in Thread, Execute(t) PROVE torn = 0
  BY <1>1, <1>2 DEF Execute, PassOn, LoadAddress, MoveAddress, Fill, ReadTail, Link, SetTail, Finish, CheckFlag, TakeHead,
              PeekNext, StoreHead, Dispatch, Back, history
<1>3. ASSUME NEW t \in Thread, Tick(t) \/ HandlerReturn(t) PROVE torn' = torn
  BY <1>3 DEF Tick, HandlerReturn, history
<1>4. ASSUME NEW t \in Thread, Preempt(t) PROVE torn = 0
  BY <1>1, <1>4 DEF Preempt
<1>5. CASE UNCHANGED vars
  BY <1>5 DEF vars, history
<1>6. QED
  BY <1>2, <1>3, <1>4, <1>5 DEF Next

\* WInv is inductive: preemption at the harmless places leaves the list whole.
LEMMA WholeInductive ==
  ASSUME TwoStay
  PROVE  Spec => []WInv
<1>1. Init => WInv
  BY InitInv, InitWhole DEF WInv
<1>2. WInv /\ [Next]_vars => WInv'
  <2> SUFFICES ASSUME WInv, [Next]_vars, torn' = 0 PROVE Keeps
    BY Preserved DEF WInv, Keeps
  <2>1. torn = 0
    BY StaysTorn DEF WInv, IInv
  <2>2. PICK q \in Seq(Node) : Whole(q)
    BY <2>1 DEF WInv
  <2>3. IInv
    BY DEF WInv
  <2>4. CASE UNCHANGED vars
    BY <2>2, <2>4, NothingChanges DEF vars, history
  <2>5. ASSUME NEW t \in Thread, Execute(t) PROVE Keeps
    <3>1. MoveAddress(t) \/ Fill(t) \/ Link(t) \/ StoreHead(t) => Keeps
      BY <2>2, <2>3, MoveAddressKeeps, FillKeeps, LinkKeeps, StoreHeadKeeps DEF Keeps
    <3>2. QED
      BY <2>2, <2>3, <2>5, <3>1, QuietActions, PassOnKeeps, LoadAddressKeeps, SetTailKeeps,
         FinishKeeps, DispatchKeeps DEF Execute
  <2>6. ASSUME NEW t \in Thread, Tick(t) PROVE Keeps
    BY <2>2, <2>6, NothingChanges DEF Tick, history
  <2>7. ASSUME NEW t \in Thread, Preempt(t) PROVE Keeps
    BY <2>1, <2>2, <2>3, <2>7, PreemptKeeps DEF Keeps
  <2>8. ASSUME NEW t \in Thread, HandlerReturn(t) PROVE Keeps
    BY <2>2, <2>3, <2>8, HandlerReturnKeeps
  <2>9. QED
    BY <2>4, <2>5, <2>6, <2>7, <2>8 DEF Next
<1>3. QED
  BY <1>1, <1>2, PTL DEF Spec

(***************************************************************************)
(* WholeUnlessTorn: until a quantum ends between the load and the store of *)
(* the pool's pointer in allocate, or from add's read of tail to the       *)
(* context switch, every thread is in exactly one place, as long as two    *)
(* threads never return.  With fewer the list may run empty, and then      *)
(* yield takes a node that is not there.                                   *)
(***************************************************************************)
THEOREM ListStaysWhole ==
  ASSUME TwoStay
  PROVE  Spec => []WholeUnlessTorn
<1>1. WInv => WholeUnlessTorn
  <2>1. ASSUME WInv, torn = 0
        PROVE  /\ ~fault
               /\ \A t \in Thread :
                    TimesQueued(t) + (IF Picked(t) THEN 1 ELSE 0) =
                      IF t \in returned \/ (t = current_thread /\ ~Resumed(t)) THEN 0 ELSE 1
    <3>1. PICK q \in Seq(Node) : Whole(q)
      BY <2>1 DEF WInv
    <3>2. ~fault
      BY <3>1 DEF Whole
    <3>3. QED
      BY <3>1, <3>2, WholeCounts
  <2>2. QED
    BY <2>1 DEF WholeUnlessTorn
<1>2. QED
  BY <1>1, WholeInductive, PTL
------------------------------------------------------------------------------
(* Turns.  Between set_tail and the context switch the running thread is    *)
(* already on the list, and from dispatch on the next one is off it; the    *)
(* abstract queue changes with the switch.                                  *)

ReadyThreads == [k \in {l \in DOMAIN Reach : Reach[l] # NULL} |-> thread[Reach[k]]]

WithoutLast(s) == SubSeq(s, 1, Len(s) - 1)

PickedFirst ==
  IF pc[current_thread] = "dispatch"
  THEN <<thread[local[current_thread].node]>> \o ReadyThreads
  ELSE ReadyThreads

readyBar ==
  IF Resumed(current_thread) THEN WithoutLast(PickedFirst) ELSE PickedFirst

Turns == INSTANCE RoundRobin WITH running <- current_thread, ready <- readyBar

\* The running thread that has put itself on the list is the last one there.
ResumedIsLast ==
  torn = 0 /\ Resumed(current_thread) =>
    thread[IF pc[current_thread] = "set_tail" THEN local[current_thread].new ELSE tail]
      = current_thread

TInv == WInv /\ ResumedIsLast

\* The ready threads are those of the chain's nodes.
ReadyIs ==
  \A q \in Seq(Node) : Chain(q) /\ thread \in [Node -> Thread] =>
    /\ ReadyThreads \in Seq(Thread) /\ Len(ReadyThreads) = Len(q)
    /\ \A k \in 1 .. Len(q) : ReadyThreads[k] = thread[q[k]]

LEMMA ReadyFollows == ReadyIs
<1> SUFFICES ASSUME NEW q \in Seq(Node), Chain(q), thread \in [Node -> Thread]
             PROVE  /\ ReadyThreads \in Seq(Thread) /\ Len(ReadyThreads) = Len(q)
                    /\ \A k \in 1 .. Len(q) : ReadyThreads[k] = thread[q[k]]
  BY DEF ReadyIs
<1> DEFINE m == Len(q)
           f == [k \in 1 .. m |-> thread[q[k]]]
<1>1. /\ m \in Nat /\ m <= MaxNode /\ MaxNode \in Nat
      /\ \A k \in 1 .. m : q[k] \in Node
  BY QueueFacts, QueueFits, RRAssumption
<1>2. \A k \in 1 .. m : q[k] # NULL
  BY <1>1, NodeFacts
<1>3. DOMAIN Reach = 1 .. MaxNode /\ \A k \in 1 .. MaxNode : Reach[k] = IF k <= m THEN q[k] ELSE NULL
  BY ReachIsQueue
<1> HIDE DEF m
<1>4. {l \in DOMAIN Reach : Reach[l] # NULL} = 1 .. m /\ \A k \in 1 .. m : Reach[k] = q[k]
  BY <1>1, <1>2, <1>3
<1>5. ReadyThreads = f
  BY <1>4 DEF ReadyThreads
<1>6. \A k \in 1 .. m : thread[q[k]] \in Thread
  BY <1>1
<1>7. f \in Seq(Thread) /\ Len(f) = m /\ \A k \in 1 .. m : f[k] = thread[q[k]]
  BY <1>1, <1>6
<1>8. QED
  BY <1>5, <1>7 DEF m

LEMMA ReadyNow ==
  ASSUME ReadyIs, TypeOK, NEW q \in Seq(Node), Chain(q)
  PROVE  /\ ReadyThreads \in Seq(Thread) /\ Len(ReadyThreads) = Len(q)
         /\ Len(q) \in Nat /\ Len(q) > 0
         /\ \A k \in 1 .. Len(q) : ReadyThreads[k] = thread[q[k]]
BY QueueFacts DEF ReadyIs, TypeOK

LEMMA ReadyThen ==
  ASSUME ReadyIs', TypeOK', NEW q \in Seq(Node), Chain(q)'
  PROVE  /\ ReadyThreads' \in Seq(Thread) /\ Len(ReadyThreads') = Len(q)
         /\ \A k \in 1 .. Len(q) : ReadyThreads'[k] = thread'[q[k]]
BY DEF ReadyIs, TypeOK

------------------------------------------------------------------------------
(* Sequences.                                                               *)

\* A sequence without its last element, and with it again.
LEMMA LastOff ==
  ASSUME NEW S, NEW s \in Seq(S), NEW e \in S
  PROVE  /\ WithoutLast(Append(s, e)) = s
         /\ s # <<>> /\ s[Len(s)] = e => Append(WithoutLast(s), e) = s
<1>1. ASSUME NEW u \in Seq(S), NEW x \in S PROVE WithoutLast(Append(u, x)) = u
  <2>1. /\ Append(u, x) \in Seq(S) /\ Len(Append(u, x)) = Len(u) + 1 /\ Len(u) \in Nat
        /\ \A i \in 1 .. Len(u) : Append(u, x)[i] = u[i]
    BY AppendProperties, LenProperties
  <2>2. /\ WithoutLast(Append(u, x)) \in Seq(S)
        /\ Len(WithoutLast(Append(u, x))) = Len(u)
        /\ \A i \in 1 .. Len(u) : WithoutLast(Append(u, x))[i] = u[i]
    BY <2>1 DEF WithoutLast
  <2>3. QED
    BY <2>2, SeqEqual
<1>2. ASSUME s # <<>>, s[Len(s)] = e PROVE Append(WithoutLast(s), e) = s
  <2>1. PICK u \in Seq(S), x \in S : s = Append(u, x)
    BY <1>2, SequenceEmptyOrAppend
  <2>2. Append(u, x)[Len(u) + 1] = x /\ Len(Append(u, x)) = Len(u) + 1
    BY AppendProperties
  <2>3. QED
    BY <1>1, <1>2, <2>1, <2>2
<1>3. QED
  BY <1>1, <1>2

\* What is left when the first of a sequence goes, for good or to its end.
LEMMA FirstOff ==
  ASSUME NEW S, NEW s \in Seq(S), NEW r \in Seq(S), s # <<>>
  PROVE  /\ Len(r) = Len(s) - 1 /\ (\A k \in 1 .. Len(s) - 1 : r[k] = s[k + 1])
              => <<s[1]>> \o r = s
         /\ Len(r) = Len(s) /\ (\A k \in 1 .. Len(s) - 1 : r[k] = s[k + 1])
              => r = Tail(Append(s, r[Len(s)])) /\ s[1] = Head(Append(s, r[Len(s)]))
<1>1. Len(s) \in Nat /\ Len(s) > 0 /\ s[1] \in S
  BY EmptySeq, LenProperties
<1>2. ASSUME Len(r) = Len(s) - 1, \A k \in 1 .. Len(s) - 1 : r[k] = s[k + 1]
      PROVE  <<s[1]>> \o r = s
  <2>1. /\ <<s[1]>> \in Seq(S) /\ Len(<<s[1]>>) = 1 /\ <<s[1]>>[1] = s[1]
    BY <1>1
  <2>2. /\ <<s[1]>> \o r \in Seq(S) /\ Len(<<s[1]>> \o r) = 1 + Len(r)
        /\ \A i \in 1 .. 1 + Len(r) :
             (<<s[1]>> \o r)[i] = IF i <= 1 THEN <<s[1]>>[i] ELSE r[i - 1]
    BY <2>1, ConcatProperties
  <2> DEFINE c == <<s[1]>> \o r
  <2>3. c \in Seq(S) /\ Len(c) = Len(s)
        /\ \A i \in 1 .. Len(s) : c[i] = IF i = 1 THEN s[1] ELSE r[i - 1]
    BY <1>1, <1>2, <2>1, <2>2
  <2> HIDE DEF c
  <2>4. ASSUME NEW i \in 1 .. Len(s) PROVE c[i] = s[i]
    <3>1. i # 1 => i - 1 \in 1 .. Len(s) - 1 /\ (i - 1) + 1 = i
      BY <1>1
    <3>2. i # 1 => r[i - 1] = s[i]
      BY <1>2, <3>1
    <3>3. QED
      BY <2>3, <3>2
  <2>5. QED
    BY <2>3, <2>4, SeqEqual DEF c
<1>3. ASSUME Len(r) = Len(s), \A k \in 1 .. Len(s) - 1 : r[k] = s[k + 1]
      PROVE  r = Tail(Append(s, r[Len(s)])) /\ s[1] = Head(Append(s, r[Len(s)]))
  <2> DEFINE e == r[Len(s)]
             a == Append(s, e)
  <2>1. e \in S
    BY <1>1, <1>3
  <2> HIDE DEF e
  <2>2. /\ a \in Seq(S) /\ Len(a) = Len(s) + 1 /\ a[Len(s) + 1] = e
        /\ \A k \in 1 .. Len(s) : a[k] = s[k]
    BY <2>1, AppendProperties
  <2> HIDE DEF a
  <2>3. a # <<>>
    BY <1>1, <2>2
  <2>4. /\ Tail(a) \in Seq(S) /\ Len(Tail(a)) = Len(s) /\ Head(a) = a[1]
        /\ \A k \in 1 .. Len(s) : Tail(a)[k] = a[k + 1]
    BY <1>1, <2>2, <2>3, HeadTailProperties
  <2>5. ASSUME NEW k \in 1 .. Len(s) PROVE Tail(a)[k] = r[k]
    <3>1. k = Len(s) \/ (k \in 1 .. Len(s) - 1 /\ k + 1 \in 1 .. Len(s))
      BY <1>1
    <3>2. QED
      BY <1>1, <1>3, <2>2, <2>4, <3>1 DEF e
  <2>6. r = Tail(a)
    BY <1>3, <2>4, <2>5, SeqEqual
  <2>7. QED
    BY <1>1, <2>2, <2>4, <2>6 DEF a, e
<1>4. QED
  BY <1>2, <1>3

\* An element in front of a sequence.
LEMMA InFront ==
  ASSUME NEW S, NEW s \in Seq(S), NEW e \in S
  PROVE  /\ <<e>> \o s \in Seq(S) /\ <<e>> \o s # <<>>
         /\ Head(<<e>> \o s) = e /\ Tail(<<e>> \o s) = s
         /\ Len(s) > 0 => (<<e>> \o s)[Len(<<e>> \o s)] = s[Len(s)]
<1> DEFINE c == <<e>> \o s
<1>1. <<e>> \in Seq(S) /\ Len(<<e>>) = 1 /\ <<e>>[1] = e /\ Len(s) \in Nat
  BY LenProperties
<1>2. /\ c \in Seq(S) /\ Len(c) = 1 + Len(s)
      /\ \A i \in 1 .. 1 + Len(s) : c[i] = IF i <= 1 THEN <<e>>[i] ELSE s[i - 1]
  BY <1>1, ConcatProperties
<1> HIDE DEF c
<1>3. /\ 1 \in 1 .. 1 + Len(s)
      /\ \A i \in 1 .. Len(s) : i + 1 \in 1 .. 1 + Len(s) /\ ~(i + 1 <= 1) /\ (i + 1) - 1 = i
  BY <1>1
<1>4. c[1] = e /\ \A i \in 1 .. Len(s) : c[i + 1] = s[i]
  BY <1>1, <1>2, <1>3
<1>5. c # <<>>
  BY <1>1, <1>2
<1>6. /\ Head(c) = c[1] /\ Tail(c) \in Seq(S) /\ Len(Tail(c)) = Len(s)
      /\ \A i \in 1 .. Len(s) : Tail(c)[i] = c[i + 1]
  BY <1>1, <1>2, <1>5, HeadTailProperties
<1>7. Tail(c) = s
  BY <1>4, <1>6, SeqEqual
<1>8. Len(s) > 0 => c[Len(c)] = s[Len(s)]
  BY <1>1, <1>2, <1>4
<1>9. QED
  BY <1>2, <1>4, <1>5, <1>6, <1>7, <1>8 DEF c

------------------------------------------------------------------------------
(* Each step is a turn or none.                                             *)

Stays == UNCHANGED <<current_thread, readyBar>>

\* A step that leaves the chain, its threads and the running thread alone.
LEMMA NoTurn ==
  ASSUME ReadyIs, ReadyIs', TypeOK, TypeOK', NEW q \in Seq(Node), Chain(q), Chain(q)',
         \A k \in 1 .. Len(q) : thread'[q[k]] = thread[q[k]],
         current_thread' = current_thread,
         Resumed(current_thread)' <=> Resumed(current_thread),
         pc[current_thread] # "dispatch", pc'[current_thread] # "dispatch"
  PROVE  Stays
<1>1. ReadyThreads' = ReadyThreads
  <2>1. /\ ReadyThreads \in Seq(Thread) /\ Len(ReadyThreads) = Len(q)
        /\ \A k \in 1 .. Len(q) : ReadyThreads[k] = thread[q[k]]
    BY ReadyNow
  <2>2. /\ ReadyThreads' \in Seq(Thread) /\ Len(ReadyThreads') = Len(q)
        /\ \A k \in 1 .. Len(q) : ReadyThreads'[k] = thread'[q[k]]
    BY ReadyThen
  <2>3. QED
    BY <2>1, <2>2, SeqEqual
<1>2. PickedFirst' = PickedFirst
  BY <1>1 DEF PickedFirst
<1>3. QED
  BY <1>2 DEF Stays, readyBar

\* The statements that turn nothing, and the interrupts that switch nothing.
LEMMA QuietTurn ==
  ASSUME ReadyIs, ReadyIs', IInv, TypeOK', ResumedIsLast, torn = 0,
         NEW q \in Seq(Node), Whole(q), NEW t \in Thread,
         \/ PassOn(t) \/ LoadAddress(t) \/ MoveAddress(t)
         \/ Fill(t) \/ ReadTail(t) \/ SetTail(t) \/ Finish(t)
         \/ CheckFlag(t) \/ TakeHead(t) \/ PeekNext(t) \/ Back(t) \/ HandlerReturn(t)
  PROVE  Stays /\ ResumedIsLast'
<1>1. /\ pc \in [Thread -> PC] /\ Chain(q) /\ TypeOK
      /\ local \in [Thread -> Local]
  BY DEF IInv, TypeOK, Whole
<1>2. /\ current_thread = t /\ current_thread' = t /\ torn' = torn
      /\ pc[t] # "dispatch" /\ pc'[t] # "dispatch"
      /\ Resumed(t)' <=> Resumed(t)
  <2>1. CASE HandlerReturn(t)
    <3>1. interrupted[t] \in Harmless
      BY <2>1 DEF HandlerReturn, Runs, Whole, UpToDate, Inside
    <3>2. QED
      BY <1>1, <2>1, <3>1 DEF HandlerReturn, Runs, Goto, Resumed, Harmless, history
  <2>6. CASE PassOn(t) \/ LoadAddress(t) \/ MoveAddress(t)
    BY <1>1, <2>6 DEF PassOn, LoadAddress, MoveAddress, Runs, Goto, Resumed, history
  <2>2. CASE Fill(t) \/ ReadTail(t)
    BY <1>1, <2>2 DEF Fill, ReadTail, Runs, Goto, Resumed, history
  <2>3. CASE SetTail(t) \/ Finish(t) \/ CheckFlag(t)
    BY <1>1, <2>3 DEF SetTail, Finish, CheckFlag, Runs, Goto, Resumed, history
  <2>4. CASE TakeHead(t) \/ PeekNext(t) \/ Back(t)
    BY <1>1, <2>4 DEF TakeHead, PeekNext, Back, Runs, Goto, Resumed, history
  <2>5. QED
    BY <2>1, <2>2, <2>3, <2>4, <2>6
<1>3. Chain(q)' /\ \A k \in 1 .. Len(q) : thread'[q[k]] = thread[q[k]]
  <2>1. CASE Fill(t) \/ MoveAddress(t)
    BY <2>1, FillKeeps, MoveAddressKeeps DEF Whole
  <2>2. CASE ~(Fill(t) \/ MoveAddress(t))
    <3>1. UNCHANGED <<head, thread, next>>
      BY <2>2 DEF PassOn, LoadAddress, ReadTail, SetTail, Finish, CheckFlag, TakeHead, PeekNext, Back,
                  HandlerReturn, listVars
    <3>2. QED
      BY <1>1, <3>1 DEF Chain
  <2>3. QED
    BY <2>1, <2>2
<1>4. Stays
  BY <1>1, <1>2, <1>3, NoTurn
<1>5. ResumedIsLast'
  <2>1. CASE SetTail(t)
    BY <1>1, <1>2, <2>1 DEF SetTail, Runs, Goto, Resumed, ResumedIsLast
  <2>2. CASE CheckFlag(t) \/ TakeHead(t) \/ PeekNext(t)
    BY <1>1, <1>2, <2>2 DEF CheckFlag, TakeHead, PeekNext, Runs, Goto, listVars, Resumed, ResumedIsLast
  <2>3. CASE \/ PassOn(t) \/ LoadAddress(t) \/ MoveAddress(t)
             \/ Fill(t) \/ ReadTail(t) \/ Finish(t) \/ Back(t) \/ HandlerReturn(t)
    <3>1. ~Resumed(t)
      BY <2>3 DEF PassOn, LoadAddress, MoveAddress, Fill, ReadTail, Finish, Back, HandlerReturn, Runs, Resumed
    <3>2. QED
      BY <1>2, <3>1 DEF ResumedIsLast
  <2>4. QED
    BY <2>1, <2>2, <2>3
<1>6. QED
  BY <1>4, <1>5

\* resume puts the running thread on the list, and the abstract queue does not
\* change yet.
LEMMA LinkTurn ==
  ASSUME ReadyIs, ReadyIs', IInv, TypeOK', NEW q \in Seq(Node), Whole(q),
         NEW t \in Thread, Link(t)
  PROVE  Stays /\ ResumedIsLast'
<1>1. /\ pc \in [Thread -> PC] /\ Chain(q) /\ TypeOK /\ local \in [Thread -> Local]
      /\ current_thread = t /\ current_thread' = t /\ pc[t] = "link" /\ pc'[t] = "set_tail"
      /\ local' = [local EXCEPT ![t].last = NULL]
      /\ UNCHANGED <<thread, returned>>
  BY DEF IInv, TypeOK, Whole, Link, Runs, Goto, history
<1>2. PICK p \in Seq(Node) : /\ Whole(p)' /\ Len(p) = Len(q) + 1
                             /\ \A k \in 1 .. Len(q) : thread'[p[k]] = thread[q[k]]
                             /\ thread'[p[Len(q) + 1]] = t
  BY LinkKeeps
<1>3. /\ ReadyThreads \in Seq(Thread) /\ Len(ReadyThreads) = Len(q) /\ Len(q) \in Nat
      /\ \A k \in 1 .. Len(q) : ReadyThreads[k] = thread[q[k]]
  BY <1>1, ReadyNow
<1>4. /\ ReadyThreads' \in Seq(Thread) /\ Len(ReadyThreads') = Len(p)
      /\ \A k \in 1 .. Len(p) : ReadyThreads'[k] = thread'[p[k]]
  BY <1>2, ReadyThen DEF Whole
<1>5. ReadyThreads' = Append(ReadyThreads, t)
  <2> DEFINE a == Append(ReadyThreads, t)
  <2>1. /\ a \in Seq(Thread) /\ Len(a) = Len(q) + 1 /\ a[Len(q) + 1] = t
        /\ \A k \in 1 .. Len(q) : a[k] = ReadyThreads[k]
    BY <1>3, AppendProperties
  <2> HIDE DEF a
  <2>2. ASSUME NEW k \in 1 .. Len(a) PROVE a[k] = ReadyThreads'[k]
    <3>1. k \in 1 .. Len(q) \/ k = Len(q) + 1
      BY <1>3, <2>1
    <3>2. k \in 1 .. Len(p)
      BY <1>2, <2>1
    <3>3. QED
      BY <1>2, <1>3, <1>4, <2>1, <3>1, <3>2
  <2>3. QED
    BY <1>2, <1>4, <2>1, <2>2, SeqEqual DEF a
<1>6. t \notin returned
  BY <1>1 DEF Whole, UpToDate
<1>7. readyBar = ReadyThreads /\ readyBar' = WithoutLast(ReadyThreads')
  BY <1>1, <1>6 DEF readyBar, PickedFirst, Resumed
<1>8. WithoutLast(ReadyThreads') = ReadyThreads
  BY <1>3, <1>5, LastOff
<1>9. thread[local[t].new] = t
  <2>1. Place(t) = "link"
    BY <1>1 DEF Place
  <2>2. QED
    BY <2>1 DEF Whole, OwnNodes, Adding
<1>10. ResumedIsLast'
  <2>1. local'[t].new = local[t].new
    BY <1>1 DEF Local
  <2>2. QED
    BY <1>1, <1>9, <2>1 DEF ResumedIsLast
<1>11. QED
  BY <1>1, <1>7, <1>8, <1>10 DEF Stays

\* yield takes the first thread off the list, and the abstract queue keeps it.
LEMMA StoreHeadTurn ==
  ASSUME TwoStay, ReadyIs, ReadyIs', IInv, TypeOK', ResumedIsLast, torn = 0,
         NEW q \in Seq(Node), Whole(q), NEW t \in Thread, StoreHead(t)
  PROVE  Stays /\ ResumedIsLast'
<1>1. /\ pc \in [Thread -> PC] /\ Chain(q) /\ TypeOK /\ local \in [Thread -> Local]
      /\ current_thread = t /\ current_thread' = t /\ pc[t] = "store" /\ pc'[t] = "dispatch"
      /\ local' = [local EXCEPT ![t].rest = NULL]
      /\ UNCHANGED <<tail, thread, returned, torn>>
  BY DEF IInv, TypeOK, Whole, StoreHead, Runs, Goto, history
<1>2. PICK p \in Seq(Node) : /\ Whole(p)' /\ Len(p) = Len(q) - 1
                             /\ \A k \in 1 .. Len(q) - 1 : thread'[p[k]] = thread[q[k + 1]]
  BY StoreHeadKeeps
<1>3. /\ ReadyThreads \in Seq(Thread) /\ Len(ReadyThreads) = Len(q)
      /\ Len(q) \in Nat /\ Len(q) > 0
      /\ \A k \in 1 .. Len(q) : ReadyThreads[k] = thread[q[k]]
  BY <1>1, ReadyNow
<1>4. /\ ReadyThreads' \in Seq(Thread) /\ Len(ReadyThreads') = Len(p)
      /\ \A k \in 1 .. Len(p) : ReadyThreads'[k] = thread'[p[k]]
  BY <1>2, ReadyThen DEF Whole
<1>5. \A k \in 1 .. Len(q) - 1 : ReadyThreads'[k] = ReadyThreads[k + 1]
  <2>1. ASSUME NEW k \in 1 .. Len(q) - 1 PROVE ReadyThreads'[k] = ReadyThreads[k + 1]
    <3>1. k \in 1 .. Len(p) /\ k + 1 \in 1 .. Len(q)
      BY <1>2, <1>3
    <3>2. QED
      BY <1>2, <1>3, <1>4, <3>1
  <2>2. QED
    BY <2>1
<1>6. thread'[local'[t].node] = ReadyThreads[1]
  <2>1. local'[t].node = head /\ head = q[1]
    BY <1>1 DEF Local, Whole, UpToDate, Chain
  <2>2. 1 \in 1 .. Len(q)
    BY <1>3
  <2>3. QED
    BY <1>1, <1>3, <2>1, <2>2
<1>7. <<ReadyThreads[1]>> \o ReadyThreads' = ReadyThreads
  <2>1. ReadyThreads # <<>>
    BY <1>3
  <2>2. QED
    BY <1>2, <1>3, <1>4, <1>5, <2>1, FirstOff
<1>8. PickedFirst' = PickedFirst
  BY <1>1, <1>6, <1>7 DEF PickedFirst
<1>9. Resumed(t)' <=> Resumed(t)
  BY <1>1 DEF Resumed
<1>10. ResumedIsLast'
  BY <1>1, <1>9 DEF ResumedIsLast
<1>11. QED
  BY <1>1, <1>8, <1>9, <1>10 DEF Stays, readyBar

\* The context switch in yield is the abstract turn.
LEMMA DispatchTurn ==
  ASSUME ReadyIs, ReadyIs', IInv, TypeOK', ResumedIsLast, torn = 0,
         NEW q \in Seq(Node), Whole(q), NEW t \in Thread, Dispatch(t)
  PROVE  (Turns!Rotate \/ Turns!Leave) /\ ResumedIsLast'
<1>0. PICK to : to = thread[local[t].node]
  OBVIOUS
<1>1. /\ Chain(q) /\ TypeOK
      /\ current_thread = t /\ pc[t] = "dispatch" /\ SwitchTo(t, to, "away")
      /\ UNCHANGED <<listVars, returned>>
  BY <1>0 DEF IInv, Whole, Dispatch, Runs, history
<1>2. to \in Thread
  BY <1>0, <1>1 DEF Dispatch, Runs, IInv, TypeOK, LocalsSet, Place, Taken
<1>3. current_thread' = to /\ pc'[to] \in {"burst", "back", "handler"}
  <2>1. current_thread' = to
    BY <1>1 DEF SwitchTo
  <2>2. QED
    BY <1>1, <1>2, <2>1, SwitchedPlaces
<1>4. ~Resumed(to)' /\ ResumedIsLast'
  BY <1>3 DEF Resumed, ResumedIsLast
<1>5. /\ ReadyThreads \in Seq(Thread) /\ Len(ReadyThreads) = Len(q)
      /\ Len(q) \in Nat /\ Len(q) > 0
      /\ \A k \in 1 .. Len(q) : ReadyThreads[k] = thread[q[k]]
  BY <1>1, ReadyNow
<1>6. readyBar' = ReadyThreads
  <2>1. Chain(q)'
    BY <1>1 DEF Chain, listVars
  <2>2. /\ ReadyThreads' \in Seq(Thread) /\ Len(ReadyThreads') = Len(q)
        /\ \A k \in 1 .. Len(q) : ReadyThreads'[k] = thread'[q[k]]
    BY <2>1, ReadyThen
  <2>3. ReadyThreads' = ReadyThreads
    BY <1>1, <1>5, <2>2, SeqEqual DEF listVars
  <2>4. QED
    BY <1>3, <1>4, <2>3 DEF readyBar, PickedFirst
<1> DEFINE c == <<to>> \o ReadyThreads
<1>7. PickedFirst = c
  BY <1>0, <1>1 DEF PickedFirst
<1>8. /\ c \in Seq(Thread) /\ c # <<>> /\ Head(c) = to /\ Tail(c) = ReadyThreads
      /\ c[Len(c)] = thread[q[Len(q)]]
  BY <1>2, <1>5, InFront
<1> HIDE DEF c
<1>9. t # NULL
  BY RRAssumption
<1>10. CASE t \in returned
  <2>1. readyBar = c
    BY <1>1, <1>7, <1>10 DEF readyBar, Resumed
  <2>2. Turns!Leave
    BY <1>1, <1>3, <1>6, <1>8, <1>9, <2>1 DEF Turns!Leave
  <2>3. QED
    BY <1>4, <2>2
<1>11. CASE t \notin returned
  <2>1. Resumed(t)
    BY <1>1, <1>11 DEF Resumed
  <2>2. readyBar = WithoutLast(c)
    BY <1>1, <1>7, <2>1 DEF readyBar
  <2>3. thread[tail] = t /\ tail = q[Len(q)]
    BY <1>1, <2>1 DEF ResumedIsLast, Whole, TailOf
  <2>4. c[Len(c)] = t
    BY <1>8, <2>3
  <2>5. Append(readyBar, t) = c
    BY <1>8, <2>2, <2>4, LastOff
  <2>6. Turns!Rotate
    BY <1>1, <1>3, <1>6, <1>8, <1>9, <2>5 DEF Turns!Rotate
  <2>7. QED
    BY <1>4, <2>6
<1>12. QED
  BY <1>10, <1>11

\* The end of a quantum is a turn, too.
LEMMA PreemptTurn ==
  ASSUME ReadyIs, ReadyIs', IInv, TypeOK', torn = 0, torn' = 0,
         NEW q \in Seq(Node), Whole(q), NEW t \in Thread, Preempt(t)
  PROVE  Turns!Rotate /\ ResumedIsLast'
<1>1. /\ \E p \in Seq(Node) :
           /\ Whole(p)' /\ Len(p) = Len(q)
           /\ \A k \in 1 .. Len(q) - 1 : thread'[p[k]] = thread[q[k + 1]]
           /\ thread'[p[Len(q)]] = t
      /\ pc[t] \in Harmless /\ t = current_thread
      /\ current_thread' = thread[q[1]]
      /\ pc'[current_thread'] \in {"burst", "back", "handler"}
  BY PreemptKeeps
<1>2. PICK p \in Seq(Node) : /\ Whole(p)' /\ Len(p) = Len(q)
                             /\ \A k \in 1 .. Len(q) - 1 : thread'[p[k]] = thread[q[k + 1]]
                             /\ thread'[p[Len(q)]] = t
  BY <1>1
<1>3. /\ ReadyThreads \in Seq(Thread) /\ Len(ReadyThreads) = Len(q)
      /\ Len(q) \in Nat /\ Len(q) > 0
      /\ \A k \in 1 .. Len(q) : ReadyThreads[k] = thread[q[k]]
  BY ReadyNow DEF IInv, Whole
<1>4. /\ ReadyThreads' \in Seq(Thread) /\ Len(ReadyThreads') = Len(p)
      /\ \A k \in 1 .. Len(p) : ReadyThreads'[k] = thread'[p[k]]
  BY <1>2, ReadyThen DEF Whole
<1>5. /\ \A k \in 1 .. Len(q) - 1 : ReadyThreads'[k] = ReadyThreads[k + 1]
      /\ ReadyThreads'[Len(q)] = t
      /\ ReadyThreads[1] = thread[q[1]]
  <2>1. ASSUME NEW k \in 1 .. Len(q) - 1 PROVE ReadyThreads'[k] = ReadyThreads[k + 1]
    <3>1. k \in 1 .. Len(p) /\ k + 1 \in 1 .. Len(q)
      BY <1>2, <1>3
    <3>2. QED
      BY <1>2, <1>3, <1>4, <3>1
  <2>2. 1 \in 1 .. Len(q) /\ Len(q) \in 1 .. Len(p)
    BY <1>2, <1>3
  <2>3. QED
    BY <1>2, <1>3, <1>4, <2>1, <2>2
<1>6. /\ ReadyThreads' = Tail(Append(ReadyThreads, t))
      /\ thread[q[1]] = Head(Append(ReadyThreads, t))
  <2>1. ReadyThreads # <<>>
    BY <1>3
  <2>2. /\ ReadyThreads' = Tail(Append(ReadyThreads, ReadyThreads'[Len(ReadyThreads)]))
        /\ ReadyThreads[1] = Head(Append(ReadyThreads, ReadyThreads'[Len(ReadyThreads)]))
    BY <1>2, <1>3, <1>4, <1>5, <2>1, FirstOff
  <2>3. QED
    BY <1>3, <1>5, <2>2
<1>7. readyBar = ReadyThreads /\ readyBar' = ReadyThreads' /\ ResumedIsLast'
  BY <1>1 DEF readyBar, PickedFirst, Resumed, ResumedIsLast, Harmless
<1>8. t # NULL
  BY RRAssumption
<1>9. QED
  BY <1>1, <1>6, <1>7, <1>8 DEF Turns!Rotate

(***************************************************************************)
(* Preemption changes when a turn ends and never whose turn is next: until *)
(* a quantum ends between the load and the store of the pool's pointer in  *)
(* allocate, or from add's read of tail to the context switch, every step  *)
(* of the scheduler is a turn of RoundRobin or changes nothing there - for *)
(* any quantum, however ticks fall and whether a turn ends by pass_on_CPU, *)
(* by the timer or by the thread's return - as long as two threads never   *)
(* return.  The run begins with the first thread of main() and the others  *)
(* in its order.                                                           *)
(***************************************************************************)
THEOREM PreemptiveTurnsInOrder ==
  ASSUME TwoStay
  PROVE  Spec =>
           /\ current_thread = Start[1] /\ readyBar = Tail(Start)
           /\ [][torn' = 0 => Turns!Rotate \/ Turns!Leave \/ Stays]_vars
<1>1. Init => current_thread = Start[1] /\ readyBar = Tail(Start) /\ ResumedIsLast
  <2> SUFFICES ASSUME Init
               PROVE  current_thread = Start[1] /\ readyBar = Tail(Start) /\ ResumedIsLast
    OBVIOUS
  <2>1. PICK q \in Seq(Node) : /\ Whole(q) /\ Len(q) = Len(Start) - 1
                               /\ \A k \in 1 .. Len(q) : thread[q[k]] = Start[k + 1]
    BY InitWhole
  <2>2. /\ ReadyThreads \in Seq(Thread) /\ Len(ReadyThreads) = Len(q)
        /\ \A k \in 1 .. Len(q) : ReadyThreads[k] = thread[q[k]]
    BY <2>1, InitInv, ReadyFollows, ReadyNow DEF IInv, Whole
  <2>3. /\ Start \in Seq(Thread) /\ Start # <<>> /\ Len(Start) \in Nat
    BY RRAssumption
  <2>4. /\ Tail(Start) \in Seq(Thread) /\ Len(Tail(Start)) = Len(Start) - 1
        /\ \A k \in 1 .. Len(Start) - 1 : Tail(Start)[k] = Start[k + 1]
    BY <2>3, HeadTailProperties
  <2>5. ReadyThreads = Tail(Start)
    BY <2>1, <2>2, <2>4, SeqEqual
  <2>6. current_thread = Start[1] /\ pc[current_thread] = "burst"
    BY NodeFacts DEF Init
  <2>7. QED
    BY <2>5, <2>6 DEF readyBar, PickedFirst, Resumed, ResumedIsLast
<1>2. /\ TInv /\ ReadyIs /\ WInv' /\ ReadyIs' /\ [Next]_vars
      => ResumedIsLast' /\ (torn' = 0 => Turns!Rotate \/ Turns!Leave \/ Stays)
  <2> SUFFICES ASSUME TInv, ReadyIs, WInv', ReadyIs', [Next]_vars, torn' = 0
               PROVE  (Turns!Rotate \/ Turns!Leave \/ Stays) /\ ResumedIsLast'
    BY DEF ResumedIsLast
  <2>1. IInv /\ TypeOK' /\ ResumedIsLast
    BY DEF TInv, WInv, IInv
  <2>2. torn = 0
    BY <2>1, StaysTorn DEF IInv
  <2>3. PICK q \in Seq(Node) : Whole(q)
    BY <2>2 DEF TInv, WInv
  <2>4. ASSUME UNCHANGED <<listVars, current_thread, pc, local, returned, torn>>
        PROVE  Stays /\ ResumedIsLast'
    <3>1. Resumed(current_thread)' <=> Resumed(current_thread)
      BY <2>4 DEF Resumed
    <3>2. ResumedIsLast'
      BY <2>1, <2>4, <3>1 DEF ResumedIsLast, listVars
    <3>3. ReadyThreads' = ReadyThreads
      <4>1. Chain(q) /\ Chain(q)'
        BY <2>3, <2>4 DEF Whole, Chain, listVars
      <4>2. /\ ReadyThreads \in Seq(Thread) /\ Len(ReadyThreads) = Len(q)
            /\ \A k \in 1 .. Len(q) : ReadyThreads[k] = thread[q[k]]
        BY <2>1, <4>1, ReadyNow DEF IInv
      <4>3. /\ ReadyThreads' \in Seq(Thread) /\ Len(ReadyThreads') = Len(q)
            /\ \A k \in 1 .. Len(q) : ReadyThreads'[k] = thread'[q[k]]
        BY <2>1, <4>1, ReadyThen
      <4>4. QED
        BY <2>4, <4>2, <4>3, SeqEqual DEF listVars
    <3>4. PickedFirst' = PickedFirst
      BY <2>4, <3>3 DEF PickedFirst, listVars
    <3>5. QED
      BY <2>4, <3>1, <3>2, <3>4 DEF Stays, readyBar
  <2>5. CASE UNCHANGED vars
    BY <2>4, <2>5 DEF vars, history
  <2>6. ASSUME NEW t \in Thread, Execute(t)
        PROVE  (Turns!Rotate \/ Turns!Leave \/ Stays) /\ ResumedIsLast'
    <3>1. CASE Link(t)
      BY <2>1, <2>3, <3>1, LinkTurn
    <3>2. CASE StoreHead(t)
      BY <2>1, <2>2, <2>3, <3>2, StoreHeadTurn
    <3>3. CASE Dispatch(t)
      BY <2>1, <2>2, <2>3, <3>3, DispatchTurn
    <3>4. CASE ~(Link(t) \/ StoreHead(t) \/ Dispatch(t))
      <4>1. \/ PassOn(t) \/ LoadAddress(t) \/ MoveAddress(t)
            \/ Fill(t) \/ ReadTail(t) \/ SetTail(t) \/ Finish(t)
            \/ CheckFlag(t) \/ TakeHead(t) \/ PeekNext(t) \/ Back(t)
        BY <2>6, <3>4 DEF Execute
      <4>2. QED
        BY <2>1, <2>2, <2>3, <4>1, QuietTurn
    <3>5. QED
      BY <3>1, <3>2, <3>3, <3>4
  <2>7. ASSUME NEW t \in Thread, Tick(t) PROVE Stays /\ ResumedIsLast'
    BY <2>4, <2>7 DEF Tick, history
  <2>8. ASSUME NEW t \in Thread, Preempt(t) PROVE Turns!Rotate /\ ResumedIsLast'
    BY <2>1, <2>2, <2>3, <2>8, PreemptTurn
  <2>9. ASSUME NEW t \in Thread, HandlerReturn(t) PROVE Stays /\ ResumedIsLast'
    BY <2>1, <2>2, <2>3, <2>9, QuietTurn
  <2>10. QED
    BY <2>5, <2>6, <2>7, <2>8, <2>9 DEF Next
<1>3. WInv /\ ResumedIsLast => TInv
  BY DEF TInv
<1>4. QED
  BY <1>1, <1>2, <1>3, WholeInductive, ReadyFollows, PTL DEF Spec
==============================================================================
