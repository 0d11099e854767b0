-------------------------- MODULE OrderBookProofs --------------------------
(***************************************************************************)
(* What the C++ engine keeps true for any number of clients and orders.    *)
(*                                                                         *)
(* The first part needs nothing of prices and sizes, whatever uint32_t and *)
(* int make of them: the lists are made of levels, and the book's mutex m  *)
(* is held by the one thread that is between its lock and its unlock.      *)
(*                                                                         *)
(* The second part is about the mutexes of the levels, which follow the    *)
(* threads only while the sizes are ones the code can count: the volume of *)
(* a level and the size of an order together fit an int.                   *)
(*                                                                         *)
(* The prelude locks levels until their volumes cover the order, and the   *)
(* code that matches and adds relies on having locked enough and not too   *)
(* much.  So the invariant follows what a thread holds back to sums: its   *)
(* levels are a path in the list, what is left of its order less the       *)
(* volumes on the path is v, it is above 0 before each of the levels, and  *)
(* v is above 0 at the end exactly if the own head is locked as well.      *)
(* A volume is the sum of the sizes in the level, because nobody changes   *)
(* either without the level's mutex.                                       *)
(*                                                                         *)
(* The last part is about the orders: the lists are sorted and never cross,*)
(* and every unit a client sent is accounted for.                          *)
(***************************************************************************)
EXTENDS OrderBook, FiniteSetTheorems, WellFoundedInduction, TLAPS

Idle == {"read", "closed"}

(* The steps at which a thread looks at the level or the head it stands on. *)
OnLevel == {"walk", "match head", "match", "add", "new level", "register", "enqueue",
            "cancel step", "cancel level", "cancelled"}

(* A thread that works has an order, and a level where the step needs one. *)
HasOrder == \A c \in Client : pc[c] \notin Idle => my[c] \in OrderId
StandsOn == \A c \in Client : pc[c] \in OnLevel => curr[c] \in Node

IInv == ShapeOK /\ HasOrder /\ StandsOn /\ HoldsBook

-----------------------------------------------------------------------------
(* The mutex of a level is not the book's. *)
LEMMA NodeIsNotBook == \A n \in Node : n # BookMutex /\ n \in Mutex
BY BookAssumption DEF Mutex

(* Both heads are levels. *)
LEMMA HeadIsNode == \A side : HeadOf(side) \in Node
BY DEF HeadOf, Node, Heads

(* Where a thread goes in one step, and with which order and level. *)
Moves(c, label, level, o) ==
  /\ pc' = [pc EXCEPT ![c] = label]
  /\ curr' = [curr EXCEPT ![c] = level]
  /\ my' = [my EXCEPT ![c] = o]
  /\ label \in Pc
  /\ level \in Node \cup {Nil}
  /\ o \in OrderId \cup {Nil}
  /\ label \in OnLevel => level \in Node
  /\ label \notin Idle => o \in OrderId

(* What it may do to the mutexes and links on the way. *)
LevelsChange ==
  /\ owner' \in [Mutex -> Client \cup {Nil}]
  /\ owner'[BookMutex] = owner[BookMutex]
  /\ next' \in [Node -> OrderId \cup {Nil}]

(* The commands and the clock are left alone, except by Read. *)
Executes ==
  /\ orders' \in SUBSET OrderId
  /\ inputTime' \in [Client -> Nat]
  /\ UNCHANGED <<cmd, clock, cancels>>

(* Only m's lock brings a thread into the prelude: every other step that   *)
(* leaves m alone keeps the invariant.                                     *)
LEMMA MoveKeeps ==
  ASSUME IInv, NEW c \in Client, NEW label, NEW level, NEW o,
         Moves(c, label, level, o), LevelsChange,
         label \in PreludeSteps => pc[c] \in PreludeSteps,
         orders' \in SUBSET OrderId, inputTime' \in [Client -> Nat],
         cmd' \in [OrderId -> Command \cup {Nil}],
         clock' \in Nat, cancels' \in 0 .. MaxCancels
  PROVE  IInv'
<1>1. /\ pc \in [Client -> Pc]
      /\ curr \in [Client -> Node \cup {Nil}]
      /\ my \in [Client -> OrderId \cup {Nil}]
  BY DEF IInv, ShapeOK
<1>2. ShapeOK'
  BY <1>1 DEF Moves, LevelsChange, ShapeOK
<1>3. HasOrder'
  BY <1>1 DEF IInv, HasOrder, Moves
<1>4. StandsOn'
  BY <1>1 DEF IInv, StandsOn, Moves
<1>5. HoldsBook'
  BY <1>1 DEF IInv, HoldsBook, Holds, Moves, LevelsChange
<1> QED
  BY <1>2, <1>3, <1>4, <1>5 DEF IInv

(* The same for the steps that execute a command. *)
LEMMA WorkKeeps ==
  ASSUME IInv, NEW c \in Client, NEW label, NEW level, NEW o,
         Moves(c, label, level, o), LevelsChange, Executes,
         label \in PreludeSteps => pc[c] \in PreludeSteps
  PROVE  IInv'
<1>1. /\ cmd' \in [OrderId -> Command \cup {Nil}]
      /\ clock' \in Nat
      /\ cancels' \in 0 .. MaxCancels
  BY DEF IInv, ShapeOK, Executes
<1> QED
  BY <1>1, MoveKeeps DEF Executes

(* The ways a step changes the mutexes of levels: one, or hand over hand. *)
LEMMA OwnerOfLevels ==
  ASSUME ShapeOK, NEW n \in Node, NEW p \in Node,
         NEW x \in Client \cup {Nil}, NEW y \in Client \cup {Nil},
         \/ UNCHANGED owner
         \/ owner' = [owner EXCEPT ![n] = x]
         \/ owner' = [owner EXCEPT ![n] = x, ![p] = y],
         UNCHANGED next
  PROVE  LevelsChange
<1>1. /\ owner \in [Mutex -> Client \cup {Nil}]
      /\ n # BookMutex /\ p # BookMutex /\ BookMutex \in Mutex
  BY NodeIsNotBook DEF ShapeOK, Mutex
<1>2. owner' \in [Mutex -> Client \cup {Nil}]
  BY <1>1
<1>3. owner'[BookMutex] = owner[BookMutex]
  BY <1>1
<1>4. next' \in [Node -> OrderId \cup {Nil}]
  BY DEF ShapeOK
<1> QED
  BY <1>2, <1>3, <1>4 DEF LevelsChange

(* The end of a command. *)
LEMMA FinishMoves ==
  ASSUME IInv, NEW c \in Client, Finish(c)
  PROVE  Moves(c, "read", Nil, Nil) /\ inputTime' \in [Client -> Nat]
BY DEF IInv, ShapeOK, Finish, Goto, Moves, Pc, OnLevel, Idle

(* A thread that stays with its order. *)
LEMMA GotoMoves ==
  ASSUME IInv, NEW c \in Client, NEW label \in Pc, NEW level \in Node \cup {Nil},
         Goto(c, label), curr' = [curr EXCEPT ![c] = level], UNCHANGED my,
         label \in OnLevel => level \in Node,
         pc[c] \notin Idle
  PROVE  Moves(c, label, level, my[c]) /\ my[c] \in OrderId
BY DEF IInv, ShapeOK, HasOrder, Goto, Moves

(* A thread that stays with its order and its level. *)
LEMMA StayMoves ==
  ASSUME IInv, NEW c \in Client, NEW label \in Pc,
         Goto(c, label), UNCHANGED <<curr, my>>,
         label \in OnLevel => curr[c] \in Node,
         pc[c] \notin Idle
  PROVE  Moves(c, label, curr[c], my[c]) /\ my[c] \in OrderId
BY DEF IInv, ShapeOK, HasOrder, Goto, Moves

-----------------------------------------------------------------------------
(* An empty book with idle threads satisfies the invariant. *)
LEMMA InitHolds == Init => IInv
<1> SUFFICES ASSUME Init PROVE IInv
  OBVIOUS
<1>1. ShapeOK
  BY BookAssumption DEF Init, ShapeOK, Pc
<1> QED
  BY <1>1 DEF Init, IInv, HasOrder, StandsOn, HoldsBook, Idle, OnLevel, PreludeSteps

(* Reading a command stamps it with the clock. *)
LEMMA StampOK ==
  ASSUME ShapeOK, NEW c \in Client, Stamp(c)
  PROVE  clock' \in Nat /\ inputTime' \in [Client -> Nat]
<1>1. clock' \in Nat
  BY BookAssumption DEF ShapeOK, Stamp
<1> QED
  BY <1>1 DEF ShapeOK, Stamp

(* A new order or a cancel is read: my[c] becomes an order. *)
LEMMA ReadHolds ==
  ASSUME IInv, NEW c \in Client, Read(c)
  PROVE  IInv'
<1>0. ShapeOK
  BY DEF IInv
<1>1. ASSUME NEW o \in OrderId, NEW offer \in Offer, ReadOrder(c, o, offer)
      PROVE  IInv'
  <2>1. clock' \in Nat /\ inputTime' \in [Client -> Nat]
    BY <1>0, <1>1, StampOK DEF ReadOrder
  <2>2. [side |-> offer.side, price |-> offer.price,
         count |-> offer.count, time |-> clock'] \in Command
    BY <2>1, BookAssumption DEF Command
  <2>3. cmd' \in [OrderId -> Command \cup {Nil}]
    BY <1>0, <1>1, <2>2 DEF ReadOrder, ShapeOK
  <2>4. Moves(c, "lock book", curr[c], o) /\ LevelsChange
    BY <1>0, <1>1 DEF ReadOrder, ShapeOK, Goto, Moves, LevelsChange, bookVars,
                      Pc, OnLevel
  <2>5. orders' \in SUBSET OrderId /\ cancels' \in 0 .. MaxCancels
    BY <1>0, <1>1 DEF ReadOrder, ShapeOK
  <2> QED
    BY <2>1, <2>3, <2>4, <2>5, MoveKeeps DEF PreludeSteps
<1>2. ASSUME NEW o \in OrderId, ReadCancel(c, o)
      PROVE  IInv'
  <2>1. clock' \in Nat /\ inputTime' \in [Client -> Nat]
    BY <1>0, <1>2, StampOK DEF ReadCancel
  <2>2. Moves(c, "look up", curr[c], o) /\ LevelsChange
    BY <1>0, <1>2 DEF ReadCancel, ShapeOK, Goto, Moves, LevelsChange, bookVars,
                      Pc, OnLevel
  <2>3. orders' \in SUBSET OrderId /\ cmd' \in [OrderId -> Command \cup {Nil}]
    BY <1>0, <1>2 DEF ReadCancel, ShapeOK, orderVars
  <2>4. cancels' \in 0 .. MaxCancels
    <3>1. MaxCancels \in Nat
      BY BookAssumption
    <3>2. cancels \in 0 .. MaxCancels /\ cancels < MaxCancels /\ cancels' = cancels + 1
      BY <1>0, <1>2 DEF ReadCancel, ShapeOK
    <3> QED
      BY <3>1, <3>2
  <2> QED
    BY <2>1, <2>2, <2>3, <2>4, MoveKeeps DEF PreludeSteps
<1> QED
  BY <1>1, <1>2 DEF Read

(* A connection ends. *)
LEMMA EndOfFileHolds ==
  ASSUME IInv, NEW c \in Client, EndOfFile(c)
  PROVE  IInv'
<1>1. Moves(c, "closed", curr[c], my[c]) /\ LevelsChange /\ Executes
  BY DEF EndOfFile, IInv, ShapeOK, Goto, Moves, LevelsChange, Executes, bookVars,
         orderVars, Pc, OnLevel, Idle
<1> QED
  BY <1>1, WorkKeeps DEF PreludeSteps

-----------------------------------------------------------------------------
(* Under m.  Taking it is the one step that needs the mutex to be free.    *)
LEMMA LockBookHolds ==
  ASSUME IInv, NEW c \in Client, LockBook(c)
  PROVE  IInv'
<1>1. /\ pc \in [Client -> Pc]
      /\ owner \in [Mutex -> Client \cup {Nil}]
      /\ BookMutex \in Mutex /\ Nil \notin Client
  BY BookAssumption DEF IInv, ShapeOK, Mutex
<1>2. owner[BookMutex] = Nil /\ owner' = [owner EXCEPT ![BookMutex] = c]
      /\ pc' = [pc EXCEPT ![c] = "lock opposite"]
      /\ pc[c] = "lock book"
  BY DEF LockBook, Free, Goto
<1>3. ShapeOK'
  BY <1>1, <1>2 DEF LockBook, IInv, ShapeOK, orderVars, Pc
<1>4. HasOrder' /\ StandsOn'
  BY <1>1, <1>2 DEF LockBook, IInv, HasOrder, StandsOn, Idle, OnLevel
<1>5. \A d \in Client : pc[d] \notin PreludeSteps
  BY <1>1, <1>2 DEF IInv, HoldsBook, Holds
<1>6. HoldsBook'
  BY <1>1, <1>2, <1>5 DEF HoldsBook, Holds
<1> QED
  BY <1>3, <1>4, <1>6 DEF IInv

(* Locking the opposite head, the levels and the own head. *)
LEMMA PreludeHolds ==
  ASSUME IInv, NEW c \in Client, Prelude(c)
  PROVE  IInv'
<1>0. ShapeOK /\ next \in [Node -> OrderId \cup {Nil}] /\ c \in Client \cup {Nil}
  BY DEF IInv, ShapeOK
<1> DEFINE head == HeadOf(Opposite(cmd[my[c]].side))
           own == HeadOf(cmd[my[c]].side)
<1>1. ASSUME LockBook(c) PROVE IInv'
  BY <1>1, LockBookHolds
<1>2. ASSUME LockOpposite(c) PROVE IInv'
  <2>1. head \in Node /\ next[head] \in OrderId \cup {Nil}
    BY <1>0, HeadIsNode
  <2>2. LevelsChange /\ Executes
    <3>1. owner' = [owner EXCEPT ![head] = c] /\ UNCHANGED next
      BY <1>2 DEF LockOpposite
    <3>2. LevelsChange
      BY <1>0, <2>1, <3>1, OwnerOfLevels
    <3> QED
      BY <1>0, <1>2, <3>2 DEF LockOpposite, Executes, ShapeOK, orderVars
  <2>3. PICK label : label = PreludePc(v[c], next[head])
    OBVIOUS
  <2>4. label \in PreludeSteps /\ label \in Pc /\ (label = "walk" => next[head] # Nil)
    BY <2>3 DEF PreludePc, PreludeSteps, Pc
  <2>5. Moves(c, label, next[head], my[c])
    <3>1. label \in OnLevel => next[head] \in Node
      BY <2>1, <2>4 DEF PreludeSteps, OnLevel, Node
    <3>2. next[head] \in Node \cup {Nil}
      BY <2>1 DEF Node
    <3> QED
      BY <1>2, <2>3, <2>4, <3>1, <3>2, GotoMoves DEF LockOpposite, Idle
  <2> QED
    BY <1>2, <2>2, <2>4, <2>5, WorkKeeps DEF LockOpposite, PreludeSteps
<1>3. ASSUME WalkOn(c) PROVE IInv'
  <2>1. curr[c] \in Node /\ next[curr[c]] \in OrderId \cup {Nil}
    BY <1>0, <1>3 DEF WalkOn, IInv, StandsOn, OnLevel
  <2>2. LevelsChange /\ Executes
    <3>1. owner' = [owner EXCEPT ![curr[c]] = c] /\ UNCHANGED next
      BY <1>3 DEF WalkOn
    <3>2. LevelsChange
      BY <1>0, <2>1, <3>1, OwnerOfLevels
    <3> QED
      BY <1>0, <1>3, <3>2 DEF WalkOn, Executes, ShapeOK, orderVars
  <2>3. PICK label : label = PreludePc(ToInt(v[c] - volume[curr[c]]), next[curr[c]])
    OBVIOUS
  <2>4. label \in PreludeSteps /\ label \in Pc
        /\ (label = "walk" => next[curr[c]] # Nil)
    BY <2>3 DEF PreludePc, PreludeSteps, Pc
  <2>5. Moves(c, label, next[curr[c]], my[c])
    <3>1. label \in OnLevel => next[curr[c]] \in Node
      BY <2>1, <2>4 DEF PreludeSteps, OnLevel, Node
    <3>2. next[curr[c]] \in Node \cup {Nil}
      BY <2>1 DEF Node
    <3> QED
      BY <1>3, <2>3, <2>4, <3>1, <3>2, GotoMoves DEF WalkOn, Idle
  <2> QED
    BY <1>3, <2>2, <2>4, <2>5, WorkKeeps DEF WalkOn, PreludeSteps
<1>4. ASSUME WalkEnd(c) PROVE IInv'
  <2>1. Moves(c, "lock own", curr[c], my[c])
    BY <1>4, StayMoves DEF WalkEnd, Pc, OnLevel, Idle
  <2>2. LevelsChange /\ Executes
    BY <1>0, <1>4 DEF WalkEnd, LevelsChange, Executes, ShapeOK, bookVars, orderVars
  <2> QED
    BY <1>4, <2>1, <2>2, WorkKeeps DEF WalkEnd, PreludeSteps
<1>5. ASSUME LockOwn(c) PROVE IInv'
  <2>1. Moves(c, "commit", curr[c], my[c])
    BY <1>5, StayMoves DEF LockOwn, Pc, OnLevel, Idle
  <2>2. LevelsChange
    <3>1. own \in Node /\ owner' = [owner EXCEPT ![own] = c] /\ UNCHANGED next
      BY <1>5, HeadIsNode DEF LockOwn
    <3> QED
      BY <1>0, <3>1, OwnerOfLevels
  <2>3. Executes
    BY <1>0, <1>5 DEF LockOwn, Executes, ShapeOK, orderVars
  <2> QED
    BY <1>5, <2>1, <2>2, <2>3, WorkKeeps DEF LockOwn, PreludeSteps
<1> QED
  BY <1>1, <1>2, <1>3, <1>4, <1>5 DEF Prelude

(* Releasing m: nobody else was in the prelude. *)
LEMMA UnlockBookHolds ==
  ASSUME IInv, NEW c \in Client, UnlockBook(c)
  PROVE  IInv'
<1>1. /\ pc \in [Client -> Pc] /\ curr \in [Client -> Node \cup {Nil}]
      /\ owner \in [Mutex -> Client \cup {Nil}]
      /\ BookMutex \in Mutex
  BY DEF IInv, ShapeOK, Mutex
<1>2. /\ owner' = [owner EXCEPT ![BookMutex] = Nil]
      /\ pc' = [pc EXCEPT ![c] = "match head"] /\ pc[c] = "commit"
      /\ curr' = [curr EXCEPT ![c] = HeadOf(Opposite(cmd[my[c]].side))]
      /\ HeadOf(Opposite(cmd[my[c]].side)) \in Node
  BY HeadIsNode DEF UnlockBook, Goto
<1>3. ShapeOK'
  BY <1>1, <1>2 DEF UnlockBook, IInv, ShapeOK, orderVars, Pc
<1>4. HasOrder'
  BY <1>1, <1>2 DEF UnlockBook, IInv, HasOrder, Idle
<1>5. StandsOn'
  BY <1>1, <1>2 DEF IInv, StandsOn
<1>6. \A d \in Client : pc[d] \in PreludeSteps => d = c
  BY <1>2 DEF IInv, HoldsBook, Holds, PreludeSteps
<1>7. HoldsBook'
  BY <1>1, <1>2, <1>6 DEF HoldsBook, PreludeSteps
<1> QED
  BY <1>3, <1>4, <1>5, <1>7 DEF IInv

-----------------------------------------------------------------------------
(* matchOrder leaves a level for the next one, for its own list or for the *)
(* next command.                                                           *)
LEMMA AdvanceHolds ==
  ASSUME IInv, NEW c \in Client, Advance(c), curr[c] \in Node,
         pc[c] \notin Idle \cup PreludeSteps,
         orders' \in SUBSET OrderId, UNCHANGED <<cmd, next, clock, cancels>>
  PROVE  IInv'
<1>0. ShapeOK /\ inputTime \in [Client -> Nat] /\ next[curr[c]] \in OrderId \cup {Nil}
  BY DEF IInv, ShapeOK
<1>1. LevelsChange
  <2>1. owner' = [owner EXCEPT ![curr[c]] = Nil]
    BY DEF Advance
  <2> QED
    BY <1>0, <2>1, OwnerOfLevels
<1>2. CASE GoesOn(my[c], next[curr[c]]) /\ Goto(c, "match")
           /\ curr' = [curr EXCEPT ![c] = next[curr[c]]]
           /\ UNCHANGED <<my, v, inputTime>>
  <2>1. next[curr[c]] \in Node
    BY <1>0, <1>2 DEF GoesOn, Node
  <2>2. Moves(c, "match", next[curr[c]], my[c])
    BY <1>2, <2>1, GotoMoves DEF Pc
  <2> QED
    BY <1>0, <1>1, <1>2, <2>2, WorkKeeps DEF Executes, PreludeSteps
<1>3. CASE Goto(c, "add") /\ curr' = [curr EXCEPT ![c] = HeadOf(cmd[my[c]].side)]
           /\ UNCHANGED <<my, v, inputTime>>
  <2>1. HeadOf(cmd[my[c]].side) \in Node
    BY HeadIsNode
  <2>2. Moves(c, "add", HeadOf(cmd[my[c]].side), my[c])
    BY <1>3, <2>1, GotoMoves DEF Pc
  <2> QED
    BY <1>0, <1>1, <1>3, <2>2, WorkKeeps DEF Executes, PreludeSteps
<1>4. CASE Finish(c)
  BY <1>1, <1>4, FinishMoves, WorkKeeps DEF Executes, PreludeSteps
<1> QED
  BY <1>2, <1>3, <1>4 DEF Advance

(* matchOrder: filling orders leaves mutexes and links alone. *)
LEMMA MatchHolds ==
  ASSUME IInv, NEW c \in Client, Match(c)
  PROVE  IInv'
<1>0. ShapeOK /\ orders \in SUBSET OrderId /\ inputTime \in [Client -> Nat]
  BY DEF IInv, ShapeOK
<1>1. ASSUME pc[c] \in {"match head", "match"}
      PROVE  curr[c] \in Node /\ pc[c] \notin Idle \cup PreludeSteps
  BY <1>1 DEF IInv, StandsOn, OnLevel, Idle, PreludeSteps
<1>2. CASE MatchHead(c)
  BY <1>0, <1>1, <1>2, AdvanceHolds DEF MatchHead, orderVars
<1>3. CASE FillResting(c)
  <2>1. Moves(c, "match", curr[c], my[c])
    BY <1>1, <1>3 DEF FillResting, IInv, ShapeOK, HasOrder, Moves, Pc, Idle
  <2>2. LevelsChange /\ Executes
    BY <1>0, <1>3 DEF FillResting, Deregister, LevelsChange, Executes, ShapeOK
  <2> QED
    BY <2>1, <2>2, WorkKeeps DEF PreludeSteps
<1>4. CASE FillNew(c)
  <2>1. Moves(c, "match", curr[c], my[c])
    BY <1>1, <1>4 DEF FillNew, IInv, ShapeOK, HasOrder, Moves, Pc, Idle, threadVars
  <2>2. LevelsChange /\ Executes
    BY <1>0, <1>4 DEF FillNew, LevelsChange, Executes, ShapeOK, threadVars
  <2> QED
    BY <2>1, <2>2, WorkKeeps DEF PreludeSteps
<1>5. CASE LeaveLevel(c)
  BY <1>0, <1>1, <1>5, AdvanceHolds DEF LeaveLevel, orderVars
<1> QED
  BY <1>2, <1>3, <1>4, <1>5 DEF Match

(* add: a new level is linked behind one the thread stands on. *)
LEMMA AddHolds ==
  ASSUME IInv, NEW c \in Client, AddToBook(c)
  PROVE  IInv'
<1>0. ShapeOK /\ orders \in SUBSET OrderId /\ inputTime \in [Client -> Nat]
      /\ owner \in [Mutex -> Client \cup {Nil}]
      /\ next \in [Node -> OrderId \cup {Nil}]
      /\ c \in Client \cup {Nil} /\ Nil \in Client \cup {Nil}
  BY DEF IInv, ShapeOK
<1>1. ASSUME pc[c] \in {"add", "new level", "register", "enqueue"}
      PROVE  curr[c] \in Node /\ my[c] \in OrderId /\ pc[c] \notin Idle
  BY <1>1 DEF IInv, StandsOn, HasOrder, OnLevel, Idle
<1>2. CASE PlaceFound(c)
  <2>1. PICK label : label = PlacePc(cmd[my[c]].price, curr[c])
    OBVIOUS
  <2>2. label \in {"register", "new level"}
    BY <2>1 DEF PlacePc
  <2>3. Moves(c, label, curr[c], my[c])
    BY <1>1, <1>2, <2>1, <2>2, StayMoves DEF PlaceFound, Pc
  <2>4. LevelsChange /\ Executes
    BY <1>0, <1>2 DEF PlaceFound, LevelsChange, Executes, bookVars, orderVars
  <2> QED
    BY <2>2, <2>3, <2>4, WorkKeeps DEF PreludeSteps
<1>3. CASE AddStep(c)
  <2> DEFINE n == next[curr[c]]
  <2>1. n \in Node
    BY <1>0, <1>1, <1>3 DEF AddStep, Node
  <2>2. PICK label : label = IF cmd[my[c]].price = PriceOf(n) THEN "register" ELSE "add"
    OBVIOUS
  <2>3. Moves(c, label, n, my[c])
    BY <1>1, <1>3, <2>1, <2>2, GotoMoves DEF AddStep, Pc
  <2>4. LevelsChange
    <3>1. owner' = [owner EXCEPT ![n] = c, ![curr[c]] = Nil] /\ UNCHANGED next
      BY <1>3 DEF AddStep
    <3>2. curr[c] \in Node
      BY <1>1, <1>3 DEF AddStep
    <3> QED
      BY <1>0, <2>1, <3>1, <3>2, OwnerOfLevels
  <2>5. Executes
    BY <1>0, <1>3 DEF AddStep, Executes, orderVars
  <2> QED
    BY <2>2, <2>3, <2>4, <2>5, WorkKeeps DEF PreludeSteps
<1>4. CASE NewLevel(c)
  <2>1. my[c] \in Node /\ my[c] # BookMutex /\ curr[c] # BookMutex
    BY <1>1, <1>4, NodeIsNotBook DEF NewLevel, Node
  <2>2. Moves(c, "register", my[c], my[c])
    BY <1>1, <1>4, <2>1, GotoMoves DEF NewLevel, Pc
  <2>3. owner' \in [Mutex -> Client \cup {Nil}] /\ owner'[BookMutex] = owner[BookMutex]
    BY <1>0, <1>4, <2>1 DEF NewLevel, Mutex
  <2>4. next' \in [Node -> OrderId \cup {Nil}]
    BY <1>0, <1>1, <1>4 DEF NewLevel
  <2>5. Executes
    BY <1>0, <1>4 DEF NewLevel, Executes, orderVars
  <2> QED
    BY <2>2, <2>3, <2>4, <2>5, WorkKeeps DEF LevelsChange, PreludeSteps
<1>5. CASE Enqueue(c)
  <2>1. Moves(c, "read", Nil, Nil) /\ inputTime' \in [Client -> Nat]
    BY <1>5, FinishMoves DEF Enqueue
  <2>2. LevelsChange
    <3>1. owner' = [owner EXCEPT ![curr[c]] = Nil] /\ UNCHANGED next
      BY <1>5 DEF Enqueue
    <3> QED
      BY <1>0, <1>1, <1>5, <3>1, OwnerOfLevels DEF Enqueue
  <2>3. Executes
    BY <1>0, <1>5, <2>1 DEF Enqueue, Executes, orderVars
  <2> QED
    BY <2>1, <2>2, <2>3, WorkKeeps DEF PreludeSteps
<1>6. CASE RegisterOrder(c)
  <2>1. Moves(c, "enqueue", curr[c], my[c])
    BY <1>1, <1>6, StayMoves DEF RegisterOrder, Pc
  <2>2. LevelsChange /\ Executes
    BY <1>0, <1>1, <1>6 DEF RegisterOrder, Register, LevelsChange, Executes, bookVars,
                            orderVars
  <2> QED
    BY <2>1, <2>2, WorkKeeps DEF PreludeSteps
<1> QED
  BY <1>2, <1>3, <1>4, <1>5, <1>6 DEF AddToBook

(* processCancelOrder takes the head of the list of its order ... *)
LEMMA CancelHeadHolds ==
  ASSUME IInv, NEW c \in Client, CancelHead(c)
  PROVE  IInv'
<1>0. ShapeOK /\ inputTime \in [Client -> Nat] /\ c \in Client \cup {Nil}
  BY DEF IInv, ShapeOK
<1>1. ListOf(my[c]) \in Node
  BY HeadIsNode DEF ListOf
<1>2. Moves(c, "cancel step", ListOf(my[c]), my[c])
  BY <1>1, GotoMoves DEF CancelHead, Pc, Idle
<1>3. LevelsChange
  <2>1. owner' = [owner EXCEPT ![ListOf(my[c])] = c] /\ UNCHANGED next
    BY DEF CancelHead
  <2> QED
    BY <1>0, <1>1, <2>1, OwnerOfLevels
<1>4. Executes
  BY <1>0 DEF CancelHead, Executes, ShapeOK, orderVars
<1> QED
  BY <1>2, <1>3, <1>4, WorkKeeps DEF PreludeSteps

(* ... and goes hand over hand from level to level until it is answered. *)
LEMMA CancelHolds ==
  ASSUME IInv, NEW c \in Client, Cancel(c)
  PROVE  IInv'
<1>0. ShapeOK /\ orders \in SUBSET OrderId /\ inputTime \in [Client -> Nat]
      /\ owner \in [Mutex -> Client \cup {Nil}]
      /\ next \in [Node -> OrderId \cup {Nil}]
      /\ c \in Client \cup {Nil} /\ Nil \in Client \cup {Nil}
  BY DEF IInv, ShapeOK
<1>1. ASSUME pc[c] \in {"cancel step", "cancel level", "cancelled"}
      PROVE  curr[c] \in Node /\ pc[c] \notin Idle
  BY <1>1 DEF IInv, StandsOn, OnLevel, Idle
<1>2. CASE LookUp(c)
  <2>1. PICK label : label = IF my[c] \in orders THEN "cancel head" ELSE "unknown"
    OBVIOUS
  <2>2. Moves(c, label, curr[c], my[c])
    BY <1>2, <2>1, StayMoves DEF LookUp, Pc, Idle, OnLevel
  <2>3. LevelsChange /\ Executes
    BY <1>0, <1>2 DEF LookUp, LevelsChange, Executes, bookVars, orderVars
  <2> QED
    BY <2>1, <2>2, <2>3, WorkKeeps DEF PreludeSteps
<1>3. CASE RejectUnknown(c) \/ RejectGone(c)
  <2>1. Moves(c, "read", Nil, Nil) /\ inputTime' \in [Client -> Nat]
    BY <1>3, FinishMoves DEF RejectUnknown, RejectGone
  <2>2. LevelsChange /\ Executes
    BY <1>0, <1>3, <2>1 DEF RejectUnknown, RejectGone, LevelsChange, Executes,
                            bookVars, orderVars
  <2> QED
    BY <2>1, <2>2, WorkKeeps DEF PreludeSteps
<1>4. CASE CancelStep(c)
  <2> DEFINE n == next[curr[c]]
  <2>1. n \in Node /\ curr[c] \in Node
    BY <1>0, <1>1, <1>4 DEF CancelStep, Node
  <2>2. PICK label : label = IF PriceOf(n) = cmd[my[c]].price THEN "cancel level"
                                                              ELSE "cancel step"
    OBVIOUS
  <2>3. Moves(c, label, n, my[c])
    BY <1>4, <2>1, <2>2, GotoMoves DEF CancelStep, Pc, Idle
  <2>4. LevelsChange
    <3>1. owner' = [owner EXCEPT ![n] = c, ![curr[c]] = Nil] /\ UNCHANGED next
      BY <1>4 DEF CancelStep
    <3> QED
      BY <1>0, <2>1, <3>1, OwnerOfLevels
  <2>5. Executes
    BY <1>0, <1>4 DEF CancelStep, Executes, orderVars
  <2> QED
    BY <2>2, <2>3, <2>4, <2>5, WorkKeeps DEF PreludeSteps
<1>5. CASE CancelFails(c)
  <2>1. Moves(c, "gone", curr[c], my[c]) /\ curr[c] \in Node
    BY <1>1, <1>5, StayMoves DEF CancelFails, Pc, Idle, OnLevel
  <2>2. LevelsChange
    <3>1. owner' = [owner EXCEPT ![curr[c]] = Nil] /\ UNCHANGED next
      BY <1>5 DEF CancelFails
    <3> QED
      BY <1>0, <2>1, <3>1, OwnerOfLevels
  <2>3. Executes
    BY <1>0, <1>5 DEF CancelFails, Executes, orderVars
  <2> QED
    BY <2>1, <2>2, <2>3, WorkKeeps DEF PreludeSteps
<1>6. CASE CancelErase(c)
  <2>1. Moves(c, "cancelled", curr[c], my[c])
    BY <1>1, <1>6, StayMoves DEF CancelErase, Pc
  <2>2. LevelsChange /\ Executes
    BY <1>0, <1>6 DEF CancelErase, Deregister, LevelsChange, Executes, orderVars
  <2> QED
    BY <2>1, <2>2, WorkKeeps DEF PreludeSteps
<1>7. CASE AcceptCancel(c)
  <2>1. Moves(c, "read", Nil, Nil) /\ inputTime' \in [Client -> Nat]
    BY <1>7, FinishMoves DEF AcceptCancel
  <2>2. LevelsChange
    <3>1. owner' = [owner EXCEPT ![curr[c]] = Nil] /\ UNCHANGED next
      BY <1>7 DEF AcceptCancel
    <3>2. curr[c] \in Node
      BY <1>1, <1>7 DEF AcceptCancel
    <3> QED
      BY <1>0, <3>1, <3>2, OwnerOfLevels
  <2>3. Executes
    BY <1>0, <1>7, <2>1 DEF AcceptCancel, Executes, orderVars
  <2> QED
    BY <2>1, <2>2, <2>3, WorkKeeps DEF PreludeSteps
<1> QED
  BY <1>2, <1>3, <1>4, <1>5, <1>6, <1>7 DEF Cancel

(* Every step keeps the invariant. *)
LEMMA NextHolds == IInv /\ [Next]_vars => IInv'
<1> SUFFICES ASSUME IInv, [Next]_vars PROVE IInv'
  OBVIOUS
<1>1. ASSUME NEW c \in Client, Read(c) PROVE IInv'
  BY <1>1, ReadHolds
<1>2. ASSUME NEW c \in Client, EndOfFile(c) PROVE IInv'
  BY <1>2, EndOfFileHolds
<1>3. ASSUME NEW c \in Client, Work(c) PROVE IInv'
  BY <1>3, PreludeHolds, UnlockBookHolds, MatchHolds, AddHolds, CancelHeadHolds,
     CancelHolds DEF Work
<1>4. CASE UNCHANGED vars
  BY <1>4 DEF vars, orderVars, bookVars, threadVars, IInv, ShapeOK, HasOrder,
              StandsOn, HoldsBook, Holds
<1> QED
  BY <1>1, <1>2, <1>3, <1>4 DEF Next, Terminated

-----------------------------------------------------------------------------
(* The links, mutexes and threads are what their declarations say: a       *)
(* thread that works has an order, and it never stands on a null pointer   *)
(* where matchOrder, add or processCancelOrder look at a level.            *)
THEOREM ShapeHolds == Spec => [](ShapeOK /\ HasOrder /\ StandsOn)
<1>1. IInv => ShapeOK /\ HasOrder /\ StandsOn
  BY DEF IInv
<1> QED
  BY <1>1, InitHolds, NextHolds, PTL DEF Spec

(* From m's lock to its unlock in processBuyOrder and processSellOrder a   *)
(* thread holds m, and so no other thread is between them.                 *)
THEOREM PreludeIsExclusive ==
  Spec => [](HoldsBook /\ \A c, d \in Client :
                            pc[c] \in PreludeSteps /\ pc[d] \in PreludeSteps => c = d)
<1>1. IInv => HoldsBook /\ \A c, d \in Client :
                             pc[c] \in PreludeSteps /\ pc[d] \in PreludeSteps => c = d
  BY DEF IInv, HoldsBook, Holds
<1> QED
  BY <1>1, InitHolds, NextHolds, PTL DEF Spec

-----------------------------------------------------------------------------
(* The engine compares volumes and sizes as int (engine.cpp:84, 106). *)
Fits == \A n \in Node, o \in OrderId : 2 * (volume[n] + count[o]) < Modulus

-----------------------------------------------------------------------------
(* Steps at which a thread holds no mutex, and at which it holds one, that *)
(* of the level it stands on.                                              *)
QuietPc == {"read", "closed", "lock book", "look up", "unknown", "cancel head",
            "gone"}
OneLockPc == {"add", "new level", "register", "enqueue", "cancel step", "cancel level",
              "cancelled"}
MatchPc == {"match head", "match"}

(* Steps at which a thread has levels to match, and at which it has locked *)
(* all it will.                                                            *)
PathPc == {"walk", "lock own", "commit"} \cup MatchPc
LockedPc == {"commit"} \cup MatchPc

(* A command that was read is known: whatever rests, is linked, can be     *)
(* cancelled or is being executed.                                         *)
Known ==
  /\ \A o \in orders : cmd[o] # Nil
  /\ \A c \in Client :
       pc[c] \in OrderPc \cup {"cancel head", "cancel step", "cancel level",
                               "gone", "cancelled"}
         => cmd[my[c]] # Nil
  /\ \A n \in Node : \A i \in DOMAIN queue[n] : cmd[queue[n][i]] # Nil
  /\ \A n \in Node : next[n] # Nil => cmd[next[n]] # Nil

(* An order is in one place: with one thread, or once in one level. *)
OnePlace ==
  /\ \A c, d \in Client :
       pc[c] \in OrderPc /\ pc[d] \in OrderPc /\ my[c] = my[d] => c = d
  /\ \A c \in Client : pc[c] \in OrderPc =>
       \A n \in Node : \A i \in DOMAIN queue[n] : queue[n][i] # my[c]
  /\ \A n, m \in Node : \A i \in DOMAIN queue[n], j \in DOMAIN queue[m] :
       queue[n][i] = queue[m][j] => n = m /\ i = j

(* A level is linked by the thread that makes it, and before that nobody   *)
(* locks it and no level is behind it.                                     *)
LinkedByMaker ==
  /\ \A c \in Client : pc[c] \in OrderPc \ {"register", "enqueue"} =>
       \A n \in Node : next[n] # my[c]
  /\ \A n \in OrderId :
       owner[n] # Nil \/ next[n] # Nil => \E m \in Node : next[m] = n

(* Nobody holds m but between its lock and unlock. *)
BookHeldInPrelude ==
  \A c \in Client : Holds(c, BookMutex) => pc[c] \in PreludeSteps

-----------------------------------------------------------------------------
(* What a level has to trade with a new order: matchOrder leaves the head  *)
(* at once, whatever its volume is.                                        *)
ToTrade(n) == IF n \in Heads THEN 0 ELSE volume[n]

OwnHead(c) == HeadOf(cmd[my[c]].side)
OtherHead(c) == HeadOf(Opposite(cmd[my[c]].side))

(* The levels level[a], ..., level[b] follow each other in the list, c's   *)
(* order trades with all behind the first, and left[i] is what is left of  *)
(* it before the i-th.                                                     *)
Follow(c, level, left, a, b) ==
  /\ a <= b
  /\ \A i \in a .. b - 1 :
       /\ next[level[i]] = level[i + 1]
       /\ Trades(my[c], level[i + 1])
       /\ left[i + 1] = left[i] - ToTrade(level[i])
       /\ left[i + 1] > 0
  /\ left[a] = count[my[c]]
  /\ v[c] = left[b] - ToTrade(level[b])

(* c holds each of them, the head of its own side if v says so, and no     *)
(* other level.                                                            *)
HoldsPath(c, level, a, b) ==
  /\ \A i \in a .. b : Holds(c, level[i])
  /\ \A i, j \in a .. b : level[i] = level[j] => i = j
  /\ Holds(c, OwnHead(c)) <=> pc[c] \in LockedPc /\ v[c] > 0
  /\ \A n \in Node : Holds(c, n) => n = OwnHead(c) \/ \E i \in a .. b : level[i] = n

(* Where it is: the path begins at the other side's head or, in matchOrder,*)
(* at the level it stands on, and ends where nothing is left to cover or   *)
(* nothing more trades.                                                    *)
AtPath(c, level, a, b) ==
  /\ IF pc[c] = "match" THEN level[a] \in OrderId ELSE level[a] = OtherHead(c)
  /\ pc[c] \in MatchPc => curr[c] = level[a]
  /\ pc[c] = "walk" => v[c] \in 1 .. count[my[c]] /\ curr[c] = next[level[b]]
  /\ pc[c] = "lock own" => v[c] > 0
  /\ pc[c] # "walk" /\ v[c] > 0 =>
       next[level[b]] = Nil \/ ~Trades(my[c], next[level[b]])

Path(c, level, left, a, b) ==
  Follow(c, level, left, a, b) /\ HoldsPath(c, level, a, b) /\ AtPath(c, level, a, b)

HasPath(c) ==
  \E level \in [Nat -> Node], left \in [Nat -> Int], a, b \in Nat :
    Path(c, level, left, a, b)

(* The mutexes of levels that c holds. *)
LocksOf(c) ==
  /\ pc[c] \in QuietPc => \A n \in Node : ~Holds(c, n)
  /\ pc[c] = "lock opposite" =>
       v[c] = count[my[c]] /\ \A n \in Node : ~Holds(c, n)
  /\ pc[c] \in PathPc => HasPath(c)
  /\ pc[c] \in OneLockPc => \A n \in Node : Holds(c, n) <=> n = curr[c]

LocksExact == \A c \in Client : LocksOf(c)

-----------------------------------------------------------------------------
(* sum[i] is the sum of the sizes of the first i orders of a level. *)
Sums(q, sum, k) ==
  /\ sum[0] = 0
  /\ \A i \in 1 .. k : sum[i] = sum[i - 1] + count[q[i]]
  /\ \A i, j \in 0 .. k : i <= j => sum[i] <= sum[j]

(* The first k orders of level n are those that are not matched yet. *)
Matching(c, n) == pc[c] = "match" /\ curr[c] = n
AreLeft(n, k) ==
  \/ \E c \in Client : Matching(c, n) /\ k = Len(queue[n]) - popped[c]
  \/ (\A c \in Client : ~Matching(c, n)) /\ k = Len(queue[n])

(* The volume of a level is the sum of the sizes of these. *)
IsVolume(n, k) ==
  \E sum \in [Nat -> Nat] : Sums(queue[n], sum, k) /\ volume[n] = sum[k]

VolumesExact == \A n \in Node, k \in Nat : AreLeft(n, k) => IsVolume(n, k)

PoppedInLevel ==
  \A c \in Client : pc[c] = "match" => popped[c] <= Len(queue[curr[c]])

Places == Known /\ OnePlace /\ LinkedByMaker /\ BookHeldInPrelude

LockInv ==
  /\ IInv /\ NumbersOK
  /\ Places /\ LocksExact
  /\ PoppedInLevel /\ VolumesExact

-----------------------------------------------------------------------------
(* The heads are levels that no order makes, and Nil and m are no levels. *)
LEMMA Names ==
  /\ Heads \subseteq Node /\ OrderId \subseteq Node /\ Node \subseteq Mutex
  /\ BookMutex \in Mutex \ Node
  /\ Nil \notin Node /\ Nil \notin Client
  /\ \A n \in Node : n \in OrderId <=> n \notin Heads
BY BookAssumption DEF Node, Mutex

(* The two heads of a command are two. *)
LEMMA TwoHeads ==
  ASSUME NEW o \in OrderId, cmd \in [OrderId -> Command \cup {Nil}], cmd[o] # Nil
  PROVE  /\ HeadOf(cmd[o].side) \in Heads
         /\ HeadOf(Opposite(cmd[o].side)) \in Heads
         /\ HeadOf(Opposite(cmd[o].side)) # HeadOf(cmd[o].side)
<1>1. cmd[o].side \in Side
  BY DEF Command
<1> QED
  BY <1>1, BookAssumption DEF Side, HeadOf, Opposite, Heads

(* A command never changes, so neither does what its order trades with. *)
LEMMA SameTrades ==
  ASSUME NEW d \in Client, my'[d] = my[d], cmd'[my[d]] = cmd[my[d]],
         NEW n \in Node, n \in OrderId => cmd'[n] = cmd[n]
  PROVE  Trades(my[d], n)' <=> Trades(my[d], n)
BY Names DEF Trades, PriceOf

(* A step of c as the other threads see it: nobody else moves, locks go to *)
(* c or come from it, and levels that others hold, commands that were read *)
(* and orders that others work on stay what they are.                      *)
OthersStay(c) ==
  \A d \in Client \ {c} :
    /\ pc'[d] = pc[d] /\ my'[d] = my[d] /\ curr'[d] = curr[d]
    /\ v'[d] = v[d] /\ popped'[d] = popped[d]

LocksOfOthersStay(c) ==
  \A m \in Mutex : owner'[m] = owner[m]
                   \/ (owner[m] \in {c, Nil} /\ owner'[m] \in {c, Nil})

LevelsOfOthersStay(c) ==
  \A n \in Node : owner[n] \notin {c, Nil} =>
    next'[n] = next[n] /\ volume'[n] = volume[n]

OrdersOfOthersStay(c) ==
  /\ \A o \in OrderId : cmd[o] # Nil => cmd'[o] = cmd[o]
  /\ \A d \in Client \ {c} : pc[d] \in OrderPc => count'[my[d]] = count[my[d]]

StepOf(c) ==
  /\ OthersStay(c) /\ LocksOfOthersStay(c)
  /\ LevelsOfOthersStay(c) /\ OrdersOfOthersStay(c)

(* A thread holds the same path if what it holds stays as it is. *)
LEMMA SamePath ==
  ASSUME IInv, Known, NEW d \in Client, pc[d] \in PathPc,
         pc'[d] = pc[d], my'[d] = my[d], curr'[d] = curr[d], v'[d] = v[d],
         \A n \in Node : Holds(d, n)' <=> Holds(d, n),
         \A n \in Node : Holds(d, n) => next'[n] = next[n] /\ volume'[n] = volume[n],
         \A o \in OrderId : cmd[o] # Nil => cmd'[o] = cmd[o],
         count'[my[d]] = count[my[d]],
         HasPath(d)
  PROVE  HasPath(d)'
<1>1. PICK level \in [Nat -> Node], left \in [Nat -> Int], a \in Nat, b \in Nat :
        Path(d, level, left, a, b)
  BY DEF HasPath
<1>2. /\ my[d] \in OrderId /\ cmd[my[d]] # Nil /\ cmd'[my[d]] = cmd[my[d]]
      /\ next \in [Node -> OrderId \cup {Nil}]
  <2>1. my[d] \in OrderId
    BY DEF IInv, HasOrder, PathPc, MatchPc, Idle
  <2>2. cmd[my[d]] # Nil
    BY DEF Known, PathPc, MatchPc, OrderPc
  <2> QED
    BY <2>1, <2>2 DEF IInv, ShapeOK
<1>3. /\ OwnHead(d)' = OwnHead(d) /\ OtherHead(d)' = OtherHead(d)
  BY <1>2 DEF OwnHead, OtherHead
<1>4. \A i \in a .. b : level[i] \in Node /\ Holds(d, level[i])
  BY <1>1 DEF Path, HoldsPath
<1>5. \A i \in a .. b : ToTrade(level[i])' = ToTrade(level[i])
                        /\ next'[level[i]] = next[level[i]]
  BY <1>4 DEF ToTrade
<1>6. ASSUME NEW n \in Node, NEW m \in Node, next[n] = m
      PROVE  Trades(my[d], m)' <=> Trades(my[d], m)
  <2>1. m \in OrderId /\ next[n] # Nil
    BY <1>2, <1>6, Names
  <2>2. cmd'[m] = cmd[m]
    BY <1>6, <2>1 DEF Known
  <2> QED
    BY <1>2, <2>2, SameTrades
<1>7. Follow(d, level, left, a, b)'
  <2>1. Follow(d, level, left, a, b)
    BY <1>1 DEF Path
  <2>2. ASSUME NEW i \in a .. b - 1
        PROVE  /\ next'[level[i]] = level[i + 1]
               /\ Trades(my[d], level[i + 1])'
               /\ left[i + 1] = left[i] - ToTrade(level[i])'
               /\ left[i + 1] > 0
    <3>1. i \in a .. b /\ i + 1 \in a .. b
      OBVIOUS
    <3>2. /\ next[level[i]] = level[i + 1] /\ Trades(my[d], level[i + 1])
          /\ left[i + 1] = left[i] - ToTrade(level[i]) /\ left[i + 1] > 0
      BY <2>1 DEF Follow
    <3>3. level[i] \in Node /\ level[i + 1] \in Node
      BY <1>4, <3>1
    <3>4. Trades(my[d], level[i + 1])'
      BY <1>6, <3>2, <3>3
    <3> QED
      BY <1>5, <3>1, <3>2, <3>4
  <2>3. a <= b /\ left[a] = count'[my'[d]]
    BY <2>1 DEF Follow
  <2>4. b \in a .. b
    BY <2>3
  <2>5. v'[d] = left[b] - ToTrade(level[b])'
    BY <1>5, <2>1, <2>4 DEF Follow
  <2> QED
    BY <2>2, <2>3, <2>5 DEF Follow
<1>8. HoldsPath(d, level, a, b)'
  <2>1. HeadOf(cmd[my[d]].side) \in Node
    BY HeadIsNode
  <2> QED
    BY <1>1, <1>3, <1>4, <2>1 DEF Path, HoldsPath, OwnHead
<1>9. AtPath(d, level, a, b)'
  <2>1. b \in a .. b /\ level[b] \in Node /\ next'[level[b]] = next[level[b]]
    BY <1>1, <1>4, <1>5 DEF Path, Follow
  <2>2. next[level[b]] # Nil =>
          (Trades(my[d], next[level[b]])' <=> Trades(my[d], next[level[b]]))
    <3>1. ASSUME next[level[b]] # Nil
          PROVE  Trades(my[d], next[level[b]])' <=> Trades(my[d], next[level[b]])
      <4>1. PICK m \in Node : m = next[level[b]]
        BY <1>2, <2>1, <3>1, Names
      <4>2. Trades(my[d], m)' <=> Trades(my[d], m)
        BY <1>6, <2>1, <4>1
      <4>3. m = next'[level[b]]
        BY <2>1, <4>1
      <4> QED
        BY <4>1, <4>2, <4>3
    <3> QED
      BY <3>1
  <2> QED
    BY <1>1, <1>3, <2>1, <2>2 DEF Path, AtPath
<1> QED
  BY <1>7, <1>8, <1>9 DEF HasPath, Path

(* So a step of one thread leaves the locks of the others what they were. *)
LEMMA OthersKeepLocks ==
  ASSUME IInv, Known, LocksExact, NEW c \in Client, StepOf(c),
         NEW d \in Client \ {c}
  PROVE  LocksOf(d)'
<1>1. /\ pc'[d] = pc[d] /\ my'[d] = my[d] /\ curr'[d] = curr[d] /\ v'[d] = v[d]
  BY DEF StepOf, OthersStay
<1>2. \A n \in Node : Holds(d, n)' <=> Holds(d, n)
  BY Names DEF StepOf, LocksOfOthersStay, Holds
<1>3. \A n \in Node : Holds(d, n) => next'[n] = next[n] /\ volume'[n] = volume[n]
  BY Names DEF StepOf, LevelsOfOthersStay, Holds
<1>4. pc[d] \in OrderPc => count'[my[d]] = count[my[d]]
  BY DEF StepOf, OrdersOfOthersStay
<1>5. LocksOf(d)
  BY DEF LocksExact
<1>6. ASSUME pc[d] \in PathPc PROVE HasPath(d)'
  <2>1. count'[my[d]] = count[my[d]]
    BY <1>4, <1>6 DEF PathPc, MatchPc, OrderPc
  <2>2. \A o \in OrderId : cmd[o] # Nil => cmd'[o] = cmd[o]
    BY DEF StepOf, OrdersOfOthersStay
  <2>3. HasPath(d)
    BY <1>5, <1>6 DEF LocksOf
  <2> QED
    BY <1>1, <1>2, <1>3, <1>6, <2>1, <2>2, <2>3, SamePath
<1>7. ASSUME pc[d] = "lock opposite" PROVE v'[d] = count'[my'[d]]
  BY <1>1, <1>4, <1>5, <1>7 DEF LocksOf, OrderPc
<1> QED
  BY <1>1, <1>2, <1>5, <1>6, <1>7 DEF LocksOf

(* A step of c that leaves c's locks as they should be, too. *)
LEMMA LocksKept ==
  ASSUME IInv, Known, LocksExact, NEW c \in Client, StepOf(c), LocksOf(c)'
  PROVE  LocksExact'
<1>1. ASSUME NEW d \in Client PROVE LocksOf(d)'
  BY OthersKeepLocks
<1> QED
  BY <1>1 DEF LocksExact

-----------------------------------------------------------------------------
(* Where orders are.  A step takes orders out of levels, or nowhere.       *)
QueuesShrink ==
  \A n \in Node : \E g \in [DOMAIN queue'[n] -> DOMAIN queue[n]] :
    \A i, j \in DOMAIN queue'[n] :
      queue'[n][i] = queue[n][g[i]] /\ (g[i] = g[j] => i = j)

LEMMA SameQueuesShrink ==
  ASSUME UNCHANGED queue
  PROVE  QueuesShrink
<1>1. ASSUME NEW n \in Node
      PROVE  \E g \in [DOMAIN queue'[n] -> DOMAIN queue[n]] :
               \A i, j \in DOMAIN queue'[n] :
                 queue'[n][i] = queue[n][g[i]] /\ (g[i] = g[j] => i = j)
  <2> DEFINE g == [i \in DOMAIN queue[n] |-> i]
  <2>1. g \in [DOMAIN queue'[n] -> DOMAIN queue[n]]
    OBVIOUS
  <2> QED
    BY <2>1
<1> QED
  BY <1>1 DEF QueuesShrink

(* What a thread needs for the step it goes to. *)
MayGo(c, label, o) ==
  /\ label \in OrderPc => /\ pc[c] \in OrderPc /\ o = my[c]
                          /\ label \notin {"register", "enqueue"}
                                => pc[c] \notin {"register", "enqueue"}
  /\ label \in {"cancel head", "cancel step", "cancel level", "gone", "cancelled"}
       => cmd[o] # Nil
  /\ owner'[BookMutex] = c => label \in PreludeSteps

Goes(c, label, o) ==
  /\ pc' = [pc EXCEPT ![c] = label]
  /\ my' = [my EXCEPT ![c] = o]

NoNewLocks == \A n \in OrderId : owner'[n] # Nil => \E m \in Node : next[m] = n

LEMMA PlacesKept ==
  ASSUME IInv, Places, NEW c \in Client, NEW label, NEW o, Goes(c, label, o),
         UNCHANGED <<cmd, next>>, \A x \in orders' : cmd[x] # Nil, QueuesShrink,
         MayGo(c, label, o), LocksOfOthersStay(c), NoNewLocks
  PROVE  Places'
<1>0. /\ pc \in [Client -> Pc] /\ my \in [Client -> OrderId \cup {Nil}]
  BY DEF IInv, ShapeOK
<1>1. \A d \in Client : pc'[d] = (IF d = c THEN label ELSE pc[d])
                        /\ my'[d] = (IF d = c THEN o ELSE my[d])
  BY <1>0 DEF Goes
<1>2. \A d \in Client : pc'[d] \in OrderPc => pc[d] \in OrderPc /\ my'[d] = my[d]
                          /\ (pc'[d] \notin {"register", "enqueue"}
                              => pc[d] \notin {"register", "enqueue"})
  BY <1>1 DEF MayGo
<1>3. ASSUME NEW n \in Node, NEW i \in DOMAIN queue'[n]
      PROVE  \E j \in DOMAIN queue[n] : queue'[n][i] = queue[n][j]
  <2>1. PICK g \in [DOMAIN queue'[n] -> DOMAIN queue[n]] :
          \A k, j \in DOMAIN queue'[n] :
            queue'[n][k] = queue[n][g[k]] /\ (g[k] = g[j] => k = j)
    BY DEF QueuesShrink
  <2>2. g[i] \in DOMAIN queue[n] /\ queue'[n][i] = queue[n][g[i]]
    BY <2>1
  <2> QED
    BY <2>2
<1>4. Known'
  <2>1. \A x \in orders' : cmd'[x] # Nil
    OBVIOUS
  <2>2. ASSUME NEW d \in Client,
               pc'[d] \in OrderPc \cup {"cancel head", "cancel step", "cancel level",
                                        "gone", "cancelled"}
        PROVE  cmd'[my'[d]] # Nil
    <3>1. CASE d = c
      BY <1>1, <1>2, <2>2, <3>1 DEF MayGo, Places, Known
    <3>2. CASE d # c
      BY <1>1, <2>2, <3>2 DEF Places, Known
    <3> QED
      BY <3>1, <3>2
  <2>3. ASSUME NEW n \in Node, NEW i \in DOMAIN queue'[n]
        PROVE  cmd'[queue'[n][i]] # Nil
    <3>1. PICK j \in DOMAIN queue[n] : queue'[n][i] = queue[n][j]
      BY <1>3
    <3>2. cmd[queue[n][j]] # Nil
      BY DEF Places, Known
    <3> QED
      BY <3>1, <3>2
  <2>4. \A n \in Node : next'[n] # Nil => cmd'[next'[n]] # Nil
    BY DEF Places, Known
  <2> QED
    BY <2>1, <2>2, <2>3, <2>4 DEF Known
<1>5. OnePlace'
  <2>1. \A d, e \in Client :
          pc'[d] \in OrderPc /\ pc'[e] \in OrderPc /\ my'[d] = my'[e] => d = e
    BY <1>2 DEF Places, OnePlace
  <2>2. \A d \in Client : pc'[d] \in OrderPc =>
          \A n \in Node : \A i \in DOMAIN queue'[n] : queue'[n][i] # my'[d]
    BY <1>2, <1>3 DEF Places, OnePlace
  <2>3. ASSUME NEW n \in Node, NEW m \in Node,
               NEW i \in DOMAIN queue'[n], NEW j \in DOMAIN queue'[m],
               queue'[n][i] = queue'[m][j]
        PROVE  n = m /\ i = j
    <3>1. n = m
      BY <1>3, <2>3 DEF Places, OnePlace
    <3>2. PICK g \in [DOMAIN queue'[n] -> DOMAIN queue[n]] :
            \A k, l \in DOMAIN queue'[n] :
              queue'[n][k] = queue[n][g[k]] /\ (g[k] = g[l] => k = l)
      BY DEF QueuesShrink
    <3>3. g[i] \in DOMAIN queue[n] /\ g[j] \in DOMAIN queue[n]
          /\ queue[n][g[i]] = queue[n][g[j]]
      BY <2>3, <3>1, <3>2
    <3>4. g[i] = g[j]
      BY <3>3 DEF Places, OnePlace
    <3> QED
      BY <3>1, <3>2, <3>4
  <2> QED
    BY <2>1, <2>2, <2>3 DEF OnePlace
<1>6. LinkedByMaker'
  <2>1. \A d \in Client : pc'[d] \in OrderPc \ {"register", "enqueue"} =>
          \A n \in Node : next'[n] # my'[d]
    BY <1>2 DEF Places, LinkedByMaker
  <2>2. \A n \in OrderId : next'[n] # Nil => \E m \in Node : next'[m] = n
    BY DEF Places, LinkedByMaker
  <2> QED
    BY <2>1, <2>2 DEF LinkedByMaker, NoNewLocks
<1>7. BookHeldInPrelude'
  BY <1>1, Names DEF Places, BookHeldInPrelude, MayGo, Holds, LocksOfOthersStay
<1> QED
  BY <1>4, <1>5, <1>6, <1>7 DEF Places

(* Orders of the map that were in it before were read. *)
LEMMA KeysKnown ==
  ASSUME Places, orders' \subseteq orders
  PROVE  \A x \in orders' : cmd[x] # Nil
BY DEF Places, Known

-----------------------------------------------------------------------------
(* What the locks of a thread say about where it stands. *)
LEMMA HoldsLevel ==
  ASSUME IInv, LocksExact, NEW c \in Client, pc[c] \in MatchPc \cup OneLockPc
  PROVE  curr[c] \in Node /\ Holds(c, curr[c])
<1>1. curr[c] \in Node
  BY DEF IInv, StandsOn, OnLevel, MatchPc, OneLockPc
<1>2. CASE pc[c] \in MatchPc
  <2>1. PICK level \in [Nat -> Node], left \in [Nat -> Int], a \in Nat, b \in Nat :
          Path(c, level, left, a, b)
    BY <1>2 DEF LocksExact, LocksOf, PathPc, HasPath
  <2>2. Follow(c, level, left, a, b) /\ AtPath(c, level, a, b)
    BY <2>1 DEF Path
  <2>3. a \in a .. b
    BY <2>2 DEF Follow
  <2>4. curr[c] = level[a]
    BY <1>2, <2>2 DEF AtPath
  <2> QED
    BY <1>1, <2>1, <2>3, <2>4 DEF Path, HoldsPath
<1>3. CASE pc[c] \in OneLockPc
  BY <1>1, <1>3 DEF LocksExact, LocksOf
<1> QED
  BY <1>1, <1>2, <1>3

(* matchOrder is at a level that was made by an order, not at a head. *)
LEMMA MatchesLevel ==
  ASSUME IInv, LocksExact, NEW c \in Client, pc[c] = "match"
  PROVE  curr[c] \in OrderId
<1>1. PICK level \in [Nat -> Node], left \in [Nat -> Int], a \in Nat, b \in Nat :
        Path(c, level, left, a, b)
  BY DEF LocksExact, LocksOf, PathPc, MatchPc, HasPath
<1> QED
  BY <1>1 DEF Path, AtPath, MatchPc

(* Two threads are not on one level that both hold. *)
LEMMA AloneOnLevel ==
  ASSUME IInv, LocksExact, NEW c \in Client, NEW d \in Client,
         NEW n \in Node, Holds(c, n), Matching(d, n)
  PROVE  d = c
BY HoldsLevel DEF Matching, MatchPc, Holds

-----------------------------------------------------------------------------
(* A step of c that has nothing to do with level n. *)
Untouched(c, n) ==
  /\ volume'[n] = volume[n] /\ queue'[n] = queue[n]
  /\ \A i \in DOMAIN queue[n] : count'[queue[n][i]] = count[queue[n][i]]
  /\ ~Matching(c, n)

(* The sum over the first k orders stays if their sizes do. *)
LEMMA SameVolume ==
  ASSUME NumbersOK, NEW n \in Node, NEW k \in Nat, k <= Len(queue[n]),
         volume'[n] = volume[n], queue'[n] = queue[n],
         \A i \in DOMAIN queue[n] : count'[queue[n][i]] = count[queue[n][i]],
         IsVolume(n, k)
  PROVE  IsVolume(n, k)'
<1>1. PICK sum \in [Nat -> Nat] : Sums(queue[n], sum, k) /\ volume[n] = sum[k]
  BY DEF IsVolume
<1>2. queue[n] \in Seq(OrderId)
  BY DEF NumbersOK
<1>3. \A i \in 1 .. k : i \in DOMAIN queue[n]
  BY SMTT(30), <1>2
<1>4. Sums(queue[n], sum, k)'
  BY <1>1, <1>3 DEF Sums
<1> QED
  BY <1>1, <1>4 DEF IsVolume

LEMMA UntouchedVolume ==
  ASSUME IInv, NumbersOK, PoppedInLevel, VolumesExact, NEW c \in Client,
         OthersStay(c), NEW n \in Node, NEW k \in Nat,
         Untouched(c, n), ~Matching(c, n)', AreLeft(n, k)'
  PROVE  IsVolume(n, k)'
<1>1. \A d \in Client : Matching(d, n)' <=> Matching(d, n)
  BY DEF OthersStay, Matching, Untouched
<1>2. AreLeft(n, k)
  <2>1. CASE \E d \in Client : Matching(d, n)' /\ k = Len(queue'[n]) - popped'[d]
    <3>1. PICK d \in Client : Matching(d, n)' /\ k = Len(queue'[n]) - popped'[d]
      BY <2>1
    <3>2. d # c /\ Matching(d, n)
      BY <1>1, <3>1
    <3>3. k = Len(queue[n]) - popped[d]
      BY <3>1, <3>2 DEF OthersStay, Untouched
    <3> QED
      BY <3>2, <3>3 DEF AreLeft
  <2>2. CASE (\A d \in Client : ~Matching(d, n)') /\ k = Len(queue'[n])
    BY <1>1, <2>2 DEF AreLeft, Untouched
  <2> QED
    BY <2>1, <2>2 DEF AreLeft
<1>3. k <= Len(queue[n])
  <2>1. queue[n] \in Seq(OrderId) /\ Len(queue[n]) \in Nat
    BY DEF NumbersOK
  <2>2. \A d \in Client : popped[d] \in Nat
    BY DEF NumbersOK
  <2> QED
    BY <1>2, <2>1, <2>2 DEF AreLeft
<1>4. IsVolume(n, k)
  BY <1>2 DEF VolumesExact
<1> QED
  BY <1>3, <1>4, SameVolume DEF Untouched

(* A thread that gets to a level it holds finds all of its orders left. *)
LEMMA BeginLevel ==
  ASSUME IInv, NumbersOK, LocksExact, VolumesExact, NEW c \in Client,
         OthersStay(c), NEW n \in Node, NEW k \in Nat,
         Untouched(c, n), Holds(c, n), Matching(c, n)', popped'[c] = 0, AreLeft(n, k)'
  PROVE  IsVolume(n, k)' /\ popped'[c] <= Len(queue'[n])
<1>1. \A d \in Client : ~Matching(d, n)
  BY AloneOnLevel DEF Untouched
<1>2. \A d \in Client \ {c} : ~Matching(d, n)'
  BY <1>1 DEF OthersStay, Matching
<1>3. Len(queue[n]) \in Nat
  BY DEF NumbersOK
<1>4. k = Len(queue[n])
  BY <1>2, <1>3 DEF AreLeft, Untouched
<1>5. IsVolume(n, k)
  BY <1>1, <1>4 DEF VolumesExact, AreLeft
<1> QED
  BY <1>3, <1>4, <1>5, SameVolume DEF Untouched

-----------------------------------------------------------------------------
(* Sizes that fit are not wrapped by uint32_t or int. *)
LEMMA UIntOfSmall ==
  ASSUME NEW x \in 0 .. Modulus - 1
  PROVE  ToUInt(x) = x
<1>1. Modulus \in Nat /\ Modulus > 0
  BY BookAssumption
<1> QED
  BY <1>1 DEF ToUInt

LEMMA UIntInRange ==
  ASSUME NEW x \in Int
  PROVE  ToUInt(x) \in 0 .. Modulus - 1
<1>1. Modulus \in Nat /\ Modulus > 0
  BY BookAssumption
<1> QED
  BY <1>1 DEF ToUInt

LEMMA IntOfSmall ==
  ASSUME NEW x \in Int, -Modulus <= 2 * x, 2 * x < Modulus
  PROVE  ToInt(x) = x
<1>1. Modulus \in Nat /\ Modulus > 0
  BY BookAssumption
<1>2. CASE x >= 0
  BY <1>1, <1>2, UIntOfSmall DEF ToInt
<1>3. CASE x < 0
  <2>1. x % Modulus = x + Modulus
    BY <1>1, <1>3
  <2>2. 2 * (x + Modulus) >= Modulus
    BY <1>1
  <2> QED
    BY <1>1, <2>1, <2>2 DEF ToInt, ToUInt
<1> QED
  BY <1>2, <1>3

-----------------------------------------------------------------------------
(* The steps that change no level and no order: c goes to another step and *)
(* takes and gives back mutexes.                                           *)
LocalsTyped ==
  v' \in [Client -> Int] /\ popped' \in [Client -> Nat] /\ printed' \in Seq(Line)

LeavesLevels ==
  UNCHANGED <<cmd, count, executionId, next, volume, queue>>

LeavesBook ==
  UNCHANGED <<cmd, count, executionId, orders, next, volume, queue>>

LEMMA StepLeavesLevels ==
  ASSUME NEW c \in Client, OthersStay(c), LocksOfOthersStay(c), LeavesLevels
  PROVE  StepOf(c)
BY DEF StepOf, LeavesLevels, LevelsOfOthersStay, OrdersOfOthersStay, OthersStay

LEMMA NumbersLeavesLevels ==
  ASSUME NumbersOK, LeavesLevels, LocalsTyped
  PROVE  NumbersOK'
BY DEF NumbersOK, LeavesLevels, LocalsTyped

LEMMA LevelsKeep ==
  ASSUME LockInv, IInv', NEW c \in Client, NEW label, NEW o,
         Goes(c, label, o), MayGo(c, label, o), LeavesLevels, LocalsTyped,
         \A x \in orders' : cmd[x] # Nil,
         OthersStay(c), LocksOfOthersStay(c), NoNewLocks,
         pc[c] # "match", label # "match", LocksOf(c)'
  PROVE  LockInv'
<1>1. LocksExact'
  BY LocksKept, StepLeavesLevels DEF LockInv, Places
<1>2. Places'
  <2>1. QueuesShrink
    BY SameQueuesShrink DEF LeavesLevels
  <2> QED
    BY <2>1, PlacesKept DEF LockInv, LeavesLevels
<1>3. NumbersOK'
  BY NumbersLeavesLevels DEF LockInv
<1>4. pc'[c] = label
  BY DEF LockInv, IInv, ShapeOK, Goes
<1>5. VolumesExact'
  <2>1. ASSUME NEW n \in Node, NEW k \in Nat, AreLeft(n, k)'
        PROVE  IsVolume(n, k)'
    <3>1. Untouched(c, n) /\ ~Matching(c, n)'
      BY <1>4 DEF Untouched, Matching, LeavesLevels
    <3> QED
      BY <2>1, <3>1, UntouchedVolume DEF LockInv
  <2> QED
    BY <2>1 DEF VolumesExact
<1>6. PoppedInLevel'
  <2>1. \A d \in Client : pc'[d] = "match" => d # c
    BY <1>4
  <2> QED
    BY <2>1 DEF LockInv, PoppedInLevel, OthersStay, LeavesLevels
<1> QED
  BY <1>1, <1>2, <1>3, <1>5, <1>6 DEF LockInv

LEMMA QuietKeeps ==
  ASSUME LockInv, IInv', NEW c \in Client, NEW label, NEW o,
         Goes(c, label, o), MayGo(c, label, o), LeavesBook, LocalsTyped,
         OthersStay(c), LocksOfOthersStay(c), NoNewLocks,
         pc[c] # "match", label # "match", LocksOf(c)'
  PROVE  LockInv'
<1>1. LeavesLevels /\ \A x \in orders' : cmd[x] # Nil
  BY DEF LeavesBook, LeavesLevels, LockInv, Places, Known
<1> QED
  BY <1>1, LevelsKeep

(* A thread that stays with its order. *)
LEMMA GoesOn1 ==
  ASSUME LockInv, NEW c \in Client, NEW label, Goto(c, label), UNCHANGED my
  PROVE  Goes(c, label, my[c]) /\ pc'[c] = label /\ my'[c] = my[c]
BY DEF LockInv, IInv, ShapeOK, Goto, Goes

(* Only c's entries of the threads change. *)
LEMMA OnlyMine ==
  ASSUME LockInv, NEW c \in Client, NEW label, NEW o, Goes(c, label, o),
         NEW level, curr' = [curr EXCEPT ![c] = level],
         NEW x, v' = [v EXCEPT ![c] = x], NEW y, popped' = [popped EXCEPT ![c] = y]
  PROVE  /\ OthersStay(c)
         /\ pc'[c] = label /\ my'[c] = o /\ curr'[c] = level
         /\ v'[c] = x /\ popped'[c] = y
BY DEF LockInv, IInv, ShapeOK, NumbersOK, Goes, OthersStay

(* Back to reading: no order, no level, nothing to cover. *)
LEMMA FinishGoes ==
  ASSUME LockInv, NEW c \in Client, Finish(c)
  PROVE  /\ Goes(c, "read", Nil) /\ OthersStay(c)
         /\ pc'[c] = "read" /\ my'[c] = Nil
         /\ v' \in [Client -> Int] /\ popped' \in [Client -> Nat]
<1>1. Goes(c, "read", Nil)
  BY DEF Finish, Goto, Goes
<1>2. OthersStay(c) /\ pc'[c] = "read" /\ my'[c] = Nil
  BY <1>1, OnlyMine DEF Finish
<1>3. v' \in [Client -> Int] /\ popped' \in [Client -> Nat]
  BY DEF Finish, LockInv, NumbersOK
<1> QED
  BY <1>1, <1>2, <1>3

(* One mutex that c takes or gives back, or one of each. *)
LEMMA OneLock ==
  ASSUME LockInv, NEW c \in Client, NEW m \in Mutex, NEW x \in {c, Nil},
         owner[m] \in {c, Nil}, owner' = [owner EXCEPT ![m] = x]
  PROVE  /\ LocksOfOthersStay(c)
         /\ \A n \in Mutex : Holds(c, n)' <=> IF n = m THEN x = c ELSE Holds(c, n)
BY DEF LockInv, IInv, ShapeOK, LocksOfOthersStay, Holds

LEMMA HandOver ==
  ASSUME LockInv, NEW c \in Client, NEW n \in Mutex, NEW m \in Mutex,
         Free(n), Holds(c, m), owner' = [owner EXCEPT ![n] = c, ![m] = Nil]
  PROVE  /\ LocksOfOthersStay(c)
         /\ \A l \in Mutex : Holds(c, l)' <=> (l = n \/ (Holds(c, l) /\ l # m))
<1>1. owner \in [Mutex -> Client \cup {Nil}] /\ Nil # c
  BY Names DEF LockInv, IInv, ShapeOK
<1> QED
  BY <1>1 DEF LocksOfOthersStay, Holds, Free

(* Locks of levels that were linked, of heads and of m are no new locks. *)
LEMMA OldLocks ==
  ASSUME LockInv, NEW c \in Client,
         \A n \in OrderId : owner'[n] = owner[n] \/ owner'[n] = Nil
                            \/ \E m \in Node : next[m] = n
  PROVE  NoNewLocks
BY DEF LockInv, Places, LinkedByMaker, NoNewLocks

-----------------------------------------------------------------------------
(* Between commands, looking up and answering: no mutex before and after.  *)
LEMMA QuietStays ==
  ASSUME LockInv, NEW c \in Client, UNCHANGED owner,
         pc[c] \in QuietPc, pc'[c] \in QuietPc
  PROVE  /\ LocksOf(c)' /\ LocksOfOthersStay(c) /\ NoNewLocks
         /\ owner'[BookMutex] # c
<1>1. LocksOf(c)'
  BY DEF LockInv, LocksExact, LocksOf, QuietPc, PathPc, MatchPc, OneLockPc, Holds
<1>2. LocksOfOthersStay(c)
  BY DEF LocksOfOthersStay
<1>3. NoNewLocks
  BY DEF LockInv, Places, LinkedByMaker, NoNewLocks
<1>4. owner[BookMutex] # c
  BY DEF LockInv, Places, BookHeldInPrelude, Holds, QuietPc, PreludeSteps
<1> QED
  BY <1>1, <1>2, <1>3, <1>4

LEMMA ReadCancelKeeps ==
  ASSUME LockInv, IInv', NEW c \in Client, NEW o \in OrderId, ReadCancel(c, o)
  PROVE  LockInv'
<1>1. Goes(c, "look up", o) /\ pc'[c] = "look up"
  BY DEF ReadCancel, Goto, Goes, LockInv, IInv, ShapeOK
<1>2. OthersStay(c)
  BY <1>1 DEF ReadCancel, Goes, LockInv, IInv, ShapeOK, OthersStay
<1>3. LeavesBook /\ UNCHANGED owner
  BY DEF ReadCancel, LeavesBook, orderVars, bookVars
<1>4. LocalsTyped
  BY DEF ReadCancel, LocalsTyped, LockInv, NumbersOK
<1>5. pc[c] \in QuietPc /\ pc'[c] \in QuietPc
  BY <1>1 DEF ReadCancel, QuietPc
<1>6. MayGo(c, "look up", o)
  BY <1>3, <1>5, QuietStays DEF MayGo, OrderPc
<1> QED
  BY <1>1, <1>2, <1>3, <1>4, <1>5, <1>6, QuietStays, QuietKeeps DEF ReadCancel

LEMMA EndOfFileKeeps ==
  ASSUME LockInv, IInv', NEW c \in Client, EndOfFile(c)
  PROVE  LockInv'
<1>1. Goes(c, "closed", my[c]) /\ pc'[c] = "closed"
  BY GoesOn1 DEF EndOfFile
<1>2. OthersStay(c)
  BY <1>1 DEF EndOfFile, Goes, LockInv, IInv, ShapeOK, OthersStay
<1>3. LeavesBook /\ UNCHANGED owner
  BY DEF EndOfFile, LeavesBook, orderVars, bookVars
<1>4. LocalsTyped
  BY DEF EndOfFile, LocalsTyped, LockInv, NumbersOK
<1>5. pc[c] \in QuietPc /\ pc'[c] \in QuietPc
  BY <1>1 DEF EndOfFile, QuietPc
<1>6. MayGo(c, "closed", my[c])
  BY <1>3, <1>5, QuietStays DEF MayGo, OrderPc
<1> QED
  BY <1>1, <1>2, <1>3, <1>4, <1>5, <1>6, QuietStays, QuietKeeps DEF EndOfFile

LEMMA LookUpKeeps ==
  ASSUME LockInv, IInv', NEW c \in Client, LookUp(c)
  PROVE  LockInv'
<1>0. PICK label : label = IF my[c] \in orders THEN "cancel head" ELSE "unknown"
  OBVIOUS
<1>1. Goes(c, label, my[c]) /\ pc'[c] = label
  BY <1>0, GoesOn1 DEF LookUp
<1>2. OthersStay(c)
  BY <1>1 DEF LookUp, Goes, LockInv, IInv, ShapeOK, OthersStay
<1>3. LeavesBook /\ UNCHANGED owner
  BY DEF LookUp, LeavesBook, orderVars, bookVars
<1>4. LocalsTyped
  BY DEF LookUp, LocalsTyped, LockInv, NumbersOK
<1>5. pc[c] \in QuietPc /\ pc'[c] \in QuietPc
  BY <1>0, <1>1 DEF LookUp, QuietPc
<1>6. label = "cancel head" => cmd[my[c]] # Nil
  BY <1>0 DEF LockInv, Places, Known
<1>7. MayGo(c, label, my[c])
  BY <1>0, <1>3, <1>5, <1>6, QuietStays DEF MayGo, OrderPc
<1> QED
  BY <1>0, <1>1, <1>2, <1>3, <1>4, <1>5, <1>7, QuietStays, QuietKeeps DEF LookUp

(* A line more is printed. *)
LEMMA PrintTyped ==
  ASSUME LockInv, NEW line \in Line, PrintLine(line)
  PROVE  printed' \in Seq(Line)
<1>1. printed \in Seq(Line) /\ printed' = Append(printed, line)
  BY DEF LockInv, NumbersOK, PrintLine
<1> QED
  BY <1>1

(* A rejection is a line about an order, stamped with a time. *)
LEMMA RejectKeeps ==
  ASSUME LockInv, IInv', NEW c \in Client, RejectUnknown(c) \/ RejectGone(c)
  PROVE  LockInv'
<1>1. /\ Goes(c, "read", Nil) /\ OthersStay(c) /\ pc'[c] = "read"
      /\ v' \in [Client -> Int] /\ popped' \in [Client -> Nat]
  BY FinishGoes DEF RejectUnknown, RejectGone
<1>2. LeavesBook /\ UNCHANGED owner
  BY DEF RejectUnknown, RejectGone, LeavesBook, orderVars, bookVars
<1>3. printed' \in Seq(Line)
  <2>1. my[c] \in OrderId
    BY DEF LockInv, IInv, HasOrder, Idle, RejectUnknown, RejectGone
  <2>2. PICK time : PrintLine(Deleted(my[c], FALSE, time)) /\ time \in Nat
    <3>1. CASE RejectUnknown(c)
      BY <3>1 DEF RejectUnknown, LockInv, IInv, ShapeOK
    <3>2. CASE RejectGone(c)
      <4>1. cmd[my[c]] # Nil
        BY <3>2 DEF RejectGone, LockInv, Places, Known
      <4>2. cmd[my[c]].time \in Nat
        BY <2>1, <4>1 DEF LockInv, IInv, ShapeOK, Command
      <4> QED
        BY <3>2, <4>2 DEF RejectGone
    <3> QED
      BY <3>1, <3>2
  <2>3. Deleted(my[c], FALSE, time) \in Line
    BY <2>1, <2>2 DEF Deleted, Line
  <2> QED
    BY <2>2, <2>3, PrintTyped
<1>4. pc[c] \in QuietPc /\ pc'[c] \in QuietPc
  BY <1>1 DEF RejectUnknown, RejectGone, QuietPc
<1>5. MayGo(c, "read", Nil)
  BY <1>2, <1>4, QuietStays DEF MayGo, OrderPc
<1> QED
  BY <1>1, <1>2, <1>3, <1>4, <1>5, QuietStays, QuietKeeps
     DEF LocalsTyped, RejectUnknown, RejectGone

-----------------------------------------------------------------------------
LEMMA LocalTypes ==
  ASSUME LockInv
  PROVE  v \in [Client -> Int] /\ popped \in [Client -> Nat] /\ printed \in Seq(Line)
BY DEF LockInv, NumbersOK

(* The prelude.  Sizes and volumes that fit are what an int makes of them. *)
LEMMA FitsInt ==
  ASSUME LockInv, Fits, NEW o \in OrderId, NEW n \in Node
  PROVE  /\ count[o] \in Nat /\ volume[n] \in Nat
         /\ 2 * count[o] < Modulus /\ 2 * volume[n] < Modulus
         /\ volume[n] + count[o] < Modulus
<1>1. Modulus \in Nat /\ count[o] \in 0 .. Modulus - 1 /\ volume[n] \in 0 .. Modulus - 1
  BY BookAssumption DEF LockInv, NumbersOK
<1>2. 2 * (volume[n] + count[o]) < Modulus
  BY DEF Fits
<1> QED
  BY <1>1, <1>2

(* The order of a thread that executes a new one. *)
LEMMA OrderOf ==
  ASSUME LockInv, NEW c \in Client, pc[c] \in OrderPc
  PROVE  /\ my[c] \in OrderId /\ cmd[my[c]] # Nil /\ cmd[my[c]] \in Command
         /\ OwnHead(c) \in Heads /\ OtherHead(c) \in Heads
         /\ OwnHead(c) # OtherHead(c)
         /\ OwnHead(c) \in Node /\ OtherHead(c) \in Node
         /\ OwnHead(c) \notin OrderId /\ OtherHead(c) \notin OrderId
<1>1. my[c] \in OrderId
  BY DEF LockInv, IInv, HasOrder, Idle, OrderPc
<1>2. cmd[my[c]] # Nil /\ cmd \in [OrderId -> Command \cup {Nil}]
  BY DEF LockInv, Places, Known, IInv, ShapeOK
<1> QED
  BY <1>1, <1>2, TwoHeads, Names DEF OwnHead, OtherHead

LEMMA LockBookKeeps ==
  ASSUME LockInv, Fits, IInv', NEW c \in Client, LockBook(c)
  PROVE  LockInv'
<1>1. Goes(c, "lock opposite", my[c]) /\ pc'[c] = "lock opposite" /\ my'[c] = my[c]
  BY GoesOn1 DEF LockBook
<1>2. pc[c] \in OrderPc
  BY DEF LockBook, OrderPc
<1>3. OthersStay(c)
  BY <1>1 DEF LockBook, Goes, LockInv, IInv, ShapeOK, NumbersOK, OthersStay
<1>4. LeavesBook
  BY DEF LockBook, LeavesBook, orderVars
<1>5. /\ v' = [v EXCEPT ![c] = count[my[c]]] /\ v \in [Client -> Int]
      /\ v'[c] = count[my[c]] /\ count[my[c]] \in Nat
  <2>1. my[c] \in OrderId /\ OwnHead(c) \in Node
    BY <1>2, OrderOf
  <2>2. count[my[c]] \in Nat /\ 2 * count[my[c]] < Modulus
    BY <2>1, FitsInt
  <2>3. ToInt(count[my[c]]) = count[my[c]]
    BY <2>2, IntOfSmall, BookAssumption
  <2> QED
    BY <2>2, <2>3 DEF LockBook, LockInv, NumbersOK
<1>6. LocalsTyped
  <2>1. v' \in [Client -> Int]
    BY <1>5
  <2>2. UNCHANGED <<popped, printed>>
    BY DEF LockBook
  <2> QED
    BY <2>1, <2>2, LocalTypes DEF LocalsTyped
<1>7. owner' = [owner EXCEPT ![BookMutex] = c] /\ owner[BookMutex] = Nil
  BY DEF LockBook, Free
<1>8. /\ LocksOfOthersStay(c)
      /\ \A n \in Mutex : Holds(c, n)' <=> IF n = BookMutex THEN c = c ELSE Holds(c, n)
  BY <1>7, OneLock, Names
<1>9. NoNewLocks
  BY <1>7, OldLocks, Names DEF LockInv, IInv, ShapeOK
<1>10. LocksOf(c)'
  <2>1. \A n \in Node : ~Holds(c, n)
    BY DEF LockBook, LockInv, LocksExact, LocksOf, QuietPc
  <2>2. \A n \in Node : ~Holds(c, n)'
    BY <1>8, <2>1, Names
  <2> QED
    BY <1>1, <1>4, <1>5, <2>2 DEF LocksOf, QuietPc, PathPc, MatchPc, OneLockPc, LeavesBook
<1>11. MayGo(c, "lock opposite", my[c])
  BY <1>2 DEF LockBook, MayGo, PreludeSteps
<1> QED
  BY <1>1, <1>3, <1>4, <1>6, <1>8, <1>9, <1>10, <1>11, QuietKeeps DEF LockBook

LEMMA LockOppositeKeeps ==
  ASSUME LockInv, Fits, IInv', NEW c \in Client, LockOpposite(c)
  PROVE  LockInv'
<1>0. PICK head \in Node : head = OtherHead(c)
  BY OrderOf DEF LockOpposite, OrderPc
<1>1. PICK label : label = PreludePc(v[c], next[head])
  OBVIOUS
<1>2. Goes(c, label, my[c]) /\ pc'[c] = label /\ my'[c] = my[c]
  BY <1>0, <1>1, GoesOn1 DEF LockOpposite, OtherHead
<1>3. /\ my[c] \in OrderId /\ head \in Heads /\ head \notin OrderId
      /\ OwnHead(c) # head /\ OwnHead(c) \in Node
      /\ pc[c] \in OrderPc /\ pc[c] = "lock opposite"
  BY <1>0, OrderOf DEF LockOpposite, OrderPc
<1>4. LeavesBook /\ UNCHANGED <<v, popped, printed>>
  BY DEF LockOpposite, LeavesBook, orderVars
<1>5. OthersStay(c) /\ curr'[c] = next[head]
  <2>1. curr' = [curr EXCEPT ![c] = next[head]]
    BY <1>0 DEF LockOpposite, OtherHead
  <2> QED
    BY <1>2, <1>4, <2>1 DEF Goes, LockInv, IInv, ShapeOK, OthersStay
<1>6. owner' = [owner EXCEPT ![head] = c] /\ owner[head] = Nil
  BY <1>0 DEF LockOpposite, OtherHead, Free
<1>7. /\ LocksOfOthersStay(c)
      /\ \A n \in Mutex : Holds(c, n)' <=> IF n = head THEN c = c ELSE Holds(c, n)
  BY <1>6, OneLock, Names
<1>8. NoNewLocks
  BY <1>3, <1>6, OldLocks, Names DEF LockInv, IInv, ShapeOK
<1>9. /\ v[c] = count[my[c]] /\ \A n \in Node : ~Holds(c, n)
      /\ v[c] \in Nat
  BY <1>3, FitsInt DEF LockInv, LocksExact, LocksOf
<1>10. label \in {"walk", "lock own", "commit"}
       /\ (label = "walk" => v[c] > 0)
       /\ (label = "lock own" => v[c] > 0 /\ next[head] = Nil)
       /\ (label = "commit" => ~(v[c] > 0))
  BY <1>1, <1>9 DEF PreludePc
<1>11. HasPath(c)'
  <2> DEFINE level == [i \in Nat |-> head]
  <2>1. PICK left \in [Nat -> Int] : left[0] = count[my[c]]
    <3> DEFINE f == [i \in Nat |-> count[my[c]]]
    <3>1. f \in [Nat -> Int] /\ f[0] = count[my[c]]
      BY <1>9
    <3> QED
      BY <3>1
  <2>2. level \in [Nat -> Node] /\ level[0] = head
    OBVIOUS
  <2> HIDE DEF level
  <2>3. Follow(c, level, left, 0, 0)'
    <3>1. ToTrade(head)' = 0
      BY <1>3 DEF ToTrade
    <3>2. left[0] = count'[my'[c]] /\ v'[c] = left[0] - ToTrade(level[0])'
      BY <1>2, <1>4, <1>9, <2>1, <2>2, <3>1 DEF LeavesBook
    <3> QED
      BY <3>2 DEF Follow
  <2>4. OwnHead(c)' = OwnHead(c) /\ OtherHead(c)' = head
    BY <1>0, <1>2, <1>4 DEF OwnHead, OtherHead, LeavesBook
  <2>5. HoldsPath(c, level, 0, 0)'
    <3>1. \A n \in Node : Holds(c, n)' <=> n = head
      BY <1>7, <1>9, Names
    <3>2. pc'[c] \in LockedPc => ~(v'[c] > 0)
      BY <1>2, <1>4, <1>10 DEF LockedPc, MatchPc
    <3>3. /\ \A i \in 0 .. 0 : i = 0 /\ level[i] = head
          /\ \E i \in 0 .. 0 : level[i] = head
      BY <2>2
    <3>4. ~Holds(c, OwnHead(c))'
      BY <1>3, <2>4, <3>1
    <3> QED
      BY <3>1, <3>2, <3>3, <3>4 DEF HoldsPath
  <2>6. AtPath(c, level, 0, 0)'
    <3>1. next'[level[0]] = next[head]
      BY <1>4, <2>2 DEF LeavesBook
    <3>2. count'[my'[c]] = v'[c] /\ v'[c] = v[c]
      BY <1>2, <1>4, <1>9 DEF LeavesBook
    <3>3. v[c] > 0 => v[c] \in 1 .. v[c]
      BY <1>9
    <3> QED
      BY <1>2, <1>5, <1>10, <2>2, <2>4, <3>1, <3>2, <3>3 DEF AtPath, MatchPc
  <2> QED
    BY <2>1, <2>2, <2>3, <2>5, <2>6 DEF HasPath, Path
<1>12. LocksOf(c)'
  BY <1>2, <1>10, <1>11 DEF LocksOf, QuietPc, PathPc, MatchPc, OneLockPc
<1>13. MayGo(c, label, my[c])
  BY <1>3, <1>10 DEF MayGo, PreludeSteps
<1>14. LocalsTyped
  BY <1>4, LocalTypes DEF LocalsTyped
<1> QED
  BY <1>2, <1>3, <1>4, <1>5, <1>7, <1>8, <1>10, <1>12, <1>13, <1>14, QuietKeeps

(* All levels of a path but the first are levels of orders, and none is    *)
(* the head of the own side.                                               *)
LEMMA PathLevels ==
  ASSUME LockInv, NEW c \in Client, pc[c] \in PathPc,
         NEW level \in [Nat -> Node], NEW left \in [Nat -> Int],
         NEW a \in Nat, NEW b \in Nat, Path(c, level, left, a, b)
  PROVE  /\ a <= b /\ a \in a .. b /\ b \in a .. b
         /\ \A i \in a .. b : level[i] \in Node /\ Holds(c, level[i])
         /\ \A i \in a + 1 .. b : level[i] \in OrderId
         /\ \A i \in a .. b : level[i] # OwnHead(c)
         /\ next \in [Node -> OrderId \cup {Nil}]
<1>1. a <= b
  BY DEF Path, Follow
<1>2. \A i \in a .. b : level[i] \in Node /\ Holds(c, level[i])
  BY DEF Path, HoldsPath
<1>3. next \in [Node -> OrderId \cup {Nil}]
  BY DEF LockInv, IInv, ShapeOK
<1>4. ASSUME NEW i \in a + 1 .. b PROVE level[i] \in OrderId
  <2>1. i - 1 \in a .. b - 1 /\ (i - 1) + 1 = i /\ i - 1 \in Nat
    OBVIOUS
  <2>2. next[level[i - 1]] = level[i]
    BY <2>1 DEF Path, Follow
  <2>3. level[i - 1] \in Node /\ level[i] \in Node
    BY <2>1
  <2> QED
    BY <1>3, <2>2, <2>3, Names
<1>5. level[a] # OwnHead(c)
  BY OrderOf DEF Path, AtPath, PathPc, MatchPc, OrderPc
<1>6. OwnHead(c) \notin OrderId
  BY OrderOf DEF PathPc, MatchPc, OrderPc
<1>7. \A i \in a .. b : i = a \/ i \in a + 1 .. b
  OBVIOUS
<1> QED
  BY <1>1, <1>2, <1>3, <1>4, <1>5, <1>6, <1>7

(* Only the pc, the own head and m change: the levels follow as before. *)
LEMMA FollowStays ==
  ASSUME LockInv, NEW c \in Client, LeavesBook, my'[c] = my[c], v'[c] = v[c],
         NEW level, NEW left, NEW a, NEW b,
         Follow(c, level, left, a, b)
  PROVE  Follow(c, level, left, a, b)'
BY DEF Follow, LeavesBook, Trades, PriceOf, ToTrade

LEMMA WalkEndKeeps ==
  ASSUME LockInv, IInv', NEW c \in Client, WalkEnd(c)
  PROVE  LockInv'
<1>1. /\ Goes(c, "lock own", my[c]) /\ pc'[c] = "lock own" /\ my'[c] = my[c]
      /\ pc[c] = "walk"
  BY GoesOn1 DEF WalkEnd
<1>2. LeavesBook /\ UNCHANGED <<owner, curr, v, popped, printed>>
  BY DEF WalkEnd, LeavesBook, orderVars, bookVars
<1>3. OthersStay(c)
  BY <1>1, <1>2 DEF Goes, LockInv, IInv, ShapeOK, OthersStay
<1>4. LocksOfOthersStay(c) /\ NoNewLocks
  BY <1>2 DEF LocksOfOthersStay, LockInv, Places, LinkedByMaker, NoNewLocks
<1>5. HasPath(c)'
  <2>1. PICK level \in [Nat -> Node], left \in [Nat -> Int], a \in Nat, b \in Nat :
          Path(c, level, left, a, b)
    BY <1>1 DEF LockInv, LocksExact, LocksOf, PathPc, HasPath
  <2>2. Follow(c, level, left, a, b)'
    BY <1>1, <1>2, <2>1, FollowStays DEF Path
  <2>3. HoldsPath(c, level, a, b)'
    <3>1. OwnHead(c)' = OwnHead(c)
      BY <1>1, <1>2 DEF OwnHead, LeavesBook
    <3>2. \A n : Holds(c, n)' <=> Holds(c, n)
      BY <1>2 DEF Holds
    <3>3. pc[c] \notin LockedPc /\ pc'[c] \notin LockedPc
      BY <1>1 DEF LockedPc, MatchPc
    <3>4. Holds(c, OwnHead(c))' <=> Holds(c, OwnHead(c))
      BY <3>1, <3>2 DEF Holds
    <3> QED
      BY <2>1, <3>1, <3>2, <3>3, <3>4 DEF Path, HoldsPath
  <2>4. AtPath(c, level, a, b)'
    <3>1. /\ v[c] \in 1 .. count[my[c]] /\ curr[c] = next[level[b]]
          /\ level[a] = OtherHead(c)
      BY <1>1, <2>1 DEF Path, AtPath
    <3>4. ~Trades(my[c], curr[c])
      BY DEF WalkEnd
    <3>2. ~Trades(my[c], next[level[b]])'
      BY <1>1, <1>2, <3>1, <3>4 DEF Trades, PriceOf, LeavesBook
    <3>3. OtherHead(c)' = OtherHead(c)
      BY <1>1, <1>2 DEF OtherHead, LeavesBook
    <3>5. v'[c] > 0
      BY <1>2, <3>1
    <3> QED
      BY <1>1, <1>2, <3>1, <3>2, <3>3, <3>5 DEF AtPath, MatchPc
  <2> QED
    BY <2>2, <2>3, <2>4 DEF HasPath, Path
<1>6. LocksOf(c)'
  BY <1>1, <1>5 DEF LocksOf, QuietPc, PathPc, MatchPc, OneLockPc
<1>7. MayGo(c, "lock own", my[c])
  BY <1>1 DEF MayGo, OrderPc, PreludeSteps
<1>8. LocalsTyped
  BY <1>2, LocalTypes DEF LocalsTyped
<1> QED
  BY <1>1, <1>2, <1>3, <1>4, <1>6, <1>7, <1>8, QuietKeeps

LEMMA LockOwnKeeps ==
  ASSUME LockInv, IInv', NEW c \in Client, LockOwn(c)
  PROVE  LockInv'
<1>0. PICK own \in Node : own = OwnHead(c)
  BY OrderOf DEF LockOwn, OrderPc
<1>1. /\ Goes(c, "commit", my[c]) /\ pc'[c] = "commit" /\ my'[c] = my[c]
      /\ pc[c] = "lock own"
  BY GoesOn1 DEF LockOwn
<1>2. LeavesBook /\ UNCHANGED <<curr, v, popped, printed>>
  BY DEF LockOwn, LeavesBook, orderVars, bookVars
<1>3. OthersStay(c)
  BY <1>1, <1>2 DEF Goes, LockInv, IInv, ShapeOK, OthersStay
<1>4. owner' = [owner EXCEPT ![own] = c] /\ owner[own] = Nil
  BY <1>0 DEF LockOwn, OwnHead, Free
<1>5. /\ LocksOfOthersStay(c)
      /\ \A n \in Mutex : Holds(c, n)' <=> IF n = own THEN c = c ELSE Holds(c, n)
  BY <1>4, OneLock, Names
<1>6. own \notin OrderId /\ pc[c] \in PathPc
  BY <1>0, <1>1, OrderOf DEF OrderPc, PathPc
<1>7. NoNewLocks
  BY <1>4, <1>6, OldLocks, Names DEF LockInv, IInv, ShapeOK
<1>8. HasPath(c)'
  <2>1. PICK level \in [Nat -> Node], left \in [Nat -> Int], a \in Nat, b \in Nat :
          Path(c, level, left, a, b)
    BY <1>1 DEF LockInv, LocksExact, LocksOf, PathPc, HasPath
  <2>2. Follow(c, level, left, a, b)'
    BY <1>1, <1>2, <2>1, FollowStays DEF Path
  <2>3. v[c] > 0 /\ level[a] = OtherHead(c)
        /\ (next[level[b]] = Nil \/ ~Trades(my[c], next[level[b]]))
    BY <1>1, <2>1 DEF Path, AtPath
  <2>4. HoldsPath(c, level, a, b)'
    <3>1. OwnHead(c)' = own
      BY <1>0, <1>1, <1>2 DEF OwnHead, LeavesBook
    <3>2. \A n \in Node : Holds(c, n)' <=> n = own \/ Holds(c, n)
      BY <1>5, Names
    <3>3. pc'[c] \in LockedPc /\ v'[c] > 0
      BY <1>1, <1>2, <2>3 DEF LockedPc
    <3>4. Holds(c, OwnHead(c))'
      BY <3>1, <3>2
    <3>5. \A i \in a .. b : level[i] \in Node
      OBVIOUS
    <3> QED
      BY <1>0, <2>1, <3>1, <3>2, <3>3, <3>4, <3>5 DEF Path, HoldsPath
  <2>5. AtPath(c, level, a, b)'
    <3>1. next'[level[b]] = Nil \/ ~Trades(my[c], next[level[b]])'
      BY <1>1, <1>2, <2>3 DEF Trades, PriceOf, LeavesBook
    <3>2. OtherHead(c)' = OtherHead(c)
      BY <1>1, <1>2 DEF OtherHead, LeavesBook
    <3> QED
      BY <1>1, <1>2, <2>3, <3>1, <3>2 DEF AtPath, MatchPc
  <2> QED
    BY <2>2, <2>4, <2>5 DEF HasPath, Path
<1>9. LocksOf(c)'
  BY <1>1, <1>8 DEF LocksOf, QuietPc, PathPc, MatchPc, OneLockPc
<1>10. MayGo(c, "commit", my[c])
  BY <1>1 DEF MayGo, OrderPc, PreludeSteps
<1>11. LocalsTyped
  BY <1>2, LocalTypes DEF LocalsTyped
<1> QED
  BY <1>1, <1>2, <1>3, <1>5, <1>7, <1>9, <1>10, <1>11, QuietKeeps

LEMMA UnlockBookKeeps ==
  ASSUME LockInv, IInv', NEW c \in Client, UnlockBook(c)
  PROVE  LockInv'
<1>1. /\ Goes(c, "match head", my[c]) /\ pc'[c] = "match head" /\ my'[c] = my[c]
      /\ pc[c] = "commit"
  BY GoesOn1 DEF UnlockBook
<1>2. LeavesBook /\ UNCHANGED <<v, popped, printed>>
  BY DEF UnlockBook, LeavesBook, orderVars
<1>3. curr' = [curr EXCEPT ![c] = OtherHead(c)]
  BY DEF UnlockBook, OtherHead
<1>4. OthersStay(c) /\ curr'[c] = OtherHead(c)
  BY <1>1, <1>2, <1>3 DEF Goes, LockInv, IInv, ShapeOK, OthersStay
<1>5. owner' = [owner EXCEPT ![BookMutex] = Nil] /\ owner[BookMutex] = c
  BY <1>1 DEF UnlockBook, LockInv, IInv, HoldsBook, Holds, PreludeSteps
<1>6. /\ LocksOfOthersStay(c)
      /\ \A n \in Mutex : Holds(c, n)' <=> IF n = BookMutex THEN Nil = c ELSE Holds(c, n)
  BY <1>5, OneLock, Names
<1>7. NoNewLocks
  BY <1>5, OldLocks, Names DEF LockInv, IInv, ShapeOK
<1>8. HasPath(c)'
  <2>1. PICK level \in [Nat -> Node], left \in [Nat -> Int], a \in Nat, b \in Nat :
          Path(c, level, left, a, b)
    BY <1>1 DEF LockInv, LocksExact, LocksOf, PathPc, HasPath
  <2>2. Follow(c, level, left, a, b)'
    BY <1>1, <1>2, <2>1, FollowStays DEF Path
  <2>3. /\ level[a] = OtherHead(c)
        /\ v[c] > 0 => (next[level[b]] = Nil \/ ~Trades(my[c], next[level[b]]))
    BY <1>1, <2>1 DEF Path, AtPath
  <2>4. OwnHead(c)' = OwnHead(c) /\ OtherHead(c)' = OtherHead(c)
    BY <1>1, <1>2 DEF OwnHead, OtherHead, LeavesBook
  <2>5. HoldsPath(c, level, a, b)'
    <3>1. \A n \in Node : Holds(c, n)' <=> Holds(c, n)
      BY <1>6, Names
    <3>2. pc[c] \in LockedPc /\ pc'[c] \in LockedPc /\ v'[c] = v[c]
      BY <1>1, <1>2 DEF LockedPc, MatchPc
    <3>3. OwnHead(c) \in Node
      BY <1>1, OrderOf DEF OrderPc
    <3>4. Holds(c, OwnHead(c))' <=> Holds(c, OwnHead(c))
      BY <2>4, <3>1, <3>3 DEF Holds
    <3>5. \A i \in a .. b : level[i] \in Node
      OBVIOUS
    <3> QED
      BY <2>1, <2>4, <3>1, <3>2, <3>4, <3>5 DEF Path, HoldsPath
  <2>6. AtPath(c, level, a, b)'
    <3>1. v'[c] > 0 => (next'[level[b]] = Nil \/ ~Trades(my[c], next[level[b]])')
      BY <1>1, <1>2, <2>3 DEF Trades, PriceOf, LeavesBook
    <3> QED
      BY <1>1, <1>4, <2>3, <2>4, <3>1 DEF AtPath, MatchPc
  <2> QED
    BY <2>2, <2>5, <2>6 DEF HasPath, Path
<1>9. LocksOf(c)'
  BY <1>1, <1>8 DEF LocksOf, QuietPc, PathPc, MatchPc, OneLockPc
<1>10. MayGo(c, "match head", my[c])
  BY <1>1, <1>6, Names DEF MayGo, OrderPc, Holds
<1>11. LocalsTyped
  BY <1>2, LocalTypes DEF LocalsTyped
<1> QED
  BY <1>1, <1>2, <1>4, <1>6, <1>7, <1>9, <1>10, <1>11, QuietKeeps

(* A level more on the path. *)
LEMMA WalkOnKeeps ==
  ASSUME LockInv, Fits, IInv', NEW c \in Client, WalkOn(c)
  PROVE  LockInv'
<1>0. PICK n : n = curr[c]
  OBVIOUS
<1>1. PICK label : label = PreludePc(ToInt(v[c] - volume[n]), next[n])
  OBVIOUS
<1>2. /\ Goes(c, label, my[c]) /\ pc'[c] = label /\ my'[c] = my[c]
      /\ pc[c] = "walk"
  BY <1>0, <1>1, GoesOn1 DEF WalkOn
<1>3. LeavesBook /\ UNCHANGED <<popped, printed>>
  BY DEF WalkOn, LeavesBook, orderVars
<1>4. PICK level \in [Nat -> Node], left \in [Nat -> Int], a \in Nat, b \in Nat :
        Path(c, level, left, a, b)
  BY <1>2 DEF LockInv, LocksExact, LocksOf, PathPc, HasPath
<1>5. /\ v[c] \in 1 .. count[my[c]] /\ n = next[level[b]] /\ level[a] = OtherHead(c)
      /\ ~Holds(c, OwnHead(c))
  BY <1>0, <1>2, <1>4 DEF Path, AtPath, HoldsPath, LockedPc, MatchPc
<1>6. /\ a <= b /\ b \in a .. b
      /\ \A i \in a .. b : level[i] \in Node /\ Holds(c, level[i])
      /\ \A i \in a .. b : level[i] # OwnHead(c)
  BY <1>2, <1>4, PathLevels DEF PathPc
<1>7. n \in OrderId /\ n \in Node /\ owner[n] = Nil /\ Trades(my[c], n)
  <2>1. curr[c] \in Node
    BY <1>2 DEF LockInv, IInv, StandsOn, OnLevel
  <2>2. next[level[b]] \in OrderId \cup {Nil}
    BY <1>6 DEF LockInv, IInv, ShapeOK
  <2> QED
    BY <1>0, <1>5, <2>1, <2>2, Names DEF WalkOn, Free
<1>8. /\ v'[c] = v[c] - volume[n] /\ v[c] - volume[n] \in Int
      /\ v[c] - volume[n] <= count[my[c]] /\ volume[n] \in Nat
      /\ ToInt(v[c] - volume[n]) = v[c] - volume[n]
      /\ v' = [v EXCEPT ![c] = v[c] - volume[n]]
  <2>1. my[c] \in OrderId
    BY <1>2, OrderOf DEF OrderPc
  <2>2. /\ count[my[c]] \in Nat /\ volume[n] \in Nat /\ 2 * count[my[c]] < Modulus
        /\ 2 * volume[n] < Modulus
    BY <1>7, <2>1, FitsInt
  <2>3. /\ v[c] - volume[n] \in Int /\ v[c] - volume[n] <= count[my[c]]
        /\ -Modulus <= 2 * (v[c] - volume[n]) /\ 2 * (v[c] - volume[n]) < Modulus
    BY <1>5, <2>2, BookAssumption
  <2>4. ToInt(v[c] - volume[n]) = v[c] - volume[n]
    BY <2>3, IntOfSmall
  <2>5. v' = [v EXCEPT ![c] = v[c] - volume[n]] /\ v \in [Client -> Int]
    BY <1>0, <2>4, LocalTypes DEF WalkOn
  <2> QED
    BY <2>2, <2>3, <2>4, <2>5
<1>9. OthersStay(c) /\ curr'[c] = next[n]
  <2>1. curr' = [curr EXCEPT ![c] = next[n]] /\ curr \in [Client -> Node \cup {Nil}]
    BY <1>0 DEF WalkOn, LockInv, IInv, ShapeOK
  <2>2. v \in [Client -> Int]
    BY LocalTypes
  <2> QED
    BY <1>2, <1>3, <1>8, <2>1, <2>2 DEF Goes, LockInv, IInv, ShapeOK, OthersStay
<1>10. owner' = [owner EXCEPT ![n] = c]
  BY <1>0 DEF WalkOn
<1>11. /\ LocksOfOthersStay(c)
       /\ \A m \in Mutex : Holds(c, m)' <=> IF m = n THEN c = c ELSE Holds(c, m)
  BY <1>7, <1>10, OneLock, Names
<1>12. NoNewLocks
  <2>1. level[b] \in Node /\ next[level[b]] = n
    BY <1>5, <1>6
  <2> QED
    BY <1>7, <1>10, <2>1, OldLocks, Names DEF LockInv, IInv, ShapeOK
<1>13. /\ label \in {"walk", "lock own", "commit"}
       /\ (label \in {"walk", "lock own"} => v[c] - volume[n] > 0)
       /\ (label = "lock own" => next[n] = Nil)
       /\ (label = "commit" => ~(v[c] - volume[n] > 0))
  BY <1>1, <1>8 DEF PreludePc
<1>14. HasPath(c)'
  <2> DEFINE level1 == [level EXCEPT ![b + 1] = n]
             left1 == [left EXCEPT ![b + 1] = v[c]]
  <2>1. /\ level1 \in [Nat -> Node] /\ b + 1 \in Nat
        /\ level1[b + 1] = n /\ \A i \in a .. b : level1[i] = level[i]
    BY <1>7
  <2>2. PICK left2 \in [Nat -> Int] :
          left2[b + 1] = v[c] /\ \A i \in a .. b : left2[i] = left[i]
    <3>1. left1 \in [Nat -> Int]
      BY <1>5
    <3>2. left1[b + 1] = v[c] /\ \A i \in a .. b : left1[i] = left[i]
      BY <1>6
    <3> QED
      BY <3>1, <3>2
  <2> HIDE DEF level1, left1
  <2>3. Follow(c, level1, left2, a, b + 1)'
    <3>1. Follow(c, level, left, a, b)
      BY <1>4 DEF Path
    <3>2. \A m : (ToTrade(m)' = ToTrade(m)) /\ (Trades(my[c], m)' <=> Trades(my[c], m))
      BY <1>2, <1>3 DEF LeavesBook, ToTrade, Trades, PriceOf
    <3>3. ASSUME NEW i \in a .. b
          PROVE  /\ next'[level1[i]] = level1[i + 1]
                 /\ Trades(my[c], level1[i + 1])'
                 /\ left2[i + 1] = left2[i] - ToTrade(level1[i])'
                 /\ left2[i + 1] > 0
      <4>1. CASE i = b
        <5>1. level1[i] = level[b] /\ level1[i + 1] = n
              /\ left2[i + 1] = v[c] /\ left2[i] = left[b]
          BY <1>6, <2>1, <2>2, <4>1
        <5>2. v[c] = left[b] - ToTrade(level[b])
          BY <3>1 DEF Follow
        <5>3. next'[level[b]] = n
          BY <1>3, <1>5 DEF LeavesBook
        <5>4. Trades(my[c], n)' /\ ToTrade(level[b])' = ToTrade(level[b])
          BY <1>7, <3>2
        <5> QED
          BY <1>5, <5>1, <5>2, <5>3, <5>4
      <4>2. CASE i # b
        <5>1. i \in a .. b - 1 /\ i + 1 \in a .. b
          BY <4>2
        <5>2. level1[i] = level[i] /\ level1[i + 1] = level[i + 1]
              /\ left2[i + 1] = left[i + 1] /\ left2[i] = left[i]
          BY <2>1, <2>2, <5>1
        <5>3. /\ next[level[i]] = level[i + 1] /\ Trades(my[c], level[i + 1])
              /\ left[i + 1] = left[i] - ToTrade(level[i]) /\ left[i + 1] > 0
          BY <3>1, <5>1 DEF Follow
        <5>4. next'[level[i]] = level[i + 1]
          BY <1>3, <5>3 DEF LeavesBook
        <5>5. Trades(my[c], level[i + 1])' /\ ToTrade(level[i])' = ToTrade(level[i])
          BY <3>2, <5>3
        <5> QED
          BY <5>2, <5>3, <5>4, <5>5
      <4> QED
        BY <4>1, <4>2
    <3>4. left2[a] = count'[my'[c]]
      <4>1. a \in a .. b
        BY <1>6
      <4> QED
        BY <1>2, <1>3, <2>2, <3>1, <4>1 DEF Follow, LeavesBook
    <3>5. v'[c] = left2[b + 1] - ToTrade(level1[b + 1])'
      <4>1. ToTrade(n)' = volume[n]
        BY <1>3, <1>7, Names DEF ToTrade, LeavesBook
      <4>2. ToTrade(level1[b + 1])' = ToTrade(n)'
        BY <2>1
      <4> QED
        BY <1>8, <2>2, <4>1, <4>2
    <3>6. a <= b + 1 /\ (b + 1) - 1 = b
      BY <1>6
    <3> QED
      BY <3>3, <3>4, <3>5, <3>6 DEF Follow
  <2>4. OwnHead(c)' = OwnHead(c) /\ OtherHead(c)' = OtherHead(c)
    BY <1>2, <1>3 DEF OwnHead, OtherHead, LeavesBook
  <2>5. \A i \in a .. b + 1 : i = b + 1 \/ i \in a .. b
    OBVIOUS
  <2>6. \A m \in Node : Holds(c, m)' <=> m = n \/ Holds(c, m)
    BY <1>11, Names
  <2>7. HoldsPath(c, level1, a, b + 1)'
    <3>1. \A i \in a .. b + 1 : Holds(c, level1[i])'
      BY <1>6, <1>7, <2>1, <2>5, <2>6
    <3>2. \A i \in a .. b : level[i] # n
      BY <1>6, <1>7, Names DEF Holds
    <3>3. \A i, j \in a .. b + 1 : level1[i] = level1[j] => i = j
      BY <1>4, <2>1, <2>5, <3>2 DEF Path, HoldsPath
    <3>4. OwnHead(c) # n /\ OwnHead(c) \in Node
      BY <1>2, <1>7, OrderOf DEF OrderPc
    <3>5. ~Holds(c, OwnHead(c))'
      BY <1>5, <2>4, <2>6, <3>4 DEF Holds
    <3>6. ~(pc'[c] \in LockedPc /\ v'[c] > 0)
      BY <1>2, <1>8, <1>13 DEF LockedPc, MatchPc
    <3>7. ASSUME NEW m \in Node, Holds(c, m)'
          PROVE  \E i \in a .. b + 1 : level1[i] = m
      <4>1. CASE m = n
        BY <1>6, <2>1, <4>1
      <4>2. CASE m # n
        <5>1. Holds(c, m)
          BY <2>6, <3>7, <4>2
        <5>2. m # OwnHead(c)
          BY <1>5, <5>1 DEF Holds
        <5>3. PICK i \in a .. b : level[i] = m
          BY <1>4, <5>1, <5>2 DEF Path, HoldsPath
        <5>4. i \in a .. b + 1 /\ level1[i] = m
          BY <2>1, <5>3
        <5> QED
          BY <5>4
      <4> QED
        BY <4>1, <4>2
    <3> QED
      BY <3>1, <3>3, <3>5, <3>6, <3>7 DEF HoldsPath
  <2>8. AtPath(c, level1, a, b + 1)'
    <3>1. level1[a] = OtherHead(c)'
      BY <1>5, <1>6, <2>1, <2>4
    <3>2. next'[level1[b + 1]] = next[n]
      BY <1>3, <2>1 DEF LeavesBook
    <3>3. label = "walk" => v'[c] \in 1 .. count'[my'[c]]
      <4>1. count'[my'[c]] = count[my[c]]
        BY <1>2, <1>3 DEF LeavesBook
      <4> QED
        BY <1>5, <1>8, <1>13, <4>1
    <3>4. label = "lock own" => v'[c] > 0 /\ next[n] = Nil
      BY <1>8, <1>13
    <3>5. label = "commit" => ~(v'[c] > 0)
      BY <1>8, <1>13
    <3> QED
      BY <1>2, <1>9, <1>13, <3>1, <3>2, <3>3, <3>4, <3>5 DEF AtPath, MatchPc
  <2> QED
    BY <2>1, <2>2, <2>3, <2>7, <2>8 DEF HasPath, Path
<1>15. LocksOf(c)'
  BY <1>2, <1>13, <1>14 DEF LocksOf, QuietPc, PathPc, MatchPc, OneLockPc
<1>16. MayGo(c, label, my[c])
  BY <1>2, <1>13 DEF MayGo, OrderPc, PreludeSteps
<1>17. LocalsTyped
  <2>1. v' \in [Client -> Int]
    BY <1>8, LocalTypes
  <2> QED
    BY <1>3, <2>1, LocalTypes DEF LocalsTyped
<1> QED
  BY <1>2, <1>3, <1>9, <1>11, <1>12, <1>13, <1>15, <1>16, <1>17, QuietKeeps

-----------------------------------------------------------------------------
(* add and processCancelOrder: one mutex, passed on from level to level.   *)
LEMMA OneLockKept ==
  ASSUME LockInv, NEW c \in Client, UNCHANGED <<owner, curr>>,
         pc[c] \in OneLockPc, pc'[c] \in OneLockPc
  PROVE  LocksOf(c)' /\ LocksOfOthersStay(c) /\ NoNewLocks /\ owner'[BookMutex] # c
<1>1. \A n \in Node : Holds(c, n)' <=> n = curr'[c]
  BY DEF LockInv, LocksExact, LocksOf, Holds
<1>2. LocksOf(c)'
  BY <1>1 DEF LocksOf, QuietPc, PathPc, MatchPc, OneLockPc
<1>3. LocksOfOthersStay(c) /\ NoNewLocks
  BY DEF LocksOfOthersStay, LockInv, Places, LinkedByMaker, NoNewLocks
<1>4. owner[BookMutex] # c
  BY DEF LockInv, Places, BookHeldInPrelude, Holds, OneLockPc, PreludeSteps
<1> QED
  BY <1>2, <1>3, <1>4

LEMMA OneLockPassed ==
  ASSUME LockInv, NEW c \in Client, NEW n \in Node, n = next[curr[c]], Free(n),
         owner' = [owner EXCEPT ![n] = c, ![curr[c]] = Nil], curr'[c] = n,
         pc[c] \in OneLockPc, pc'[c] \in OneLockPc
  PROVE  LocksOf(c)' /\ LocksOfOthersStay(c) /\ NoNewLocks /\ owner'[BookMutex] # c
<1>0. PICK m \in Node : m = curr[c] /\ Holds(c, m)
  BY HoldsLevel DEF LockInv
<1>1. n \in Mutex /\ m \in Mutex /\ BookMutex \in Mutex
  BY Names
<1>2. /\ LocksOfOthersStay(c)
      /\ \A l \in Mutex : Holds(c, l)' <=> (l = n \/ (Holds(c, l) /\ l # m))
  BY <1>0, <1>1, HandOver
<1>3. \A l \in Node : Holds(c, l) <=> l = m
  BY <1>0 DEF LockInv, LocksExact, LocksOf
<1>4. \A l \in Node : Holds(c, l)' <=> l = curr'[c]
  BY <1>2, <1>3, Names
<1>5. LocksOf(c)'
  BY <1>4 DEF LocksOf, QuietPc, PathPc, MatchPc, OneLockPc
<1>6. NoNewLocks
  <2>1. owner \in [Mutex -> Client \cup {Nil}]
    BY DEF LockInv, IInv, ShapeOK
  <2>2. \A l \in OrderId : owner'[l] = owner[l] \/ owner'[l] = Nil \/ l = n
    BY <1>0, <1>1, <2>1, Names
  <2> QED
    BY <1>0, <2>2, OldLocks
<1>7. owner'[BookMutex] # c
  <2>1. owner[BookMutex] # c
    BY DEF LockInv, Places, BookHeldInPrelude, Holds, OneLockPc, PreludeSteps
  <2> QED
    BY <1>1, <1>2, <2>1, Names DEF Holds
<1> QED
  BY <1>2, <1>5, <1>6, <1>7

LEMMA OneLockReleased ==
  ASSUME LockInv, NEW c \in Client,
         owner' = [owner EXCEPT ![curr[c]] = Nil],
         pc[c] \in OneLockPc, pc'[c] \in QuietPc
  PROVE  LocksOf(c)' /\ LocksOfOthersStay(c) /\ NoNewLocks /\ owner'[BookMutex] # c
<1>0. PICK m \in Node : m = curr[c] /\ Holds(c, m)
  BY HoldsLevel DEF LockInv
<1>1. m \in Mutex /\ BookMutex \in Mutex /\ Nil # c
  BY Names
<1>2. /\ LocksOfOthersStay(c)
      /\ \A l \in Mutex : Holds(c, l)' <=> IF l = m THEN Nil = c ELSE Holds(c, l)
  <2>1. owner[m] \in {c, Nil} /\ Nil \in {c, Nil}
    BY <1>0 DEF Holds
  <2>2. owner' = [owner EXCEPT ![m] = Nil]
    BY <1>0
  <2> QED
    BY <1>1, <2>1, <2>2, OneLock
<1>3. \A l \in Node : Holds(c, l) <=> l = m
  BY <1>0 DEF LockInv, LocksExact, LocksOf
<1>4. \A l \in Node : ~Holds(c, l)'
  BY <1>1, <1>2, <1>3, Names
<1>5. LocksOf(c)'
  BY <1>4 DEF LocksOf, QuietPc, PathPc, MatchPc, OneLockPc
<1>6. NoNewLocks
  <2>1. owner \in [Mutex -> Client \cup {Nil}]
    BY DEF LockInv, IInv, ShapeOK
  <2>2. \A l \in OrderId : owner'[l] = owner[l] \/ owner'[l] = Nil
    BY <1>0, <1>1, <2>1, Names
  <2> QED
    BY <2>2, OldLocks
<1>7. owner'[BookMutex] # c
  <2>1. owner[BookMutex] # c
    BY DEF LockInv, Places, BookHeldInPrelude, Holds, OneLockPc, PreludeSteps
  <2> QED
    BY <1>1, <1>2, <2>1, Names DEF Holds
<1> QED
  BY <1>2, <1>5, <1>6, <1>7

LEMMA PlaceFoundKeeps ==
  ASSUME LockInv, IInv', NEW c \in Client, PlaceFound(c)
  PROVE  LockInv'
<1>0. PICK label : label = PlacePc(cmd[my[c]].price, curr[c])
  OBVIOUS
<1>1. Goes(c, label, my[c]) /\ pc'[c] = label /\ my'[c] = my[c] /\ pc[c] = "add"
  BY <1>0, GoesOn1 DEF PlaceFound
<1>2. label \in {"register", "new level"}
  BY <1>0 DEF PlacePc
<1>3. LeavesBook /\ UNCHANGED <<owner, curr, v, popped, printed>>
  BY DEF PlaceFound, LeavesBook, orderVars, bookVars
<1>4. OthersStay(c)
  BY <1>1, <1>3 DEF Goes, LockInv, IInv, ShapeOK, OthersStay
<1>5. LocksOf(c)' /\ LocksOfOthersStay(c) /\ NoNewLocks /\ owner'[BookMutex] # c
  BY <1>1, <1>2, <1>3, OneLockKept DEF OneLockPc
<1>6. MayGo(c, label, my[c])
  BY <1>1, <1>2, <1>5 DEF MayGo, OrderPc
<1>7. LocalsTyped
  BY <1>3, LocalTypes DEF LocalsTyped
<1> QED
  BY <1>1, <1>2, <1>3, <1>4, <1>5, <1>6, <1>7, QuietKeeps

(* Engine::orders.put: the order was read, so all keys of the map were.    *)
LEMMA RegisterOrderKeeps ==
  ASSUME LockInv, IInv', NEW c \in Client, RegisterOrder(c)
  PROVE  LockInv'
<1>1. /\ Goes(c, "enqueue", my[c]) /\ pc'[c] = "enqueue" /\ my'[c] = my[c]
      /\ pc[c] = "register"
  BY GoesOn1 DEF RegisterOrder
<1>2. LeavesLevels /\ UNCHANGED <<owner, curr, v, popped, printed>>
  BY DEF RegisterOrder, LeavesLevels, orderVars, bookVars
<1>3. OthersStay(c)
  BY <1>1, <1>2 DEF Goes, LockInv, IInv, ShapeOK, OthersStay
<1>4. LocksOf(c)' /\ LocksOfOthersStay(c) /\ NoNewLocks /\ owner'[BookMutex] # c
  BY <1>1, <1>2, OneLockKept DEF OneLockPc
<1>5. MayGo(c, "enqueue", my[c])
  BY <1>1, <1>4 DEF MayGo, OrderPc
<1>6. LocalsTyped
  BY <1>2, LocalTypes DEF LocalsTyped
<1>7. \A x \in orders' : cmd[x] # Nil
  <2>1. cmd[my[c]] # Nil
    BY <1>1, OrderOf DEF OrderPc
  <2> QED
    BY <2>1 DEF RegisterOrder, Register, LockInv, Places, Known
<1> QED
  BY <1>1, <1>2, <1>3, <1>4, <1>5, <1>6, <1>7, LevelsKeep

LEMMA AddStepKeeps ==
  ASSUME LockInv, IInv', NEW c \in Client, AddStep(c)
  PROVE  LockInv'
<1>0. PICK n \in Node : n = next[curr[c]] /\ Free(n)
  <2>1. curr[c] \in Node
    BY DEF AddStep, LockInv, IInv, StandsOn, OnLevel
  <2>2. next[curr[c]] \in OrderId
    BY <2>1 DEF AddStep, LockInv, IInv, ShapeOK
  <2> QED
    BY <2>2, Names DEF AddStep
<1>1. PICK label : label = IF cmd[my[c]].price = PriceOf(n) THEN "register" ELSE "add"
  OBVIOUS
<1>2. Goes(c, label, my[c]) /\ pc'[c] = label /\ my'[c] = my[c] /\ pc[c] = "add"
  BY <1>0, <1>1, GoesOn1 DEF AddStep
<1>3. LeavesBook /\ UNCHANGED <<v, popped, printed>>
  BY DEF AddStep, LeavesBook, orderVars
<1>4. curr' = [curr EXCEPT ![c] = n]
      /\ owner' = [owner EXCEPT ![n] = c, ![curr[c]] = Nil]
  BY <1>0 DEF AddStep
<1>5. OthersStay(c) /\ curr'[c] = n
  BY <1>2, <1>3, <1>4 DEF Goes, LockInv, IInv, ShapeOK, OthersStay
<1>6. LocksOf(c)' /\ LocksOfOthersStay(c) /\ NoNewLocks /\ owner'[BookMutex] # c
  BY <1>0, <1>1, <1>2, <1>4, <1>5, OneLockPassed DEF OneLockPc
<1>7. MayGo(c, label, my[c])
  BY <1>1, <1>2, <1>6 DEF MayGo, OrderPc
<1>8. LocalsTyped
  BY <1>3, LocalTypes DEF LocalsTyped
<1> QED
  BY <1>1, <1>2, <1>3, <1>5, <1>6, <1>7, <1>8, QuietKeeps

LEMMA CancelStepKeeps ==
  ASSUME LockInv, IInv', NEW c \in Client, CancelStep(c)
  PROVE  LockInv'
<1>0. PICK n \in Node : n = next[curr[c]] /\ Free(n)
  <2>1. curr[c] \in Node
    BY DEF CancelStep, LockInv, IInv, StandsOn, OnLevel
  <2>2. next[curr[c]] \in OrderId
    BY <2>1 DEF CancelStep, LockInv, IInv, ShapeOK
  <2> QED
    BY <2>2, Names DEF CancelStep
<1>1. PICK label : label = IF PriceOf(n) = cmd[my[c]].price THEN "cancel level"
                                                            ELSE "cancel step"
  OBVIOUS
<1>2. Goes(c, label, my[c]) /\ pc'[c] = label /\ my'[c] = my[c] /\ pc[c] = "cancel step"
  BY <1>0, <1>1, GoesOn1 DEF CancelStep
<1>3. LeavesBook /\ UNCHANGED <<v, popped, printed>>
  BY DEF CancelStep, LeavesBook, orderVars
<1>4. curr' = [curr EXCEPT ![c] = n]
      /\ owner' = [owner EXCEPT ![n] = c, ![curr[c]] = Nil]
  BY <1>0 DEF CancelStep
<1>5. OthersStay(c) /\ curr'[c] = n
  BY <1>2, <1>3, <1>4 DEF Goes, LockInv, IInv, ShapeOK, OthersStay
<1>6. LocksOf(c)' /\ LocksOfOthersStay(c) /\ NoNewLocks /\ owner'[BookMutex] # c
  BY <1>0, <1>1, <1>2, <1>4, <1>5, OneLockPassed DEF OneLockPc
<1>7. cmd[my[c]] # Nil
  BY <1>2 DEF LockInv, Places, Known
<1>8. MayGo(c, label, my[c])
  BY <1>1, <1>6, <1>7 DEF MayGo, OrderPc
<1>9. LocalsTyped
  BY <1>3, LocalTypes DEF LocalsTyped
<1> QED
  BY <1>1, <1>2, <1>3, <1>5, <1>6, <1>8, <1>9, QuietKeeps

LEMMA CancelHeadKeeps ==
  ASSUME LockInv, IInv', NEW c \in Client, CancelHead(c)
  PROVE  LockInv'
<1>0. PICK head \in Node : head = ListOf(my[c])
  BY HeadIsNode DEF ListOf
<1>1. /\ Goes(c, "cancel step", my[c]) /\ pc'[c] = "cancel step" /\ my'[c] = my[c]
      /\ pc[c] = "cancel head"
  BY GoesOn1 DEF CancelHead
<1>2. LeavesBook /\ UNCHANGED <<v, popped, printed>>
  BY DEF CancelHead, LeavesBook, orderVars
<1>3. curr' = [curr EXCEPT ![c] = head]
      /\ owner' = [owner EXCEPT ![head] = c] /\ owner[head] = Nil
  BY <1>0 DEF CancelHead, Free
<1>4. OthersStay(c) /\ curr'[c] = head
  BY <1>1, <1>2, <1>3 DEF Goes, LockInv, IInv, ShapeOK, OthersStay
<1>5. /\ LocksOfOthersStay(c)
      /\ \A n \in Mutex : Holds(c, n)' <=> IF n = head THEN c = c ELSE Holds(c, n)
  BY <1>3, OneLock, Names
<1>6. LocksOf(c)'
  <2>1. \A n \in Node : ~Holds(c, n)
    BY <1>1 DEF LockInv, LocksExact, LocksOf, QuietPc
  <2>2. \A n \in Node : Holds(c, n)' <=> n = curr'[c]
    BY <1>4, <1>5, <2>1, Names
  <2> QED
    BY <1>1, <2>2 DEF LocksOf, QuietPc, PathPc, MatchPc, OneLockPc
<1>7. NoNewLocks
  <2>1. head \notin OrderId
    BY <1>0, Names, BookAssumption DEF ListOf, HeadOf, Heads
  <2> QED
    BY <1>3, <2>1, OldLocks, Names DEF LockInv, IInv, ShapeOK
<1>8. owner'[BookMutex] # c
  <2>1. owner[BookMutex] # c
    BY <1>1 DEF LockInv, Places, BookHeldInPrelude, Holds, PreludeSteps
  <2> QED
    BY <1>5, <2>1, Names DEF Holds
<1>9. cmd[my[c]] # Nil
  BY <1>1 DEF LockInv, Places, Known
<1>10. MayGo(c, "cancel step", my[c])
  BY <1>8, <1>9 DEF MayGo, OrderPc
<1>11. LocalsTyped
  BY <1>2, LocalTypes DEF LocalsTyped
<1> QED
  BY <1>1, <1>2, <1>4, <1>5, <1>6, <1>7, <1>10, <1>11, QuietKeeps

LEMMA CancelFailsKeeps ==
  ASSUME LockInv, IInv', NEW c \in Client, CancelFails(c)
  PROVE  LockInv'
<1>1. /\ Goes(c, "gone", my[c]) /\ pc'[c] = "gone" /\ my'[c] = my[c]
      /\ pc[c] \in {"cancel step", "cancel level"}
  BY GoesOn1 DEF CancelFails
<1>2. LeavesBook /\ UNCHANGED <<curr, v, popped, printed>>
  BY DEF CancelFails, LeavesBook, orderVars
<1>3. OthersStay(c)
  BY <1>1, <1>2 DEF Goes, LockInv, IInv, ShapeOK, OthersStay
<1>4. LocksOf(c)' /\ LocksOfOthersStay(c) /\ NoNewLocks /\ owner'[BookMutex] # c
  BY <1>1, OneLockReleased DEF CancelFails, OneLockPc, QuietPc
<1>5. cmd[my[c]] # Nil
  BY <1>1 DEF LockInv, Places, Known
<1>6. MayGo(c, "gone", my[c])
  BY <1>4, <1>5 DEF MayGo, OrderPc
<1>7. LocalsTyped
  BY <1>2, LocalTypes DEF LocalsTyped
<1> QED
  BY <1>1, <1>2, <1>3, <1>4, <1>6, <1>7, QuietKeeps

LEMMA AcceptCancelKeeps ==
  ASSUME LockInv, IInv', NEW c \in Client, AcceptCancel(c)
  PROVE  LockInv'
<1>1. /\ Goes(c, "read", Nil) /\ OthersStay(c) /\ pc'[c] = "read"
      /\ v' \in [Client -> Int] /\ popped' \in [Client -> Nat]
      /\ pc[c] = "cancelled"
  BY FinishGoes DEF AcceptCancel
<1>2. LeavesBook
  BY DEF AcceptCancel, LeavesBook, orderVars
<1>3. LocksOf(c)' /\ LocksOfOthersStay(c) /\ NoNewLocks /\ owner'[BookMutex] # c
  BY <1>1, OneLockReleased DEF AcceptCancel, OneLockPc, QuietPc
<1>4. MayGo(c, "read", Nil)
  BY <1>3 DEF MayGo, OrderPc
<1>5. printed' \in Seq(Line)
  <2>1. my[c] \in OrderId
    BY <1>1 DEF LockInv, IInv, HasOrder, Idle
  <2>2. cmd[my[c]] # Nil
    BY <1>1 DEF LockInv, Places, Known
  <2>3. cmd[my[c]].time \in Nat
    BY <2>1, <2>2 DEF LockInv, IInv, ShapeOK, Command
  <2>4. Deleted(my[c], TRUE, cmd[my[c]].time) \in Line
    BY <2>1, <2>3 DEF Deleted, Line
  <2> QED
    BY <2>4, PrintTyped DEF AcceptCancel
<1> QED
  BY <1>1, <1>2, <1>3, <1>4, <1>5, QuietKeeps DEF LocalsTyped

-----------------------------------------------------------------------------
(* What is counted. *)
LEMMA Counted ==
  ASSUME NumbersOK, NEW o \in OrderId, NEW n \in Node
  PROVE  /\ count[o] \in Nat /\ count[o] < Modulus /\ count[o] \in 0 .. Modulus - 1
         /\ volume[n] \in Nat /\ volume[n] < Modulus
         /\ ToTrade(n) \in Nat
<1>1. Modulus \in Nat /\ count[o] \in 0 .. Modulus - 1 /\ volume[n] \in 0 .. Modulus - 1
  BY BookAssumption DEF NumbersOK
<1> QED
  BY <1>1 DEF ToTrade

(* matchOrder leaves a level.  Its path goes on exactly if the code does:  *)
(* what the prelude left uncovered is what is left when the path ends.     *)
LEMMA PathEnds ==
  ASSUME LockInv, NEW c \in Client, pc[c] \in MatchPc,
         count[my[c]] > 0 => ToTrade(curr[c]) = 0,
         NEW level \in [Nat -> Node], NEW left \in [Nat -> Int],
         NEW a \in Nat, NEW b \in Nat, Path(c, level, left, a, b)
  PROVE  /\ curr[c] = level[a]
         /\ GoesOn(my[c], next[curr[c]]) =>
              a < b /\ next[curr[c]] = level[a + 1]
         /\ ~GoesOn(my[c], next[curr[c]]) => a = b
         /\ ~GoesOn(my[c], next[curr[c]]) /\ count[my[c]] > 0 => Holds(c, OwnHead(c))
         /\ count[my[c]] = 0 => ~Holds(c, OwnHead(c))
<1>1. /\ a <= b /\ curr[c] = level[a] /\ left[a] = count[my[c]]
      /\ v[c] = left[b] - ToTrade(level[b])
      /\ Holds(c, OwnHead(c)) <=> v[c] > 0
      /\ v[c] > 0 => next[level[b]] = Nil \/ ~Trades(my[c], next[level[b]])
  BY DEF Path, Follow, HoldsPath, AtPath, PathPc, LockedPc, MatchPc
<1>2. a < b =>
        /\ next[level[a]] = level[a + 1] /\ Trades(my[c], level[a + 1])
        /\ left[a + 1] = left[a] - ToTrade(level[a]) /\ left[a + 1] > 0
  <2>1. a < b => a \in a .. b - 1
    OBVIOUS
  <2> QED
    BY <2>1 DEF Path, Follow
<1>3. /\ level[a] \in Node /\ level[a + 1] \in Node /\ level[a + 1] # Nil
      /\ my[c] \in OrderId
  <2>1. level[a] \in Node /\ level[a + 1] \in Node
    OBVIOUS
  <2>2. my[c] \in OrderId
    BY OrderOf DEF MatchPc, OrderPc
  <2> QED
    BY <2>1, <2>2, Names
<1>4. count[my[c]] \in Nat /\ ToTrade(level[a]) \in Nat
  BY <1>3, Counted DEF LockInv
<1>5. count[my[c]] > 0 => ToTrade(level[a]) = 0
  BY <1>1
<1>6. count[my[c]] = 0 => a = b /\ ~(v[c] > 0)
  BY <1>1, <1>2, <1>4
<1>7. count[my[c]] > 0 /\ a = b => v[c] > 0
  BY <1>1, <1>4, <1>5
<1>8. count[my[c]] > 0 /\ a < b => GoesOn(my[c], next[curr[c]])
  BY <1>1, <1>2, <1>3 DEF GoesOn
<1>9. GoesOn(my[c], next[curr[c]]) => count[my[c]] > 0 /\ ~(a = b)
  BY <1>1, <1>7 DEF GoesOn
<1>10. a < b \/ a = b
  BY <1>1
<1>11. count[my[c]] = 0 \/ count[my[c]] > 0
  BY <1>4
<1> QED
  BY <1>1, <1>2, <1>6, <1>7, <1>8, <1>9, <1>10, <1>11


(* To the next level of the path ... *)
LEMMA NextOnPath ==
  ASSUME LockInv, NEW c \in Client, pc[c] \in MatchPc, NEW n \in Node, n = curr[c],
         count[my[c]] > 0 => ToTrade(n) = 0,
         UNCHANGED <<cmd, count, next, volume>>,
         \A m \in Node : Holds(c, m)' <=> Holds(c, m) /\ m # n,
         GoesOn(my[c], next[n]),
         pc'[c] = "match", my'[c] = my[c], v'[c] = v[c], curr'[c] = next[n]
  PROVE  HasPath(c)' /\ next[n] \in OrderId /\ next[n] # n /\ Holds(c, next[n])
<1>1. PICK level \in [Nat -> Node], left \in [Nat -> Int], a \in Nat, b \in Nat :
        Path(c, level, left, a, b)
  BY DEF LockInv, LocksExact, LocksOf, PathPc, HasPath
<1>2. /\ a < b /\ n = level[a] /\ next[n] = level[a + 1] /\ count[my[c]] > 0
  BY <1>1, PathEnds DEF GoesOn
<1>3. /\ \A i \in a .. b : level[i] \in Node /\ Holds(c, level[i])
      /\ \A i \in a + 1 .. b : level[i] \in OrderId
      /\ \A i \in a .. b : level[i] # OwnHead(c)
  BY ZenonT(30), <1>1, PathLevels DEF PathPc
<1>4. /\ a + 1 \in Nat /\ a + 1 <= b /\ a \in a .. b /\ a + 1 \in a .. b
      /\ a + 1 \in a + 1 .. b /\ b \in a + 1 .. b /\ b \in a .. b
      /\ \A i \in a + 1 .. b : i \in a .. b /\ i # a
      /\ \A i \in a + 1 .. b - 1 : i \in a .. b - 1 /\ i \in a .. b
      /\ \A i \in a .. b : i = a \/ i \in a + 1 .. b
      /\ a \in a .. b - 1
  BY <1>2
<1>5. /\ \A i, j \in a .. b : level[i] = level[j] => i = j
      /\ Holds(c, OwnHead(c)) <=> v[c] > 0
      /\ \A m \in Node : Holds(c, m) => m = OwnHead(c) \/ \E i \in a .. b : level[i] = m
  BY <1>1 DEF Path, HoldsPath, LockedPc
<1>6. \A m : (ToTrade(m)' = ToTrade(m)) /\ (Trades(my[c], m)' <=> Trades(my[c], m))
  BY DEF ToTrade, Trades, PriceOf
<1>7. OwnHead(c)' = OwnHead(c)
  BY DEF OwnHead
<1>8. OwnHead(c) \in Node /\ my[c] \in OrderId
  BY OrderOf DEF MatchPc, OrderPc
<1>9. Follow(c, level, left, a + 1, b)'
  <2>1. Follow(c, level, left, a, b)
    BY <1>1 DEF Path
  <2>2. left[a + 1] = count[my[c]]
    <3>1. left[a + 1] = left[a] - ToTrade(level[a]) /\ left[a] = count[my[c]]
      BY <1>4, <2>1 DEF Follow
    <3>2. ToTrade(level[a]) = 0 /\ count[my[c]] \in Nat
      BY <1>2, <1>8, Counted DEF LockInv
    <3> QED
      BY <3>1, <3>2
  <2>3. ASSUME NEW i \in a + 1 .. b - 1
        PROVE  /\ next'[level[i]] = level[i + 1]
               /\ Trades(my[c], level[i + 1])'
               /\ left[i + 1] = left[i] - ToTrade(level[i])'
               /\ left[i + 1] > 0
    BY <1>4, <1>6, <2>1 DEF Follow
  <2>4. v'[c] = left[b] - ToTrade(level[b])'
    BY <1>6, <2>1 DEF Follow
  <2> QED
    BY <1>4, <2>2, <2>3, <2>4 DEF Follow
<1>10. HoldsPath(c, level, a + 1, b)'
  <2>1. \A i \in a + 1 .. b : Holds(c, level[i])'
    BY <1>2, <1>3, <1>4, <1>5
  <2>2. OwnHead(c) # n
    BY <1>2, <1>3, <1>4
  <2>3. Holds(c, OwnHead(c))' <=> Holds(c, OwnHead(c))
    BY <1>7, <1>8, <2>2 DEF Holds
  <2>4. pc'[c] \in LockedPc /\ v'[c] = v[c]
    BY DEF LockedPc, MatchPc
  <2>5. ASSUME NEW m \in Node, Holds(c, m)', m # OwnHead(c)
        PROVE  \E i \in a + 1 .. b : level[i] = m
    <3>1. Holds(c, m) /\ m # n
      BY <2>5
    <3>2. PICK i \in a .. b : level[i] = m
      BY <1>5, <2>5, <3>1
    <3> QED
      BY <1>2, <1>4, <3>1, <3>2
  <2>6. \A i, j \in a + 1 .. b : level[i] = level[j] => i = j
    BY <1>4, <1>5
  <2> QED
    BY <1>5, <1>7, <2>1, <2>3, <2>4, <2>5, <2>6 DEF HoldsPath
<1>11. AtPath(c, level, a + 1, b)'
  <2>1. v[c] > 0 => next[level[b]] = Nil \/ ~Trades(my[c], next[level[b]])
    BY <1>1 DEF Path, AtPath, MatchPc
  <2>2. v'[c] > 0 => next'[level[b]] = Nil \/ ~Trades(my[c], next[level[b]])'
    BY <1>6, <2>1
  <2> QED
    BY <1>2, <1>3, <1>4, <2>2 DEF AtPath
<1>12. level[a + 1] # n
  BY <1>2, <1>4, <1>5
<1> QED
  BY <1>2, <1>3, <1>4, <1>9, <1>10, <1>11, <1>12 DEF HasPath, Path

(* ... or past its last level, with the own head or with nothing. *)
LEMMA EndOfPath ==
  ASSUME LockInv, NEW c \in Client, pc[c] \in MatchPc, NEW n \in Node, n = curr[c],
         count[my[c]] > 0 => ToTrade(n) = 0,
         \A m \in Node : Holds(c, m)' <=> Holds(c, m) /\ m # n,
         ~GoesOn(my[c], next[n])
  PROVE  /\ count[my[c]] > 0 => \A m \in Node : Holds(c, m)' <=> m = OwnHead(c)
         /\ count[my[c]] = 0 => \A m \in Node : ~Holds(c, m)'
<1>1. PICK level \in [Nat -> Node], left \in [Nat -> Int], a \in Nat, b \in Nat :
        Path(c, level, left, a, b)
  BY DEF LockInv, LocksExact, LocksOf, PathPc, HasPath
<1>2. /\ a = b /\ n = level[a]
      /\ count[my[c]] > 0 => Holds(c, OwnHead(c))
      /\ count[my[c]] = 0 => ~Holds(c, OwnHead(c))
  BY <1>1, PathEnds
<1>3. \A i \in a .. b : i = a
  BY <1>2
<1>4. \A m \in Node : Holds(c, m) => m = OwnHead(c) \/ m = n
  <2>1. \A m \in Node : Holds(c, m) => m = OwnHead(c) \/ \E i \in a .. b : level[i] = m
    BY <1>1 DEF Path, HoldsPath
  <2> QED
    BY <1>2, <1>3, <2>1
<1>5. OwnHead(c) # n /\ OwnHead(c) \in Node
  <2>1. a \in a .. b
    BY <1>2
  <2>2. level[a] # OwnHead(c)
    BY <1>1, <2>1, PathLevels DEF PathPc
  <2> QED
    BY <1>2, <2>2, OrderOf DEF MatchPc, OrderPc
<1> QED
  BY <1>2, <1>4, <1>5 DEF Holds


(* The mutex of the level is given back, and no other is touched. *)
LEMMA LeavesLock ==
  ASSUME LockInv, NEW c \in Client, pc[c] \in MatchPc, NEW n \in Node, n = curr[c],
         Advance(c)
  PROVE  /\ LocksOfOthersStay(c) /\ NoNewLocks /\ owner'[BookMutex] # c
         /\ Holds(c, n)
         /\ \A m \in Node : Holds(c, m)' <=> Holds(c, m) /\ m # n
<1>1. Holds(c, n) /\ owner[n] \in {c, Nil} /\ Nil \in {c, Nil}
  BY HoldsLevel DEF LockInv, Holds
<1>2. owner' = [owner EXCEPT ![n] = Nil]
  BY DEF Advance
<1>3. n \in Mutex /\ BookMutex \in Mutex /\ Nil # c
  BY Names
<1>4. /\ LocksOfOthersStay(c)
      /\ \A m \in Mutex : Holds(c, m)' <=> IF m = n THEN Nil = c ELSE Holds(c, m)
  BY <1>1, <1>2, <1>3, OneLock
<1>5. NoNewLocks
  <2>1. owner \in [Mutex -> Client \cup {Nil}]
    BY DEF LockInv, IInv, ShapeOK
  <2>2. \A l \in OrderId : owner'[l] = owner[l] \/ owner'[l] = Nil
    BY <1>2, <1>3, <2>1, Names
  <2> QED
    BY <2>2, OldLocks
<1>6. owner'[BookMutex] # c
  <2>1. owner[BookMutex] # c
    BY DEF LockInv, Places, BookHeldInPrelude, Holds, MatchPc, PreludeSteps
  <2> QED
    BY <1>3, <1>4, <2>1, Names DEF Holds
<1> QED
  BY <1>1, <1>3, <1>4, <1>5, <1>6, Names

(* Where it goes, and with which locks. *)
AdvancesTo(c, label, o) ==
  /\ Goes(c, label, o) /\ MayGo(c, label, o) /\ OthersStay(c)
  /\ pc'[c] = label /\ popped'[c] = 0
  /\ v' \in [Client -> Int] /\ popped' \in [Client -> Nat]
  /\ LocksOf(c)'

LEMMA AdvanceGoes ==
  ASSUME LockInv, NEW c \in Client, pc[c] \in MatchPc, NEW n \in Node, n = curr[c],
         count[my[c]] > 0 => ToTrade(n) = 0,
         Advance(c), UNCHANGED <<cmd, count, next, volume>>
  PROVE  \E label, o :
           /\ AdvancesTo(c, label, o)
           /\ label = "match" =>
                /\ curr'[c] \in OrderId /\ curr'[c] # n
                /\ \E m \in Node : m = curr'[c] /\ Holds(c, m)
<1>1. /\ owner'[BookMutex] # c
      /\ \A m \in Node : Holds(c, m)' <=> Holds(c, m) /\ m # n
  BY LeavesLock
<1>2. popped' = [popped EXCEPT ![c] = 0] /\ popped' \in [Client -> Nat]
  BY LocalTypes DEF Advance
<1>3. /\ pc[c] \in OrderPc /\ pc[c] \notin {"register", "enqueue"} /\ my[c] \in OrderId
      /\ cmd[my[c]] # Nil
  BY OrderOf DEF MatchPc, OrderPc
<1>4. CASE /\ GoesOn(my[c], next[n]) /\ Goto(c, "match")
           /\ curr' = [curr EXCEPT ![c] = next[n]] /\ UNCHANGED <<my, v>>
  <2>1. Goes(c, "match", my[c]) /\ pc'[c] = "match" /\ my'[c] = my[c]
    BY <1>4, GoesOn1
  <2>2. /\ curr'[c] = next[n] /\ popped'[c] = 0
        /\ OthersStay(c)
    BY <1>2, <1>4, <2>1 DEF Goes, LockInv, IInv, ShapeOK, NumbersOK, OthersStay
  <2>3. HasPath(c)' /\ next[n] \in OrderId /\ next[n] # n /\ Holds(c, next[n])
    <3>1. v'[c] = v[c]
      BY <1>4
    <3> QED
      BY <1>1, <1>4, <2>1, <2>2, <3>1, NextOnPath
  <2>4. LocksOf(c)'
    BY <2>1, <2>3 DEF LocksOf, QuietPc, PathPc, MatchPc, OneLockPc
  <2>5. MayGo(c, "match", my[c])
    BY <1>1, <1>3 DEF MayGo
  <2>6. v' \in [Client -> Int]
    BY <1>4, LocalTypes
  <2>7. AdvancesTo(c, "match", my[c])
    BY <1>2, <2>1, <2>2, <2>4, <2>5, <2>6 DEF AdvancesTo
  <2>8. \E m \in Node : m = curr'[c] /\ Holds(c, m)
    BY <2>2, <2>3, Names
  <2> QED
    BY <2>2, <2>3, <2>7, <2>8
<1>5. CASE /\ ~GoesOn(my[c], next[n]) /\ count[my[c]] > 0 /\ Goto(c, "add")
           /\ curr' = [curr EXCEPT ![c] = OwnHead(c)] /\ UNCHANGED <<my, v>>
  <2>1. Goes(c, "add", my[c]) /\ pc'[c] = "add" /\ my'[c] = my[c]
    BY <1>5, GoesOn1
  <2>2. curr'[c] = OwnHead(c) /\ popped'[c] = 0 /\ OthersStay(c)
    BY <1>2, <1>5, <2>1 DEF Goes, LockInv, IInv, ShapeOK, NumbersOK, OthersStay
  <2>3. \A m \in Node : Holds(c, m)' <=> m = OwnHead(c)
    BY <1>1, <1>5, EndOfPath
  <2>4. LocksOf(c)'
    BY <2>1, <2>2, <2>3 DEF LocksOf, QuietPc, PathPc, MatchPc, OneLockPc
  <2>5. MayGo(c, "add", my[c])
    BY <1>1, <1>3 DEF MayGo
  <2>6. v' \in [Client -> Int]
    BY <1>5, LocalTypes
  <2>7. AdvancesTo(c, "add", my[c])
    BY <1>2, <2>1, <2>2, <2>4, <2>5, <2>6 DEF AdvancesTo
  <2> QED
    BY <2>7
<1>6. CASE count[my[c]] = 0 /\ Finish(c)
  <2>1. /\ Goes(c, "read", Nil) /\ OthersStay(c) /\ pc'[c] = "read"
        /\ v' \in [Client -> Int]
    BY <1>6, FinishGoes
  <2>2. popped'[c] = 0
    BY <1>2 DEF LockInv, NumbersOK
  <2>3. \A m \in Node : ~Holds(c, m)'
    <3>1. ~GoesOn(my[c], next[n])
      BY <1>6 DEF GoesOn
    <3> QED
      BY <1>1, <1>6, <3>1, EndOfPath
  <2>4. LocksOf(c)'
    BY <2>1, <2>3 DEF LocksOf, QuietPc, PathPc, MatchPc, OneLockPc
  <2>5. MayGo(c, "read", Nil)
    BY <1>1 DEF MayGo, OrderPc
  <2>6. AdvancesTo(c, "read", Nil)
    BY <1>2, <2>1, <2>2, <2>4, <2>5 DEF AdvancesTo
  <2> QED
    BY <2>6
<1> QED
  BY <1>4, <1>5, <1>6 DEF Advance, OwnHead

LEMMA AdvanceKeeps ==
  ASSUME LockInv, IInv', NEW c \in Client, pc[c] \in MatchPc, NEW n \in Node,
         n = curr[c], count[my[c]] > 0 => ToTrade(n) = 0, Advance(c),
         UNCHANGED <<cmd, count, executionId, orders, next, volume, printed>>,
         queue' \in [Node -> Seq(OrderId)], QueuesShrink,
         \A m \in Node : m # n => queue'[m] = queue[m],
         ASSUME NEW k \in Nat, ~Matching(c, n)', AreLeft(n, k)'
         PROVE  IsVolume(n, k)'
  PROVE  LockInv'
<1>1. PICK label, o :
        /\ AdvancesTo(c, label, o)
        /\ label = "match" =>
             /\ curr'[c] \in OrderId /\ curr'[c] # n
             /\ \E m \in Node : m = curr'[c] /\ Holds(c, m)
  BY AdvanceGoes
<1>2. /\ Goes(c, label, o) /\ MayGo(c, label, o) /\ OthersStay(c)
      /\ pc'[c] = label /\ popped'[c] = 0 /\ LocksOf(c)'
      /\ v' \in [Client -> Int] /\ popped' \in [Client -> Nat]
  BY <1>1 DEF AdvancesTo
<1>3. LocksOfOthersStay(c) /\ NoNewLocks /\ Holds(c, n)
  BY LeavesLock
<1>4. LocksExact'
  <2>1. StepOf(c)
    BY <1>2, <1>3 DEF StepOf, LevelsOfOthersStay, OrdersOfOthersStay
  <2> QED
    BY <1>2, <2>1, LocksKept DEF LockInv, Places
<1>5. Places'
  BY <1>2, <1>3, KeysKnown, PlacesKept DEF LockInv
<1>6. NumbersOK'
  BY <1>2 DEF LockInv, NumbersOK
<1>7. ASSUME NEW m \in Node, m # n PROVE Untouched(c, m)
  BY <1>7 DEF Untouched, Matching
<1>8. ~Matching(c, n)'
  BY <1>1, <1>2 DEF Matching
<1>9. ASSUME NEW m \in Node, Matching(c, m)'
      PROVE  Untouched(c, m) /\ Holds(c, m) /\ m # n
  BY <1>1, <1>2, <1>7, <1>9 DEF Matching
<1>10. VolumesExact'
  <2>1. ASSUME NEW m \in Node, NEW k \in Nat, AreLeft(m, k)'
        PROVE  IsVolume(m, k)'
    <3>1. CASE m = n
      BY <1>8, <2>1, <3>1
    <3>2. CASE m # n /\ ~Matching(c, m)'
      BY <1>2, <1>7, <2>1, <3>2, UntouchedVolume DEF LockInv
    <3>3. CASE Matching(c, m)'
      BY <1>2, <1>9, <2>1, <3>3, BeginLevel DEF LockInv
    <3> QED
      BY <3>1, <3>2, <3>3
  <2> QED
    BY <2>1 DEF VolumesExact
<1>11. PoppedInLevel'
  <2>1. ASSUME NEW d \in Client, pc'[d] = "match"
        PROVE  popped'[d] <= Len(queue'[curr'[d]])
    <3>1. CASE d = c
      <4>1. PICK m \in Node : m = curr'[c]
        BY <1>1, <1>2, <2>1, <3>1
      <4>2. Len(queue'[m]) \in Nat
        OBVIOUS
      <4> QED
        BY <1>2, <3>1, <4>1, <4>2
    <3>2. CASE d # c
      <4>1. /\ pc[d] = "match" /\ curr'[d] = curr[d] /\ popped'[d] = popped[d]
        BY <1>2, <2>1, <3>2 DEF OthersStay
      <4>2. curr[d] \in Node /\ Holds(d, curr[d])
        BY <4>1, HoldsLevel DEF LockInv, MatchPc
      <4>3. curr[d] # n
        BY <1>3, <3>2, <4>2 DEF Holds
      <4> QED
        BY <4>1, <4>2, <4>3 DEF LockInv, PoppedInLevel
    <3> QED
      BY <3>1, <3>2
  <2> QED
    BY <2>1 DEF PoppedInLevel
<1> QED
  BY <1>4, <1>5, <1>6, <1>10, <1>11 DEF LockInv


LEMMA MatchHeadKeeps ==
  ASSUME LockInv, IInv', NEW c \in Client, MatchHead(c)
  PROVE  LockInv'
<1>1. pc[c] = "match head" /\ pc[c] \in MatchPc /\ Advance(c)
  BY DEF MatchHead, MatchPc
<1>2. UNCHANGED <<cmd, count, executionId, orders, next, volume, printed, queue>>
  BY DEF MatchHead, orderVars
<1>3. PICK n \in Node : n = curr[c]
  BY <1>1, HoldsLevel DEF LockInv
<1>4. ToTrade(n) = 0
  <2>1. PICK level \in [Nat -> Node], left \in [Nat -> Int], a \in Nat, b \in Nat :
          Path(c, level, left, a, b)
    BY <1>1 DEF LockInv, LocksExact, LocksOf, PathPc, HasPath
  <2>2. n = OtherHead(c)
    BY <1>1, <1>3, <2>1 DEF Path, AtPath
  <2>3. n \in Heads
    BY <1>1, <2>2, OrderOf DEF OrderPc
  <2> QED
    BY <2>3 DEF ToTrade
<1>5. queue' \in [Node -> Seq(OrderId)] /\ QueuesShrink
  <2>1. queue \in [Node -> Seq(OrderId)]
    BY DEF LockInv, NumbersOK
  <2> QED
    BY <1>2, <2>1, SameQueuesShrink
<1>6. OthersStay(c)
  BY <1>1, <1>2, <1>3, <1>4, AdvanceGoes DEF AdvancesTo
<1>7. ASSUME NEW k \in Nat, ~Matching(c, n)', AreLeft(n, k)'
      PROVE  IsVolume(n, k)'
  <2>1. Untouched(c, n)
    BY <1>1, <1>2 DEF Untouched, Matching
  <2> QED
    BY <1>6, <1>7, <2>1, UntouchedVolume DEF LockInv
<1> QED
  BY <1>1, <1>2, <1>3, <1>4, <1>5, <1>7, AdvanceKeeps

(* The orders that are left when the last ones are popped. *)
LEMMA Popped ==
  ASSUME NEW q \in Seq(OrderId), NEW k \in Nat, k <= Len(q)
  PROVE  /\ PopBack(q, k) \in Seq(OrderId)
         /\ Len(PopBack(q, k)) = Len(q) - k
         /\ DOMAIN PopBack(q, k) = 1 .. Len(q) - k
         /\ \A i \in 1 .. Len(q) - k : i \in DOMAIN q /\ PopBack(q, k)[i] = q[i]
BY DEF PopBack

LEMMA LeaveLevelKeeps ==
  ASSUME LockInv, IInv', NEW c \in Client, LeaveLevel(c)
  PROVE  LockInv'
<1>1. pc[c] = "match" /\ pc[c] \in MatchPc /\ Advance(c) /\ LevelDone(c)
  BY DEF LeaveLevel, MatchPc
<1>2. UNCHANGED <<cmd, count, executionId, orders, next, volume, printed>>
  BY DEF LeaveLevel, orderVars
<1>3. PICK n \in Node : n = curr[c] /\ Holds(c, n)
  BY <1>1, HoldsLevel DEF LockInv
<1>4. PICK p \in Nat : p = popped[c]
  BY LocalTypes
<1>5. PICK q \in Seq(OrderId) : q = queue[n]
  BY DEF LockInv, NumbersOK
<1>6. p <= Len(q) /\ Len(q) \in Nat /\ Len(q) - p \in Nat
  <2>1. p <= Len(q)
    BY <1>1, <1>3, <1>4, <1>5 DEF LockInv, PoppedInLevel
  <2> QED
    BY <2>1
<1>7. /\ queue' = [queue EXCEPT ![n] = PopBack(q, p)]
      /\ queue \in [Node -> Seq(OrderId)]
  BY <1>3, <1>4, <1>5 DEF LeaveLevel, LockInv, NumbersOK
<1>8. /\ PopBack(q, p) \in Seq(OrderId) /\ Len(PopBack(q, p)) = Len(q) - p
      /\ DOMAIN PopBack(q, p) = 1 .. Len(q) - p
      /\ \A i \in 1 .. Len(q) - p : i \in DOMAIN q /\ PopBack(q, p)[i] = q[i]
  BY <1>6, Popped
<1>9. /\ queue' \in [Node -> Seq(OrderId)] /\ queue'[n] = PopBack(q, p)
      /\ \A m \in Node : m # n => queue'[m] = queue[m]
  BY <1>7, <1>8
<1>10. Matching(c, n) /\ AreLeft(n, Len(q) - p)
  BY <1>1, <1>3, <1>4, <1>5 DEF Matching, AreLeft
<1>11. PICK sum \in [Nat -> Nat] :
         Sums(q, sum, Len(q) - p) /\ volume[n] = sum[Len(q) - p]
  BY <1>5, <1>6, <1>10 DEF LockInv, VolumesExact, IsVolume
<1>12. count[my[c]] > 0 => ToTrade(n) = 0
  <2>1. ASSUME count[my[c]] > 0 PROVE ToTrade(n) = 0
    <3>1. p = Len(q)
      BY <1>1, <1>3, <1>4, <1>5, <2>1 DEF LevelDone
    <3>2. volume[n] = 0
      BY <1>6, <1>11, <3>1 DEF Sums
    <3> QED
      BY <3>2 DEF ToTrade
  <2> QED
    BY <2>1
<1>13. QueuesShrink
  <2>1. ASSUME NEW m \in Node
        PROVE  \E g \in [DOMAIN queue'[m] -> DOMAIN queue[m]] :
                 \A i, j \in DOMAIN queue'[m] :
                   queue'[m][i] = queue[m][g[i]] /\ (g[i] = g[j] => i = j)
    <3> DEFINE g == [i \in DOMAIN queue'[m] |-> i]
    <3>1. \A i \in DOMAIN queue'[m] : i \in DOMAIN queue[m] /\ queue'[m][i] = queue[m][i]
      BY <1>5, <1>8, <1>9
    <3>2. g \in [DOMAIN queue'[m] -> DOMAIN queue[m]]
      BY <3>1
    <3> QED
      BY <3>1, <3>2
  <2> QED
    BY <2>1 DEF QueuesShrink
<1>14. ASSUME NEW k \in Nat, ~Matching(c, n)', AreLeft(n, k)'
       PROVE  IsVolume(n, k)'
  <2>1. \A d \in Client \ {c} : ~Matching(d, n)
    BY <1>3, AloneOnLevel DEF LockInv
  <2>2. OthersStay(c)
    BY <1>1, <1>2, <1>3, <1>12, AdvanceGoes DEF AdvancesTo
  <2>3. \A d \in Client : ~Matching(d, n)'
    BY <1>14, <2>1, <2>2 DEF OthersStay, Matching
  <2>4. k = Len(q) - p
    BY <1>8, <1>9, <1>14, <2>3 DEF AreLeft
  <2>5. Sums(queue[n], sum, k)'
    BY <1>2, <1>8, <1>9, <1>11, <2>4 DEF Sums
  <2>6. volume'[n] = sum[k]
    BY <1>2, <1>11, <2>4
  <2> QED
    BY <2>5, <2>6 DEF IsVolume
<1> QED
  BY <1>1, <1>2, <1>3, <1>9, <1>12, <1>13, <1>14, AdvanceKeeps


-----------------------------------------------------------------------------
(* One execution.  The resting order and the new one are in no other place,*)
(* so that their sizes matter to no other thread and to no other level.    *)
Rests(c, n, q, k, r) ==
  /\ pc[c] = "match" /\ n = curr[c] /\ q = queue[n] /\ r = q[k]
  /\ k = Len(q) - popped[c]

LEMMA RestingOrder ==
  ASSUME LockInv, NEW c \in Client, pc[c] = "match", ~LevelDone(c)
  PROVE  \E n \in Node, q \in Seq(OrderId), k \in Nat, r \in OrderId :
           /\ Rests(c, n, q, k, r) /\ r = Resting(c) /\ n = curr[c]
           /\ k \in 1 .. Len(q) /\ popped[c] < Len(q)
           /\ n \in OrderId /\ Holds(c, n)
<1>1. PICK n \in Node : n = curr[c] /\ Holds(c, n) /\ n \in OrderId
  BY HoldsLevel, MatchesLevel DEF LockInv, MatchPc
<1>2. PICK q \in Seq(OrderId) : q = queue[n]
  BY DEF LockInv, NumbersOK
<1>3. PICK p \in Nat : p = popped[c]
  BY LocalTypes
<1>4. p <= Len(q) /\ p # Len(q) /\ Len(q) \in Nat
  BY <1>1, <1>2, <1>3 DEF LockInv, PoppedInLevel, LevelDone
<1>5. PICK k \in Nat : k = Len(q) - p /\ k \in 1 .. Len(q)
  BY <1>4
<1>6. q[k] \in OrderId /\ q[k] = Resting(c)
  BY <1>1, <1>2, <1>3, <1>5 DEF Resting
<1> QED
  BY <1>1, <1>2, <1>3, <1>4, <1>5, <1>6 DEF Rests

LEMMA RestsAlone ==
  ASSUME LockInv, NEW c \in Client, NEW n \in Node, NEW q \in Seq(OrderId),
         NEW k \in Nat, NEW r \in OrderId, Rests(c, n, q, k, r), k \in 1 .. Len(q)
  PROVE  /\ \A d \in Client : pc[d] \in OrderPc => my[d] # r
         /\ \A d \in Client \ {c} : pc[d] \in OrderPc => my[d] # my[c]
         /\ \A m \in Node : \A i \in DOMAIN queue[m] :
              queue[m][i] # my[c] /\ (queue[m][i] = r => m = n /\ i = k)
         /\ cmd[r] # Nil
<1>1. k \in DOMAIN queue[n] /\ queue[n][k] = r /\ pc[c] \in OrderPc
  BY DEF Rests, OrderPc
<1>2. OnePlace /\ Known
  BY DEF LockInv, Places
<1>3. \A d \in Client : pc[d] \in OrderPc => my[d] # r
  BY <1>1, <1>2 DEF OnePlace
<1>4. \A d \in Client \ {c} : pc[d] \in OrderPc => my[d] # my[c]
  BY <1>1, <1>2 DEF OnePlace
<1>5. \A m \in Node : \A i \in DOMAIN queue[m] :
        queue[m][i] # my[c] /\ (queue[m][i] = r => m = n /\ i = k)
  BY <1>1, <1>2 DEF OnePlace
<1>6. cmd[r] # Nil
  BY <1>1, <1>2 DEF Known
<1> QED
  BY <1>3, <1>4, <1>5, <1>6

(* The level has at least the size of the resting order. *)
LastSum(n, q, sum, k) ==
  /\ Sums(q, sum, k) /\ volume[n] = sum[k]
  /\ k - 1 \in Nat /\ sum[k] = sum[k - 1] + count[q[k]]

LEMMA RestingVolume ==
  ASSUME LockInv, NEW c \in Client, NEW n \in Node, NEW q \in Seq(OrderId),
         NEW k \in Nat, NEW r \in OrderId, Rests(c, n, q, k, r), k \in 1 .. Len(q)
  PROVE  (\E sum \in [Nat -> Nat] : LastSum(n, q, sum, k)) /\ r = q[k]
<1>1. AreLeft(n, k)
  BY DEF Rests, AreLeft, Matching
<1>2. PICK sum \in [Nat -> Nat] : Sums(q, sum, k) /\ volume[n] = sum[k]
  BY <1>1 DEF LockInv, VolumesExact, IsVolume, Rests
<1>3. k - 1 \in Nat /\ k \in 1 .. k
  OBVIOUS
<1>4. sum[k] = sum[k - 1] + count[q[k]] /\ r = q[k]
  BY <1>2, <1>3 DEF Sums, Rests
<1> QED
  BY <1>2, <1>3, <1>4 DEF LastSum

(* The sizes that are left of the orders and of the level. *)
Fills(c, n, r, size) ==
  /\ size <= count[my[c]] /\ size <= count[r]
  /\ count' \in [OrderId -> 0 .. Modulus - 1]
  /\ count'[my[c]] = count[my[c]] - size
  /\ \A o \in OrderId : o # my[c] /\ o # r => count'[o] = count[o]
  /\ Shrink(n, size)

LEMMA ShrinksBy ==
  ASSUME LockInv, NEW c \in Client, NEW n \in Node, NEW q \in Seq(OrderId),
         NEW k \in Nat, NEW r \in OrderId, Rests(c, n, q, k, r), k \in 1 .. Len(q),
         NEW size \in Nat, Fills(c, n, r, size)
  PROVE  /\ volume' \in [Node -> 0 .. Modulus - 1]
         /\ volume'[n] = volume[n] - size
         /\ \A m \in Node : m # n => volume'[m] = volume[m]
<1>0. PICK sum \in [Nat -> Nat] : LastSum(n, q, sum, k)
  BY RestingVolume
<1>1. volume[n] = sum[k] /\ k - 1 \in Nat /\ sum[k] = sum[k - 1] + count[r]
  BY <1>0 DEF LastSum, Rests
<1>2. count[r] \in Nat /\ volume[n] \in Nat /\ volume[n] < Modulus
  BY Counted DEF LockInv
<1>3. sum[k - 1] \in Nat
  BY <1>1
<1>4. size <= volume[n]
  <2>1. \A x, y, z \in Nat : z <= y => z <= x + y
    OBVIOUS
  <2>2. size <= count[r]
    BY DEF Fills
  <2> QED
    BY <1>1, <1>2, <1>3, <2>1, <2>2
<1>5. volume[n] - size \in 0 .. Modulus - 1
  <2>1. \A x, y, z \in Nat : y <= x /\ x < z => x - y \in 0 .. z - 1
    OBVIOUS
  <2>2. Modulus \in Nat
    BY BookAssumption
  <2> QED
    BY <1>2, <1>4, <2>1, <2>2
<1>6. ToUInt(volume[n] - size) = volume[n] - size
  BY <1>5, UIntOfSmall
<1>7. volume' = [volume EXCEPT ![n] = volume[n] - size]
  BY <1>6 DEF Fills, Shrink
<1>8. volume \in [Node -> 0 .. Modulus - 1]
  BY DEF LockInv, NumbersOK
<1> QED
  BY <1>5, <1>7, <1>8


(* The path begins with the level, which has less to trade by as much as   *)
(* the order has. *)
LEMMA FillKeepsPath ==
  ASSUME LockInv, NEW c \in Client, pc[c] = "match", NEW n \in Node, n = curr[c],
         NEW size \in Nat,
         UNCHANGED <<cmd, owner, next, pc, my, curr, v>>,
         count'[my[c]] = count[my[c]] - size,
         volume'[n] = volume[n] - size,
         \A m \in Node : m # n => volume'[m] = volume[m]
  PROVE  HasPath(c)'
<1>1. PICK level \in [Nat -> Node], left \in [Nat -> Int], a \in Nat, b \in Nat :
        Path(c, level, left, a, b)
  BY DEF LockInv, LocksExact, LocksOf, PathPc, MatchPc, HasPath
<1>2. /\ a <= b /\ a \in a .. b /\ b \in a .. b
      /\ \A i \in a .. b : level[i] \in Node
  BY <1>1, PathLevels DEF PathPc, MatchPc
<1>3. level[a] = n /\ n \in OrderId /\ n \notin Heads
  BY <1>1, MatchesLevel, Names DEF Path, AtPath, MatchPc, LockInv
<1>4. \A i, j \in a .. b : level[i] = level[j] => i = j
  BY <1>1 DEF Path, HoldsPath
<1>5. PICK left2 \in [Nat -> Int] :
        left2[a] = left[a] - size /\ \A i \in Nat : i # a => left2[i] = left[i]
  <2> DEFINE f == [i \in Nat |-> IF i = a THEN left[a] - size ELSE left[i]]
  <2>1. f \in [Nat -> Int]
    OBVIOUS
  <2> QED
    BY <2>1
<1>6. \A m : Trades(my[c], m)' <=> Trades(my[c], m)
  BY DEF Trades, PriceOf
<1>7. ASSUME NEW i \in a .. b
      PROVE  /\ left2[i] \in Int /\ left[i] \in Int
             /\ ToTrade(level[i]) \in Int /\ ToTrade(level[i])' \in Int
             /\ left2[i] - ToTrade(level[i])' = left[i] - ToTrade(level[i])
  <2>1. left2[i] \in Int /\ left[i] \in Int
    OBVIOUS
  <2>2. CASE i = a
    <3>1. ToTrade(level[i]) = volume[n] /\ ToTrade(level[i])' = volume[n] - size
      BY <1>3, <2>2 DEF ToTrade
    <3>2. volume[n] \in Nat
      BY <1>3, Counted DEF LockInv
    <3> QED
      BY <1>5, <2>1, <2>2, <3>1, <3>2
  <2>3. CASE i # a
    <3>1. level[i] # n /\ level[i] \in Node
      BY <1>2, <1>3, <1>4, <2>3
    <3>2. ToTrade(level[i])' = ToTrade(level[i])
      BY <3>1 DEF ToTrade
    <3>3. ToTrade(level[i]) \in Nat
      BY <1>3, <3>1, Counted DEF LockInv
    <3> QED
      BY <1>5, <2>1, <2>3, <3>2, <3>3
  <2> QED
    BY <2>2, <2>3
<1>8. Follow(c, level, left2, a, b)'
  <2>1. Follow(c, level, left, a, b)
    BY <1>1 DEF Path
  <2>2. ASSUME NEW i \in a .. b - 1
        PROVE  /\ next'[level[i]] = level[i + 1]
               /\ Trades(my[c], level[i + 1])'
               /\ left2[i + 1] = left2[i] - ToTrade(level[i])'
               /\ left2[i + 1] > 0
    <3>1. i \in a .. b /\ i + 1 # a /\ i + 1 \in Nat
      OBVIOUS
    <3>2. left2[i + 1] = left[i + 1]
      BY <1>5, <3>1
    <3> QED
      BY <1>6, <1>7, <2>1, <3>1, <3>2 DEF Follow
  <2>3. left2[a] = count'[my[c]]
    BY <1>5, <2>1 DEF Follow
  <2>4. v'[c] = left2[b] - ToTrade(level[b])'
    BY <1>2, <1>7, <2>1 DEF Follow
  <2> QED
    BY <1>2, <2>2, <2>3, <2>4 DEF Follow
<1>9. HoldsPath(c, level, a, b)'
  <2>1. OwnHead(c)' = OwnHead(c) /\ \A m : Holds(c, m)' <=> Holds(c, m)
    BY DEF OwnHead, Holds
  <2>2. Holds(c, OwnHead(c))' <=> Holds(c, OwnHead(c))
    BY <2>1 DEF Holds
  <2> QED
    BY <1>1, <2>1, <2>2 DEF Path, HoldsPath
<1>10. AtPath(c, level, a, b)'
  <2>1. AtPath(c, level, a, b)
    BY <1>1 DEF Path
  <2>2. v'[c] > 0 => next'[level[b]] = Nil \/ ~Trades(my[c], next[level[b]])'
    BY <1>6, <2>1 DEF AtPath, MatchPc
  <2> QED
    BY <1>3, <2>2 DEF AtPath, MatchPc
<1> QED
  BY <1>8, <1>9, <1>10 DEF HasPath, Path


(* The sum without the last order, and with less of the last order. *)
LEMMA SumWithoutLast ==
  ASSUME NEW q, NEW sum \in [Nat -> Nat], NEW k \in Nat, k >= 1, Sums(q, sum, k),
         \A i \in 1 .. k - 1 : count'[q[i]] = count[q[i]]
  PROVE  k - 1 \in Nat /\ Sums(q, sum, k - 1)' /\ sum[k] = sum[k - 1] + count[q[k]]
<1>1. k - 1 \in Nat /\ k \in 1 .. k
  OBVIOUS
<1>2. \A i \in 1 .. k - 1 : i \in 1 .. k
  OBVIOUS
<1>3. \A i \in 0 .. k - 1 : i \in 0 .. k
  OBVIOUS
<1>4. Sums(q, sum, k - 1)'
  BY <1>2, <1>3 DEF Sums
<1> QED
  BY <1>1, <1>4 DEF Sums

LEMMA SumWithLess ==
  ASSUME NEW q, NEW sum \in [Nat -> Nat], NEW k \in Nat, k >= 1, Sums(q, sum, k),
         \A i \in 1 .. k - 1 : count'[q[i]] = count[q[i]],
         count'[q[k]] \in Nat
  PROVE  \E sum2 \in [Nat -> Nat] :
           Sums(q, sum2, k)' /\ sum2[k] = sum[k - 1] + count'[q[k]]
<1>1. k - 1 \in Nat /\ k - 1 \in 0 .. k /\ 0 # k
  OBVIOUS
<1>2. sum[k - 1] \in Nat /\ sum[0] = 0
  BY <1>1 DEF Sums
<1>3. PICK x \in Nat : x = sum[k - 1] + count'[q[k]] /\ sum[k - 1] <= x
  BY <1>2
<1>4. PICK sum2 \in [Nat -> Nat] :
        sum2[k] = x /\ \A i \in Nat : i # k => sum2[i] = sum[i]
  <2> DEFINE f == [i \in Nat |-> IF i = k THEN x ELSE sum[i]]
  <2>1. f \in [Nat -> Nat]
    OBVIOUS
  <2> QED
    BY <2>1
<1>5. ASSUME NEW i \in 1 .. k PROVE sum2[i] = sum2[i - 1] + count'[q[i]]
  <2>1. i - 1 \in Nat /\ i - 1 # k /\ sum2[i - 1] = sum[i - 1]
    BY <1>4
  <2>2. CASE i = k
    BY <1>3, <1>4, <2>1, <2>2
  <2>3. CASE i # k
    <3>1. i \in 1 .. k - 1 /\ i \in Nat
      BY <2>3
    <3>2. sum[i] = sum[i - 1] + count[q[i]]
      BY DEF Sums
    <3> QED
      BY <1>4, <2>1, <2>3, <3>1, <3>2
  <2> QED
    BY <2>2, <2>3
<1>6. ASSUME NEW i \in 0 .. k, NEW j \in 0 .. k, i <= j
      PROVE  sum2[i] <= sum2[j]
  <2>1. CASE j # k
    <3>1. i # k /\ i \in Nat /\ j \in Nat
      BY <1>6, <2>1
    <3>2. sum[i] <= sum[j]
      BY <1>6 DEF Sums
    <3> QED
      BY <1>4, <2>1, <3>1, <3>2
  <2>2. CASE j = k /\ i = k
    <3>1. sum2[k] \in Nat
      OBVIOUS
    <3> QED
      BY <2>2, <3>1
  <2>3. CASE j = k /\ i # k
    <3>1. i \in Nat /\ i <= k - 1
      BY <2>3
    <3>2. sum[i] <= sum[k - 1]
      BY <1>1, <3>1 DEF Sums
    <3>3. sum2[i] = sum[i] /\ sum2[j] = x /\ sum[i] \in Nat
      BY <1>4, <2>3, <3>1
    <3> QED
      BY <1>2, <1>3, <3>2, <3>3
  <2> QED
    BY <2>1, <2>2, <2>3
<1>7. Sums(q, sum2, k)'
  <2>1. sum2[0] = 0
    BY <1>1, <1>2, <1>4
  <2> QED
    BY <1>5, <1>6, <2>1 DEF Sums
<1> QED
  BY <1>3, <1>4, <1>7

(* So the volume is the sum still, after an execution that fills the last  *)
(* order and passes it, or takes some of it. *)
LEMMA SumAfterFill ==
  ASSUME NEW n \in Node, NEW q, queue'[n] = q,
         NEW sum \in [Nat -> Nat], NEW k \in Nat, k >= 1, Sums(q, sum, k),
         \A i \in 1 .. k - 1 : count'[q[i]] = count[q[i]],
         NEW left \in Int,
         \/ left = k - 1 /\ volume'[n] = sum[k - 1]
         \/ left = k /\ count'[q[k]] \in Nat /\ volume'[n] = sum[k - 1] + count'[q[k]]
  PROVE  left \in Nat /\ IsVolume(n, left)'
<1>1. CASE left = k - 1 /\ volume'[n] = sum[k - 1]
  <2>1. k - 1 \in Nat /\ Sums(q, sum, k - 1)'
    BY SumWithoutLast
  <2> QED
    BY <1>1, <2>1 DEF IsVolume
<1>2. CASE left = k /\ count'[q[k]] \in Nat /\ volume'[n] = sum[k - 1] + count'[q[k]]
  <2>1. PICK sum2 \in [Nat -> Nat] :
          Sums(q, sum2, k)' /\ sum2[k] = sum[k - 1] + count'[q[k]]
    BY <1>2, SumWithLess
  <2> QED
    BY <1>2, <2>1 DEF IsVolume
<1> QED
  BY <1>1, <1>2

LEMMA BeforeLast ==
  ASSUME NEW q \in Seq(OrderId), NEW k \in 1 .. Len(q), NEW i \in 1 .. k - 1
  PROVE  i \in DOMAIN q /\ i # k /\ q[i] \in OrderId
<1>1. Len(q) \in Nat /\ k <= Len(q)
  OBVIOUS
<1>2. i \in 1 .. Len(q)
  BY <1>1
<1> QED
  BY <1>2

LEMMA FillsOnly ==
  ASSUME LockInv, NEW c \in Client, NEW n \in Node, NEW q \in Seq(OrderId),
         NEW k \in Nat, NEW r \in OrderId, Rests(c, n, q, k, r), k \in 1 .. Len(q),
         NEW size \in Nat, Fills(c, n, r, size), NEW i \in 1 .. k - 1
  PROVE  count'[q[i]] = count[q[i]]
<1>1. i \in DOMAIN q /\ i # k /\ q[i] \in OrderId
  BY BeforeLast
<1>2. \A m \in Node : \A j \in DOMAIN queue[m] :
        queue[m][j] # my[c] /\ (queue[m][j] = r => m = n /\ j = k)
  BY RestsAlone
<1>3. q = queue[n]
  BY DEF Rests
<1>4. q[i] # my[c] /\ q[i] # r
  BY <1>1, <1>2, <1>3
<1>5. \A o \in OrderId : o # my[c] /\ o # r => count'[o] = count[o]
  BY DEF Fills
<1> QED
  BY <1>1, <1>4, <1>5

(* What is left of the level after it: the resting order is passed, or     *)
(* its size is smaller. *)
Leaves(c, k, r, size, left) ==
  \/ left = k - 1 /\ size = count[r] /\ popped' = [popped EXCEPT ![c] = @ + 1]
  \/ left = k /\ count'[r] = count[r] - size /\ UNCHANGED popped

LEMMA FillVolume ==
  ASSUME LockInv, NEW c \in Client, NEW n \in Node, NEW q \in Seq(OrderId),
         NEW k \in Nat, NEW r \in OrderId, Rests(c, n, q, k, r), k \in 1 .. Len(q),
         NEW size \in Nat, Fills(c, n, r, size), UNCHANGED queue,
         NEW left \in Int, Leaves(c, k, r, size, left)
  PROVE  left \in Nat /\ IsVolume(n, left)'
<1>0. PICK sum \in [Nat -> Nat] : LastSum(n, q, sum, k)
  BY RestingVolume
<1>1. /\ Sums(q, sum, k) /\ volume[n] = sum[k]
      /\ k - 1 \in Nat /\ sum[k] = sum[k - 1] + count[q[k]]
  BY <1>0 DEF LastSum
<1>2. volume'[n] = sum[k] - size
  <2>1. volume'[n] = volume[n] - size
    BY SMTT(30), ShrinksBy
  <2>2. volume[n] = sum[k]
    BY <1>1
  <2> QED
    BY <2>1, <2>2
<1>3. \A i \in 1 .. k - 1 : count'[q[i]] = count[q[i]]
  BY FillsOnly
<1>4. PICK x \in Nat : x = count[r]
  BY Counted DEF LockInv
<1>5. q = queue'[n] /\ r = q[k]
  BY DEF Rests
<1>6. k >= 1
  OBVIOUS
<1>7. size <= x
  BY <1>4 DEF Fills
<1>8. k - 1 \in Nat /\ sum[k] = sum[k - 1] + x
  BY <1>1, <1>4, <1>5
<1>9. /\ x - size \in Nat
      /\ volume'[n] = sum[k - 1] + (x - size)
      /\ size = x => volume'[n] = sum[k - 1]
  <2>1. PICK y \in Nat : y = sum[k - 1]
    BY <1>8
  <2>2. PICK z \in Nat : z = x - size
    <3>1. \A i, j \in Nat : i <= j => j - i \in Nat
      OBVIOUS
    <3> QED
      BY <1>7, <3>1
  <2>3. \A i, j, l, m \in Nat : m = j - l => (i + j) - l = i + m
    OBVIOUS
  <2>4. \A i \in Nat : i + 0 = i /\ i - i = 0
    OBVIOUS
  <2>5. volume'[n] = y + z
    BY <1>2, <1>8, <2>1, <2>2, <2>3
  <2> QED
    BY <2>1, <2>2, <2>4, <2>5
<1>10. (left = k - 1 /\ size = x) \/ (left = k /\ count'[q[k]] = x - size)
  BY <1>4, <1>5 DEF Leaves
<1>11. \/ left = k - 1 /\ volume'[n] = sum[k - 1]
       \/ left = k /\ count'[q[k]] \in Nat /\ volume'[n] = sum[k - 1] + count'[q[k]]
  BY <1>9, <1>10
<1> QED
  BY <1>1, <1>3, <1>5, <1>6, <1>11, SumAfterFill

LEMMA FillStays ==
  ASSUME LockInv, NEW c \in Client, NEW n \in Node, NEW q \in Seq(OrderId),
         NEW k \in Nat, NEW r \in OrderId, Rests(c, n, q, k, r), k \in 1 .. Len(q),
         NEW size \in Nat, Fills(c, n, r, size), Holds(c, n),
         UNCHANGED <<cmd, owner, next, pc, my, curr, v>>,
         NEW left \in Int, Leaves(c, k, r, size, left)
  PROVE  StepOf(c)
<1>1. popped \in [Client -> Nat]
  BY LocalTypes
<1>2. OthersStay(c)
  BY <1>1 DEF Leaves, OthersStay
<1>3. LocksOfOthersStay(c)
  BY DEF LocksOfOthersStay
<1>4. LevelsOfOthersStay(c)
  <2>1. \A m \in Node : m # n => volume'[m] = volume[m]
    BY ShrinksBy
  <2> QED
    BY <2>1 DEF LevelsOfOthersStay, Holds
<1>5. OrdersOfOthersStay(c)
  <2>1. ASSUME NEW d \in Client \ {c}, pc[d] \in OrderPc
        PROVE  count'[my[d]] = count[my[d]]
    <3>1. my[d] \in OrderId
      BY <2>1, OrderOf
    <3>2. my[d] # r /\ my[d] # my[c]
      BY <2>1, RestsAlone
    <3> QED
      BY <3>1, <3>2 DEF Fills
  <2> QED
    BY <2>1 DEF OrdersOfOthersStay
<1> QED
  BY <1>2, <1>3, <1>4, <1>5 DEF StepOf

LEMMA FillKeeps ==
  ASSUME LockInv, IInv', NEW c \in Client, NEW n \in Node, NEW q \in Seq(OrderId),
         NEW k \in Nat, NEW r \in OrderId, Rests(c, n, q, k, r), k \in 1 .. Len(q),
         NEW size \in Nat, Fills(c, n, r, size), Holds(c, n), popped[c] < Len(q),
         UNCHANGED <<cmd, owner, next, queue, pc, my, curr, v>>,
         orders' \subseteq orders, executionId' \in [OrderId -> 0 .. Modulus],
         printed' \in Seq(Line),
         NEW left \in Int, Leaves(c, k, r, size, left)
  PROVE  LockInv'
<1>1. StepOf(c) /\ OthersStay(c) /\ LocksOfOthersStay(c)
  BY FillStays DEF StepOf
<1>2. /\ volume' \in [Node -> 0 .. Modulus - 1]
      /\ volume'[n] = volume[n] - size
      /\ \A m \in Node : m # n => volume'[m] = volume[m]
  BY ShrinksBy
<1>3. pc[c] = "match" /\ n = curr[c] /\ q = queue[n] /\ k = Len(q) - popped[c]
  BY DEF Rests
<1>4. popped \in [Client -> Nat] /\ popped' \in [Client -> Nat]
  <2>1. popped \in [Client -> Nat]
    BY LocalTypes
  <2>2. popped' = [popped EXCEPT ![c] = popped[c] + 1] \/ popped' = popped
    BY DEF Leaves
  <2>3. popped[c] + 1 \in Nat
    BY <2>1
  <2> QED
    BY <2>1, <2>2, <2>3
<1>5. LocksExact'
  <2>1. HasPath(c)'
    BY <1>2, <1>3, FillKeepsPath DEF Fills
  <2>2. LocksOf(c)'
    BY <1>3, <2>1 DEF LocksOf, QuietPc, PathPc, MatchPc, OneLockPc
  <2> QED
    BY <1>1, <2>2, LocksKept DEF LockInv, Places
<1>6. Places'
  <2>1. Goes(c, "match", my[c])
    BY <1>3 DEF Goes, LockInv, IInv, ShapeOK
  <2>2. owner'[BookMutex] # c
    BY <1>3 DEF LockInv, Places, BookHeldInPrelude, Holds, PreludeSteps
  <2>3. MayGo(c, "match", my[c])
    BY <1>3, <2>2 DEF MayGo, OrderPc
  <2>4. NoNewLocks
    BY DEF LockInv, Places, LinkedByMaker, NoNewLocks
  <2> QED
    BY <1>1, <2>1, <2>3, <2>4, SameQueuesShrink, KeysKnown, PlacesKept DEF LockInv
<1>7. NumbersOK'
  BY <1>2, <1>4 DEF Fills, LockInv, NumbersOK
<1>8. VolumesExact'
  <2>1. ASSUME NEW m \in Node, NEW i \in Nat, AreLeft(m, i)'
        PROVE  IsVolume(m, i)'
    <3>1. CASE m # n
      <4>1. Untouched(c, m)
        <5>1. \A j \in DOMAIN queue[m] : queue[m][j] # my[c] /\ queue[m][j] # r
          BY <3>1, RestsAlone
        <5>2. queue[m] \in Seq(OrderId)
          BY DEF LockInv, NumbersOK
        <5>3. \A j \in DOMAIN queue[m] : queue[m][j] \in OrderId
          BY <5>2
        <5>4. \A o \in OrderId : o # my[c] /\ o # r => count'[o] = count[o]
          BY DEF Fills
        <5> QED
          BY <1>2, <1>3, <3>1, <5>1, <5>3, <5>4 DEF Untouched, Matching
      <4>2. ~Matching(c, m)'
        BY <1>3, <3>1 DEF Matching
      <4> QED
        BY <1>1, <2>1, <4>1, <4>2, UntouchedVolume DEF LockInv
    <3>2. CASE m = n
      <4>1. Matching(c, n) /\ Matching(c, n)'
        BY <1>3 DEF Matching
      <4>2. \A d \in Client : Matching(d, n)' => d = c
        BY AloneOnLevel DEF Matching, LockInv
      <4>3. i = Len(q) - popped'[c]
        BY <1>3, <2>1, <3>2, <4>1, <4>2 DEF AreLeft
      <4>4. i = left
        <5>1. PICK p \in Nat : p = popped[c]
          BY <1>4
        <5>2. PICK len \in Nat : len = Len(q)
          OBVIOUS
        <5>3. k = len - p
          BY <1>3, <5>1, <5>2
        <5>4. (left = k - 1 /\ popped'[c] = p + 1) \/ (left = k /\ popped'[c] = p)
          BY <1>4, <5>1 DEF Leaves
        <5>5. i = len - popped'[c]
          BY <4>3, <5>2
        <5> QED
          BY SMTT(30), <5>3, <5>4, <5>5
      <4> QED
        BY <3>2, <4>4, FillVolume
    <3> QED
      BY <3>1, <3>2
  <2> QED
    BY <2>1 DEF VolumesExact
<1>9. PoppedInLevel'
  <2>1. ASSUME NEW d \in Client, pc[d] = "match"
        PROVE  popped'[d] <= Len(queue[curr[d]])
    <3>1. CASE d = c
      <4>1. PICK p \in Nat : p = popped[c]
        BY <1>4
      <4>2. PICK len \in Nat : len = Len(q)
        OBVIOUS
      <4>3. p < len
        BY <4>1, <4>2
      <4>4. popped'[c] = p + 1 \/ popped'[c] = p
        BY <1>4, <4>1 DEF Leaves
      <4>5. popped'[c] <= len
        BY <4>3, <4>4
      <4> QED
        BY <1>3, <3>1, <4>2, <4>5
    <3>2. CASE d # c
      BY <1>1, <2>1, <3>2 DEF OthersStay, LockInv, PoppedInLevel
    <3> QED
      BY <3>1, <3>2
  <2> QED
    BY <2>1 DEF PoppedInLevel
<1> QED
  BY <1>5, <1>6, <1>7, <1>8, <1>9 DEF LockInv


LEMMA ExecutedIsLine ==
  ASSUME LockInv, NEW c \in Client, NEW n \in Node, NEW q \in Seq(OrderId),
         NEW k \in Nat, NEW r \in OrderId, Rests(c, n, q, k, r), k \in 1 .. Len(q),
         NEW size \in 0 .. Modulus - 1
  PROVE  Executed(my[c], r, size) \in Line
<1>1. my[c] \in OrderId /\ cmd[my[c]] \in Command
  BY OrderOf DEF Rests, OrderPc
<1>2. cmd[r] \in Command
  <2>1. cmd[r] # Nil
    BY RestsAlone
  <2>2. cmd \in [OrderId -> Command \cup {Nil}]
    BY DEF LockInv, IInv, ShapeOK
  <2> QED
    BY <2>1, <2>2
<1>3. executionId[r] \in 0 .. Modulus
  BY DEF LockInv, NumbersOK
<1>4. cmd[r].price \in 0 .. Modulus - 1 /\ cmd[my[c]].time \in Nat
  BY <1>1, <1>2 DEF Command
<1> QED
  BY <1>1, <1>3, <1>4 DEF Executed, Line

LEMMA ExecutedTyped ==
  ASSUME LockInv, NEW c \in Client, NEW n \in Node, NEW q \in Seq(OrderId),
         NEW k \in Nat, NEW r \in OrderId, Rests(c, n, q, k, r), k \in 1 .. Len(q),
         NEW size \in 0 .. Modulus - 1, PrintLine(Executed(my[c], r, size))
  PROVE  printed' \in Seq(Line)
BY ExecutedIsLine, PrintTyped

LEMMA FillRestingKeeps ==
  ASSUME LockInv, IInv', NEW c \in Client, FillResting(c)
  PROVE  LockInv'
<1>1. PICK n \in Node, q \in Seq(OrderId), k \in Nat, r \in OrderId :
        /\ Rests(c, n, q, k, r) /\ r = Resting(c) /\ n = curr[c]
        /\ k \in 1 .. Len(q) /\ popped[c] < Len(q) /\ Holds(c, n)
  BY RestingOrder DEF FillResting
<1>2. PICK size \in Nat : size = count[r] /\ size \in 0 .. Modulus - 1
  BY Counted DEF LockInv
<1>3. PICK x \in Nat : x = count[my[c]] /\ x \in 0 .. Modulus - 1
  <2>1. my[c] \in OrderId
    BY <1>1, OrderOf DEF Rests, OrderPc
  <2> QED
    BY <2>1, Counted DEF LockInv
<1>4. my[c] \in OrderId /\ my[c] # r
  <2>1. pc[c] \in OrderPc
    BY <1>1 DEF Rests, OrderPc
  <2>2. Rests(c, n, q, k, r) /\ k \in 1 .. Len(q)
    BY <1>1
  <2>3. \A d \in Client : pc[d] \in OrderPc => my[d] # r
    BY <2>2, RestsAlone
  <2> QED
    BY <2>1, <2>3, OrderOf
<1>5. count' = [count EXCEPT ![my[c]] = x - size] /\ size <= x
  BY <1>1, <1>2, <1>3 DEF FillResting
<1>6. x - size \in 0 .. Modulus - 1
  <2>1. Modulus \in Nat
    BY BookAssumption
  <2> QED
    BY <1>3, <1>5, <2>1
<1>7. Fills(c, n, r, size)
  <2>1. count \in [OrderId -> 0 .. Modulus - 1]
    BY DEF LockInv, NumbersOK
  <2>2. Shrink(n, size)
    BY <1>1, <1>2 DEF FillResting
  <2> QED
    BY <1>2, <1>3, <1>4, <1>5, <1>6, <2>1, <2>2 DEF Fills
<1>8. Leaves(c, k, r, size, k - 1) /\ k - 1 \in Int
  BY <1>2 DEF Leaves, FillResting
<1>9. UNCHANGED <<cmd, owner, next, queue, pc, my, curr, v, executionId>>
      /\ orders' \subseteq orders
  BY DEF FillResting, Deregister
<1>10. executionId' \in [OrderId -> 0 .. Modulus]
  BY <1>9 DEF LockInv, NumbersOK
<1>11. printed' \in Seq(Line)
  <2>1. PrintLine(Executed(my[c], r, size))
    BY <1>1, <1>2 DEF FillResting
  <2> QED
    BY <1>1, <1>2, <2>1, ExecutedTyped
<1> QED
  BY <1>1, <1>7, <1>8, <1>9, <1>10, <1>11, FillKeeps

LEMMA FillNewKeeps ==
  ASSUME LockInv, IInv', NEW c \in Client, FillNew(c)
  PROVE  LockInv'
<1>1. PICK n \in Node, q \in Seq(OrderId), k \in Nat, r \in OrderId :
        /\ Rests(c, n, q, k, r) /\ r = Resting(c) /\ n = curr[c]
        /\ k \in 1 .. Len(q) /\ popped[c] < Len(q) /\ Holds(c, n)
  BY RestingOrder DEF FillNew
<1>2. my[c] \in OrderId /\ my[c] # r
  <2>1. pc[c] \in OrderPc
    BY <1>1 DEF Rests, OrderPc
  <2>2. Rests(c, n, q, k, r) /\ k \in 1 .. Len(q)
    BY <1>1
  <2>3. \A d \in Client : pc[d] \in OrderPc => my[d] # r
    BY <2>2, RestsAlone
  <2> QED
    BY <2>1, <2>3, OrderOf
<1>3. PICK size \in Nat : size = count[my[c]] /\ size \in 0 .. Modulus - 1
  BY <1>2, Counted DEF LockInv
<1>4. PICK x \in Nat : x = count[r] /\ x \in 0 .. Modulus - 1
  BY Counted DEF LockInv
<1>5. count' = [count EXCEPT ![r] = x - size, ![my[c]] = 0] /\ size < x
  BY <1>1, <1>3, <1>4 DEF FillNew
<1>6. x - size \in 0 .. Modulus - 1 /\ 0 \in 0 .. Modulus - 1 /\ size - size = 0
  <2>1. Modulus \in Nat
    BY BookAssumption
  <2> QED
    BY <1>4, <1>5, <2>1
<1>7. count \in [OrderId -> 0 .. Modulus - 1]
  BY DEF LockInv, NumbersOK
<1>8. Fills(c, n, r, size)
  <2>1. Shrink(n, size)
    BY <1>1, <1>3 DEF FillNew
  <2> QED
    BY <1>2, <1>3, <1>4, <1>5, <1>6, <1>7, <2>1 DEF Fills
<1>9. UNCHANGED <<cmd, owner, next, queue, pc, my, curr, v, popped, orders>>
  BY DEF FillNew, threadVars
<1>10. Leaves(c, k, r, size, k) /\ k \in Int
  BY <1>2, <1>4, <1>5, <1>7, <1>9 DEF Leaves
<1>11. executionId' \in [OrderId -> 0 .. Modulus]
  <2>1. executionId \in [OrderId -> 0 .. Modulus]
    BY DEF LockInv, NumbersOK
  <2>2. executionId[r] + 1 \in Int
    BY <2>1, BookAssumption
  <2>3. PICK e : e = ToUInt(executionId[r] + 1) /\ e \in 0 .. Modulus - 1
    BY <2>2, UIntInRange
  <2>4. e \in 0 .. Modulus
    BY <2>3, BookAssumption
  <2>5. executionId' = [executionId EXCEPT ![r] = e]
    BY <1>1, <2>3 DEF FillNew
  <2> QED
    BY <2>1, <2>4, <2>5
<1>12. printed' \in Seq(Line)
  <2>1. PrintLine(Executed(my[c], r, size))
    BY <1>1, <1>3 DEF FillNew
  <2> QED
    BY <1>1, <1>3, <2>1, ExecutedTyped
<1> QED
  BY <1>1, <1>8, <1>9, <1>10, <1>11, <1>12, FillKeeps


-----------------------------------------------------------------------------
(* A level is linked behind the one the thread stands on.  Nobody knew of  *)
(* it before. *)
LEMMA NewLevelIsNew ==
  ASSUME LockInv, NEW c \in Client, pc[c] = "new level"
  PROVE  \E o \in OrderId, n \in Node :
           /\ o = my[c] /\ n = curr[c] /\ Holds(c, n) /\ o # n
           /\ Free(o) /\ next[o] = Nil /\ cmd[o] # Nil
           /\ \A m \in Node : next[m] # o
<1>1. PICK o \in OrderId : o = my[c] /\ cmd[o] # Nil
  BY OrderOf DEF OrderPc
<1>2. PICK n \in Node : n = curr[c] /\ Holds(c, n)
  BY HoldsLevel DEF LockInv, OneLockPc
<1>3. LinkedByMaker
  BY DEF LockInv, Places
<1>4. \A m \in Node : next[m] # o
  BY <1>1, <1>3 DEF LinkedByMaker, OrderPc
<1>5. owner[o] = Nil /\ next[o] = Nil
  BY <1>3, <1>4 DEF LinkedByMaker
<1>6. c # Nil
  BY Names
<1> QED
  BY <1>1, <1>2, <1>4, <1>5, <1>6 DEF Free, Holds

LEMMA NewLevelPlaces ==
  ASSUME LockInv, NEW c \in Client, NEW o \in OrderId, NEW n \in Node,
         o = my[c], n = curr[c], o # n, Holds(c, n), cmd[o] # Nil, next[o] = Nil,
         \A m \in Node : next[m] # o,
         pc[c] \in OrderPc, Goes(c, "register", o),
         next' = [next EXCEPT ![o] = next[n], ![n] = o],
         owner' = [owner EXCEPT ![o] = c, ![n] = Nil],
         UNCHANGED <<cmd, orders, queue>>, owner'[BookMutex] # c,
         LocksOfOthersStay(c)
  PROVE  Places'
<1>1. \A d \in Client : pc'[d] = (IF d = c THEN "register" ELSE pc[d]) /\ my'[d] = my[d]
  BY DEF Goes, LockInv, IInv, ShapeOK
<1>2. next \in [Node -> OrderId \cup {Nil}] /\ o \in Node
  BY Names DEF LockInv, IInv, ShapeOK
<1>3. \A m \in Node :
        next'[m] = (IF m = n THEN o ELSE IF m = o THEN next[n] ELSE next[m])
  BY <1>2
<1>4. Known'
  <2>1. \A m \in Node : next'[m] # Nil => cmd[next'[m]] # Nil
    BY <1>2, <1>3 DEF LockInv, Places, Known
  <2>2. \A d \in Client :
          pc'[d] \in OrderPc \cup {"cancel head", "cancel step", "cancel level",
                                   "gone", "cancelled"}
            => cmd[my'[d]] # Nil
    BY <1>1 DEF LockInv, Places, Known
  <2> QED
    BY <2>1, <2>2 DEF LockInv, Places, Known
<1>5. OnePlace'
  <2>1. \A d \in Client : pc'[d] \in OrderPc => pc[d] \in OrderPc
    BY <1>1
  <2> QED
    BY <1>1, <2>1 DEF LockInv, Places, OnePlace
<1>6. LinkedByMaker'
  <2>1. ASSUME NEW d \in Client, pc'[d] \in OrderPc \ {"register", "enqueue"}, NEW m \in Node
        PROVE  next'[m] # my'[d]
    <3>1. d # c /\ pc[d] \in OrderPc \ {"register", "enqueue"} /\ my'[d] = my[d]
      BY <1>1, <2>1
    <3>2. my[d] # o
      BY <3>1 DEF LockInv, Places, OnePlace
    <3>3. next[m] # my[d] /\ next[n] # my[d]
      BY <3>1 DEF LockInv, Places, LinkedByMaker
    <3> QED
      BY <1>3, <3>1, <3>2, <3>3
  <2>2. ASSUME NEW l \in OrderId, owner'[l] # Nil \/ next'[l] # Nil
        PROVE  \E m \in Node : next'[m] = l
    <3>1. CASE l = o
      BY <1>3, <3>1
    <3>2. CASE l # o
      <4>1. l \in Node /\ l \in Mutex /\ o \in Mutex /\ n \in Mutex
        BY Names
      <4>2. owner[l] # Nil \/ next[l] # Nil
        <5>1. owner'[l] # Nil => owner[l] # Nil
          <6>1. owner \in [Mutex -> Client \cup {Nil}]
            BY DEF LockInv, IInv, ShapeOK
          <6> QED
            BY <3>2, <4>1, <6>1
        <5>2. next'[l] # Nil => next[l] # Nil \/ l = n
          BY <1>3, <3>2, <4>1
        <5>3. owner[n] # Nil
          BY Names DEF Holds
        <5> QED
          BY <2>2, <5>1, <5>2, <5>3
      <4>3. PICK m \in Node : next[m] = l
        BY <4>2 DEF LockInv, Places, LinkedByMaker
      <4>4. m # o
        BY <4>1, <4>3, Names
      <4>5. CASE m = n
        BY <1>2, <1>3, <4>3, <4>5
      <4>6. CASE m # n
        BY <1>3, <4>3, <4>4, <4>6
      <4> QED
        BY <4>5, <4>6
    <3> QED
      BY <3>1, <3>2
  <2> QED
    BY <2>1, <2>2 DEF LinkedByMaker
<1>7. BookHeldInPrelude'
  BY <1>1, Names DEF LockInv, Places, BookHeldInPrelude, Holds, LocksOfOthersStay
<1> QED
  BY <1>4, <1>5, <1>6, <1>7 DEF Places

LEMMA NewLevelKeeps ==
  ASSUME LockInv, IInv', NEW c \in Client, NewLevel(c)
  PROVE  LockInv'
<1>1. PICK o \in OrderId, n \in Node :
        /\ o = my[c] /\ n = curr[c] /\ Holds(c, n) /\ o # n
        /\ Free(o) /\ next[o] = Nil /\ cmd[o] # Nil
        /\ \A m \in Node : next[m] # o
  BY NewLevelIsNew DEF NewLevel
<1>2. /\ Goes(c, "register", o) /\ pc'[c] = "register" /\ my'[c] = o
      /\ pc[c] = "new level"
  BY <1>1, GoesOn1 DEF NewLevel
<1>3. /\ UNCHANGED <<cmd, count, executionId, orders, volume, queue, v, popped, printed>>
      /\ owner' = [owner EXCEPT ![o] = c, ![n] = Nil]
      /\ next' = [next EXCEPT ![o] = next[n], ![n] = o]
      /\ curr' = [curr EXCEPT ![c] = o]
  BY <1>1 DEF NewLevel, orderVars
<1>4. OthersStay(c) /\ curr'[c] = o
  BY <1>2, <1>3 DEF Goes, LockInv, IInv, ShapeOK, OthersStay
<1>5. o \in Mutex /\ n \in Mutex /\ o \in Node /\ BookMutex \in Mutex
      /\ BookMutex # o /\ BookMutex # n
  BY Names
<1>6. /\ LocksOfOthersStay(c)
      /\ \A l \in Mutex : Holds(c, l)' <=> (l = o \/ (Holds(c, l) /\ l # n))
  BY <1>1, <1>3, <1>5, HandOver
<1>7. LocksOf(c)'
  <2>1. \A l \in Node : Holds(c, l) <=> l = n
    BY <1>1, <1>2 DEF LockInv, LocksExact, LocksOf, OneLockPc
  <2>2. \A l \in Node : Holds(c, l)' <=> l = curr'[c]
    BY <1>1, <1>4, <1>6, <2>1, Names
  <2> QED
    BY <1>2, <2>2 DEF LocksOf, QuietPc, PathPc, MatchPc, OneLockPc
<1>8. LocksExact'
  <2>1. \A m \in Node : m # o /\ m # n => next'[m] = next[m]
    BY <1>3 DEF LockInv, IInv, ShapeOK
  <2>2. LevelsOfOthersStay(c)
    BY <1>1, <1>3, <2>1 DEF LevelsOfOthersStay, Holds, Free
  <2>3. StepOf(c)
    BY <1>3, <1>4, <1>6, <2>2 DEF StepOf, OrdersOfOthersStay
  <2> QED
    BY <1>7, <2>3, LocksKept DEF LockInv, Places
<1>9. Places'
  <2>1. owner'[BookMutex] # c
    <3>1. owner[BookMutex] # c
      BY <1>2 DEF LockInv, Places, BookHeldInPrelude, Holds, PreludeSteps
    <3> QED
      BY <1>5, <1>6, <3>1 DEF Holds
  <2> QED
    BY <1>1, <1>2, <1>3, <1>6, <2>1, NewLevelPlaces DEF OrderPc
<1>10. NumbersOK'
  BY <1>3 DEF LockInv, NumbersOK
<1>11. VolumesExact'
  <2>1. ASSUME NEW m \in Node, NEW k \in Nat, AreLeft(m, k)'
        PROVE  IsVolume(m, k)'
    <3>1. Untouched(c, m) /\ ~Matching(c, m)'
      BY <1>2, <1>3 DEF Untouched, Matching
    <3> QED
      BY <1>4, <2>1, <3>1, UntouchedVolume DEF LockInv
  <2> QED
    BY <2>1 DEF VolumesExact
<1>12. PoppedInLevel'
  <2>1. \A d \in Client : pc'[d] = "match" => d # c
    BY <1>2
  <2> QED
    BY <1>3, <1>4, <2>1 DEF LockInv, PoppedInLevel, OthersStay
<1> QED
  BY <1>8, <1>9, <1>10, <1>11, <1>12 DEF LockInv


-----------------------------------------------------------------------------
(* A new order is known to nobody but the thread that reads it. *)
LEMMA NewOrder ==
  ASSUME LockInv, NEW o \in OrderId, cmd[o] = Nil
  PROVE  /\ \A d \in Client : pc[d] \in OrderPc => my[d] # o
         /\ \A n \in Node : next[n] # o
         /\ \A n \in Node : \A i \in DOMAIN queue[n] : queue[n][i] # o
<1>1. Known /\ o # Nil
  BY Names DEF LockInv, Places
<1> QED
  BY <1>1 DEF Known

LEMMA ReadOrderKeeps ==
  ASSUME LockInv, IInv', NEW c \in Client, NEW o \in OrderId, NEW offer \in Offer,
         ReadOrder(c, o, offer)
  PROVE  LockInv'
<1>1. /\ Goes(c, "lock book", o) /\ pc'[c] = "lock book" /\ my'[c] = o
      /\ pc[c] = "read" /\ cmd[o] = Nil
  BY DEF ReadOrder, Goto, Goes, LockInv, IInv, ShapeOK
<1>2. UNCHANGED <<executionId, orders, owner, next, volume, queue, curr, v, popped, printed>>
  BY DEF ReadOrder, bookVars
<1>3. OthersStay(c)
  BY <1>1, <1>2 DEF Goes, LockInv, IInv, ShapeOK, OthersStay
<1>4. /\ \A x \in OrderId : x # o => cmd'[x] = cmd[x]
      /\ cmd'[o] # Nil
  <2>1. cmd \in [OrderId -> Command \cup {Nil}] /\ clock' \in Nat
    BY DEF LockInv, IInv, ShapeOK
  <2>2. PICK x : x = [side |-> offer.side, price |-> offer.price,
                      count |-> offer.count, time |-> clock']
    OBVIOUS
  <2>3. x \in Command
    BY <2>1, <2>2, BookAssumption DEF Command
  <2>4. cmd' = [cmd EXCEPT ![o] = x]
    BY <2>2 DEF ReadOrder
  <2>5. x # Nil
    BY <2>3, BookAssumption
  <2> QED
    BY <2>1, <2>4, <2>5
<1>5. /\ count' \in [OrderId -> 0 .. Modulus - 1]
      /\ \A x \in OrderId : x # o => count'[x] = count[x]
  <2>1. count \in [OrderId -> 0 .. Modulus - 1] /\ offer.count \in 0 .. Modulus - 1
    BY BookAssumption DEF LockInv, NumbersOK
  <2>2. count' = [count EXCEPT ![o] = offer.count]
    BY DEF ReadOrder
  <2> QED
    BY <2>1, <2>2
<1>6. LocksOf(c)' /\ LocksOfOthersStay(c) /\ NoNewLocks /\ owner'[BookMutex] # c
  BY <1>1, <1>2, QuietStays DEF QuietPc
<1>7. LocksExact'
  <2>1. LevelsOfOthersStay(c)
    BY <1>2 DEF LevelsOfOthersStay
  <2>2. ASSUME NEW d \in Client \ {c}, pc[d] \in OrderPc
        PROVE  count'[my[d]] = count[my[d]]
    <3>1. my[d] \in OrderId /\ my[d] # o
      BY <1>1, <2>2, OrderOf, NewOrder
    <3> QED
      BY <1>5, <3>1
  <2>3. OrdersOfOthersStay(c)
    BY <1>1, <1>4, <2>2 DEF OrdersOfOthersStay
  <2> QED
    BY <1>3, <1>6, <2>1, <2>3, LocksKept DEF LockInv, Places, StepOf
<1>8. \A d \in Client : pc'[d] = (IF d = c THEN "lock book" ELSE pc[d])
                        /\ my'[d] = (IF d = c THEN o ELSE my[d])
  BY <1>1 DEF Goes, LockInv, IInv, ShapeOK
<1>9. \A x \in OrderId \cup {Nil} : x \in OrderId /\ cmd[x] # Nil => cmd'[x] # Nil
  BY <1>1, <1>4
<1>10. Known'
  <2>1. \A x \in orders : cmd'[x] # Nil
    <3>1. orders \subseteq OrderId
      BY DEF LockInv, IInv, ShapeOK
    <3> QED
      BY <1>9, <3>1 DEF LockInv, Places, Known
  <2>2. ASSUME NEW d \in Client,
               pc'[d] \in OrderPc \cup {"cancel head", "cancel step", "cancel level",
                                        "gone", "cancelled"}
        PROVE  cmd'[my'[d]] # Nil
    <3>1. CASE d = c
      BY <1>1, <1>4, <3>1
    <3>2. CASE d # c
      <4>1. pc[d] = pc'[d] /\ my'[d] = my[d]
        BY <1>8, <3>2
      <4>2. my[d] \in OrderId
        BY <2>2, <4>1 DEF LockInv, IInv, HasOrder, Idle, OrderPc
      <4>3. cmd[my[d]] # Nil
        BY <2>2, <4>1 DEF LockInv, Places, Known
      <4> QED
        BY <1>9, <4>1, <4>2, <4>3
    <3> QED
      BY <3>1, <3>2
  <2>3. ASSUME NEW n \in Node, NEW i \in DOMAIN queue[n]
        PROVE  cmd'[queue[n][i]] # Nil
    <3>1. queue[n] \in Seq(OrderId)
      BY DEF LockInv, NumbersOK
    <3>2. queue[n][i] \in OrderId
      BY <3>1
    <3> QED
      BY <1>9, <3>2 DEF LockInv, Places, Known
  <2>4. ASSUME NEW n \in Node, next[n] # Nil
        PROVE  cmd'[next[n]] # Nil
    <3>1. next[n] \in OrderId
      BY <2>4 DEF LockInv, IInv, ShapeOK
    <3> QED
      BY <1>9, <2>4, <3>1 DEF LockInv, Places, Known
  <2> QED
    BY <1>2, <2>1, <2>2, <2>3, <2>4 DEF Known
<1>11. OnePlace'
  <2>1. ASSUME NEW d \in Client, NEW e \in Client,
               pc'[d] \in OrderPc, pc'[e] \in OrderPc, my'[d] = my'[e]
        PROVE  d = e
    BY ZenonT(30), <1>1, <1>8, <2>1, NewOrder DEF LockInv, Places, OnePlace
  <2>2. ASSUME NEW d \in Client, pc'[d] \in OrderPc
        PROVE  \A n \in Node : \A i \in DOMAIN queue[n] : queue[n][i] # my'[d]
    <3>1. CASE d = c
      BY <1>1, <3>1, NewOrder
    <3>2. CASE d # c
      <4>1. pc[d] \in OrderPc /\ my'[d] = my[d]
        BY <1>8, <2>2, <3>2
      <4> QED
        BY <4>1 DEF LockInv, Places, OnePlace
    <3> QED
      BY <3>1, <3>2
  <2> QED
    BY <1>2, <2>1, <2>2 DEF LockInv, Places, OnePlace
<1>12. LinkedByMaker'
  <2>1. ASSUME NEW d \in Client, pc'[d] \in OrderPc \ {"register", "enqueue"}
        PROVE  \A n \in Node : next[n] # my'[d]
    <3>1. CASE d = c
      BY <1>1, <3>1, NewOrder
    <3>2. CASE d # c
      <4>1. pc[d] \in OrderPc \ {"register", "enqueue"} /\ my'[d] = my[d]
        BY <1>8, <2>1, <3>2
      <4> QED
        BY <4>1 DEF LockInv, Places, LinkedByMaker
    <3> QED
      BY <3>1, <3>2
  <2> QED
    BY <1>2, <2>1 DEF LockInv, Places, LinkedByMaker
<1>13. BookHeldInPrelude'
  BY <1>2, <1>6, <1>8 DEF LockInv, Places, BookHeldInPrelude, Holds
<1>14. NumbersOK'
  BY <1>2, <1>5 DEF LockInv, NumbersOK
<1>15. VolumesExact'
  <2>1. ASSUME NEW n \in Node, NEW k \in Nat, AreLeft(n, k)'
        PROVE  IsVolume(n, k)'
    <3>1. \A i \in DOMAIN queue[n] : count'[queue[n][i]] = count[queue[n][i]]
      <4>1. queue[n] \in Seq(OrderId)
        BY DEF LockInv, NumbersOK
      <4>2. \A i \in DOMAIN queue[n] : queue[n][i] \in OrderId
        BY <4>1
      <4> QED
        BY <1>1, <1>5, <4>2, NewOrder
    <3>2. Untouched(c, n) /\ ~Matching(c, n)'
      BY <1>1, <1>2, <3>1 DEF Untouched, Matching
    <3> QED
      BY <1>3, <2>1, <3>2, UntouchedVolume DEF LockInv
  <2> QED
    BY <2>1 DEF VolumesExact
<1>16. PoppedInLevel'
  <2>1. \A d \in Client : pc'[d] = "match" => d # c
    BY <1>1
  <2> QED
    BY <1>2, <1>3, <2>1 DEF LockInv, PoppedInLevel, OthersStay
<1> QED
  BY <1>7, <1>10, <1>11, <1>12, <1>13, <1>14, <1>15, <1>16 DEF LockInv, Places

-----------------------------------------------------------------------------
(* Orders go into a level and out of it at any place. *)
(* A set of numbers has a least one: of the intervals that end in it, one  *)
(* includes no other.                                                      *)
LEMMA Least ==
  ASSUME NEW S \in SUBSET Nat, S # {}
  PROVE  \E n \in S : \A m \in S : n <= m
<1> DEFINE T == {0 .. n : n \in S}
<1>1. T # {}
  OBVIOUS
<1>2. T \subseteq FiniteSubsetsOf(Nat)
  <2>1. ASSUME NEW n \in S PROVE 0 .. n \in FiniteSubsetsOf(Nat)
    <3>1. 0 \in Int /\ n \in Int
      OBVIOUS
    <3>2. IsFiniteSet(0 .. n)
      BY <3>1, FS_Interval
    <3>3. 0 .. n \subseteq Nat
      OBVIOUS
    <3> QED
      BY <3>2, <3>3 DEF FiniteSubsetsOf
  <2> QED
    BY <2>1
<1>3. \E x \in T : \A y \in T : ~(<<y, x>> \in StrictSubsetOrdering(Nat))
  <2> HIDE DEF T
  <2> QED
    BY <1>1, <1>2, FS_StrictSubsetOrderingWellFounded, WFMin
<1>4. PICK n \in S : \A m \in S : ~(<<0 .. m, 0 .. n>> \in StrictSubsetOrdering(Nat))
  BY <1>3
<1>5. ASSUME NEW m \in S, ~(n <= m) PROVE FALSE
  <2>1. 0 .. m \subseteq 0 .. n /\ 0 .. m # 0 .. n
    <3>1. n \in 0 .. n /\ n \notin 0 .. m
      BY <1>5
    <3>2. \A i \in 0 .. m : i \in 0 .. n
      BY <1>5
    <3> QED
      BY <3>1, <3>2
  <2>2. 0 .. m \in SUBSET Nat /\ 0 .. n \in SUBSET Nat
    OBVIOUS
  <2>3. <<0 .. m, 0 .. n>> \in StrictSubsetOrdering(Nat)
    BY <2>1, <2>2 DEF StrictSubsetOrdering
  <2> QED
    BY <1>4, <2>3
<1> QED
  BY <1>5

(* A sequence without its k-th element, and with one more before it. *)
LEMMA Part ==
  ASSUME NEW S, NEW q \in Seq(S), NEW a \in Nat, NEW b \in Nat,
         1 <= a, a <= b + 1, b <= Len(q)
  PROVE  /\ SubSeq(q, a, b) \in Seq(S)
         /\ Len(SubSeq(q, a, b)) = b - a + 1
         /\ \A i \in 1 .. b - a + 1 : SubSeq(q, a, b)[i] = q[a + i - 1]
<1>1. SubSeq(q, a, b) \in Seq(S)
  OBVIOUS
<1>2. Len(SubSeq(q, a, b)) = b - a + 1
  OBVIOUS
<1> QED
  BY <1>1, <1>2

LEMMA Joined ==
  ASSUME NEW S, NEW q \in Seq(S), NEW r \in Seq(S),
         NEW m, m = Len(q), NEW n, n = Len(r)
  PROVE  /\ q \o r \in Seq(S)
         /\ Len(q \o r) = m + n
         /\ \A i \in 1 .. m + n :
              (q \o r)[i] = IF i <= m THEN q[i] ELSE r[i - m]
OBVIOUS

LEMMA Removed ==
  ASSUME NEW S, NEW q \in Seq(S), NEW k \in 1 .. Len(q)
  PROVE  /\ RemoveAt(q, k) \in Seq(S)
         /\ Len(RemoveAt(q, k)) = Len(q) - 1
         /\ DOMAIN RemoveAt(q, k) = 1 .. Len(q) - 1
         /\ \A i \in 1 .. Len(q) - 1 :
              /\ i \in DOMAIN q /\ i + 1 \in DOMAIN q
              /\ RemoveAt(q, k)[i] = IF i < k THEN q[i] ELSE q[i + 1]
<1>1. PICK l \in Nat : l = Len(q)
  OBVIOUS
<1>2. k \in Nat /\ 1 <= k /\ k <= l /\ DOMAIN q = 1 .. l
  BY <1>1
<1>3. PICK x : x = SubSeq(q, 1, k - 1)
  OBVIOUS
<1>4. PICK y : y = SubSeq(q, k + 1, l)
  OBVIOUS
<1>5. /\ x \in Seq(S) /\ Len(x) = k - 1
      /\ \A i \in 1 .. k - 1 : x[i] = q[i]
  <2>1. 1 \in Nat /\ k - 1 \in Nat /\ 1 <= (k - 1) + 1 /\ k - 1 <= l
    BY <1>2
  <2>2. /\ x \in Seq(S) /\ Len(x) = (k - 1) - 1 + 1
        /\ \A i \in 1 .. (k - 1) - 1 + 1 : x[i] = q[1 + i - 1]
    BY <1>1, <1>3, <2>1, Part
  <2>3. \A i \in Nat : 1 + i - 1 = i
    OBVIOUS
  <2>4. (k - 1) - 1 + 1 = k - 1
    BY <1>2
  <2> QED
    BY <2>2, <2>3, <2>4
<1>6. /\ y \in Seq(S) /\ Len(y) = l - k
      /\ \A i \in 1 .. l - k : y[i] = q[k + i]
  <2>1. k + 1 \in Nat /\ 1 <= k + 1 /\ k + 1 <= l + 1 /\ l <= l
    BY <1>2
  <2>2. /\ y \in Seq(S) /\ Len(y) = l - (k + 1) + 1
        /\ \A i \in 1 .. l - (k + 1) + 1 : y[i] = q[(k + 1) + i - 1]
    BY <1>1, <1>4, <2>1, Part
  <2>3. \A i \in Nat : (k + 1) + i - 1 = k + i
    BY <1>2
  <2>4. l - (k + 1) + 1 = l - k
    BY <1>2
  <2> QED
    <3>1. ASSUME NEW i \in 1 .. l - k PROVE y[i] = q[k + i]
      <4>1. i \in Nat /\ i \in 1 .. l - (k + 1) + 1
        BY <2>4
      <4>2. y[i] = q[(k + 1) + i - 1]
        BY <2>2, <4>1
      <4> QED
        BY <2>3, <4>1, <4>2
    <3> QED
      BY <2>2, <2>4, <3>1
<1>7. RemoveAt(q, k) = x \o y
  BY <1>1, <1>3, <1>4 DEF RemoveAt
<1>8. /\ x \o y \in Seq(S) /\ Len(x \o y) = (k - 1) + (l - k)
      /\ \A i \in 1 .. (k - 1) + (l - k) :
           (x \o y)[i] = IF i <= k - 1 THEN x[i] ELSE y[i - (k - 1)]
  <2>1. PICK m, n : m = k - 1 /\ n = l - k
    OBVIOUS
  <2>2. x \in Seq(S) /\ y \in Seq(S) /\ m = Len(x) /\ n = Len(y)
    BY <1>5, <1>6, <2>1
  <2>3. /\ x \o y \in Seq(S) /\ Len(x \o y) = m + n
        /\ \A i \in 1 .. m + n : (x \o y)[i] = IF i <= m THEN x[i] ELSE y[i - m]
    BY <2>2, Joined
  <2> QED
    BY <2>1, <2>3
<1>9. (k - 1) + (l - k) = l - 1
  BY <1>2
<1>10. ASSUME NEW i \in 1 .. l - 1
       PROVE  (x \o y)[i] = IF i < k THEN q[i] ELSE q[i + 1]
  <2>1. CASE i < k
    <3>1. i <= k - 1 /\ i \in 1 .. k - 1
      BY <1>2, <2>1
    <3> QED
      BY <1>5, <1>8, <1>9, <2>1, <3>1
  <2>2. CASE ~(i < k)
    <3>1. ~(i <= k - 1) /\ i - (k - 1) \in 1 .. l - k /\ k + (i - (k - 1)) = i + 1
      BY <1>2, <2>2
    <3> QED
      BY <1>6, <1>8, <1>9, <2>2, <3>1
  <2> QED
    BY <2>1, <2>2
<1>11. DOMAIN (x \o y) = 1 .. l - 1
  BY <1>8, <1>9
<1>12. \A i \in 1 .. l - 1 : i \in 1 .. l /\ i + 1 \in 1 .. l
  BY <1>2
<1> QED
  BY <1>1, <1>2, <1>7, <1>8, <1>9, <1>10, <1>11, <1>12

LEMMA Inserted ==
  ASSUME NEW S, NEW q \in Seq(S), NEW k \in 1 .. Len(q) + 1, NEW e \in S
  PROVE  /\ InsertAt(q, k, e) \in Seq(S)
         /\ Len(InsertAt(q, k, e)) = Len(q) + 1
         /\ DOMAIN InsertAt(q, k, e) = 1 .. Len(q) + 1
         /\ \A i \in 1 .. Len(q) + 1 :
              InsertAt(q, k, e)[i] =
                IF i < k THEN q[i] ELSE IF i = k THEN e ELSE q[i - 1]
<1>1. PICK l \in Nat : l = Len(q)
  OBVIOUS
<1>2. k \in Nat /\ 1 <= k /\ k <= l + 1
  BY <1>1
<1>3. PICK x : x = SubSeq(q, 1, k - 1)
  OBVIOUS
<1>4. PICK y : y = SubSeq(q, k, l)
  OBVIOUS
<1>5. /\ x \in Seq(S) /\ Len(x) = k - 1
      /\ \A i \in 1 .. k - 1 : x[i] = q[i]
  <2>1. 1 \in Nat /\ k - 1 \in Nat /\ 1 <= (k - 1) + 1 /\ k - 1 <= l
    BY <1>2
  <2>2. /\ x \in Seq(S) /\ Len(x) = (k - 1) - 1 + 1
        /\ \A i \in 1 .. (k - 1) - 1 + 1 : x[i] = q[1 + i - 1]
    BY <1>1, <1>3, <2>1, Part
  <2>3. \A i \in Nat : 1 + i - 1 = i
    OBVIOUS
  <2>4. (k - 1) - 1 + 1 = k - 1
    BY <1>2
  <2> QED
    BY <2>2, <2>3, <2>4
<1>6. /\ y \in Seq(S) /\ Len(y) = l - k + 1
      /\ \A i \in 1 .. l - k + 1 : y[i] = q[k + i - 1]
  BY <1>1, <1>2, <1>4, Part
<1>7. InsertAt(q, k, e) = (x \o <<e>>) \o y
  BY <1>1, <1>3, <1>4 DEF InsertAt
<1>8. PICK z : z = x \o <<e>>
  OBVIOUS
<1>9. /\ z \in Seq(S) /\ Len(z) = k
      /\ \A i \in 1 .. k : z[i] = IF i < k THEN q[i] ELSE e
  <2>1. <<e>> \in Seq(S) /\ Len(<<e>>) = 1 /\ <<e>>[1] = e
    OBVIOUS
  <2>2. PICK w : w = <<e>>
    OBVIOUS
  <2>3. w \in Seq(S) /\ Len(w) = 1 /\ w[1] = e
    BY <2>1, <2>2
  <2>4. /\ x \o w \in Seq(S) /\ Len(x \o w) = (k - 1) + 1
        /\ \A i \in 1 .. (k - 1) + 1 :
             (x \o w)[i] = IF i <= k - 1 THEN x[i] ELSE w[i - (k - 1)]
    <3>1. PICK m, n : m = k - 1 /\ n = 1
      OBVIOUS
    <3>2. x \in Seq(S) /\ w \in Seq(S) /\ m = Len(x) /\ n = Len(w)
      BY <1>5, <2>3, <3>1
    <3>3. /\ x \o w \in Seq(S) /\ Len(x \o w) = m + n
          /\ \A i \in 1 .. m + n : (x \o w)[i] = IF i <= m THEN x[i] ELSE w[i - m]
      BY <3>2, Joined
    <3> QED
      BY <3>1, <3>3
  <2>5. (k - 1) + 1 = k
    BY <1>2
  <2>6. ASSUME NEW i \in 1 .. k
        PROVE  z[i] = IF i < k THEN q[i] ELSE e
    <3>1. CASE i < k
      <4>1. i <= k - 1 /\ i \in 1 .. k - 1
        BY <1>2, <3>1
      <4> QED
        BY <1>5, <1>8, <2>2, <2>4, <2>5, <3>1, <4>1
    <3>2. CASE ~(i < k)
      <4>1. ~(i <= k - 1) /\ i - (k - 1) = 1
        BY <1>2, <3>2
      <4> QED
        BY <1>8, <2>2, <2>3, <2>4, <2>5, <3>2, <4>1
    <3> QED
      BY <3>1, <3>2
  <2> QED
    BY <1>8, <2>2, <2>4, <2>5, <2>6
<1>10. /\ z \o y \in Seq(S) /\ Len(z \o y) = k + (l - k + 1)
       /\ \A i \in 1 .. k + (l - k + 1) :
            (z \o y)[i] = IF i <= k THEN z[i] ELSE y[i - k]
  <2>1. PICK m, n : m = k /\ n = l - k + 1
    OBVIOUS
  <2>2. z \in Seq(S) /\ y \in Seq(S) /\ m = Len(z) /\ n = Len(y)
    BY <1>6, <1>9, <2>1
  <2>3. /\ z \o y \in Seq(S) /\ Len(z \o y) = m + n
        /\ \A i \in 1 .. m + n : (z \o y)[i] = IF i <= m THEN z[i] ELSE y[i - m]
    BY <2>2, Joined
  <2> QED
    BY <2>1, <2>3
<1>11. k + (l - k + 1) = l + 1
  BY <1>2
<1>12. ASSUME NEW i \in 1 .. l + 1
       PROVE  (z \o y)[i] = IF i < k THEN q[i] ELSE IF i = k THEN e ELSE q[i - 1]
  <2>1. CASE i <= k
    <3>1. i \in 1 .. k /\ (~(i < k) => i = k)
      BY <1>2, <2>1
    <3> QED
      BY <1>9, <1>10, <1>11, <2>1, <3>1
  <2>2. CASE ~(i <= k)
    <3>1. ~(i < k) /\ i # k /\ i - k \in 1 .. l - k + 1 /\ k + (i - k) - 1 = i - 1
      BY <1>2, <2>2
    <3> QED
      BY <1>6, <1>10, <1>11, <2>2, <3>1
  <2> QED
    BY <2>1, <2>2
<1> QED
  BY <1>1, <1>7, <1>8, <1>10, <1>11, <1>12

(* r is q, of length l, without its k-th order, or with o as its k-th. *)
IsWithout(q, l, k, r) ==
  /\ 1 <= k /\ k <= l
  /\ \A i \in 1 .. l - 1 : r[i] = IF i < k THEN q[i] ELSE q[i + 1]

IsWith(q, l, k, o, r) ==
  /\ 1 <= k /\ k <= l + 1
  /\ \A i \in 1 .. l + 1 :
       r[i] = IF i < k THEN q[i] ELSE IF i = k THEN o ELSE q[i - 1]

SizesOf(q, l) == \A i \in 1 .. l : count[q[i]] \in Nat

HasSum(q, k, x) == \E sum \in [Nat -> Nat] : Sums(q, sum, k) /\ sum[k] = x

(* The sums of a level that loses its k-th order. *)
LEMMA SumsWithout ==
  ASSUME NEW q, NEW r, NEW sum \in [Nat -> Nat], NEW l \in Nat, NEW k \in Nat,
         IsWithout(q, l, k, r), Sums(q, sum, l), UNCHANGED count, SizesOf(q, l),
         NEW x \in Nat, x = count[q[k]], NEW h \in Nat, h = l - 1
  PROVE  sum[l] - x \in Nat /\ \A y : y = sum[l] - x => HasSum(r, h, y)'
<1>0. /\ 1 <= k /\ k <= l
      /\ \A i \in 1 .. l : count[q[i]] \in Nat
      /\ \A i \in 1 .. l - 1 : r[i] = IF i < k THEN q[i] ELSE q[i + 1]
  BY DEF IsWithout, SizesOf
<1> USE <1>0
<1>1. sum[k] = sum[k - 1] + x /\ k - 1 \in Nat /\ sum[k - 1] \in Nat
  BY DEF Sums
<1>2. /\ \A i \in 1 .. l : sum[i] = sum[i - 1] + count[q[i]]
      /\ \A i, j \in 0 .. l : i <= j => sum[i] <= sum[j]
      /\ sum[0] = 0
  BY DEF Sums
<1>3. ASSUME NEW i \in Nat, k <= i, i <= l
      PROVE  sum[i] - x \in Nat /\ sum[i] \in Nat /\ sum[k - 1] <= sum[i] - x
  <2>1. sum[k] <= sum[i] /\ sum[i] \in Nat
    BY <1>2, <1>3
  <2> QED
    BY <1>1, <2>1
<1>4. PICK sum2 \in [Nat -> Nat] :
        /\ \A i \in Nat : i < k => sum2[i] = sum[i]
        /\ \A i \in Nat : k <= i /\ i < l => sum2[i] = sum[i + 1] - x
  <2> DEFINE f == [i \in Nat |-> IF i < k THEN sum[i]
                                 ELSE IF i < l THEN sum[i + 1] - x ELSE 0]
  <2>1. ASSUME NEW i \in Nat, k <= i, i < l PROVE sum[i + 1] - x \in Nat
    <3>1. i + 1 \in Nat /\ k <= i + 1 /\ i + 1 <= l
      BY <2>1
    <3> QED
      BY <1>3, <3>1
  <2>2. ASSUME NEW i \in Nat PROVE f[i] \in Nat
    <3>1. CASE i < k
      BY <3>1
    <3>2. CASE ~(i < k) /\ i < l
      <4>1. k <= i
        BY <3>2
      <4>2. sum[i + 1] - x \in Nat
        BY <2>1, <3>2, <4>1
      <4> QED
        BY <3>2, <4>2
    <3>3. CASE ~(i < k) /\ ~(i < l)
      BY <3>3
    <3> QED
      BY <3>1, <3>2, <3>3
  <2>3. f \in [Nat -> Nat]
    BY <2>2
  <2>4. \A i \in Nat : i < k => f[i] = sum[i]
    OBVIOUS
  <2>5. \A i \in Nat : k <= i /\ i < l => f[i] = sum[i + 1] - x
    OBVIOUS
  <2> HIDE DEF f
  <2> QED
    BY <2>3, <2>4, <2>5
<1>5. ASSUME NEW i \in 1 .. l - 1
      PROVE  sum2[i] = sum2[i - 1] + count[r[i]]
  <2>1. /\ i \in Nat /\ i - 1 \in Nat /\ i + 1 \in Nat /\ (i - 1) + 1 = i
        /\ i \in 1 .. l /\ i + 1 \in 1 .. l /\ (i + 1) - 1 = i
    OBVIOUS
  <2>2. CASE i < k
    <3>0. i - 1 < k
      BY <2>1, <2>2
    <3>1. sum2[i] = sum[i] /\ sum2[i - 1] = sum[i - 1] /\ r[i] = q[i]
      BY <1>4, <2>1, <2>2, <3>0
    <3> QED
      BY <1>2, <2>1, <3>1
  <2>3. CASE i = k
    <3>1. sum2[i - 1] = sum[k - 1] /\ r[i] = q[i + 1]
      BY <1>4, <2>1, <2>3
    <3>2. sum2[i] = sum[i + 1] - x
      BY <1>4, <2>1, <2>3
    <3>3. sum[i + 1] = sum[k] + count[r[i]]
      BY <1>2, <2>1, <2>3, <3>1
    <3>4. sum[i + 1] \in Nat /\ sum[k] \in Nat
      BY <2>1
    <3>5. sum2[i] \in Nat
      BY <2>1
    <3>6. count[r[i]] \in Nat
      BY <2>1, <3>1
    <3> QED
      BY <1>1, <3>1, <3>2, <3>3, <3>4, <3>6
  <2>4. CASE i > k
    <3>1. k <= i /\ i < l /\ k <= i - 1 /\ i - 1 < l /\ ~(i < k)
      BY <2>4
    <3>2. sum2[i] = sum[i + 1] - x /\ sum2[i - 1] = sum[i] - x /\ r[i] = q[i + 1]
      BY <1>4, <2>1, <3>1
    <3>3. sum[i + 1] = sum[i] + count[r[i]]
      BY <1>2, <2>1, <3>2
    <3>4. count[r[i]] \in Nat /\ sum[i + 1] \in Nat /\ sum[i] \in Nat
      BY <2>1, <3>2
    <3> QED
      BY <3>2, <3>3, <3>4
  <2> QED
    BY <2>1, <2>2, <2>3, <2>4
<1>6. ASSUME NEW i \in 0 .. l - 1, NEW j \in 0 .. l - 1, i <= j
      PROVE  sum2[i] <= sum2[j]
  <2>1. i \in Nat /\ j \in Nat /\ i < l /\ j < l /\ i + 1 \in 0 .. l /\ j + 1 \in 0 .. l
    OBVIOUS
  <2>2. i \in 0 .. l /\ j \in 0 .. l /\ k - 1 \in 0 .. l
    BY <1>1
  <2>3. CASE j < k
    BY <1>2, <1>4, <1>6, <2>1, <2>2, <2>3
  <2>4. CASE i < k /\ k <= j
    <3>1. sum2[i] = sum[i] /\ sum2[j] = sum[j + 1] - x
      BY <1>4, <2>1, <2>4
    <3>2. i <= k - 1
      BY <2>1, <2>4
    <3>3. sum[i] <= sum[k - 1]
      BY <1>2, <2>2, <3>2
    <3>4. sum[k - 1] <= sum[j + 1] - x /\ sum[j + 1] - x \in Nat
      <4>1. k <= j + 1 /\ j + 1 <= l /\ j + 1 \in Nat
        BY <2>1, <2>4
      <4> QED
        BY <1>3, <4>1
    <3>5. sum[i] \in Nat
      BY <2>1
    <3> QED
      BY <1>1, <3>1, <3>3, <3>4, <3>5
  <2>5. CASE k <= i
    <3>1. k <= j /\ i + 1 <= j + 1
      BY <1>6, <2>1, <2>5
    <3>2. sum2[i] = sum[i + 1] - x /\ sum2[j] = sum[j + 1] - x
      BY <1>4, <2>1, <2>5, <3>1
    <3>3. sum[i + 1] <= sum[j + 1]
      BY <1>2, <2>1, <3>1
    <3>4. sum[i + 1] \in Nat /\ sum[j + 1] \in Nat
      BY <2>1
    <3> QED
      BY <3>2, <3>3, <3>4
  <2> QED
    BY <2>1, <2>3, <2>4, <2>5
<1>7. sum2[0] = 0
  BY <1>2, <1>4
<1>8. sum2[l - 1] + x = sum[l]
  <2>1. l - 1 \in Nat /\ l - 1 < l /\ (l - 1) + 1 = l
    OBVIOUS
  <2>2. CASE l - 1 < k
    <3>1. l = k
      BY <2>2
    <3> QED
      BY <1>1, <1>4, <2>1, <2>2, <3>1
  <2>3. CASE k <= l - 1
    <3>1. sum2[l - 1] = sum[l] - x
      BY <1>4, <2>1, <2>3
    <3>2. sum[l] \in Nat
      OBVIOUS
    <3> QED
      BY <3>1, <3>2
  <2> QED
    BY <2>1, <2>2, <2>3
<1> QED
  <2>1. Sums(r, sum2, h)'
    BY <1>5, <1>6, <1>7 DEF Sums
  <2>2. sum2[h] = sum[l] - x /\ sum2[h] \in Nat
    BY <1>8
  <2> QED
    BY <2>1, <2>2 DEF HasSum

(* The sums of a level that gets an order at place k. *)
LEMMA SumsWith ==
  ASSUME NEW q, NEW r, NEW sum \in [Nat -> Nat], NEW l \in Nat, NEW k \in Nat,
         NEW o, IsWith(q, l, k, o, r), Sums(q, sum, l), UNCHANGED count,
         SizesOf(q, l), NEW x \in Nat, x = count[o], NEW h \in Nat, h = l + 1
  PROVE  \A y : y = sum[l] + x => HasSum(r, h, y)'
<1>0. /\ 1 <= k /\ k <= l + 1
      /\ \A i \in 1 .. l : count[q[i]] \in Nat
      /\ \A i \in 1 .. l + 1 :
           r[i] = IF i < k THEN q[i] ELSE IF i = k THEN o ELSE q[i - 1]
  BY DEF IsWith, SizesOf
<1> USE <1>0
<1>1. /\ \A i \in 1 .. l : sum[i] = sum[i - 1] + count[q[i]]
      /\ \A i, j \in 0 .. l : i <= j => sum[i] <= sum[j]
      /\ sum[0] = 0
  BY DEF Sums
<1>2. PICK sum2 \in [Nat -> Nat] :
        /\ \A i \in Nat : i < k => sum2[i] = sum[i]
        /\ \A i \in Nat : k <= i => sum2[i] = sum[i - 1] + x
  <2> DEFINE f == [i \in Nat |-> IF i < k THEN sum[i] ELSE sum[i - 1] + x]
  <2>1. ASSUME NEW i \in Nat PROVE f[i] \in Nat
    <3>1. CASE i < k
      BY <3>1
    <3>2. CASE ~(i < k)
      <4>1. i - 1 \in Nat
        BY <3>2
      <4>2. sum[i - 1] + x \in Nat
        BY <4>1
      <4> QED
        BY <3>2, <4>2
    <3> QED
      BY <3>1, <3>2
  <2>2. f \in [Nat -> Nat]
    BY <2>1
  <2>3. \A i \in Nat : i < k => f[i] = sum[i]
    OBVIOUS
  <2>4. \A i \in Nat : k <= i => f[i] = sum[i - 1] + x
    OBVIOUS
  <2> HIDE DEF f
  <2> QED
    BY <2>2, <2>3, <2>4
<1>3. ASSUME NEW i \in 1 .. l + 1
      PROVE  sum2[i] = sum2[i - 1] + count[r[i]]
  <2>1. i \in Nat /\ i - 1 \in Nat
    OBVIOUS
  <2>2. CASE i < k
    <3>1. sum2[i] = sum[i] /\ sum2[i - 1] = sum[i - 1] /\ r[i] = q[i]
      BY <1>2, <2>1, <2>2
    <3>2. i \in 1 .. l
      BY <2>1, <2>2
    <3> QED
      BY <1>1, <3>1, <3>2
  <2>3. CASE i = k
    BY <1>2, <2>1, <2>3
  <2>4. CASE i > k
    <3>1. i - 1 \in 1 .. l /\ k <= i /\ k <= i - 1 /\ (i - 1) - 1 \in Nat
      BY <2>1, <2>4
    <3>2. sum2[i] = sum[i - 1] + x /\ sum2[i - 1] = sum[(i - 1) - 1] + x /\ r[i] = q[i - 1]
      BY <1>2, <2>1, <2>4, <3>1
    <3>3. sum[i - 1] = sum[(i - 1) - 1] + count[r[i]]
      BY <1>1, <3>1, <3>2
    <3>4. sum[i - 1] \in Nat /\ sum[(i - 1) - 1] \in Nat
      BY <2>1, <3>1
    <3>5. count[r[i]] \in Nat
      BY <3>1, <3>2
    <3> QED
      BY <3>2, <3>3, <3>4, <3>5
  <2> QED
    BY <2>1, <2>2, <2>3, <2>4
<1>4. ASSUME NEW i \in 0 .. l + 1, NEW j \in 0 .. l + 1, i <= j
      PROVE  sum2[i] <= sum2[j]
  <2>1. i \in Nat /\ j \in Nat /\ i <= j
    BY <1>4
  <2>2. CASE j < k
    <3>1. i < k /\ i \in 0 .. l /\ j \in 0 .. l
      BY <2>1, <2>2
    <3> QED
      BY <1>1, <1>2, <2>1, <2>2, <3>1
  <2>3. CASE i < k /\ k <= j
    <3>1. i <= j - 1 /\ i \in 0 .. l /\ j - 1 \in 0 .. l /\ j - 1 \in Nat
      BY <2>1, <2>3
    <3>2. sum[i] <= sum[j - 1]
      BY <1>1, <3>1
    <3>3. sum2[i] = sum[i] /\ sum2[j] = sum[j - 1] + x
      BY <1>2, <2>1, <2>3
    <3>4. sum[i] \in Nat /\ sum[j - 1] \in Nat
      BY <2>1, <3>1
    <3> QED
      BY <3>2, <3>3, <3>4
  <2>4. CASE k <= i
    <3>1. k <= j /\ i - 1 <= j - 1 /\ i - 1 \in 0 .. l /\ j - 1 \in 0 .. l
      BY <2>1, <2>4
    <3>2. sum[i - 1] <= sum[j - 1]
      BY <1>1, <3>1
    <3>3. sum2[i] = sum[i - 1] + x /\ sum2[j] = sum[j - 1] + x
      BY <1>2, <2>1, <2>4, <3>1
    <3>4. sum[i - 1] \in Nat /\ sum[j - 1] \in Nat
      BY <3>1
    <3> QED
      BY <3>2, <3>3, <3>4
  <2> QED
    BY <2>1, <2>2, <2>3, <2>4
<1>5. sum2[0] = 0
  BY <1>1, <1>2
<1>6. sum2[l + 1] = sum[l] + x
  <2>1. l + 1 \in Nat /\ k <= l + 1 /\ (l + 1) - 1 = l
    OBVIOUS
  <2> QED
    BY <1>2, <2>1
<1> QED
  <2>1. Sums(r, sum2, h)'
    BY <1>3, <1>4, <1>5 DEF Sums
  <2> QED
    BY <1>6, <2>1 DEF HasSum

(* Where the order to cancel is in the level. *)
LEMMA Erased ==
  ASSUME NEW q \in Seq(OrderId), NEW o \in ToSet(q)
  PROVE  \E l \in Nat, k \in Nat, r \in Seq(OrderId) :
           /\ l = Len(q) /\ 1 <= k /\ k <= l /\ q[k] = o /\ DOMAIN q = 1 .. l
           /\ r = Erase(q, o) /\ Len(r) = l - 1 /\ DOMAIN r = 1 .. l - 1
           /\ \A i \in 1 .. l - 1 :
                /\ i \in 1 .. l /\ i + 1 \in 1 .. l
                /\ r[i] = IF i < k THEN q[i] ELSE q[i + 1]
<1>1. PICK k : k = CHOOSE i \in DOMAIN q : q[i] = o
  OBVIOUS
<1>2. \E i \in DOMAIN q : q[i] = o
  BY DEF ToSet
<1>3. k \in DOMAIN q /\ q[k] = o
  BY <1>1, <1>2
<1>4. PICK l \in Nat : l = Len(q)
  OBVIOUS
<1>5. DOMAIN q = 1 .. l
  BY <1>4
<1>6. k \in Nat /\ 1 <= k /\ k <= l /\ k \in 1 .. Len(q)
  BY <1>3, <1>4, <1>5
<1>7. PICK r : r = RemoveAt(q, k)
  OBVIOUS
<1>8. /\ r \in Seq(OrderId) /\ Len(r) = l - 1 /\ DOMAIN r = 1 .. l - 1
      /\ \A i \in 1 .. l - 1 : r[i] = IF i < k THEN q[i] ELSE q[i + 1]
  BY <1>4, <1>6, <1>7, Removed
<1>9. \A i \in 1 .. l - 1 : i \in 1 .. l /\ i + 1 \in 1 .. l
  OBVIOUS
<1>10. r = Erase(q, o)
  BY <1>1, <1>7 DEF Erase
<1> QED
  BY <1>3, <1>4, <1>5, <1>6, <1>8, <1>9, <1>10

(* A level whose mutex a thread holds that does not match is left whole. *)
LEMMA WholeLevel ==
  ASSUME LockInv, NEW c \in Client, pc[c] # "match", NEW n \in Node, Holds(c, n),
         NEW l \in Nat, l = Len(queue[n])
  PROVE  /\ \A d \in Client : ~Matching(d, n)
         /\ \E sum \in [Nat -> Nat] : Sums(queue[n], sum, l) /\ volume[n] = sum[l]
<1>1. \A d \in Client : ~Matching(d, n)
  BY AloneOnLevel DEF LockInv, Matching
<1>2. AreLeft(n, l)
  BY <1>1 DEF AreLeft
<1> QED
  BY <1>1, <1>2 DEF LockInv, VolumesExact, IsVolume

(* Numbers: without k, no two fall together; a part of a number below m.   *)
LEMMA SkipsOne ==
  ASSUME NEW i \in Nat, NEW j \in Nat, NEW k \in Nat,
         (IF i < k THEN i ELSE i + 1) = (IF j < k THEN j ELSE j + 1)
  PROVE  i = j
OBVIOUS

LEMMA OneLess ==
  ASSUME NEW k \in Nat, NEW l \in Nat, 1 <= k, k <= l
  PROVE  \E h \in Nat : h = l - 1
OBVIOUS

LEMMA CancelEraseKeeps ==
  ASSUME LockInv, IInv', NEW c \in Client, CancelErase(c)
  PROVE  LockInv'
<1>1. /\ Goes(c, "cancelled", my[c]) /\ pc'[c] = "cancelled" /\ my'[c] = my[c]
      /\ pc[c] = "cancel level"
  BY GoesOn1 DEF CancelErase
<1>2. UNCHANGED <<cmd, count, executionId, owner, next, curr, v, popped, printed>>
  BY DEF CancelErase, orderVars
<1>3. OthersStay(c)
  BY <1>1, <1>2 DEF Goes, LockInv, IInv, ShapeOK, OthersStay
<1>4. LocksOf(c)' /\ LocksOfOthersStay(c) /\ NoNewLocks /\ owner'[BookMutex] # c
  BY <1>1, <1>2, OneLockKept DEF OneLockPc
<1>5. PICK o \in OrderId : o = my[c] /\ cmd[o] # Nil
  <2>1. my[c] \in OrderId
    BY <1>1 DEF LockInv, IInv, HasOrder, Idle
  <2> QED
    BY <1>1, <2>1 DEF LockInv, Places, Known
<1>6. PICK n \in Node : n = curr[c] /\ Holds(c, n)
  BY <1>1, HoldsLevel DEF LockInv, OneLockPc
<1>7. PICK q \in Seq(OrderId) : q = queue[n]
  BY DEF LockInv, NumbersOK
<1>8. /\ o \in ToSet(q) /\ orders' = orders \ {o}
      /\ queue' = [queue EXCEPT ![n] = Erase(q, o)]
      /\ volume' = [volume EXCEPT ![n] = ToUInt(volume[n] - count[o])]
  BY <1>5, <1>6, <1>7 DEF CancelErase, Deregister, Shrink
<1>9. PICK l \in Nat, k \in Nat, r \in Seq(OrderId) :
        /\ l = Len(q) /\ 1 <= k /\ k <= l /\ q[k] = o /\ DOMAIN q = 1 .. l
        /\ r = Erase(q, o) /\ Len(r) = l - 1 /\ DOMAIN r = 1 .. l - 1
        /\ \A i \in 1 .. l - 1 :
             /\ i \in 1 .. l /\ i + 1 \in 1 .. l
             /\ r[i] = IF i < k THEN q[i] ELSE q[i + 1]
  BY <1>8, Erased
<1>10. /\ queue' \in [Node -> Seq(OrderId)] /\ queue'[n] = r
       /\ \A m \in Node : m # n => queue'[m] = queue[m]
  <2>1. queue \in [Node -> Seq(OrderId)]
    BY DEF LockInv, NumbersOK
  <2> QED
    BY <1>8, <1>9, <2>1
<1>11. \A d \in Client : ~Matching(d, n)
  BY <1>1, <1>6, <1>7, <1>9, WholeLevel
<1>12. PICK sum \in [Nat -> Nat] : Sums(q, sum, l) /\ volume[n] = sum[l]
  BY <1>1, <1>6, <1>7, <1>9, WholeLevel
<1>13. PICK x \in Nat : x = count[o]
  BY Counted DEF LockInv
<1>14. IsWithout(q, l, k, r) /\ SizesOf(q, l) /\ x = count[q[k]] /\ UNCHANGED count
  <2>1. \A i \in 1 .. l : count[q[i]] \in Nat
    <3>1. \A i \in 1 .. l : q[i] \in OrderId
      BY <1>9
    <3> QED
      BY <3>1, Counted DEF LockInv
  <2> QED
    BY <1>2, <1>9, <1>13, <2>1 DEF IsWithout, SizesOf
<1>15. PICK h \in Nat : h = l - 1
  BY <1>9, OneLess
<1>16. PICK y \in Nat :
         /\ volume' \in [Node -> 0 .. Modulus - 1] /\ volume'[n] = y
         /\ \A m \in Node : m # n => volume'[m] = volume[m]
         /\ HasSum(r, h, y)'
  <2>1. sum[l] - x \in Nat /\ \A y : y = sum[l] - x => HasSum(r, h, y)'
    BY <1>12, <1>14, <1>15, SumsWithout
  <2>2. PICK z \in Nat : z = volume[n] /\ z < Modulus
    BY Counted DEF LockInv
  <2>3. PICK y \in Nat : y = z - x
    BY <1>12, <2>1, <2>2
  <2>4. y \in 0 .. Modulus - 1
    <3>1. \A a, b, e \in Nat : a < e => (a - b \in Nat => a - b \in 0 .. e - 1)
      OBVIOUS
    <3>2. Modulus \in Nat
      BY BookAssumption
    <3> QED
      BY <2>2, <2>3, <3>1, <3>2
  <2>5. ToUInt(z - x) = y
    BY <2>3, <2>4, UIntOfSmall
  <2>6. volume' = [volume EXCEPT ![n] = y]
    BY <1>8, <1>13, <2>2, <2>5
  <2>7. volume \in [Node -> 0 .. Modulus - 1]
    BY DEF LockInv, NumbersOK
  <2>8. HasSum(r, h, y)'
    BY <1>12, <2>1, <2>2, <2>3
  <2> QED
    BY <2>4, <2>6, <2>7, <2>8
<1>17. LocksExact'
  <2>1. LevelsOfOthersStay(c)
    BY <1>2, <1>6, <1>16 DEF LevelsOfOthersStay, Holds
  <2>2. StepOf(c)
    BY <1>2, <1>3, <1>4, <2>1 DEF StepOf, OrdersOfOthersStay
  <2> QED
    BY <1>4, <2>2, LocksKept DEF LockInv, Places
<1>18. QueuesShrink
  <2>1. ASSUME NEW m \in Node
        PROVE  \E g \in [DOMAIN queue'[m] -> DOMAIN queue[m]] :
                 \A i, j \in DOMAIN queue'[m] :
                   queue'[m][i] = queue[m][g[i]] /\ (g[i] = g[j] => i = j)
    <3>1. CASE m # n
      <4> DEFINE g == [i \in DOMAIN queue'[m] |-> i]
      <4>1. g \in [DOMAIN queue'[m] -> DOMAIN queue[m]]
        BY <1>10, <3>1
      <4>2. \A i, j \in DOMAIN queue'[m] :
              queue'[m][i] = queue[m][g[i]] /\ (g[i] = g[j] => i = j)
        BY <1>10, <3>1
      <4> QED
        BY <4>1, <4>2
    <3>2. CASE m = n
      <4> DEFINE g == [i \in 1 .. l - 1 |-> IF i < k THEN i ELSE i + 1]
      <4>1. g \in [1 .. l - 1 -> 1 .. l]
        BY <1>9
      <4>2. ASSUME NEW i \in 1 .. l - 1, NEW j \in 1 .. l - 1
            PROVE  r[i] = q[g[i]] /\ (g[i] = g[j] => i = j)
        <5>1. r[i] = q[g[i]]
          BY <1>9
        <5>2. g[i] = g[j] => i = j
          <6>1. i \in Nat /\ j \in Nat
            OBVIOUS
          <6>2. PICK a, b : a = g[i] /\ b = g[j]
            OBVIOUS
          <6>3. a = (IF i < k THEN i ELSE i + 1) /\ b = (IF j < k THEN j ELSE j + 1)
            BY <6>2
          <6>4. a = b => i = j
            BY <6>1, <6>3, SkipsOne
          <6> HIDE DEF g
          <6> QED
            BY <6>2, <6>4
        <5> QED
          BY <5>1, <5>2
      <4>3. /\ DOMAIN queue'[m] = 1 .. l - 1 /\ DOMAIN queue[m] = 1 .. l
            /\ queue'[m] = r /\ queue[m] = q
        BY <1>7, <1>9, <1>10, <3>2
      <4>4. \A i, j \in 1 .. l - 1 : r[i] = q[g[i]] /\ (g[i] = g[j] => i = j)
        BY <4>2
      <4> HIDE DEF g
      <4>5. PICK f \in [1 .. l - 1 -> 1 .. l] :
              \A i, j \in 1 .. l - 1 : r[i] = q[f[i]] /\ (f[i] = f[j] => i = j)
        BY <4>1, <4>4
      <4>6. f \in [DOMAIN queue'[m] -> DOMAIN queue[m]]
        BY <4>3
      <4>7. \A i, j \in DOMAIN queue'[m] :
              queue'[m][i] = queue[m][f[i]] /\ (f[i] = f[j] => i = j)
        BY <4>3, <4>5
      <4> QED
        BY <4>6, <4>7
    <3> QED
      BY <3>1, <3>2
  <2> QED
    BY <2>1 DEF QueuesShrink
<1>19. Places'
  <2>1. MayGo(c, "cancelled", my[c])
    BY <1>4, <1>5 DEF MayGo, OrderPc
  <2>2. orders' \subseteq orders
    BY <1>8
  <2> QED
    BY <1>1, <1>2, <1>4, <1>18, <2>1, <2>2, KeysKnown, PlacesKept DEF LockInv
<1>20. NumbersOK'
  BY <1>2, <1>10, <1>16 DEF LockInv, NumbersOK
<1>21. VolumesExact'
  <2>1. ASSUME NEW m \in Node, NEW j \in Nat, AreLeft(m, j)'
        PROVE  IsVolume(m, j)'
    <3>1. CASE m # n
      <4>1. Untouched(c, m) /\ ~Matching(c, m)'
        BY <1>1, <1>2, <1>10, <1>16, <3>1 DEF Untouched, Matching
      <4> QED
        BY <1>3, <2>1, <4>1, UntouchedVolume DEF LockInv
    <3>2. CASE m = n
      <4>1. \A d \in Client : ~Matching(d, n)'
        BY <1>1, <1>3, <1>11 DEF OthersStay, Matching
      <4>2. j = l - 1
        BY <1>9, <1>10, <2>1, <3>2, <4>1 DEF AreLeft
      <4> QED
        BY <1>10, <1>15, <1>16, <3>2, <4>2 DEF IsVolume, HasSum
    <3> QED
      BY <3>1, <3>2
  <2> QED
    BY <2>1 DEF VolumesExact
<1>22. PoppedInLevel'
  <2>1. ASSUME NEW d \in Client, pc'[d] = "match"
        PROVE  popped'[d] <= Len(queue'[curr'[d]])
    <3>1. d # c /\ pc[d] = "match" /\ curr'[d] = curr[d] /\ popped'[d] = popped[d]
      BY <1>1, <1>3, <2>1 DEF OthersStay
    <3>2. curr[d] \in Node
      BY <3>1, HoldsLevel DEF LockInv, MatchPc
    <3>3. curr[d] # n
      BY <1>11, <3>1 DEF Matching
    <3>4. queue'[curr[d]] = queue[curr[d]]
      BY <1>10, <3>2, <3>3
    <3> QED
      BY <3>1, <3>4 DEF LockInv, PoppedInLevel
  <2> QED
    BY <2>1 DEF PoppedInLevel
<1> QED
  BY <1>17, <1>19, <1>20, <1>21, <1>22 DEF LockInv

(* The insertion loop stops at a place in the level or behind its end. *)
LEMMA PositionFound ==
  ASSUME NEW q, NEW l \in Nat, l = Len(q), NEW time \in Nat,
         \A i \in 1 .. l : cmd[q[i]].time \in Nat
  PROVE  /\ Position(q, time) \in 1 .. l + 1
         /\ \A j \in 1 .. Position(q, time) - 1 : time <= cmd[q[j]].time
         /\ Position(q, time) <= l => time > cmd[q[Position(q, time)]].time
<1> DEFINE S == {i \in 1 .. l + 1 : i <= l => ~(time <= cmd[q[i]].time)}
<1>1. S \in SUBSET Nat /\ l + 1 \in S
  OBVIOUS
<1>2. PICK k \in S : \A m \in S : k <= m
  <2> HIDE DEF S
  <2> QED
    BY <1>1, Least
<1>3. k \in 1 .. l + 1
  OBVIOUS
<1>4. ASSUME NEW j \in 1 .. k - 1 PROVE time <= cmd[q[j]].time
  <2>1. j \in 1 .. l + 1 /\ j <= l /\ ~(k <= j)
    BY <1>3
  <2>2. j \notin S
    BY <1>2, <2>1
  <2> QED
    BY <2>1, <2>2
<1>5. k <= l => time > cmd[q[k]].time
  <2>1. k <= l => k \in 1 .. l /\ ~(time <= cmd[q[k]].time)
    BY <1>3
  <2> QED
    BY <2>1
<1>6. \E i \in 1 .. l + 1 :
        /\ \A j \in 1 .. i - 1 : time <= cmd[q[j]].time
        /\ i <= l => time > cmd[q[i]].time
  BY <1>3, <1>4, <1>5
<1> HIDE DEF S
<1>7. PICK p : p = Position(q, time)
  OBVIOUS
<1>8. /\ p \in 1 .. l + 1
      /\ \A j \in 1 .. p - 1 : time <= cmd[q[j]].time
      /\ p <= l => time > cmd[q[p]].time
  BY <1>6, <1>7 DEF Position
<1> QED
  BY <1>7, <1>8

(* The level with the order in its place. *)
LEMMA Placed ==
  ASSUME NEW q \in Seq(OrderId), NEW o \in OrderId, NEW time \in Nat,
         \A i \in DOMAIN q : cmd[q[i]].time \in Nat
  PROVE  \E l \in Nat, k \in Nat, r \in Seq(OrderId) :
           /\ l = Len(q) /\ 1 <= k /\ k <= l + 1 /\ DOMAIN q = 1 .. l
           /\ r = InsertAt(q, Position(q, time), o)
           /\ Len(r) = l + 1 /\ DOMAIN r = 1 .. l + 1
           /\ \A i \in 1 .. l + 1 :
                r[i] = IF i < k THEN q[i] ELSE IF i = k THEN o ELSE q[i - 1]
<1>1. PICK l \in Nat : l = Len(q) /\ DOMAIN q = 1 .. l
  OBVIOUS
<1>2. PICK k : k = Position(q, time)
  OBVIOUS
<1>3. k \in 1 .. l + 1
  BY <1>1, <1>2, PositionFound
<1>4. k \in Nat /\ 1 <= k /\ k <= l + 1
  BY <1>3
<1>5. PICK r : r = InsertAt(q, k, o)
  OBVIOUS
<1>6. /\ r \in Seq(OrderId) /\ Len(r) = l + 1 /\ DOMAIN r = 1 .. l + 1
      /\ \A i \in 1 .. l + 1 :
           r[i] = IF i < k THEN q[i] ELSE IF i = k THEN o ELSE q[i - 1]
  BY <1>1, <1>3, <1>5, Inserted
<1> QED
  BY <1>1, <1>2, <1>4, <1>5, <1>6

(* One order more, as the k-th of level n. *)
GetsOrder(n, k, o) ==
  \A m \in Node : \A i \in DOMAIN queue'[m] :
    \/ m = n /\ i = k /\ queue'[m][i] = o
    \/ \E j \in DOMAIN queue[m] :
         /\ queue'[m][i] = queue[m][j]
         /\ m # n => i = j
         /\ m = n => i \in Nat /\ j \in Nat /\ i = IF j < k THEN j ELSE j + 1

LEMMA EnqueuePlaces ==
  ASSUME LockInv, NEW c \in Client, NEW n \in Node, NEW k \in Nat,
         NEW o \in OrderId, o = my[c], cmd[o] # Nil, pc[c] = "enqueue",
         Goes(c, "read", Nil), GetsOrder(n, k, o),
         UNCHANGED <<cmd, orders, next>>, owner' = [owner EXCEPT ![n] = Nil],
         owner'[BookMutex] # c
  PROVE  Places'
<1>1. \A d \in Client : pc'[d] = (IF d = c THEN "read" ELSE pc[d])
                        /\ my'[d] = (IF d = c THEN Nil ELSE my[d])
  BY DEF Goes, LockInv, IInv, ShapeOK
<1>2. \A d \in Client :
        pc'[d] \in OrderPc \cup {"cancel head", "cancel step", "cancel level",
                                 "gone", "cancelled"}
          => d # c /\ pc'[d] = pc[d] /\ my'[d] = my[d]
  BY <1>1 DEF OrderPc
<1>3. Known'
  <2>1. \A x \in orders' : cmd[x] # Nil
    BY DEF LockInv, Places, Known
  <2>2. \A d \in Client :
          pc'[d] \in OrderPc \cup {"cancel head", "cancel step", "cancel level",
                                   "gone", "cancelled"}
            => cmd[my'[d]] # Nil
    BY <1>2 DEF LockInv, Places, Known
  <2>3. ASSUME NEW m \in Node, NEW i \in DOMAIN queue'[m]
        PROVE  cmd[queue'[m][i]] # Nil
    <3>1. queue'[m][i] = o \/ \E j \in DOMAIN queue[m] : queue'[m][i] = queue[m][j]
      BY DEF GetsOrder
    <3>2. \A j \in DOMAIN queue[m] : cmd[queue[m][j]] # Nil
      BY DEF LockInv, Places, Known
    <3> QED
      BY <3>1, <3>2
  <2> QED
    BY <2>1, <2>2, <2>3 DEF LockInv, Places, Known
<1>4. \A m \in Node : \A i \in DOMAIN queue[m] : queue[m][i] # o
  BY DEF LockInv, Places, OnePlace, OrderPc
<1>5. OnePlace'
  <2>1. ASSUME NEW d \in Client, NEW e \in Client,
               pc'[d] \in OrderPc, pc'[e] \in OrderPc, my'[d] = my'[e]
        PROVE  d = e
    BY <1>2, <2>1 DEF LockInv, Places, OnePlace
  <2>2. ASSUME NEW d \in Client, pc'[d] \in OrderPc,
               NEW m \in Node, NEW i \in DOMAIN queue'[m]
        PROVE  queue'[m][i] # my'[d]
    <3>1. d # c /\ pc[d] \in OrderPc /\ my'[d] = my[d]
      BY <1>2, <2>2
    <3>2. my[d] # o
      BY <3>1 DEF LockInv, Places, OnePlace, OrderPc
    <3>3. \A j \in DOMAIN queue[m] : queue[m][j] # my[d]
      BY <3>1 DEF LockInv, Places, OnePlace
    <3> QED
      BY <3>1, <3>2, <3>3 DEF GetsOrder
  <2>3. ASSUME NEW m \in Node, NEW p \in Node,
               NEW i \in DOMAIN queue'[m], NEW j \in DOMAIN queue'[p],
               queue'[m][i] = queue'[p][j]
        PROVE  m = p /\ i = j
    <3>1. CASE queue'[m][i] = o
      BY ZenonT(30), <1>4, <2>3, <3>1 DEF GetsOrder
    <3>2. CASE queue'[m][i] # o
      <4>1. PICK a \in DOMAIN queue[m] :
              /\ queue'[m][i] = queue[m][a]
              /\ m # n => i = a
              /\ m = n => i \in Nat /\ a \in Nat /\ i = IF a < k THEN a ELSE a + 1
        BY <3>2 DEF GetsOrder
      <4>2. PICK b \in DOMAIN queue[p] :
              /\ queue'[p][j] = queue[p][b]
              /\ p # n => j = b
              /\ p = n => j \in Nat /\ b \in Nat /\ j = IF b < k THEN b ELSE b + 1
        BY <2>3, <3>2 DEF GetsOrder
      <4>3. m = p /\ a = b
        <5>1. queue[m][a] = queue[p][b]
          BY <2>3, <4>1, <4>2
        <5>2. \A x, y \in Node : \A g \in DOMAIN queue[x], h \in DOMAIN queue[y] :
                queue[x][g] = queue[y][h] => x = y /\ g = h
          BY DEF LockInv, Places, OnePlace
        <5> QED
          BY <5>1, <5>2
      <4> QED
        BY <4>1, <4>2, <4>3
    <3> QED
      BY <3>1, <3>2
  <2> QED
    BY <2>1, <2>2, <2>3 DEF OnePlace
<1>6. LinkedByMaker'
  <2>1. ASSUME NEW d \in Client, pc'[d] \in OrderPc \ {"register", "enqueue"}
        PROVE  \A m \in Node : next[m] # my'[d]
    <3>1. pc[d] \in OrderPc \ {"register", "enqueue"} /\ my'[d] = my[d]
      BY <1>2, <2>1
    <3> QED
      BY <3>1 DEF LockInv, Places, LinkedByMaker
  <2>2. \A m \in OrderId : owner'[m] # Nil => owner[m] # Nil
    <3>1. owner \in [Mutex -> Client \cup {Nil}]
      BY DEF LockInv, IInv, ShapeOK
    <3> QED
      BY <3>1, Names
  <2> QED
    BY <2>1, <2>2 DEF LockInv, Places, LinkedByMaker
<1>7. BookHeldInPrelude'
  <2>1. owner'[BookMutex] = owner[BookMutex]
    <3>1. owner \in [Mutex -> Client \cup {Nil}]
      BY DEF LockInv, IInv, ShapeOK
    <3> QED
      BY <3>1, Names
  <2> QED
    BY <1>1, <2>1 DEF LockInv, Places, BookHeldInPrelude, Holds
<1> QED
  BY <1>3, <1>5, <1>6, <1>7 DEF Places

LEMMA AddedTyped ==
  ASSUME LockInv, NEW o \in OrderId, cmd[o] # Nil
  PROVE  Added(o) \in Line
<1>1. PICK x \in Command : x = cmd[o]
  BY DEF LockInv, IInv, ShapeOK
<1>2. PICK y \in 0 .. Modulus - 1 : y = count[o]
  BY DEF LockInv, NumbersOK
<1>3. /\ x.side \in Side /\ x.price \in 0 .. Modulus - 1 /\ x.time \in Nat
  BY DEF Command
<1>4. Added(o) = [kind |-> "added", id |-> o, side |-> x.side, price |-> x.price,
                  count |-> y, time |-> x.time]
  BY <1>1, <1>2 DEF Added
<1> QED
  BY <1>3, <1>4 DEF Line

LEMMA EnqueueKeeps ==
  ASSUME LockInv, Fits, IInv', NEW c \in Client, Enqueue(c)
  PROVE  LockInv'
<1>1. /\ Goes(c, "read", Nil) /\ OthersStay(c) /\ pc'[c] = "read"
      /\ v' \in [Client -> Int] /\ popped' \in [Client -> Nat]
      /\ pc[c] = "enqueue"
  BY FinishGoes DEF Enqueue
<1>2. UNCHANGED <<cmd, count, executionId, next>>
  BY DEF Enqueue, orderVars
<1>3. PICK o \in OrderId : o = my[c] /\ cmd[o] # Nil
  BY <1>1, OrderOf DEF OrderPc
<1>4. PICK n \in Node : n = curr[c] /\ Holds(c, n)
  BY <1>1, HoldsLevel DEF LockInv, OneLockPc
<1>5. PICK q \in Seq(OrderId) : q = queue[n]
  BY DEF LockInv, NumbersOK
<1>6. PICK time \in Nat : time = cmd[o].time
  BY <1>3 DEF LockInv, IInv, ShapeOK, Command
<1>7. /\ orders' = orders /\ PrintLine(Added(o))
      /\ queue' = [queue EXCEPT ![n] = InsertAt(q, Position(q, time), o)]
      /\ volume' = [volume EXCEPT ![n] = ToUInt(volume[n] + count[o])]
      /\ owner' = [owner EXCEPT ![n] = Nil]
  BY <1>3, <1>4, <1>5, <1>6 DEF Enqueue, Grow
<1>8. LocksOf(c)' /\ LocksOfOthersStay(c) /\ NoNewLocks /\ owner'[BookMutex] # c
  BY <1>1, <1>4, <1>7, OneLockReleased DEF OneLockPc, QuietPc
<1>9. \A i \in DOMAIN q : cmd[q[i]].time \in Nat
  <2>1. \A i \in DOMAIN q : q[i] \in OrderId
    OBVIOUS
  <2>2. \A i \in DOMAIN q : cmd[q[i]] # Nil
    BY <1>5 DEF LockInv, Places, Known
  <2>3. \A i \in DOMAIN q : cmd[q[i]] \in Command
    BY <2>1, <2>2 DEF LockInv, IInv, ShapeOK
  <2> QED
    BY <2>3 DEF Command
<1>10. PICK l \in Nat, k \in Nat, r \in Seq(OrderId) :
         /\ l = Len(q) /\ 1 <= k /\ k <= l + 1 /\ DOMAIN q = 1 .. l
         /\ r = InsertAt(q, Position(q, time), o)
         /\ Len(r) = l + 1 /\ DOMAIN r = 1 .. l + 1
         /\ \A i \in 1 .. l + 1 :
              r[i] = IF i < k THEN q[i] ELSE IF i = k THEN o ELSE q[i - 1]
  BY ZenonT(30), <1>9, Placed
<1>11. /\ queue' \in [Node -> Seq(OrderId)] /\ queue'[n] = r
       /\ \A m \in Node : m # n => queue'[m] = queue[m]
  <2>1. queue \in [Node -> Seq(OrderId)]
    BY DEF LockInv, NumbersOK
  <2> QED
    BY <1>7, <1>10, <2>1
<1>12. \A d \in Client : ~Matching(d, n)
  BY <1>1, <1>4, <1>5, <1>10, WholeLevel
<1>13. PICK sum \in [Nat -> Nat] : Sums(q, sum, l) /\ volume[n] = sum[l]
  BY <1>1, <1>4, <1>5, <1>10, WholeLevel
<1>14. PICK x \in Nat : x = count[o]
  BY Counted DEF LockInv
<1>15. IsWith(q, l, k, o, r) /\ SizesOf(q, l)
  <2>1. \A i \in 1 .. l : count[q[i]] \in Nat
    <3>1. \A i \in 1 .. l : q[i] \in OrderId
      BY <1>10
    <3> QED
      BY <3>1, Counted DEF LockInv
  <2> QED
    BY <1>10, <2>1 DEF IsWith, SizesOf
<1>16. PICK h \in Nat : h = l + 1
  OBVIOUS
<1>17. PICK y \in Nat :
         /\ volume' \in [Node -> 0 .. Modulus - 1] /\ volume'[n] = y
         /\ \A m \in Node : m # n => volume'[m] = volume[m]
         /\ HasSum(r, h, y)'
  <2>1. \A y : y = sum[l] + x => HasSum(r, h, y)'
    BY <1>2, <1>13, <1>14, <1>15, <1>16, SumsWith
  <2>2. PICK z \in Nat : z = volume[n] /\ z + x < Modulus
    BY <1>14, FitsInt
  <2>3. PICK y \in Nat : y = z + x
    OBVIOUS
  <2>4. y \in 0 .. Modulus - 1
    <3>1. \A a, b \in Nat : a < b => a \in 0 .. b - 1
      OBVIOUS
    <3>2. Modulus \in Nat
      BY BookAssumption
    <3> QED
      BY <2>2, <2>3, <3>1, <3>2
  <2>5. ToUInt(z + x) = y
    BY <2>3, <2>4, UIntOfSmall
  <2>6. volume' = [volume EXCEPT ![n] = y]
    BY <1>7, <1>14, <2>2, <2>5
  <2>7. volume \in [Node -> 0 .. Modulus - 1]
    BY DEF LockInv, NumbersOK
  <2>8. HasSum(r, h, y)'
    BY <1>13, <2>1, <2>2, <2>3
  <2> QED
    BY <2>4, <2>6, <2>7, <2>8
<1>18. LocksExact'
  <2>1. LevelsOfOthersStay(c)
    BY <1>2, <1>4, <1>17 DEF LevelsOfOthersStay, Holds
  <2>2. StepOf(c)
    BY <1>1, <1>2, <1>8, <2>1 DEF StepOf, OrdersOfOthersStay
  <2> QED
    BY <1>8, <2>2, LocksKept DEF LockInv, Places
<1>19. GetsOrder(n, k, o)
  <2>1. ASSUME NEW m \in Node, m # n, NEW i \in DOMAIN queue'[m]
        PROVE  i \in DOMAIN queue[m] /\ queue'[m][i] = queue[m][i]
    BY <1>11, <2>1
  <2>2. ASSUME NEW i \in 1 .. l + 1, i # k
        PROVE  \E j \in 1 .. l :
                 /\ r[i] = q[j]
                 /\ i \in Nat /\ j \in Nat /\ i = IF j < k THEN j ELSE j + 1
    <3>1. i \in Nat
      OBVIOUS
    <3>2. CASE i < k
      <4>1. \A a, b, e \in Nat : a \in 1 .. e + 1 /\ a < b /\ b <= e + 1 => a \in 1 .. e
        OBVIOUS
      <4>2. i \in 1 .. l
        BY <1>10, <3>1, <3>2, <4>1
      <4>3. r[i] = q[i]
        BY <1>10, <3>2
      <4> QED
        BY <3>1, <3>2, <4>2, <4>3
    <3>3. CASE ~(i < k)
      <4>1. \A a, b, e \in Nat : a \in 1 .. e + 1 /\ ~(a < b) /\ a # b /\ 1 <= b
              => a - 1 \in 1 .. e /\ a - 1 \in Nat /\ ~(a - 1 < b) /\ a = (a - 1) + 1
        OBVIOUS
      <4>2. /\ i - 1 \in 1 .. l /\ i - 1 \in Nat /\ ~(i - 1 < k)
            /\ i = (i - 1) + 1
        BY <1>10, <2>2, <3>1, <3>3, <4>1
      <4>3. r[i] = q[i - 1]
        BY <1>10, <2>2, <3>3
      <4>4. PICK j : j = i - 1
        OBVIOUS
      <4> QED
        BY <3>1, <4>2, <4>3, <4>4
    <3> QED
      BY <3>2, <3>3
  <2>3. r[k] = o
    <3>1. \A a, e \in Nat : 1 <= a /\ a <= e + 1 => a \in 1 .. e + 1 /\ ~(a < a)
      OBVIOUS
    <3>2. k \in 1 .. l + 1 /\ ~(k < k)
      BY <1>10, <3>1
    <3> QED
      BY <1>10, <3>2
  <2>4. ASSUME NEW i \in DOMAIN queue'[n]
        PROVE  \/ i = k /\ queue'[n][i] = o
               \/ \E j \in DOMAIN queue[n] :
                    /\ queue'[n][i] = queue[n][j]
                    /\ i \in Nat /\ j \in Nat /\ i = IF j < k THEN j ELSE j + 1
    <3>1. i \in 1 .. l + 1 /\ queue'[n] = r /\ queue[n] = q /\ DOMAIN q = 1 .. l
      BY <1>5, <1>10, <1>11
    <3>2. CASE i = k
      BY <2>3, <3>1, <3>2
    <3>3. CASE i # k
      BY <2>2, <3>1, <3>3
    <3> QED
      BY <3>2, <3>3
  <2> QED
    BY <2>1, <2>4 DEF GetsOrder
<1>20. Places'
  BY <1>1, <1>2, <1>3, <1>7, <1>8, <1>19, EnqueuePlaces
<1>21. NumbersOK'
  <2>1. printed' \in Seq(Line)
    BY <1>3, <1>7, AddedTyped, PrintTyped
  <2> QED
    BY <1>1, <1>2, <1>11, <1>17, <2>1 DEF LockInv, NumbersOK
<1>22. VolumesExact'
  <2>1. ASSUME NEW m \in Node, NEW j \in Nat, AreLeft(m, j)'
        PROVE  IsVolume(m, j)'
    <3>1. CASE m # n
      <4>1. Untouched(c, m) /\ ~Matching(c, m)'
        BY <1>1, <1>2, <1>11, <1>17, <3>1 DEF Untouched, Matching
      <4> QED
        BY <1>1, <2>1, <4>1, UntouchedVolume DEF LockInv
    <3>2. CASE m = n
      <4>1. \A d \in Client : ~Matching(d, n)'
        BY <1>1, <1>12 DEF OthersStay, Matching
      <4>2. j = l + 1
        BY <1>10, <1>11, <2>1, <3>2, <4>1 DEF AreLeft
      <4> QED
        BY <1>11, <1>16, <1>17, <3>2, <4>2 DEF IsVolume, HasSum
    <3> QED
      BY <3>1, <3>2
  <2> QED
    BY <2>1 DEF VolumesExact
<1>23. PoppedInLevel'
  <2>1. ASSUME NEW d \in Client, pc'[d] = "match"
        PROVE  popped'[d] <= Len(queue'[curr'[d]])
    <3>1. d # c /\ pc[d] = "match" /\ curr'[d] = curr[d] /\ popped'[d] = popped[d]
      BY <1>1, <2>1 DEF OthersStay
    <3>2. curr[d] \in Node
      BY <3>1, HoldsLevel DEF LockInv, MatchPc
    <3>3. curr[d] # n
      BY <1>12, <3>1 DEF Matching
    <3>4. queue'[curr[d]] = queue[curr[d]]
      BY <1>11, <3>2, <3>3
    <3> QED
      BY <3>1, <3>4 DEF LockInv, PoppedInLevel
  <2> QED
    BY <2>1 DEF PoppedInLevel
<1> QED
  BY <1>18, <1>20, <1>21, <1>22, <1>23 DEF LockInv

-----------------------------------------------------------------------------
(* No thread, no order, no level: the invariant holds of an empty book.    *)
LEMMA InitLocks == Init => LockInv
<1> SUFFICES ASSUME Init PROVE LockInv
  OBVIOUS
<1>1. IInv
  BY InitHolds
<1>2. /\ count = [o \in OrderId |-> 0] /\ executionId = [o \in OrderId |-> 1]
      /\ volume = [n \in Node |-> 0] /\ queue = [n \in Node |-> <<>>]
      /\ v = [c \in Client |-> 0] /\ popped = [c \in Client |-> 0] /\ printed = <<>>
      /\ owner = [m \in Mutex |-> Nil] /\ next = [n \in Node |-> Nil]
      /\ pc = [c \in Client |-> "read"] /\ orders = {}
  BY DEF Init
<1>3. NumbersOK
  <2>1. Modulus \in Nat /\ Modulus # 0 /\ 0 \in 0 .. Modulus - 1 /\ 1 \in 0 .. Modulus
    BY BookAssumption
  <2>2. <<>> \in Seq(OrderId) /\ <<>> \in Seq(Line)
    OBVIOUS
  <2> QED
    BY <1>2, <2>1, <2>2 DEF NumbersOK
<1>4. /\ \A n \in Node : queue[n] = <<>> /\ Len(queue[n]) = 0 /\ volume[n] = 0
      /\ \A n \in Node : \A i \in DOMAIN queue[n] : FALSE
      /\ \A n \in Node : next[n] = Nil
      /\ \A m \in Mutex : owner[m] = Nil
      /\ \A c \in Client : pc[c] = "read"
  BY <1>2
<1>5. \A c \in Client, m \in Mutex : ~Holds(c, m)
  BY <1>4, Names DEF Holds
<1>6. Places
  <2>1. Known
    BY <1>2, <1>4 DEF Known, OrderPc
  <2>2. OnePlace
    BY <1>4 DEF OnePlace, OrderPc
  <2>3. LinkedByMaker
    BY <1>4, Names DEF LinkedByMaker, OrderPc
  <2>4. BookHeldInPrelude
    BY <1>5 DEF BookHeldInPrelude, Mutex
  <2> QED
    BY <2>1, <2>2, <2>3, <2>4 DEF Places
<1>7. LocksExact
  BY <1>4, <1>5, Names DEF LocksExact, LocksOf, PathPc, MatchPc, OneLockPc
<1>8. PoppedInLevel
  BY <1>4 DEF PoppedInLevel
<1>9. VolumesExact
  <2>1. ASSUME NEW n \in Node, NEW k \in Nat, AreLeft(n, k)
        PROVE  IsVolume(n, k)
    <3>1. k = 0
      BY <1>4, <2>1 DEF AreLeft, Matching
    <3>2. PICK sum \in [Nat -> Nat] : sum = [i \in Nat |-> 0]
      OBVIOUS
    <3>3. Sums(queue[n], sum, k) /\ volume[n] = sum[k]
      BY <1>4, <3>1, <3>2 DEF Sums
    <3> QED
      BY <3>3 DEF IsVolume
  <2> QED
    BY <2>1 DEF VolumesExact
<1> QED
  BY <1>1, <1>3, <1>6, <1>7, <1>8, <1>9 DEF LockInv

LEMMA StutterKeeps ==
  ASSUME LockInv, IInv', UNCHANGED vars
  PROVE  LockInv'
<1>1. /\ UNCHANGED <<cmd, count, executionId, orders, owner, next, volume, queue>>
      /\ UNCHANGED <<pc, my, curr, v, popped, inputTime, clock, cancels, printed>>
  BY DEF vars, orderVars, bookVars, threadVars
<1>2. ASSUME NEW c \in Client PROVE LocksOf(c)'
  <2>1. \A m : Holds(c, m)' <=> Holds(c, m)
    BY <1>1 DEF Holds
  <2>2. pc[c] \in PathPc => HasPath(c)
    BY DEF LockInv, LocksExact, LocksOf
  <2>3. pc[c] \in PathPc => HasPath(c)'
    BY <1>1, <2>1, <2>2, SamePath DEF LockInv, Places
  <2> QED
    BY <1>1, <2>1, <2>3 DEF LockInv, LocksExact, LocksOf
<1>3. Places'
  <2>1. Known'
    BY <1>1 DEF LockInv, Places, Known
  <2>2. OnePlace'
    BY <1>1 DEF LockInv, Places, OnePlace
  <2>3. LinkedByMaker'
    BY <1>1 DEF LockInv, Places, LinkedByMaker
  <2>4. BookHeldInPrelude'
    BY <1>1 DEF LockInv, Places, BookHeldInPrelude, Holds
  <2> QED
    BY <2>1, <2>2, <2>3, <2>4 DEF Places
<1>4. NumbersOK' /\ PoppedInLevel'
  BY <1>1 DEF LockInv, NumbersOK, PoppedInLevel
<1>5. VolumesExact'
  BY ZenonT(30), <1>1 DEF LockInv, VolumesExact, AreLeft, Matching, IsVolume, Sums
<1> QED
  BY <1>2, <1>3, <1>4, <1>5 DEF LockInv, LocksExact

(* Every step keeps the invariant as long as the sizes fit. *)
LEMMA NextLocks == LockInv /\ Fits /\ [Next]_vars => LockInv'
<1> SUFFICES ASSUME LockInv, Fits, [Next]_vars PROVE LockInv'
  OBVIOUS
<1>0. IInv'
  BY NextHolds DEF LockInv
<1>1. ASSUME NEW c \in Client, Read(c) PROVE LockInv'
  BY <1>0, <1>1, ReadOrderKeeps, ReadCancelKeeps DEF Read
<1>2. ASSUME NEW c \in Client, EndOfFile(c) PROVE LockInv'
  BY <1>0, <1>2, EndOfFileKeeps
<1>3. ASSUME NEW c \in Client, Prelude(c) PROVE LockInv'
  BY <1>0, <1>3, LockBookKeeps, LockOppositeKeeps, WalkOnKeeps, WalkEndKeeps,
     LockOwnKeeps DEF Prelude
<1>4. ASSUME NEW c \in Client, UnlockBook(c) PROVE LockInv'
  BY <1>0, <1>4, UnlockBookKeeps
<1>5. ASSUME NEW c \in Client, Match(c) PROVE LockInv'
  BY <1>0, <1>5, MatchHeadKeeps, FillRestingKeeps, FillNewKeeps, LeaveLevelKeeps
     DEF Match
<1>6. ASSUME NEW c \in Client, AddToBook(c) PROVE LockInv'
  BY <1>0, <1>6, PlaceFoundKeeps, AddStepKeeps, NewLevelKeeps, RegisterOrderKeeps,
     EnqueueKeeps DEF AddToBook
<1>7. ASSUME NEW c \in Client, CancelHead(c) PROVE LockInv'
  BY <1>0, <1>7, CancelHeadKeeps
<1>8. ASSUME NEW c \in Client, Cancel(c) PROVE LockInv'
  BY <1>0, <1>8, LookUpKeeps, RejectKeeps, CancelStepKeeps, CancelFailsKeeps,
     CancelEraseKeeps, AcceptCancelKeeps DEF Cancel
<1>9. CASE UNCHANGED vars
  BY <1>0, <1>9, StutterKeeps
<1> QED
  BY <1>1, <1>2, <1>3, <1>4, <1>5, <1>6, <1>7, <1>8, <1>9 DEF Next, Work, Terminated

(* The levels a thread reads or changes are levels it has locked.  *)
LEMMA LocksCover == LockInv => HoldsWhatItTouches
<1> SUFFICES ASSUME LockInv PROVE HoldsWhatItTouches
  OBVIOUS
<1>1. HoldsBook
  BY DEF LockInv, IInv
<1>2. \A c \in Client : pc[c] \in MatchPc \cup OneLockPc => Holds(c, curr[c])
  BY HoldsLevel DEF LockInv
<1> QED
  BY <1>1, <1>2 DEF HoldsWhatItTouches, MatchPc, OneLockPc

(* A thread that is done with a command has given back every mutex. *)
LEMMA LocksGone == LockInv => NothingLeftLocked
<1> SUFFICES ASSUME LockInv, NEW c \in Client, pc[c] \in QuietPc, NEW m \in Mutex
             PROVE  ~Holds(c, m)
  BY DEF NothingLeftLocked, QuietPc
<1>1. CASE m \in Node
  BY <1>1 DEF LockInv, LocksExact, LocksOf
<1>2. CASE m = BookMutex
  BY <1>2 DEF LockInv, Places, BookHeldInPrelude, QuietPc, PreludeSteps
<1> QED
  BY <1>1, <1>2 DEF Mutex

LEMMA LocksHold == Spec /\ []Fits => []LockInv
<1> QED
  BY InitLocks, NextLocks, PTL DEF Spec

(* processBuyOrder, processSellOrder and processCancelOrder touch a level  *)
(* or the links behind it only under that level's mutex, m included for    *)
(* the prelude, whatever the interleaving: the levels that matchOrder gets *)
(* to are the ones the prelude locked several steps before.                *)
(* Between commands a connection holds nothing: matching and adding give   *)
(* back all that the prelude took, as its sums and theirs agree.           *)
THEOREM LocksAreRight == Spec /\ []Fits => []LocksFollowUse
<1>1. LockInv => LocksFollowUse
  BY LocksCover, LocksGone DEF LocksFollowUse
<1> QED
  BY <1>1, LocksHold, PTL

(* OrderNode::volume, which the prelude of the next command relies on, is  *)
(* the sum of the sizes that are left in the level, at every step of every *)
(* other command.                                                          *)
THEOREM VolumesAreSums == Spec /\ []Fits => []VolumesExact
<1>1. LockInv => VolumesExact
  BY DEF LockInv
<1> QED
  BY <1>1, LocksHold, PTL

(* The numbers stay in range: no size goes below 0 in the subtractions of  *)
(* matchOrder, and numPopback never passes the end of a level.             *)
THEOREM NumbersInRange == Spec /\ []Fits => [](TypeOK /\ PoppedInLevel)
<1>1. LockInv => TypeOK /\ PoppedInLevel
  BY DEF LockInv, IInv, TypeOK
<1> QED
  BY <1>1, LocksHold, PTL

-----------------------------------------------------------------------------
(* A sum of k sizes of at most m is at most k * m. *)
LEMMA SumBounded ==
  ASSUME NEW q, NEW sum \in [Nat -> Nat], NEW k \in Nat, NEW m \in Nat,
         Sums(q, sum, k),
         \A i \in 1 .. k : count[q[i]] \in Nat /\ count[q[i]] <= m
  PROVE  sum[k] <= k * m
<1> DEFINE S == {i \in 0 .. k : ~(sum[i] <= i * m)}
<1>1. ASSUME S # {} PROVE FALSE
  <2>1. S \in SUBSET Nat
    OBVIOUS
  <2>2. PICK i \in S : \A j \in S : i <= j
    <3> HIDE DEF S
    <3> QED
      BY <1>1, <2>1, Least
  <2>3. i \in Nat /\ i <= k /\ ~(sum[i] <= i * m) /\ sum[i] \in Nat
    OBVIOUS
  <2>4. i # 0
    <3>1. sum[0] = 0 /\ 0 * m = 0
      BY DEF Sums
    <3> QED
      BY <2>3, <3>1
  <2>5. PICK j \in Nat : j = i - 1 /\ j < i /\ j <= k /\ i = j + 1 /\ i \in 1 .. k
    BY <2>3, <2>4
  <2>6. sum[j] <= j * m
    <3>1. j \notin S
      BY <2>2, <2>5
    <3> QED
      BY <2>5, <3>1
  <2>7. PICK x \in Nat : x = count[q[i]] /\ x <= m
    BY <2>5
  <2>8. sum[i] = sum[j] + x
    BY <2>5, <2>7 DEF Sums
  <2>9. i * m = j * m + m
    <3>1. \A a, b \in Nat : (a + 1) * b = a * b + b
      OBVIOUS
    <3> QED
      BY <2>5, <3>1
  <2>10. sum[j] \in Nat /\ j * m \in Nat
    OBVIOUS
  <2> QED
    BY <2>3, <2>6, <2>7, <2>8, <2>9, <2>10
<1>2. k \in 0 .. k
  OBVIOUS
<1> QED
  BY <1>1, <1>2

(* Few orders of small sizes: all of them in one level fit an int, with    *)
(* one more to come. *)
SmallOffers(m) ==
  /\ \A offer \in Offer : offer.count <= m
  /\ 2 * ((Cardinality(OrderId) + 1) * m) < Modulus

FewAndSmall == IsFiniteSet(OrderId) /\ \E m \in Nat : SmallOffers(m)

SizesUpTo(m) == \A o \in OrderId : count[o] <= m

(* Orders only get smaller. *)
LEMMA SizesStaySmall ==
  ASSUME NEW m \in Nat, SmallOffers(m), LockInv, SizesUpTo(m), [Next]_vars
  PROVE  SizesUpTo(m)'
<1>1. count \in [OrderId -> 0 .. Modulus - 1] /\ \A o \in OrderId : count[o] <= m
  BY DEF LockInv, NumbersOK, SizesUpTo
<1>2. \A o \in OrderId : count[o] \in Nat
  BY <1>1, BookAssumption
<1>3. ASSUME NEW c \in Client, NEW o \in OrderId, NEW offer \in Offer,
             ReadOrder(c, o, offer)
      PROVE  SizesUpTo(m)'
  <2>1. count' = [count EXCEPT ![o] = offer.count] /\ offer.count <= m
    BY <1>3 DEF ReadOrder, SmallOffers
  <2> QED
    BY <1>1, <2>1 DEF SizesUpTo
<1>4. ASSUME NEW c \in Client, FillResting(c)
      PROVE  SizesUpTo(m)'
  <2>1. PICK o \in OrderId, r \in OrderId :
          /\ o = my[c] /\ r = Resting(c) /\ count[o] >= count[r]
    <3>1. pc[c] = "match"
      BY <1>4 DEF FillResting
    <3>2. \E r \in OrderId : r = Resting(c)
      BY <1>4, RestingOrder DEF FillResting
    <3>3. my[c] \in OrderId
      BY <3>1, OrderOf DEF OrderPc
    <3> QED
      BY <1>4, <3>2, <3>3 DEF FillResting
  <2>2. count' = [count EXCEPT ![o] = count[o] - count[r]]
    BY <1>4, <2>1 DEF FillResting
  <2>3. count[o] - count[r] <= m
    BY <1>1, <1>2, <2>1
  <2> QED
    BY <1>1, <2>2, <2>3 DEF SizesUpTo
<1>5. ASSUME NEW c \in Client, FillNew(c)
      PROVE  SizesUpTo(m)'
  <2>1. PICK o \in OrderId, r \in OrderId :
          /\ o = my[c] /\ r = Resting(c) /\ count[o] < count[r]
    <3>1. pc[c] = "match"
      BY <1>5 DEF FillNew
    <3>2. \E r \in OrderId : r = Resting(c)
      BY <1>5, RestingOrder DEF FillNew
    <3>3. my[c] \in OrderId
      BY <3>1, OrderOf DEF OrderPc
    <3> QED
      BY <1>5, <3>2, <3>3 DEF FillNew
  <2>2. count' = [count EXCEPT ![r] = count[r] - count[o], ![o] = 0]
    BY <1>5, <2>1 DEF FillNew
  <2>3. count[r] - count[o] <= m /\ 0 <= m
    BY <1>1, <1>2, <2>1
  <2> QED
    BY <1>1, <2>2, <2>3 DEF SizesUpTo
<1>6. CASE UNCHANGED count
  BY <1>1, <1>6 DEF SizesUpTo
<1> QED
  BY ZenonT(30), <1>3, <1>4, <1>5, <1>6 DEF Next, Read, Work, Prelude, Match, AddToBook, Cancel,
     ReadCancel, EndOfFile, LockBook, LockOpposite, WalkOn, WalkEnd, LockOwn,
     UnlockBook, MatchHead, LeaveLevel, PlaceFound, AddStep, NewLevel, RegisterOrder,
     Enqueue,
     LookUp, RejectUnknown, CancelHead, CancelStep, CancelFails, RejectGone,
     CancelErase, AcceptCancel, Terminated, vars, orderVars

(* What is in a level, or may be added to it, then fits.                  *)
LEMMA SmallFits ==
  ASSUME NEW m \in Nat, SmallOffers(m), IsFiniteSet(OrderId), LockInv, SizesUpTo(m)
  PROVE  Fits
<1> SUFFICES ASSUME NEW n \in Node, NEW o \in OrderId
             PROVE  2 * (volume[n] + count[o]) < Modulus
  BY DEF Fits
<1>1. PICK all \in Nat : all = Cardinality(OrderId)
  BY FS_CardinalityType
<1>2. PICK x \in Nat, y \in Nat : x = volume[n] /\ y = count[o] /\ y <= m
  BY Counted DEF LockInv, SizesUpTo
<1>3. PICK l \in Nat : l = Len(queue[n]) /\ DOMAIN queue[n] = 1 .. l
  <2>1. queue[n] \in Seq(OrderId)
    BY DEF LockInv, NumbersOK
  <2> QED
    BY <2>1
<1>4. \A i \in 1 .. l : queue[n][i] \in OrderId
  <2>1. queue[n] \in Seq(OrderId)
    BY DEF LockInv, NumbersOK
  <2> QED
    BY <1>3, <2>1
<1>5. l <= all
  <2>1. PICK f \in [1 .. l -> OrderId] : \A i \in 1 .. l : f[i] = queue[n][i]
    <3> DEFINE f == [i \in 1 .. l |-> queue[n][i]]
    <3>1. f \in [1 .. l -> OrderId]
      BY <1>4
    <3> QED
      BY <3>1
  <2>2. f \in Injection(1 .. l, OrderId)
    <3>1. \A i, j \in 1 .. l : queue[n][i] = queue[n][j] => i = j
      BY <1>3 DEF LockInv, Places, OnePlace
    <3> QED
      BY <2>1, <3>1 DEF Injection, IsInjective
  <2>3. Cardinality(1 .. l) <= Cardinality(OrderId)
    BY <2>2, FS_Injection
  <2>4. Cardinality(1 .. l) = l
    <3>1. 1 \in Int /\ l \in Int
      OBVIOUS
    <3>2. Cardinality(1 .. l) = IF 1 > l THEN 0 ELSE l - 1 + 1
      BY <3>1, FS_Interval
    <3> QED
      BY <3>2
  <2> QED
    BY <1>1, <2>3, <2>4
<1>6. PICK k \in Nat : AreLeft(n, k) /\ k <= l
  <2>1. CASE \E c \in Client : Matching(c, n)
    <3>1. PICK c \in Client : Matching(c, n)
      BY <2>1
    <3>2. PICK p \in Nat : p = popped[c]
      BY LocalTypes
    <3>3. p <= l
      BY <1>3, <3>1, <3>2 DEF LockInv, PoppedInLevel, Matching
    <3>4. l - p \in Nat /\ l - p <= l
      BY <3>3
    <3>5. AreLeft(n, l - p)
      BY <1>3, <3>1, <3>2 DEF AreLeft
    <3> QED
      BY <3>4, <3>5
  <2>2. CASE ~\E c \in Client : Matching(c, n)
    BY <1>3, <2>2 DEF AreLeft
  <2> QED
    BY <2>1, <2>2
<1>7. PICK sum \in [Nat -> Nat] : Sums(queue[n], sum, k) /\ volume[n] = sum[k]
  BY <1>6 DEF LockInv, VolumesExact, IsVolume
<1>8. x <= k * m
  <2>1. \A i \in 1 .. k : i \in 1 .. l
    BY <1>6
  <2>2. \A i \in 1 .. k : count[queue[n][i]] \in Nat /\ count[queue[n][i]] <= m
    <3>1. \A i \in 1 .. k : queue[n][i] \in OrderId
      BY <1>4, <2>1
    <3> QED
      BY <3>1, Counted DEF LockInv, SizesUpTo
  <2> QED
    BY <1>2, <1>7, <2>2, SumBounded
<1>9. k * m <= all * m
  <2>1. \A a, b, e \in Nat : a <= b => a * e <= b * e
    <3>1. ASSUME NEW a \in Nat, NEW b \in Nat, NEW e \in Nat, a <= b
          PROVE  a * e <= b * e
      <4>1. PICK d \in Nat : b = a + d
        <5>1. b - a \in Nat /\ b = a + (b - a)
          BY <3>1
        <5> QED
          BY <5>1
      <4>2. (a + d) * e = a * e + d * e /\ d * e \in Nat /\ a * e \in Nat
        OBVIOUS
      <4> QED
        BY <4>1, <4>2
    <3> QED
      BY <3>1
  <2>2. k <= all
    BY <1>5, <1>6
  <2> QED
    BY <2>1, <2>2
<1>10. 2 * ((all + 1) * m) < Modulus /\ Modulus \in Nat
  BY <1>1, BookAssumption DEF SmallOffers
<1>11. (all + 1) * m = all * m + m
  <2>1. \A a, b \in Nat : (a + 1) * b = a * b + b
    OBVIOUS
  <2> QED
    BY <2>1
<1>12. k * m \in Nat /\ all * m \in Nat
  OBVIOUS
<1>13. PICK a \in Nat, b \in Nat : a = k * m /\ b = all * m
  BY <1>12
<1>14. x <= a /\ a <= b /\ 2 * (b + m) < Modulus
  BY <1>8, <1>9, <1>10, <1>11, <1>13
<1> QED
  BY <1>2, <1>10, <1>14

(* So with few orders of small sizes every size and volume fits, whatever  *)
(* the clients do: the hypothesis of the theorems below.                   *)
THEOREM FewAndSmallFit == FewAndSmall => (Spec => []Fits)
<1> SUFFICES ASSUME FewAndSmall PROVE Spec => []Fits
  OBVIOUS
<1>1. PICK m \in Nat : SmallOffers(m)
  BY DEF FewAndSmall
<1>2. IsFiniteSet(OrderId)
  BY DEF FewAndSmall
<1> DEFINE Inv == LockInv /\ SizesUpTo(m)
<1>3. Init => Inv
  BY InitLocks DEF Init, SizesUpTo
<1>4. Inv => Fits
  BY <1>1, <1>2, SmallFits
<1>5. Inv /\ [Next]_vars => Inv'
  BY <1>1, <1>4, NextLocks, SizesStaySmall
<1> HIDE DEF Inv
<1> QED
  BY <1>3, <1>4, <1>5, PTL DEF Spec

-----------------------------------------------------------------------------
(* FoldLeft goes through a sequence from its end: a function of the sets   *)
(* of indices, which is what is left of the sequence.                      *)
LEMMA MaxOf ==
  ASSUME NEW s \in SUBSET Nat, NEW n \in s, \A i \in s : i <= n
  PROVE  Max(s) = n
<1>1. \A i \in s : i \in Nat
  OBVIOUS
<1>2. \A i \in s : n >= i
  BY <1>1
<1>3. \A x \in s : (\A i \in s : x >= i) => x = n
  BY <1>1, <1>2
<1> QED
  BY <1>2, <1>3 DEF Max

Recursion(f, S, q) ==
  f = [s \in SUBSET S |-> IF s = {} THEN 0
                          ELSE f[s \ {Max(s)}] + count[q[Max(s)]]]

LEMMA FoldUnfold ==
  ASSUME NEW q
  PROVE  FoldLeft(LAMBDA sum, o : sum + count[o], 0, q)
         = (CHOOSE f : Recursion(f, DOMAIN q, q))[DOMAIN q]
BY DEF FoldLeft, MapThenFoldSet, Recursion

(* There is such a function: for one index more it adds one size more. *)
LEMMA RecursionLonger ==
  ASSUME NEW q, NEW j \in Nat, NEW f, Recursion(f, 1 .. j, q)
  PROVE  \E g : Recursion(g, 1 .. j + 1, q)
<1>1. PICK i \in Nat : i = j + 1
  OBVIOUS
<1>2. PICK g : g = [s \in SUBSET (1 .. i) |-> IF i \in s THEN f[s \ {i}] + count[q[i]]
                                            ELSE f[s]]
  OBVIOUS
<1>3. \A s \in SUBSET (1 .. i) :
        /\ s \ {i} \in SUBSET (1 .. j)
        /\ i \notin s => s \in SUBSET (1 .. j)
  <2>1. \A x \in 1 .. i : x # i => x \in 1 .. j
    BY <1>1
  <2> QED
    BY <2>1
<1>4. ASSUME NEW s \in SUBSET (1 .. i)
      PROVE  g[s] = IF s = {} THEN 0 ELSE g[s \ {Max(s)}] + count[q[Max(s)]]
  <2>1. CASE i \in s
    <3>1. Max(s) = i
      <4>1. s \in SUBSET Nat /\ \A x \in s : x <= i
        OBVIOUS
      <4> QED
        BY <2>1, <4>1, MaxOf
    <3>2. g[s] = f[s \ {i}] + count[q[i]]
      BY <1>2, <2>1
    <3>3. g[s \ {i}] = f[s \ {i}]
      BY <1>2
    <3> QED
      BY <2>1, <3>1, <3>2, <3>3
  <2>2. CASE i \notin s
    <3>1. g[s] = f[s] /\ s \in SUBSET (1 .. j)
      BY <1>2, <1>3, <2>2
    <3>2. f[s] = IF s = {} THEN 0 ELSE f[s \ {Max(s)}] + count[q[Max(s)]]
      BY <3>1 DEF Recursion
    <3>3. g[s \ {Max(s)}] = f[s \ {Max(s)}]
      <4>1. PICK r : r = s \ {Max(s)}
        OBVIOUS
      <4>2. r \in SUBSET (1 .. i) /\ i \notin r
        BY <2>2, <4>1
      <4> QED
        BY <1>2, <4>1, <4>2
    <3> QED
      BY <3>1, <3>2, <3>3
  <2> QED
    BY <2>1, <2>2
<1>5. g = [s \in SUBSET (1 .. i) |-> IF s = {} THEN 0
                                  ELSE g[s \ {Max(s)}] + count[q[Max(s)]]]
  BY <1>2, <1>4
<1> QED
  BY <1>1, <1>5 DEF Recursion

LEMMA RecursionExists ==
  ASSUME NEW q, NEW k \in Nat
  PROVE  \E f : Recursion(f, 1 .. k, q)
<1> DEFINE S == {i \in Nat : ~\E f : Recursion(f, 1 .. i, q)}
<1>1. ASSUME S # {} PROVE FALSE
  <2>1. S \in SUBSET Nat
    OBVIOUS
  <2>2. PICK i \in S : \A j \in S : i <= j
    <3> HIDE DEF S
    <3> QED
      BY <1>1, <2>1, Least
  <2>3. i # 0
    <3>1. PICK f : f = [s \in SUBSET (1 .. 0) |-> 0]
      OBVIOUS
    <3>2. \A s \in SUBSET (1 .. 0) : s = {}
      OBVIOUS
    <3>3. Recursion(f, 1 .. 0, q)
      BY <3>1, <3>2 DEF Recursion
    <3> QED
      BY <3>3
  <2>4. PICK j \in Nat : i = j + 1 /\ ~(i <= j)
    <3>1. i - 1 \in Nat /\ i = (i - 1) + 1 /\ ~(i <= i - 1)
      BY <2>3
    <3> QED
      BY <3>1
  <2>5. PICK f : Recursion(f, 1 .. j, q)
    BY <2>2, <2>4
  <2>6. \E g : Recursion(g, 1 .. i, q)
    BY <2>4, <2>5, RecursionLonger
  <2> QED
    BY <2>6
<1> QED
  BY <1>1

LEMMA FoldIsSum ==
  ASSUME NEW q, NEW k \in Nat, DOMAIN q = 1 .. k,
         NEW sum \in [Nat -> Nat], Sums(q, sum, k)
  PROVE  FoldLeft(LAMBDA s, o : s + count[o], 0, q) = sum[k]
<1>1. PICK f : f = CHOOSE g : Recursion(g, DOMAIN q, q)
  OBVIOUS
<1>2. Recursion(f, 1 .. k, q)
  BY <1>1, RecursionExists
<1> DEFINE S == {i \in 0 .. k : f[1 .. i] # sum[i]}
<1>3. ASSUME S # {} PROVE FALSE
  <2>1. S \in SUBSET Nat
    OBVIOUS
  <2>2. PICK i \in S : \A j \in S : i <= j
    <3> HIDE DEF S
    <3> QED
      BY <1>3, <2>1, Least
  <2>3. i \in Nat /\ i <= k /\ f[1 .. i] # sum[i]
    OBVIOUS
  <2>4. \A s \in SUBSET (1 .. k) :
          f[s] = IF s = {} THEN 0 ELSE f[s \ {Max(s)}] + count[q[Max(s)]]
    BY <1>2 DEF Recursion
  <2>5. 1 .. i \in SUBSET (1 .. k)
    <3>1. \A x \in 1 .. i : x \in 1 .. k
      BY <2>3
    <3> QED
      BY <3>1
  <2>6. CASE i = 0
    <3>1. 1 .. i = {}
      BY <2>6
    <3>2. f[1 .. i] = 0
      BY <2>4, <2>5, <3>1
    <3> QED
      BY <2>3, <2>6, <3>2 DEF Sums
  <2>7. CASE i # 0
    <3>1. PICK j \in Nat : j = i - 1 /\ ~(i <= j) /\ j \in 0 .. k /\ i \in 1 .. k
      BY <2>3, <2>7
    <3>2. f[1 .. j] = sum[j]
      BY <2>2, <3>1
    <3>3. i \in 1 .. i /\ 1 .. i # {} /\ (1 .. i) \ {i} = 1 .. j
      <4>1. i \in 1 .. i
        BY <3>1
      <4>2. \A x \in 1 .. i : x # i => x \in 1 .. j
        BY <2>3, <3>1
      <4>3. \A x \in 1 .. j : x \in 1 .. i /\ x # i
        BY <2>3, <3>1
      <4> QED
        BY <4>1, <4>2, <4>3
    <3>4. Max(1 .. i) = i
      <4>1. 1 .. i \in SUBSET Nat /\ \A x \in 1 .. i : x <= i
        BY <2>3
      <4> QED
        BY <3>3, <4>1, MaxOf
    <3>5. f[1 .. i] = f[1 .. j] + count[q[i]]
      BY <2>4, <2>5, <3>3, <3>4
    <3>6. sum[i] = sum[j] + count[q[i]]
      BY <3>1 DEF Sums
    <3> QED
      BY <2>3, <3>2, <3>5, <3>6
  <2> QED
    BY <2>6, <2>7
<1>4. f[1 .. k] = sum[k]
  BY <1>3
<1> QED
  BY <1>1, <1>4, FoldUnfold

(* What Unmatched leaves of a level is what the thread that matches it,    *)
(* the only one, has not passed.                                           *)
LEMMA UnmatchedIs ==
  ASSUME LockInv, NEW n \in Node
  PROVE  \E k \in Nat : /\ k <= Len(queue[n]) /\ AreLeft(n, k)
                        /\ Unmatched(n) = SubSeq(queue[n], 1, k)
<1>1. PICK l \in Nat : l = Len(queue[n])
  <2>1. queue[n] \in Seq(OrderId)
    BY DEF LockInv, NumbersOK
  <2> QED
    BY <2>1
<1> DEFINE done == {popped[c] : c \in {d \in Client : pc[d] = "match" /\ curr[d] = n}}
<1>2. Unmatched(n) = SubSeq(queue[n], 1, l - Max(done \cup {0}))
  BY <1>1 DEF Unmatched
<1>3. CASE \E c \in Client : Matching(c, n)
  <2>1. PICK c \in Client : Matching(c, n)
    BY <1>3
  <2>2. PICK p \in Nat : p = popped[c]
    BY LocalTypes
  <2>3. \A d \in Client : Matching(d, n) => d = c
    <3>1. Holds(c, n)
      BY <2>1, HoldsLevel DEF LockInv, Matching, MatchPc
    <3> QED
      BY <3>1, AloneOnLevel DEF LockInv
  <2>4. done \cup {0} = {p, 0}
    BY <2>1, <2>2, <2>3 DEF Matching
  <2>5. Max(done \cup {0}) = p
    <3>1. {p, 0} \in SUBSET Nat /\ p \in {p, 0} /\ \A i \in {p, 0} : i <= p
      OBVIOUS
    <3>2. Max({p, 0}) = p
      BY <3>1, MaxOf
    <3> QED
      BY <2>4, <3>2
  <2>6. p <= l
    BY <1>1, <2>1, <2>2 DEF LockInv, PoppedInLevel, Matching
  <2>7. l - p \in Nat /\ l - p <= l
    BY <2>6
  <2>8. AreLeft(n, l - p)
    BY <1>1, <2>1, <2>2 DEF AreLeft
  <2> QED
    BY <1>1, <1>2, <2>5, <2>7, <2>8
<1>4. CASE ~\E c \in Client : Matching(c, n)
  <2>1. done \cup {0} = {0}
    BY <1>4 DEF Matching
  <2>2. Max(done \cup {0}) = 0
    <3>1. {0} \in SUBSET Nat /\ 0 \in {0} /\ \A i \in {0} : i <= 0
      OBVIOUS
    <3>2. Max({0}) = 0
      BY <3>1, MaxOf
    <3> QED
      BY <2>1, <3>2
  <2>3. l - 0 = l
    OBVIOUS
  <2>4. AreLeft(n, l)
    BY <1>1, <1>4 DEF AreLeft
  <2>5. Unmatched(n) = SubSeq(queue[n], 1, l)
    <3> HIDE DEF done
    <3> QED
      BY <1>2, <2>2, <2>3
  <2>6. l <= Len(queue[n])
    BY <1>1
  <2> QED
    BY <2>4, <2>5, <2>6
<1> QED
  BY <1>3, <1>4

LEMMA FirstOnes ==
  ASSUME NEW q \in Seq(OrderId), NEW k \in Nat, k <= Len(q)
  PROVE  /\ DOMAIN SubSeq(q, 1, k) = 1 .. k
         /\ \A i \in 1 .. k : i \in DOMAIN q /\ SubSeq(q, 1, k)[i] = q[i]
OBVIOUS

LEMMA SumsOfVolumes == LockInv => VolumeIsSum
<1> SUFFICES ASSUME LockInv, NEW n \in Node
             PROVE  volume[n] = FoldLeft(LAMBDA sum, o : sum + count[o], 0, Unmatched(n))
  BY DEF VolumeIsSum
<1>1. PICK k \in Nat : /\ k <= Len(queue[n]) /\ AreLeft(n, k)
                       /\ Unmatched(n) = SubSeq(queue[n], 1, k)
  BY UnmatchedIs
<1>2. PICK sum \in [Nat -> Nat] : Sums(queue[n], sum, k) /\ volume[n] = sum[k]
  BY <1>1 DEF LockInv, VolumesExact, IsVolume
<1>3. queue[n] \in Seq(OrderId)
  BY DEF LockInv, NumbersOK
<1>4. /\ DOMAIN SubSeq(queue[n], 1, k) = 1 .. k
      /\ \A i \in 1 .. k : SubSeq(queue[n], 1, k)[i] = queue[n][i]
  BY <1>1, <1>3, FirstOnes
<1>5. PICK q : q = Unmatched(n)
  OBVIOUS
<1>6. DOMAIN q = 1 .. k /\ \A i \in 1 .. k : q[i] = queue[n][i]
  BY <1>1, <1>4, <1>5
<1>7. Sums(q, sum, k)
  BY <1>2, <1>6 DEF Sums
<1>8. FoldLeft(LAMBDA s, o : s + count[o], 0, q) = sum[k]
  BY <1>6, <1>7, FoldIsSum
<1> QED
  BY <1>2, <1>5, <1>8

-----------------------------------------------------------------------------
(* No step moves another thread.                                           *)
LEMMA OthersWait ==
  ASSUME LockInv, NEW c \in Client, Read(c) \/ EndOfFile(c) \/ Work(c)
  PROVE  OthersStay(c)
<1>1. /\ pc \in [Client -> Pc] /\ my \in [Client -> OrderId \cup {Nil}]
      /\ curr \in [Client -> Node \cup {Nil}] /\ v \in [Client -> Int]
      /\ popped \in [Client -> Nat]
  BY DEF LockInv, IInv, ShapeOK, NumbersOK
<1>2. CASE Read(c) \/ EndOfFile(c)
  BY <1>1, <1>2 DEF Read, ReadOrder, ReadCancel, EndOfFile, Goto, OthersStay
<1>3. CASE LockBook(c) \/ LockOpposite(c) \/ WalkOn(c) \/ UnlockBook(c)
  BY <1>1, <1>3 DEF LockBook, LockOpposite, WalkOn, UnlockBook, Goto, OthersStay
<1>4. CASE WalkEnd(c) \/ LockOwn(c)
  BY <1>1, <1>4 DEF WalkEnd, LockOwn, Goto, OthersStay
<1>5. CASE MatchHead(c) \/ LeaveLevel(c)
  BY <1>1, <1>5 DEF MatchHead, LeaveLevel, Advance, Finish, Goto, OthersStay
<1>6. CASE FillResting(c) \/ FillNew(c)
  BY <1>1, <1>6 DEF FillResting, FillNew, threadVars, OthersStay
<1>7. CASE PlaceFound(c) \/ AddStep(c) \/ NewLevel(c) \/ RegisterOrder(c)
  BY <1>1, <1>7 DEF PlaceFound, AddStep, NewLevel, RegisterOrder, Goto, OthersStay
<1>8. CASE Enqueue(c) \/ RejectUnknown(c) \/ RejectGone(c) \/ AcceptCancel(c)
  BY <1>1, <1>8 DEF Enqueue, RejectUnknown, RejectGone, AcceptCancel, Finish, Goto,
     OthersStay
<1>9. CASE LookUp(c) \/ CancelHead(c) \/ CancelStep(c) \/ CancelFails(c) \/ CancelErase(c)
  BY <1>1, <1>9 DEF LookUp, CancelHead, CancelStep, CancelFails, CancelErase, Goto,
     OthersStay
<1> QED
  BY <1>2, <1>3, <1>4, <1>5, <1>6, <1>7, <1>8, <1>9
     DEF Work, Prelude, Match, AddToBook, Cancel

(* An order that is about to be put into its level is in Engine::orders:   *)
(* nothing takes it out before, since it is in no level where matchOrder   *)
(* or a cancel could meet it.                                              *)
PutFirst == \A c \in Client : pc[c] = "enqueue" => my[c] \in orders

LEMMA OnlyPutEnqueues ==
  ASSUME LockInv, NEW c \in Client, Read(c) \/ EndOfFile(c) \/ Work(c),
         pc'[c] = "enqueue"
  PROVE  RegisterOrder(c)
<1>1. pc \in [Client -> Pc]
  BY DEF LockInv, IInv, ShapeOK
<1>2. CASE Read(c) \/ EndOfFile(c)
  BY <1>1, <1>2 DEF Read, ReadOrder, ReadCancel, EndOfFile, Goto
<1>3. CASE LockBook(c) \/ WalkEnd(c) \/ LockOwn(c) \/ UnlockBook(c)
  BY <1>1, <1>3 DEF LockBook, WalkEnd, LockOwn, UnlockBook, Goto
<1>4. CASE LockOpposite(c) \/ WalkOn(c)
  <2>1. \A left, n : PreludePc(left, n) # "enqueue"
    BY DEF PreludePc
  <2>2. \A left, n : Goto(c, PreludePc(left, n)) => pc'[c] # "enqueue"
    BY <1>1, <2>1 DEF Goto
  <2>3. CASE LockOpposite(c)
    BY <2>2, <2>3 DEF LockOpposite
  <2>4. CASE WalkOn(c)
    BY <2>2, <2>4 DEF WalkOn
  <2> QED
    BY <1>4, <2>3, <2>4
<1>5. CASE MatchHead(c) \/ LeaveLevel(c)
  BY <1>1, <1>5 DEF MatchHead, LeaveLevel, Advance, Finish, Goto
<1>6. CASE FillResting(c) \/ FillNew(c)
  BY <1>1, <1>6 DEF FillResting, FillNew, threadVars
<1>7. CASE PlaceFound(c)
  <2>1. \A price, n : PlacePc(price, n) \in {"register", "new level"}
    BY DEF PlacePc
  <2> QED
    BY <1>1, <1>7, <2>1 DEF PlaceFound, Goto
<1>8. CASE AddStep(c) \/ NewLevel(c)
  BY <1>1, <1>8 DEF AddStep, NewLevel, Goto
<1>9. CASE Enqueue(c) \/ RejectUnknown(c) \/ RejectGone(c) \/ AcceptCancel(c)
  BY <1>1, <1>9 DEF Enqueue, RejectUnknown, RejectGone, AcceptCancel, Finish, Goto
<1>10. CASE LookUp(c) \/ CancelHead(c) \/ CancelStep(c) \/ CancelFails(c) \/ CancelErase(c)
  BY <1>1, <1>10 DEF LookUp, CancelHead, CancelStep, CancelFails, CancelErase, Goto
<1> QED
  BY <1>2, <1>3, <1>4, <1>5, <1>6, <1>7, <1>8, <1>9, <1>10
     DEF Work, Prelude, Match, AddToBook, Cancel

LEMMA KeysStay ==
  ASSUME NEW c \in Client, Read(c) \/ EndOfFile(c) \/ Work(c),
         ~FillResting(c), ~CancelErase(c)
  PROVE  orders \subseteq orders'
<1>1. CASE RegisterOrder(c)
  BY <1>1 DEF RegisterOrder, Register
<1>2. CASE ~RegisterOrder(c)
  BY <1>2 DEF Read, Work, Prelude, Match, AddToBook, Cancel, ReadOrder, ReadCancel,
     EndOfFile, LockBook, LockOpposite, WalkOn, WalkEnd, LockOwn, UnlockBook,
     MatchHead, FillNew, LeaveLevel, PlaceFound, AddStep, NewLevel, Enqueue, LookUp,
     RejectUnknown, CancelHead, CancelStep, CancelFails, RejectGone, AcceptCancel
<1> QED
  BY <1>1, <1>2

LEMMA StaysPut ==
  ASSUME LockInv, PutFirst, [Next]_vars
  PROVE  PutFirst'
<1>1. ASSUME NEW c \in Client, Read(c) \/ EndOfFile(c) \/ Work(c),
             NEW d \in Client, pc'[d] = "enqueue"
      PROVE  my'[d] \in orders'
  <2>1. CASE d = c
    <3>1. RegisterOrder(c)
      BY <1>1, <2>1, OnlyPutEnqueues
    <3> QED
      BY <2>1, <3>1 DEF RegisterOrder, Register
  <2>2. CASE d # c
    <3>1. pc[d] = "enqueue" /\ my'[d] = my[d] /\ my[d] \in orders
      BY <1>1, <2>2, OthersWait DEF OthersStay, PutFirst
    <3>2. ASSUME FillResting(c) PROVE my[d] \in orders'
      <4>1. my[d] # my[c]
        BY <2>2, <3>1, <3>2 DEF FillResting, LockInv, Places, OnePlace, OrderPc
      <4> QED
        BY <3>1, <3>2, <4>1 DEF FillResting, Deregister
    <3>3. ASSUME CancelErase(c) PROVE my[d] \in orders'
      <4>1. PICK n \in Node : n = curr[c]
        BY <3>3, HoldsLevel DEF CancelErase, LockInv, OneLockPc
      <4>2. PICK i \in DOMAIN queue[n] : queue[n][i] = my[c]
        BY <3>3, <4>1 DEF CancelErase, ToSet
      <4>3. \A j \in DOMAIN queue[n] : queue[n][j] # my[d]
        BY <3>1 DEF LockInv, Places, OnePlace, OrderPc
      <4> QED
        BY <3>1, <3>3, <4>2, <4>3 DEF CancelErase, Deregister
    <3> QED
      BY <1>1, <3>1, <3>2, <3>3, KeysStay
  <2> QED
    BY <2>1, <2>2
<1>2. CASE UNCHANGED vars
  BY <1>2 DEF vars, threadVars, PutFirst
<1> QED
  BY <1>1, <1>2 DEF Next, Terminated, PutFirst

(* Whatever is in a level is in Engine::orders, matched or not: matchOrder *)
(* takes the order of its own command out of the map, which is in no level.*)
Registered == \A n \in Node : \A i \in DOMAIN queue[n] : queue[n][i] \in orders

(* An order leaves the map only when it is in no level, and is put into a  *)
(* level only after the map.                                               *)
LEMMA StaysRegistered ==
  ASSUME LockInv, PutFirst, Registered, [Next]_vars
  PROVE  Registered'
<1>1. ASSUME NEW c \in Client, FillResting(c)
      PROVE  Registered'
  <2>1. pc[c] \in OrderPc /\ queue' = queue /\ orders' = orders \ {my[c]}
    BY <1>1 DEF FillResting, Deregister, OrderPc
  <2>2. \A n \in Node : \A i \in DOMAIN queue[n] : queue[n][i] # my[c]
    BY <2>1 DEF LockInv, Places, OnePlace
  <2> QED
    BY <2>1, <2>2 DEF Registered
<1>2. ASSUME NEW c \in Client, LeaveLevel(c)
      PROVE  Registered'
  <2>1. pc[c] = "match" /\ orders' = orders
    BY <1>2 DEF LeaveLevel
  <2>2. PICK n \in Node : n = curr[c]
    BY <2>1, HoldsLevel DEF LockInv, MatchPc
  <2>3. PICK p \in Nat : p = popped[c]
    BY LocalTypes
  <2>4. PICK q \in Seq(OrderId) : q = queue[n]
    BY DEF LockInv, NumbersOK
  <2>5. p <= Len(q)
    BY <2>1, <2>2, <2>3, <2>4 DEF LockInv, PoppedInLevel
  <2>6. \A i \in DOMAIN PopBack(q, p) : i \in DOMAIN q /\ PopBack(q, p)[i] = q[i]
    BY <2>5, Popped
  <2>7. queue'[n] = PopBack(q, p) /\ \A m \in Node : m # n => queue'[m] = queue[m]
    <3>1. queue \in [Node -> Seq(OrderId)]
      BY DEF LockInv, NumbersOK
    <3>2. queue' = [queue EXCEPT ![n] = PopBack(q, p)]
      BY <1>2, <2>2, <2>3, <2>4 DEF LeaveLevel
    <3> QED
      BY <3>1, <3>2
  <2> QED
    BY <2>1, <2>4, <2>6, <2>7 DEF Registered
<1>3. ASSUME NEW c \in Client, Enqueue(c)
      PROVE  Registered'
  <2>1. pc[c] = "enqueue" /\ orders' = orders /\ my[c] \in orders
    BY <1>3 DEF Enqueue, PutFirst
  <2>2. PICK o \in OrderId : o = my[c] /\ cmd[o] # Nil
    BY <2>1, OrderOf DEF OrderPc
  <2>3. PICK n \in Node : n = curr[c]
    BY <2>1, HoldsLevel DEF LockInv, OneLockPc
  <2>4. PICK q \in Seq(OrderId) : q = queue[n]
    BY DEF LockInv, NumbersOK
  <2>5. PICK time \in Nat : time = cmd[o].time
    BY <2>2 DEF LockInv, IInv, ShapeOK, Command
  <2>6. \A i \in DOMAIN q : cmd[q[i]].time \in Nat
    <3>1. \A i \in DOMAIN q : q[i] \in OrderId
      OBVIOUS
    <3>2. \A i \in DOMAIN queue[n] : cmd[queue[n][i]] # Nil
      BY DEF LockInv, Places, Known
    <3>3. \A x \in OrderId : cmd[x] # Nil => cmd[x].time \in Nat
      BY DEF LockInv, IInv, ShapeOK, Command
    <3> QED
      BY <2>4, <3>1, <3>2, <3>3
  <2>7. PICK l \in Nat, k \in Nat, r \in Seq(OrderId) :
          /\ l = Len(q) /\ 1 <= k /\ k <= l + 1 /\ DOMAIN q = 1 .. l
          /\ r = InsertAt(q, Position(q, time), o)
          /\ Len(r) = l + 1 /\ DOMAIN r = 1 .. l + 1
          /\ \A i \in 1 .. l + 1 :
               r[i] = IF i < k THEN q[i] ELSE IF i = k THEN o ELSE q[i - 1]
    BY ZenonT(30), <2>6, Placed
  <2>8. queue'[n] = r /\ \A m \in Node : m # n => queue'[m] = queue[m]
    <3>1. queue \in [Node -> Seq(OrderId)]
      BY DEF LockInv, NumbersOK
    <3>2. queue' = [queue EXCEPT ![n] = r]
      BY <1>3, <2>2, <2>3, <2>4, <2>5, <2>7 DEF Enqueue
    <3> QED
      BY <3>1, <3>2
  <2>9. \A i \in 1 .. l + 1 : r[i] = o \/ \E j \in 1 .. l : r[i] = q[j]
    <3>1. \A i \in 1 .. l + 1 : \/ i = k
                                \/ i < k /\ i \in 1 .. l
                                \/ ~(i < k) /\ i # k /\ i - 1 \in 1 .. l
      <4>1. k \in Nat /\ l \in Nat /\ 1 <= k /\ k <= l + 1
        BY <2>7
      <4> QED
        BY <4>1
    <3> QED
      BY <2>7, <3>1
  <2>10. \A i \in DOMAIN r : r[i] \in orders'
    <3>1. \A j \in 1 .. l : q[j] \in orders
      BY <2>4, <2>7 DEF Registered
    <3>2. \A i \in 1 .. l + 1 : r[i] \in orders
      BY <2>1, <2>2, <2>9, <3>1
    <3> QED
      BY <2>1, <2>2, <2>7, <3>2
  <2> QED
    BY <2>1, <2>8, <2>10 DEF Registered
<1>4. ASSUME NEW c \in Client, CancelErase(c)
      PROVE  Registered'
  <2>1. pc[c] = "cancel level" /\ orders' = orders \ {my[c]}
    BY <1>4 DEF CancelErase, Deregister
  <2>2. PICK o \in OrderId : o = my[c]
    BY <2>1 DEF LockInv, IInv, HasOrder, Idle
  <2>3. PICK n \in Node : n = curr[c]
    BY <2>1, HoldsLevel DEF LockInv, OneLockPc
  <2>4. PICK q \in Seq(OrderId) : q = queue[n]
    BY DEF LockInv, NumbersOK
  <2>5. o \in ToSet(q)
    BY <1>4, <2>2, <2>3, <2>4 DEF CancelErase
  <2>6. PICK l \in Nat, k \in Nat, r \in Seq(OrderId) :
          /\ l = Len(q) /\ 1 <= k /\ k <= l /\ q[k] = o /\ DOMAIN q = 1 .. l
          /\ r = Erase(q, o) /\ Len(r) = l - 1 /\ DOMAIN r = 1 .. l - 1
          /\ \A i \in 1 .. l - 1 :
               /\ i \in 1 .. l /\ i + 1 \in 1 .. l
               /\ r[i] = IF i < k THEN q[i] ELSE q[i + 1]
    BY <2>5, Erased
  <2>7. queue'[n] = r /\ \A m \in Node : m # n => queue'[m] = queue[m]
    <3>1. queue \in [Node -> Seq(OrderId)]
      BY DEF LockInv, NumbersOK
    <3>2. queue' = [queue EXCEPT ![n] = r]
      BY <1>4, <2>2, <2>3, <2>4, <2>6 DEF CancelErase
    <3> QED
      BY <3>1, <3>2
  <2>8. \A i \in 1 .. l - 1 : \E j \in 1 .. l : j # k /\ r[i] = q[j]
    <3>1. \A i \in 1 .. l - 1 : IF i < k THEN i # k ELSE i + 1 # k
      BY <2>6
    <3> QED
      BY <2>6, <3>1
  <2>9. \A j \in 1 .. l : j # k => q[j] # o
    <3>1. k \in DOMAIN queue[n] /\ \A j \in 1 .. l : j \in DOMAIN queue[n]
      BY <2>4, <2>6
    <3> QED
      BY <2>4, <2>6, <3>1 DEF LockInv, Places, OnePlace
  <2>10. \A m \in Node : m # n => \A i \in DOMAIN queue[m] : queue[m][i] # o
    <3>1. k \in DOMAIN queue[n] /\ queue[n][k] = o
      BY <2>4, <2>6
    <3> QED
      BY <3>1 DEF LockInv, Places, OnePlace
  <2>11. \A i \in DOMAIN r : r[i] \in orders'
    <3>1. \A j \in 1 .. l : q[j] \in orders
      BY <2>4, <2>6 DEF Registered
    <3>2. ASSUME NEW i \in 1 .. l - 1 PROVE r[i] \in orders \ {o}
      <4>1. PICK j \in 1 .. l : j # k /\ r[i] = q[j]
        BY <2>8
      <4> QED
        BY <2>9, <3>1, <4>1
    <3> QED
      BY <2>1, <2>2, <2>6, <3>2
  <2> QED
    BY <2>1, <2>2, <2>7, <2>10, <2>11 DEF Registered
<1>5. CASE UNCHANGED <<orders, queue>>
  BY <1>5 DEF Registered
<1>6. ASSUME NEW c \in Client, RegisterOrder(c)
      PROVE  Registered'
  BY <1>6 DEF RegisterOrder, Register, Registered, bookVars
<1> QED
  BY ZenonT(30), <1>1, <1>2, <1>3, <1>4, <1>5, <1>6 DEF Next, Read, Work, Prelude, Match, AddToBook,
     Cancel, ReadOrder, ReadCancel, EndOfFile, LockBook, LockOpposite, WalkOn,
     WalkEnd, LockOwn, UnlockBook, MatchHead, FillNew, PlaceFound, AddStep, NewLevel,
     LookUp, RejectUnknown, CancelHead, CancelStep, CancelFails, RejectGone,
     AcceptCancel, Terminated, vars, bookVars, orderVars

LEMMA UnmatchedRegistered == LockInv /\ Registered => RestingIsRegistered
<1> SUFFICES ASSUME LockInv, Registered, NEW n \in Node, NEW o \in ToSet(Unmatched(n))
             PROVE  o \in orders
  BY DEF RestingIsRegistered
<1>1. PICK k \in Nat : k <= Len(queue[n]) /\ Unmatched(n) = SubSeq(queue[n], 1, k)
  BY UnmatchedIs
<1>2. queue[n] \in Seq(OrderId)
  BY DEF LockInv, NumbersOK
<1>3. /\ DOMAIN SubSeq(queue[n], 1, k) = 1 .. k
      /\ \A i \in 1 .. k : i \in DOMAIN queue[n] /\ SubSeq(queue[n], 1, k)[i] = queue[n][i]
  BY <1>1, <1>2, FirstOnes
<1>4. PICK q : q = Unmatched(n)
  OBVIOUS
<1>5. PICK i \in DOMAIN q : q[i] = o
  BY <1>4 DEF ToSet
<1>6. i \in DOMAIN queue[n] /\ queue[n][i] = o
  BY <1>1, <1>3, <1>4, <1>5
<1> QED
  BY <1>6 DEF Registered

(* OrderNode::volume is the sum that the prelude takes it for, written as  *)
(* the fold over the orders that matchOrder has not passed.                *)
THEOREM VolumesSumUp == Spec /\ []Fits => []VolumeIsSum
<1> QED
  BY LocksHold, SumsOfVolumes, PTL

(* An order that rests can be cancelled, whatever is executed meanwhile:   *)
(* no order is taken out of Engine::orders while it waits in a level.      *)
THEOREM RestingCanBeCancelled == Spec /\ []Fits => []RestingIsRegistered
<1>1. Init => Registered /\ PutFirst
  BY DEF Init, Registered, PutFirst
<1>2. LockInv /\ PutFirst /\ Registered /\ [Next]_vars => Registered' /\ PutFirst'
  BY StaysRegistered, StaysPut
<1> QED
  BY <1>1, <1>2, LocksHold, UnmatchedRegistered, PTL DEF Spec

-----------------------------------------------------------------------------
(* The lists are sorted.  This does need that no order has the price of    *)
(* the list heads, 0: one that has is queued at the head (engine.cpp:353). *)
PricesAboveZero == \A offer \in Offer : offer.price > 0
Priced == \A o \in OrderId : cmd[o] # Nil => cmd[o].price > 0

IsLinked(n) == \E p \in Node : next[p] = n

(* A level of order n may be behind p: p is the head of its side or a      *)
(* level nearer to the front.                                              *)
InFront(p, n) ==
  \/ p = HeadOf(cmd[n].side)
  \/ /\ p \in OrderId
     /\ cmd[p].side = cmd[n].side
     /\ Better(cmd[n].side, cmd[p].price, cmd[n].price)

LinksSorted ==
  \A p, n \in Node : next[p] = n =>
    InFront(p, n) /\ \A s \in Node : next[s] = n => s = p

(* Order o belongs into the level of order n. *)
SameLevel(o, n) == cmd[o].side = cmd[n].side /\ cmd[o].price = cmd[n].price

Belongs(n) ==
  \A i \in DOMAIN queue[n] :
    n \in OrderId /\ IsLinked(n) /\ SameLevel(queue[n][i], n)

InTime(q) == \A i, j \in DOMAIN q : j = i + 1 => cmd[q[j]].time <= cmd[q[i]].time

LevelsSorted == \A n \in Node : Belongs(n) /\ InTime(queue[n])

(* A thread that adds stands in front of the place of its order. *)
BehindPlace(o, n) == n = Nil \/ Better(cmd[o].side, cmd[o].price, cmd[n].price)
AtPlace(c) ==
  /\ pc[c] \in {"add", "new level"} => InFront(curr[c], my[c])
  /\ pc[c] = "new level" => BehindPlace(my[c], next[curr[c]])
  /\ pc[c] \in {"register", "enqueue"} =>
       /\ curr[c] \in OrderId /\ IsLinked(curr[c]) /\ SameLevel(my[c], curr[c])

ThreadsAtPlace == \A c \in Client : AtPlace(c)

SortInv == Priced /\ LinksSorted /\ LevelsSorted /\ ThreadsAtPlace

(* A command that was read has a side, a price and a time. *)
LEMMA CommandOf ==
  ASSUME LockInv, NEW o \in OrderId, cmd[o] # Nil
  PROVE  cmd[o].side \in Side /\ cmd[o].price \in Nat /\ cmd[o].time \in Nat
<1>1. cmd[o] \in Command
  BY DEF LockInv, IInv, ShapeOK
<1>2. \A x \in 0 .. Modulus - 1 : x \in Nat
  OBVIOUS
<1> QED
  BY <1>1, <1>2 DEF Command

LEMMA TimesOf ==
  ASSUME LockInv, NEW n \in Node
  PROVE  \A i \in DOMAIN queue[n] : queue[n][i] \in OrderId /\ cmd[queue[n][i]] # Nil
                                    /\ cmd[queue[n][i]].time \in Nat
<1>1. \A i \in DOMAIN queue[n] : queue[n][i] \in OrderId
  BY DEF LockInv, NumbersOK
<1>2. \A i \in DOMAIN queue[n] : cmd[queue[n][i]] # Nil
  BY DEF LockInv, Places, Known
<1> QED
  BY <1>1, <1>2, CommandOf

(* What is linked or locked was read. *)
LEMMA LinkedIsRead ==
  ASSUME LockInv, NEW n \in OrderId,
         IsLinked(n) \/ owner[n] # Nil \/ next[n] # Nil
  PROVE  cmd[n] # Nil
<1>1. IsLinked(n)
  BY DEF LockInv, Places, LinkedByMaker, IsLinked
<1> QED
  BY <1>1, Names DEF LockInv, Places, Known, IsLinked

(* Where a thread that adds stands, and what is behind it. *)
LEMMA Adds ==
  ASSUME LockInv, SortInv, NEW c \in Client, pc[c] \in {"add", "new level"}
  PROVE  \E o \in OrderId, p \in Node :
           /\ o = my[c] /\ cmd[o] # Nil /\ p = curr[c] /\ Holds(c, p)
           /\ InFront(p, o)
           /\ \A n : n = next[p] /\ n # Nil =>
                /\ n \in OrderId /\ n \in Node /\ cmd[n] # Nil
                /\ cmd[n].side = cmd[o].side /\ PriceOf(n) = cmd[n].price
<1>1. PICK o \in OrderId : o = my[c] /\ cmd[o] # Nil
  BY OrderOf DEF OrderPc
<1>2. PICK p \in Node : p = curr[c] /\ Holds(c, p)
  BY HoldsLevel DEF LockInv, OneLockPc
<1>3. InFront(p, o)
  BY <1>1, <1>2 DEF SortInv, ThreadsAtPlace, AtPlace
<1>4. ASSUME NEW n, n = next[p], n # Nil
      PROVE  /\ n \in OrderId /\ n \in Node /\ cmd[n] # Nil
             /\ cmd[n].side = cmd[o].side /\ PriceOf(n) = cmd[n].price
  <2>1. n \in OrderId /\ n \in Node /\ n \notin Heads
    BY <1>4, Names DEF LockInv, IInv, ShapeOK
  <2>2. cmd[n] # Nil
    BY <1>4, <2>1, LinkedIsRead DEF IsLinked
  <2>3. InFront(p, n)
    BY <1>4, <2>1 DEF SortInv, LinksSorted
  <2>4. cmd[n].side \in Side /\ cmd[o].side \in Side
    BY <1>1, <2>1, <2>2, CommandOf
  <2>5. cmd[n].side = cmd[o].side
    <3>1. \A s \in Side : HeadOf(s) \in Heads
      BY DEF Side, HeadOf, Heads
    <3>2. \A s, t \in Side : HeadOf(s) = HeadOf(t) => s = t
      BY BookAssumption DEF Side, HeadOf
    <3> QED
      BY <1>3, <2>3, <2>4, <3>1, <3>2, Names DEF InFront
  <2> QED
    BY <2>1, <2>2, <2>5 DEF PriceOf
<1> QED
  BY <1>1, <1>2, <1>3, <1>4

(* The other threads stay where they are. *)
OthersAt(c) ==
  \A d \in Client \ {c} : pc'[d] = pc[d] /\ my'[d] = my[d] /\ curr'[d] = curr[d]

(* Steps that leave the lists alone. *)
LEMMA ListsStay ==
  ASSUME SortInv, NEW c \in Client, OthersAt(c), UNCHANGED <<cmd, next, queue>>,
         AtPlace(c)'
  PROVE  SortInv'
<1>1. Priced' /\ LinksSorted'
  BY DEF SortInv, Priced, LinksSorted, InFront
<1>2. LevelsSorted'
  BY DEF SortInv, LevelsSorted, Belongs, InTime, IsLinked, SameLevel
<1>3. ThreadsAtPlace'
  <2>1. ASSUME NEW d \in Client, d # c PROVE AtPlace(d)'
    <3>1. AtPlace(d) /\ pc'[d] = pc[d] /\ my'[d] = my[d] /\ curr'[d] = curr[d]
      BY <2>1 DEF SortInv, ThreadsAtPlace, OthersAt
    <3> QED
      BY <3>1 DEF AtPlace, InFront, BehindPlace, IsLinked, SameLevel
  <2> QED
    BY <2>1 DEF ThreadsAtPlace
<1> QED
  BY <1>1, <1>2, <1>3 DEF SortInv

(* Steps that change a level only. *)
LEMMA OneLevelChanges ==
  ASSUME LockInv, SortInv, NEW c \in Client, OthersAt(c), UNCHANGED <<cmd, next>>,
         AtPlace(c)', NEW n \in Node, Belongs(n)', InTime(queue[n])',
         \A m \in Node : m # n => queue'[m] = queue[m]
  PROVE  SortInv'
<1>1. Priced' /\ LinksSorted'
  BY DEF SortInv, Priced, LinksSorted, InFront
<1>2. LevelsSorted'
  <2>1. ASSUME NEW m \in Node, m # n PROVE Belongs(m)' /\ InTime(queue[m])'
    <3>1. Belongs(m) /\ InTime(queue[m]) /\ queue'[m] = queue[m]
      BY <2>1 DEF SortInv, LevelsSorted
    <3> QED
      BY <3>1 DEF Belongs, InTime, IsLinked, SameLevel
  <2>2. ASSUME NEW m \in Node PROVE Belongs(m)' /\ InTime(queue[m])'
    BY <2>1
  <2> QED
    BY <2>2 DEF LevelsSorted
<1>3. ThreadsAtPlace'
  <2>1. ASSUME NEW d \in Client, d # c PROVE AtPlace(d)'
    <3>1. AtPlace(d) /\ pc'[d] = pc[d] /\ my'[d] = my[d] /\ curr'[d] = curr[d]
      BY <2>1 DEF SortInv, ThreadsAtPlace, OthersAt
    <3> QED
      BY <3>1 DEF AtPlace, InFront, BehindPlace, IsLinked, SameLevel
  <2> QED
    BY <2>1 DEF ThreadsAtPlace
<1> QED
  BY <1>1, <1>2, <1>3 DEF SortInv

LEMMA PlacedInTime ==
  ASSUME NEW q \in Seq(OrderId), NEW o \in OrderId, NEW time \in Nat,
         \A i \in DOMAIN q : cmd[q[i]].time \in Nat
  PROVE  \E l \in Nat, k \in Nat, r \in Seq(OrderId) :
           /\ l = Len(q) /\ 1 <= k /\ k <= l + 1 /\ DOMAIN q = 1 .. l
           /\ r = InsertAt(q, Position(q, time), o)
           /\ Len(r) = l + 1 /\ DOMAIN r = 1 .. l + 1
           /\ \A i \in 1 .. l + 1 :
                r[i] = IF i < k THEN q[i] ELSE IF i = k THEN o ELSE q[i - 1]
           /\ \A j \in 1 .. k - 1 : time <= cmd[q[j]].time
           /\ k <= l => time > cmd[q[k]].time
<1>1. PICK l \in Nat : l = Len(q) /\ DOMAIN q = 1 .. l
  OBVIOUS
<1>2. PICK k : k = Position(q, time)
  OBVIOUS
<1>3. k \in 1 .. l + 1
  BY <1>1, <1>2, PositionFound
<1>4. k \in Nat /\ 1 <= k /\ k <= l + 1
  BY <1>3
<1>5. PICK r : r = InsertAt(q, k, o)
  OBVIOUS
<1>6. /\ r \in Seq(OrderId) /\ Len(r) = l + 1 /\ DOMAIN r = 1 .. l + 1
      /\ \A i \in 1 .. l + 1 :
           r[i] = IF i < k THEN q[i] ELSE IF i = k THEN o ELSE q[i - 1]
  BY <1>1, <1>3, <1>5, Inserted
<1>7. /\ \A j \in 1 .. k - 1 : time <= cmd[q[j]].time
      /\ k <= l => time > cmd[q[k]].time
  BY <1>1, <1>2, PositionFound
<1> QED
  BY <1>1, <1>2, <1>4, <1>5, <1>6, <1>7

(* Nobody has worked on a level yet that was not read. *)
LEMMA ReadOrderSorts ==
  ASSUME LockInv, SortInv, PricesAboveZero, NEW c \in Client, NEW o \in OrderId,
         NEW offer \in Offer, ReadOrder(c, o, offer)
  PROVE  SortInv'
<1>1. /\ cmd[o] = Nil /\ pc'[c] = "lock book" /\ UNCHANGED <<next, queue, curr>>
      /\ \A d \in Client : d # c => pc'[d] = pc[d] /\ my'[d] = my[d]
  BY DEF ReadOrder, Goto, LockInv, IInv, ShapeOK, bookVars
<1>2. \A x \in OrderId : x # o => cmd'[x] = cmd[x]
  BY DEF ReadOrder, LockInv, IInv, ShapeOK
<1>3. cmd'[o].price > 0
  BY DEF ReadOrder, LockInv, IInv, ShapeOK, PricesAboveZero
<1>4. Priced'
  BY <1>2, <1>3 DEF SortInv, Priced
<1>5. \A p \in Node, n \in OrderId :
        InFront(p, n) /\ cmd[n] # Nil /\ (p \in OrderId => cmd[p] # Nil) => InFront(p, n)'
  BY <1>1, <1>2 DEF InFront
<1>6. LinksSorted'
  <2>1. ASSUME NEW p \in Node, NEW n \in Node, next[p] = n
        PROVE  InFront(p, n)'
    <3>1. n \in OrderId
      BY <2>1, Names DEF LockInv, IInv, ShapeOK
    <3>2. cmd[n] # Nil /\ (p \in OrderId => cmd[p] # Nil)
      BY <2>1, <3>1, LinkedIsRead, Names DEF IsLinked
    <3> QED
      BY <1>5, <2>1, <3>1, <3>2 DEF SortInv, LinksSorted
  <2> QED
    BY <1>1, <2>1 DEF SortInv, LinksSorted
<1>7. LevelsSorted'
  <2>1. \A n \in Node : \A i \in DOMAIN queue[n] :
          cmd'[queue[n][i]] = cmd[queue[n][i]]
    <3>1. \A n \in Node : \A i \in DOMAIN queue[n] :
            queue[n][i] \in OrderId /\ cmd[queue[n][i]] # Nil
      BY TimesOf
    <3> QED
      BY <1>1, <1>2, <3>1
  <2>2. ASSUME NEW n \in Node, NEW i \in DOMAIN queue[n]
        PROVE  n \in OrderId /\ IsLinked(n)' /\ SameLevel(queue[n][i], n)'
    <3>1. n \in OrderId /\ IsLinked(n) /\ SameLevel(queue[n][i], n)
      BY DEF SortInv, LevelsSorted, Belongs
    <3>2. cmd'[n] = cmd[n]
      BY <1>1, <1>2, <3>1, LinkedIsRead
    <3> QED
      BY <1>1, <2>1, <3>1, <3>2 DEF IsLinked, SameLevel
  <2>3. ASSUME NEW n \in Node PROVE InTime(queue[n])'
    BY <1>1, <2>1 DEF SortInv, LevelsSorted, InTime
  <2>4. ASSUME NEW n \in Node PROVE Belongs(n)'
    BY <1>1, <2>2 DEF Belongs, SameLevel
  <2> QED
    BY <2>3, <2>4 DEF LevelsSorted
<1>8. ThreadsAtPlace'
  <2>1. ASSUME NEW d \in Client, d # c PROVE AtPlace(d)'
    <3>1. pc'[d] = pc[d] /\ my'[d] = my[d] /\ curr'[d] = curr[d] /\ AtPlace(d)
      BY <1>1, <2>1 DEF SortInv, ThreadsAtPlace
    <3>2. CASE pc[d] \in {"add", "new level", "register", "enqueue"}
      <4>1. PICK x \in OrderId : x = my[d] /\ cmd[x] # Nil
        BY <3>2, OrderOf DEF OrderPc
      <4>2. PICK p \in Node : p = curr[d] /\ Holds(d, p)
        BY <3>2, HoldsLevel DEF LockInv, OneLockPc
      <4>3. p \in OrderId => cmd[p] # Nil
        BY <4>2, LinkedIsRead, Names DEF Holds
      <4>4. pc[d] \in {"add", "new level"} => InFront(p, x)'
        BY <1>5, <3>1, <4>1, <4>2, <4>3 DEF AtPlace
      <4>5. pc[d] = "new level" => BehindPlace(x, next[p])'
        <5>1. next[p] # Nil => next[p] \in OrderId /\ cmd[next[p]] # Nil
          BY DEF LockInv, IInv, ShapeOK, Places, Known
        <5> QED
          BY <1>1, <1>2, <3>1, <4>1, <4>2, <5>1 DEF AtPlace, BehindPlace
      <4>6. pc[d] \in {"register", "enqueue"} =>
              p \in OrderId /\ IsLinked(p)' /\ SameLevel(x, p)'
        BY <1>1, <1>2, <3>1, <4>1, <4>2, <4>3 DEF AtPlace, IsLinked, SameLevel
      <4> QED
        BY <1>1, <3>1, <4>1, <4>2, <4>4, <4>5, <4>6 DEF AtPlace
    <3>3. CASE pc[d] \notin {"add", "new level", "register", "enqueue"}
      BY <3>1, <3>3 DEF AtPlace
    <3> QED
      BY <3>2, <3>3
  <2>2. AtPlace(c)'
    BY <1>1 DEF AtPlace
  <2> QED
    BY <2>1, <2>2 DEF ThreadsAtPlace
<1> QED
  BY <1>4, <1>6, <1>7, <1>8 DEF SortInv

(* The walk: what it passes is nearer to the front. *)
LEMMA AddStepSorts ==
  ASSUME LockInv, SortInv, NEW c \in Client, AddStep(c)
  PROVE  SortInv'
<1>1. pc[c] = "add"
  BY DEF AddStep
<1>2. PICK o \in OrderId, p \in Node :
        /\ o = my[c] /\ cmd[o] # Nil /\ p = curr[c] /\ Holds(c, p)
        /\ InFront(p, o)
        /\ \A n : n = next[p] /\ n # Nil =>
             /\ n \in OrderId /\ n \in Node /\ cmd[n] # Nil
             /\ cmd[n].side = cmd[o].side /\ PriceOf(n) = cmd[n].price
  BY <1>1, Adds
<1>3. PICK n \in OrderId :
        /\ n = next[p] /\ n \in Node /\ cmd[n] # Nil
        /\ cmd[n].side = cmd[o].side /\ PriceOf(n) = cmd[n].price
  BY <1>2 DEF AddStep
<1>4. /\ ~Better(cmd[o].side, cmd[o].price, cmd[n].price)
      /\ curr' = [curr EXCEPT ![c] = n] /\ UNCHANGED <<cmd, next, queue, my, v, popped>>
      /\ Goto(c, IF cmd[o].price = cmd[n].price THEN "register" ELSE "add")
  BY <1>2, <1>3 DEF AddStep, orderVars
<1>5. PICK label : label = IF cmd[o].price = cmd[n].price THEN "register" ELSE "add"
  OBVIOUS
<1>6. OthersAt(c) /\ pc'[c] = label /\ my'[c] = o /\ curr'[c] = n
  <2>1. Goes(c, label, my[c])
    BY <1>4, <1>5, GoesOn1
  <2> QED
    BY <1>2, <1>4, <2>1 DEF Goes, LockInv, IInv, ShapeOK, OthersAt
<1>7. CASE cmd[o].price = cmd[n].price
  <2>1. IsLinked(n)' /\ SameLevel(o, n)'
    BY <1>3, <1>4, <1>7 DEF IsLinked, SameLevel
  <2>2. AtPlace(c)'
    BY <1>5, <1>6, <1>7, <2>1 DEF AtPlace
  <2> QED
    BY <1>4, <1>6, <2>2, ListsStay
<1>8. CASE cmd[o].price # cmd[n].price
  <2>1. Better(cmd[o].side, cmd[n].price, cmd[o].price)
    BY <1>2, <1>3, <1>4, <1>8, CommandOf DEF Better
  <2>2. InFront(n, o)'
    BY <1>3, <1>4, <2>1 DEF InFront
  <2>3. AtPlace(c)'
    BY <1>5, <1>6, <1>8, <2>2 DEF AtPlace
  <2> QED
    BY <1>4, <1>6, <2>3, ListsStay
<1> QED
  BY <1>7, <1>8

(* Where it stops, a level is missing: the one it stands on is the head or *)
(* has another price.                                                      *)
LEMMA PlaceFoundSorts ==
  ASSUME LockInv, SortInv, NEW c \in Client, PlaceFound(c)
  PROVE  SortInv'
<1>1. pc[c] = "add" /\ UNCHANGED <<cmd, next, queue, my, curr, v, popped>>
  BY DEF PlaceFound, orderVars, bookVars
<1>2. PICK o \in OrderId, p \in Node :
        /\ o = my[c] /\ cmd[o] # Nil /\ p = curr[c] /\ Holds(c, p)
        /\ InFront(p, o)
        /\ \A n : n = next[p] /\ n # Nil =>
             /\ n \in OrderId /\ n \in Node /\ cmd[n] # Nil
             /\ cmd[n].side = cmd[o].side /\ PriceOf(n) = cmd[n].price
  BY <1>1, Adds
<1>3. cmd[o].price # PriceOf(p)
  <2>1. cmd[o].price \in Nat /\ cmd[o].price > 0 /\ cmd[o].side \in Side
    BY <1>2, CommandOf DEF SortInv, Priced
  <2>2. CASE p = HeadOf(cmd[o].side)
    BY <2>1, <2>2 DEF PriceOf, HeadOf, Heads
  <2>3. CASE p \in OrderId /\ Better(cmd[o].side, cmd[p].price, cmd[o].price)
    <3>1. cmd[p] # Nil
      BY <1>2, <2>3, LinkedIsRead, Names DEF Holds
    <3>2. PriceOf(p) = cmd[p].price /\ cmd[p].price \in Nat
      BY <2>3, <3>1, CommandOf, Names DEF PriceOf
    <3> QED
      BY <2>1, <2>3, <3>2 DEF Better
  <2> QED
    BY <1>2, <2>2, <2>3 DEF InFront
<1>4. OthersAt(c) /\ pc'[c] = "new level" /\ my'[c] = o /\ curr'[c] = p
  <2>1. Goto(c, "new level")
    BY <1>2, <1>3 DEF PlaceFound, PlacePc
  <2>2. Goes(c, "new level", my[c])
    BY <1>1, <2>1, GoesOn1
  <2> QED
    BY <1>1, <1>2, <2>2 DEF Goes, LockInv, IInv, ShapeOK, OthersAt
<1>5. BehindPlace(o, next[p])
  BY <1>2 DEF PlaceFound, BehindPlace
<1>6. AtPlace(c)'
  BY <1>1, <1>2, <1>4, <1>5 DEF AtPlace, InFront, BehindPlace
<1> QED
  BY <1>1, <1>4, <1>6, ListsStay

LEMMA RegisterOrderSorts ==
  ASSUME LockInv, SortInv, NEW c \in Client, RegisterOrder(c)
  PROVE  SortInv'
<1>1. pc[c] = "register" /\ UNCHANGED <<cmd, next, queue, my, curr>>
  BY DEF RegisterOrder, orderVars, bookVars
<1>2. OthersAt(c) /\ pc'[c] = "enqueue"
  BY <1>1 DEF RegisterOrder, Goto, LockInv, IInv, ShapeOK, OthersAt
<1>3. AtPlace(c)'
  BY <1>1, <1>2 DEF SortInv, ThreadsAtPlace, AtPlace, IsLinked, SameLevel
<1> QED
  BY <1>1, <1>2, <1>3, ListsStay

(* matchOrder ends at the list of the order's own side. *)
LEMMA AdvanceSorts ==
  ASSUME LockInv, NEW c \in Client, Advance(c), UNCHANGED cmd
  PROVE  AtPlace(c)'
<1>1. CASE Goto(c, "match") \/ Finish(c)
  <2>1. pc'[c] \in {"match", "read"}
    BY <1>1 DEF Finish, Goto, LockInv, IInv, ShapeOK
  <2> QED
    BY <2>1 DEF AtPlace
<1>2. CASE Goto(c, "add") /\ curr' = [curr EXCEPT ![c] = OwnHead(c)] /\ UNCHANGED my
  <2>1. pc'[c] = "add" /\ my'[c] = my[c] /\ curr'[c] = OwnHead(c)
    BY <1>2 DEF Goto, LockInv, IInv, ShapeOK
  <2> QED
    BY <2>1 DEF AtPlace, InFront, OwnHead
<1> QED
  BY <1>1, <1>2 DEF Advance, OwnHead

LEMMA AdvanceStays ==
  ASSUME LockInv, NEW c \in Client, Advance(c)
  PROVE  OthersAt(c)
BY DEF Advance, Finish, Goto, LockInv, IInv, ShapeOK, OthersAt

LEMMA MatchHeadSorts ==
  ASSUME LockInv, SortInv, NEW c \in Client, MatchHead(c)
  PROVE  SortInv'
<1>1. Advance(c) /\ UNCHANGED <<cmd, next, queue>>
  BY DEF MatchHead, orderVars
<1>2. AtPlace(c)'
  BY <1>1, AdvanceSorts
<1>3. OthersAt(c)
  BY <1>1, AdvanceStays
<1> QED
  BY <1>1, <1>2, <1>3, ListsStay

(* The front of a level stays a level in order. *)
LEMMA LeaveLevelSorts ==
  ASSUME LockInv, SortInv, NEW c \in Client, LeaveLevel(c)
  PROVE  SortInv'
<1>1. pc[c] = "match" /\ Advance(c) /\ UNCHANGED <<cmd, next>>
  BY DEF LeaveLevel, orderVars
<1>2. AtPlace(c)' /\ OthersAt(c)
  BY <1>1, AdvanceSorts, AdvanceStays
<1>3. PICK n \in Node : n = curr[c]
  BY <1>1, HoldsLevel DEF LockInv, MatchPc
<1>4. PICK p \in Nat : p = popped[c]
  BY LocalTypes
<1>5. PICK q \in Seq(OrderId) : q = queue[n]
  BY DEF LockInv, NumbersOK
<1>6. p <= Len(q)
  BY <1>1, <1>3, <1>4, <1>5 DEF LockInv, PoppedInLevel
<1>7. PICK r : r = PopBack(q, p)
  OBVIOUS
<1>8. \A i \in DOMAIN r : i \in DOMAIN q /\ r[i] = q[i]
  BY <1>6, <1>7, Popped
<1>9. queue'[n] = r /\ \A m \in Node : m # n => queue'[m] = queue[m]
  <2>1. queue \in [Node -> Seq(OrderId)]
    BY DEF LockInv, NumbersOK
  <2>2. queue' = [queue EXCEPT ![n] = r]
    BY <1>3, <1>4, <1>5, <1>7 DEF LeaveLevel
  <2> QED
    BY <2>1, <2>2
<1>10. Belongs(n) /\ InTime(q)
  BY <1>5 DEF SortInv, LevelsSorted
<1>11. Belongs(n)'
  BY <1>1, <1>5, <1>8, <1>9, <1>10 DEF Belongs, IsLinked, SameLevel
<1>12. InTime(queue[n])'
  BY <1>1, <1>8, <1>9, <1>10 DEF InTime
<1> QED
  BY <1>1, <1>2, <1>9, <1>11, <1>12, OneLevelChanges

(* Without one of its orders a level is still in order. *)
LEMMA StillInTime ==
  ASSUME NEW q, NEW l \in Nat, NEW k \in Nat, 1 <= k, k <= l, DOMAIN q = 1 .. l,
         \A i \in 1 .. l : cmd[q[i]].time \in Nat,
         InTime(q), NEW r, DOMAIN r = 1 .. l - 1,
         \A i \in 1 .. l - 1 : r[i] = IF i < k THEN q[i] ELSE q[i + 1]
  PROVE  InTime(r)
<1> SUFFICES ASSUME NEW i \in 1 .. l - 1, NEW j \in 1 .. l - 1, j = i + 1
             PROVE  cmd[r[j]].time <= cmd[r[i]].time
  BY DEF InTime
<1> DEFINE t(x) == cmd[q[x]].time
<1>1. \A x \in 1 .. l : \A y \in 1 .. l : y = x + 1 => t(y) <= t(x)
  BY DEF InTime
<1>2. \A x \in 1 .. l : t(x) \in Nat
  OBVIOUS
<1>3. i \in 1 .. l /\ j \in 1 .. l /\ j + 1 \in 1 .. l /\ i + 1 \in 1 .. l
  OBVIOUS
<1>4. CASE j < k
  <2>1. r[i] = q[i] /\ r[j] = q[j]
    BY <1>4
  <2> QED
    BY <1>1, <1>3, <2>1
<1>5. CASE i < k /\ ~(j < k)
  <2>1. r[i] = q[i] /\ r[j] = q[j + 1]
    BY <1>5
  <2>2. t(j) <= t(i) /\ t(j + 1) <= t(j)
    BY <1>1, <1>3
  <2>3. t(j + 1) <= t(i)
    <3>1. t(i) \in Nat /\ t(j) \in Nat /\ t(j + 1) \in Nat
      BY <1>2, <1>3
    <3> HIDE DEF t
    <3> QED
      BY <2>2, <3>1
  <2> QED
    BY <2>1, <2>3
<1>6. CASE ~(i < k)
  <2>1. r[i] = q[j] /\ r[j] = q[j + 1]
    BY <1>6
  <2> QED
    BY <1>1, <1>3, <2>1
<1> QED
  BY <1>4, <1>5, <1>6

LEMMA CancelEraseSorts ==
  ASSUME LockInv, SortInv, NEW c \in Client, CancelErase(c)
  PROVE  SortInv'
<1>1. /\ pc[c] = "cancel level" /\ Goto(c, "cancelled")
      /\ UNCHANGED <<cmd, next, my, curr, v, popped>>
  BY DEF CancelErase, orderVars
<1>2. pc'[c] = "cancelled" /\ OthersAt(c)
  <2>1. Goes(c, "cancelled", my[c])
    BY <1>1, GoesOn1
  <2> QED
    BY <1>1, <2>1 DEF Goes, LockInv, IInv, ShapeOK, OthersAt
<1>3. PICK o : o = my[c]
  OBVIOUS
<1>4. PICK n \in Node : n = curr[c]
  BY <1>1, HoldsLevel DEF LockInv, OneLockPc
<1>5. PICK q \in Seq(OrderId) : q = queue[n]
  BY DEF LockInv, NumbersOK
<1>6. o \in ToSet(q)
  BY <1>3, <1>4, <1>5 DEF CancelErase
<1>7. PICK l \in Nat, k \in Nat, r \in Seq(OrderId) :
        /\ l = Len(q) /\ 1 <= k /\ k <= l /\ q[k] = o /\ DOMAIN q = 1 .. l
        /\ r = Erase(q, o) /\ Len(r) = l - 1 /\ DOMAIN r = 1 .. l - 1
        /\ \A i \in 1 .. l - 1 :
             /\ i \in 1 .. l /\ i + 1 \in 1 .. l
             /\ r[i] = IF i < k THEN q[i] ELSE q[i + 1]
  BY <1>6, Erased
<1>8. queue'[n] = r /\ \A m \in Node : m # n => queue'[m] = queue[m]
  <2>1. queue \in [Node -> Seq(OrderId)]
    BY DEF LockInv, NumbersOK
  <2>2. queue' = [queue EXCEPT ![n] = r]
    BY <1>3, <1>4, <1>5, <1>7 DEF CancelErase
  <2> QED
    BY <2>1, <2>2
<1>9. Belongs(n) /\ InTime(q)
  BY <1>5 DEF SortInv, LevelsSorted
<1>10. InTime(r)
  <2>1. \A i \in 1 .. l : cmd[q[i]].time \in Nat
    BY <1>5, <1>7, TimesOf
  <2> QED
    BY <1>7, <1>9, <2>1, StillInTime
<1>11. InTime(queue[n])'
  BY <1>1, <1>8, <1>10 DEF InTime
<1>12. Belongs(n)'
  <2>1. \A i \in DOMAIN r : \E j \in DOMAIN q : r[i] = q[j]
    BY <1>7
  <2> QED
    BY ZenonT(30), <1>1, <1>5, <1>8, <1>9, <2>1 DEF Belongs, IsLinked, SameLevel
<1>13. AtPlace(c)'
  BY <1>2 DEF AtPlace
<1> QED
  BY <1>1, <1>2, <1>8, <1>11, <1>12, <1>13, OneLevelChanges

(* With one more, in the place that the insertion loop finds. *)
LEMMA StaysInTime ==
  ASSUME NEW q, NEW l \in Nat, NEW k \in Nat, 1 <= k, k <= l + 1, DOMAIN q = 1 .. l,
         InTime(q), NEW o,
         \A j \in 1 .. k - 1 : cmd[o].time <= cmd[q[j]].time,
         k <= l => cmd[q[k]].time <= cmd[o].time,
         NEW r, DOMAIN r = 1 .. l + 1,
         \A i \in 1 .. l + 1 :
           r[i] = IF i < k THEN q[i] ELSE IF i = k THEN o ELSE q[i - 1]
  PROVE  InTime(r)
<1> SUFFICES ASSUME NEW i \in 1 .. l + 1, NEW j \in 1 .. l + 1, j = i + 1
             PROVE  cmd[r[j]].time <= cmd[r[i]].time
  BY DEF InTime
<1>1. \A x \in 1 .. l : \A y \in 1 .. l : y = x + 1 => cmd[q[y]].time <= cmd[q[x]].time
  BY DEF InTime
<1>2. CASE j < k
  <2>1. r[i] = q[i] /\ r[j] = q[j] /\ i \in 1 .. l /\ j \in 1 .. l
    BY <1>2
  <2> QED
    BY <1>1, <2>1
<1>3. CASE j = k
  <2>1. r[i] = q[i] /\ r[j] = o /\ i \in 1 .. k - 1
    BY <1>3
  <2> QED
    BY <2>1
<1>4. CASE i = k
  <2>1. r[i] = o /\ r[j] = q[k] /\ k <= l
    BY <1>4
  <2> QED
    BY <2>1
<1>5. CASE k < i
  <2>1. r[i] = q[i - 1] /\ r[j] = q[i] /\ i - 1 \in 1 .. l /\ i \in 1 .. l
        /\ i = (i - 1) + 1
    BY <1>5
  <2> QED
    BY <1>1, <2>1
<1> QED
  BY <1>2, <1>3, <1>4, <1>5

LEMMA EnqueueSorts ==
  ASSUME LockInv, SortInv, NEW c \in Client, Enqueue(c)
  PROVE  SortInv'
<1>1. pc[c] = "enqueue" /\ UNCHANGED <<cmd, next>> /\ Finish(c)
  BY DEF Enqueue, orderVars
<1>2. pc'[c] = "read" /\ OthersAt(c)
  BY <1>1, FinishGoes DEF OthersStay, OthersAt
<1>3. PICK o \in OrderId : o = my[c] /\ cmd[o] # Nil
  BY <1>1, OrderOf DEF OrderPc
<1>4. PICK n \in Node : n = curr[c]
  BY <1>1, HoldsLevel DEF LockInv, OneLockPc
<1>5. PICK q \in Seq(OrderId) : q = queue[n]
  BY DEF LockInv, NumbersOK
<1>6. PICK time \in Nat : time = cmd[o].time
  BY <1>3, CommandOf
<1>7. \A i \in DOMAIN q : cmd[q[i]].time \in Nat
  BY <1>5, TimesOf
<1>8. PICK l \in Nat, k \in Nat, r \in Seq(OrderId) :
        /\ l = Len(q) /\ 1 <= k /\ k <= l + 1 /\ DOMAIN q = 1 .. l
        /\ r = InsertAt(q, Position(q, time), o)
        /\ Len(r) = l + 1 /\ DOMAIN r = 1 .. l + 1
        /\ \A i \in 1 .. l + 1 :
             r[i] = IF i < k THEN q[i] ELSE IF i = k THEN o ELSE q[i - 1]
        /\ \A j \in 1 .. k - 1 : time <= cmd[q[j]].time
        /\ k <= l => time > cmd[q[k]].time
  BY <1>7, PlacedInTime
<1>9. queue'[n] = r /\ \A m \in Node : m # n => queue'[m] = queue[m]
  <2>1. queue \in [Node -> Seq(OrderId)]
    BY DEF LockInv, NumbersOK
  <2>2. queue' = [queue EXCEPT ![n] = r]
    BY <1>3, <1>4, <1>5, <1>6, <1>8 DEF Enqueue
  <2> QED
    BY <2>1, <2>2
<1>10. Belongs(n) /\ InTime(q)
  BY <1>5 DEF SortInv, LevelsSorted
<1>11. InTime(r)
  <2>1. k <= l => cmd[q[k]].time <= cmd[o].time
    <3>1. k <= l => k \in 1 .. l
      BY <1>8
    <3>2. k <= l => cmd[q[k]].time \in Nat
      BY <1>7, <1>8, <3>1
    <3> QED
      BY <1>6, <1>8, <3>2
  <2>2. \A j \in 1 .. k - 1 : cmd[o].time <= cmd[q[j]].time
    BY <1>6, <1>8
  <2>3. /\ 1 <= k /\ k <= l + 1 /\ DOMAIN q = 1 .. l /\ DOMAIN r = 1 .. l + 1
        /\ \A i \in 1 .. l + 1 :
             r[i] = IF i < k THEN q[i] ELSE IF i = k THEN o ELSE q[i - 1]
    BY <1>8
  <2>4. InTime(q)
    BY <1>10
  <2> QED
    BY ZenonT(30), <2>1, <2>2, <2>3, <2>4, StaysInTime
<1>12. InTime(queue[n])'
  BY <1>1, <1>9, <1>11 DEF InTime
<1>13. Belongs(n)'
  <2>1. n \in OrderId /\ IsLinked(n) /\ SameLevel(o, n)
    BY <1>1, <1>3, <1>4 DEF SortInv, ThreadsAtPlace, AtPlace
  <2>2. \A i \in DOMAIN r : r[i] = o \/ \E j \in DOMAIN q : r[i] = q[j]
    <3>1. \A i \in 1 .. l + 1 : \/ i = k
                                \/ i < k /\ i \in 1 .. l
                                \/ ~(i < k) /\ i # k /\ i - 1 \in 1 .. l
      <4>1. k \in Nat /\ l \in Nat /\ 1 <= k /\ k <= l + 1
        BY <1>8
      <4> QED
        BY <4>1
    <3> QED
      BY <1>8, <3>1
  <2>3. \A j \in DOMAIN q : SameLevel(q[j], n)
    BY <1>5, <1>10 DEF Belongs
  <2>4. \A i \in DOMAIN r : SameLevel(r[i], n)
    BY <2>1, <2>2, <2>3
  <2> QED
    BY <1>1, <1>9, <2>1, <2>4 DEF Belongs, IsLinked, SameLevel
<1>14. AtPlace(c)'
  BY <1>2 DEF AtPlace
<1> QED
  BY <1>1, <1>2, <1>9, <1>12, <1>13, <1>14, OneLevelChanges

(* A new level comes between the level c stands on and the one behind it. *)
LEMMA NewLevelSorts ==
  ASSUME LockInv, SortInv, NEW c \in Client, NewLevel(c)
  PROVE  SortInv'
<1>1. pc[c] = "new level" /\ UNCHANGED <<cmd, queue, my, v, popped>>
  BY DEF NewLevel, orderVars
<1>2. PICK o \in OrderId, p \in Node :
        /\ o = my[c] /\ p = curr[c] /\ Holds(c, p) /\ o # p
        /\ Free(o) /\ next[o] = Nil /\ cmd[o] # Nil
        /\ \A m \in Node : next[m] # o
  BY <1>1, NewLevelIsNew
<1>3. /\ InFront(p, o)
      /\ \A n : n = next[p] /\ n # Nil =>
           /\ n \in OrderId /\ n \in Node /\ cmd[n] # Nil
           /\ cmd[n].side = cmd[o].side /\ PriceOf(n) = cmd[n].price
  <2>1. PICK x \in OrderId, y \in Node :
          /\ x = my[c] /\ cmd[x] # Nil /\ y = curr[c] /\ Holds(c, y)
          /\ InFront(y, x)
          /\ \A n : n = next[y] /\ n # Nil =>
               /\ n \in OrderId /\ n \in Node /\ cmd[n] # Nil
               /\ cmd[n].side = cmd[x].side /\ PriceOf(n) = cmd[n].price
    BY <1>1, Adds
  <2>2. x = o /\ y = p
    BY <1>2, <2>1
  <2> QED
    BY <2>1, <2>2
<1>4. BehindPlace(o, next[p])
  BY <1>1, <1>2 DEF SortInv, ThreadsAtPlace, AtPlace
<1>5. /\ next' = [next EXCEPT ![o] = next[p], ![p] = o]
      /\ curr' = [curr EXCEPT ![c] = o] /\ Goto(c, "register")
  BY <1>2 DEF NewLevel
<1>6. next \in [Node -> OrderId \cup {Nil}] /\ o \in Node /\ o # Nil
  BY Names DEF LockInv, IInv, ShapeOK
<1>7. \A m \in Node :
        next'[m] = (IF m = p THEN o ELSE IF m = o THEN next[p] ELSE next[m])
  BY <1>2, <1>5, <1>6
<1>8. OthersAt(c) /\ pc'[c] = "register" /\ my'[c] = o /\ curr'[c] = o
  <2>1. Goes(c, "register", my[c])
    BY <1>1, <1>5, GoesOn1
  <2> QED
    BY <1>1, <1>2, <1>5, <2>1 DEF Goes, LockInv, IInv, ShapeOK, OthersAt
<1>9. \A n \in Node : IsLinked(n) => IsLinked(n)'
  <2>1. ASSUME NEW n \in Node, NEW m \in Node, next[m] = n
        PROVE  \E s \in Node : next'[s] = n
    <3>1. CASE m = p
      BY <1>2, <1>6, <1>7, <2>1, <3>1
    <3>2. CASE m # p
      <4>1. m # o
        BY <1>2, <2>1, Names
      <4> QED
        BY <1>7, <2>1, <3>2, <4>1
    <3> QED
      BY <3>1, <3>2
  <2> QED
    BY <2>1 DEF IsLinked
<1>10. LinksSorted'
  <2>1. \A n \in Node : next[p] = n => InFront(o, n)
    <3>1. ASSUME NEW n \in Node, next[p] = n PROVE InFront(o, n)
      <4>1. n # Nil
        BY Names
      <4>2. cmd[n].side = cmd[o].side /\ Better(cmd[o].side, cmd[o].price, cmd[n].price)
        BY <1>3, <1>4, <3>1, <4>1 DEF BehindPlace
      <4> QED
        BY <4>2 DEF InFront
    <3> QED
      BY <3>1
  <2>2. \A m, n \in Node : next'[m] = n => InFront(m, n)
    BY <1>3, <1>7, <2>1 DEF SortInv, LinksSorted
  <2>3. ASSUME NEW m \in Node, NEW s \in Node, NEW n \in Node, next'[m] = n, next'[s] = n
        PROVE  s = m
    <3>1. \A x, y \in Node : next[x] = n /\ next[y] = n => x = y
      BY DEF SortInv, LinksSorted
    <3>2. n # Nil
      BY Names
    <3>3. CASE n = o
      <4>1. \A x \in Node : next'[x] = o => x = p
        BY <1>2, <1>7
      <4> QED
        BY <2>3, <3>3, <4>1
    <3>4. CASE n # o
      <4>1. \A x \in Node : next'[x] = n => x # p /\ next[IF x = o THEN p ELSE x] = n
        BY <1>7, <3>4
      <4> QED
        BY <1>2, <2>3, <3>1, <4>1
    <3> QED
      BY <3>3, <3>4
  <2>4. \A m, n \in Node : InFront(m, n) => InFront(m, n)'
    BY <1>1 DEF InFront
  <2> QED
    BY <2>2, <2>3, <2>4 DEF LinksSorted
<1>11. LevelsSorted'
  <2>1. ASSUME NEW n \in Node PROVE Belongs(n)' /\ InTime(queue[n])'
    <3>1. Belongs(n) /\ InTime(queue[n])
      BY DEF SortInv, LevelsSorted
    <3> QED
      BY <1>1, <1>9, <3>1 DEF Belongs, InTime, SameLevel
  <2> QED
    BY <1>1, <2>1 DEF LevelsSorted
<1>12. ThreadsAtPlace'
  <2>1. AtPlace(c)'
    <3>1. IsLinked(o)'
      BY <1>7 DEF IsLinked
    <3> QED
      BY <1>8, <3>1 DEF AtPlace, SameLevel
  <2>2. ASSUME NEW d \in Client, d # c PROVE AtPlace(d)'
    <3>1. AtPlace(d) /\ pc'[d] = pc[d] /\ my'[d] = my[d] /\ curr'[d] = curr[d]
      BY <1>8, <2>2 DEF SortInv, ThreadsAtPlace, OthersAt
    <3>2. CASE pc[d] \in {"add", "new level", "register", "enqueue"}
      <4>1. PICK m \in Node : m = curr[d] /\ Holds(d, m)
        BY <3>2, HoldsLevel DEF LockInv, OneLockPc
      <4>2. m # p /\ m # o
        BY <1>2, <2>2, <4>1, Names DEF Holds, Free
      <4>3. next'[m] = next[m]
        BY <1>7, <4>2
      <4>4. IsLinked(m) => IsLinked(m)'
        BY <1>9
      <4> QED
        BY <1>1, <3>1, <4>1, <4>3, <4>4 DEF AtPlace, InFront, BehindPlace, SameLevel
    <3>3. CASE pc[d] \notin {"add", "new level", "register", "enqueue"}
      BY <3>1, <3>3 DEF AtPlace
    <3> QED
      BY <3>2, <3>3
  <2> QED
    BY <2>1, <2>2 DEF ThreadsAtPlace
<1>13. Priced'
  BY <1>1 DEF SortInv, Priced
<1> QED
  BY <1>10, <1>11, <1>12, <1>13 DEF SortInv

(* All other steps leave commands and lists alone and lead to no place.    *)
ToNoPlace(c) ==
  /\ UNCHANGED <<cmd, next, queue>> /\ OthersAt(c)
  /\ pc'[c] \notin {"add", "new level", "register", "enqueue"}

LEMMA PreludeToNoPlace ==
  ASSUME LockInv, NEW c \in Client, Prelude(c) \/ UnlockBook(c)
  PROVE  ToNoPlace(c)
<1>1. pc \in [Client -> Pc] /\ curr \in [Client -> Node \cup {Nil}]
  BY DEF LockInv, IInv, ShapeOK
<1>2. CASE LockBook(c) \/ WalkEnd(c) \/ LockOwn(c)
  BY <1>1, <1>2 DEF LockBook, WalkEnd, LockOwn, Goto, ToNoPlace, OthersAt, orderVars, bookVars
<1>3. CASE LockOpposite(c)
  BY <1>1, <1>3 DEF LockOpposite, Goto, ToNoPlace, OthersAt, orderVars, PreludePc
<1>4. CASE WalkOn(c)
  BY <1>1, <1>4 DEF WalkOn, Goto, ToNoPlace, OthersAt, orderVars, PreludePc
<1>5. CASE UnlockBook(c)
  BY <1>1, <1>5 DEF UnlockBook, Goto, ToNoPlace, OthersAt, orderVars
<1> QED
  BY <1>2, <1>3, <1>4, <1>5 DEF Prelude

LEMMA FillToNoPlace ==
  ASSUME LockInv, NEW c \in Client, FillResting(c) \/ FillNew(c)
  PROVE  ToNoPlace(c)
BY DEF FillResting, FillNew, ToNoPlace, OthersAt, threadVars

LEMMA CancelToNoPlace ==
  ASSUME LockInv, NEW c \in Client, CancelHead(c) \/ Cancel(c), ~CancelErase(c)
  PROVE  ToNoPlace(c)
<1>1. /\ pc \in [Client -> Pc] /\ curr \in [Client -> Node \cup {Nil}]
      /\ my \in [Client -> OrderId \cup {Nil}]
  BY DEF LockInv, IInv, ShapeOK
<1>2. CASE LookUp(c) \/ CancelFails(c)
  BY <1>1, <1>2 DEF LookUp, CancelFails, Goto, ToNoPlace, OthersAt, orderVars, bookVars
<1>3. CASE CancelHead(c) \/ CancelStep(c)
  BY <1>1, <1>3 DEF CancelHead, CancelStep, Goto, ToNoPlace, OthersAt, orderVars
<1>4. CASE RejectUnknown(c) \/ RejectGone(c) \/ AcceptCancel(c)
  BY <1>1, <1>4 DEF RejectUnknown, RejectGone, AcceptCancel, Finish, Goto, ToNoPlace,
     OthersAt, orderVars, bookVars
<1> QED
  BY <1>2, <1>3, <1>4 DEF Cancel

LEMMA ReadToNoPlace ==
  ASSUME LockInv, NEW c \in Client,
         EndOfFile(c) \/ \E o \in OrderId : ReadCancel(c, o)
  PROVE  ToNoPlace(c)
<1>1. pc \in [Client -> Pc] /\ my \in [Client -> OrderId \cup {Nil}]
  BY DEF LockInv, IInv, ShapeOK
<1> QED
  BY <1>1 DEF EndOfFile, ReadCancel, Goto, ToNoPlace, OthersAt, orderVars, bookVars

LEMMA ToNoPlaceSorts ==
  ASSUME SortInv, NEW c \in Client, ToNoPlace(c)
  PROVE  SortInv'
<1>1. AtPlace(c)'
  BY DEF ToNoPlace, AtPlace
<1> QED
  BY <1>1, ListsStay DEF ToNoPlace

LEMMA StaysSorted ==
  ASSUME LockInv, SortInv, PricesAboveZero, [Next]_vars
  PROVE  SortInv'
<1>1. ASSUME NEW c \in Client, Read(c) \/ EndOfFile(c) PROVE SortInv'
  BY <1>1, ReadOrderSorts, ReadToNoPlace, ToNoPlaceSorts DEF Read
<1>2. ASSUME NEW c \in Client, Prelude(c) \/ UnlockBook(c) PROVE SortInv'
  BY <1>2, PreludeToNoPlace, ToNoPlaceSorts
<1>3. ASSUME NEW c \in Client, Match(c) PROVE SortInv'
  BY <1>3, MatchHeadSorts, LeaveLevelSorts, FillToNoPlace, ToNoPlaceSorts DEF Match
<1>4. ASSUME NEW c \in Client, AddToBook(c) PROVE SortInv'
  BY <1>4, PlaceFoundSorts, AddStepSorts, NewLevelSorts, RegisterOrderSorts,
     EnqueueSorts DEF AddToBook
<1>5. ASSUME NEW c \in Client, CancelHead(c) \/ Cancel(c) PROVE SortInv'
  BY <1>5, CancelEraseSorts, CancelToNoPlace, ToNoPlaceSorts
<1>6. CASE UNCHANGED vars
  <2>1. UNCHANGED <<cmd, next, queue, pc, my, curr>>
    BY <1>6 DEF vars, orderVars, bookVars, threadVars
  <2>2. Priced' /\ LinksSorted'
    BY <2>1 DEF SortInv, Priced, LinksSorted, InFront
  <2>3. LevelsSorted'
    BY <2>1 DEF SortInv, LevelsSorted, Belongs, InTime, IsLinked, SameLevel
  <2>4. ASSUME NEW c \in Client PROVE AtPlace(c)'
    <3>1. AtPlace(c)
      BY DEF SortInv, ThreadsAtPlace
    <3> QED
      BY <2>1, <3>1 DEF AtPlace, InFront, BehindPlace, IsLinked, SameLevel
  <2> QED
    BY <2>2, <2>3, <2>4 DEF SortInv, ThreadsAtPlace
<1> QED
  BY <1>1, <1>2, <1>3, <1>4, <1>5, <1>6 DEF Next, Work, Terminated

LEMMA SortedIsSorted == LockInv /\ SortInv => BooksSorted
<1> SUFFICES ASSUME LockInv, SortInv PROVE BooksSorted
  OBVIOUS
<1>1. ASSUME NEW n \in OrderId, queue[n] # <<>> \/ next[n] # Nil
      PROVE  \E p \in Node : next[p] = n
  <2>1. CASE next[n] # Nil
    BY <2>1 DEF LockInv, Places, LinkedByMaker
  <2>2. CASE queue[n] # <<>>
    <3>1. PICK i : i \in DOMAIN queue[n]
      <4>1. PICK q \in Seq(OrderId) : q = queue[n]
        BY Names DEF LockInv, NumbersOK
      <4>2. 1 \in DOMAIN q
        BY <2>2, <4>1
      <4> QED
        BY <4>1, <4>2
    <3> QED
      BY <3>1, Names DEF SortInv, LevelsSorted, Belongs, IsLinked
  <2> QED
    BY <1>1, <2>1, <2>2
<1>2. ASSUME NEW p \in Node, NEW n \in Node, next[p] = n
      PROVE  /\ p = HeadOf(cmd[n].side)
                  \/ /\ p \in OrderId
                     /\ cmd[p].side = cmd[n].side
                     /\ Better(cmd[n].side, cmd[p].price, cmd[n].price)
             /\ \A s \in Node : next[s] = n => s = p
  BY <1>2 DEF SortInv, LinksSorted, InFront
<1>3. ASSUME NEW n \in Node, NEW i \in DOMAIN queue[n]
      PROVE  /\ n \in OrderId
             /\ cmd[queue[n][i]].side = cmd[n].side
             /\ cmd[queue[n][i]].price = cmd[n].price
             /\ i > 1 => cmd[queue[n][i]].time <= cmd[queue[n][i - 1]].time
  <2>1. Belongs(n) /\ InTime(queue[n])
    BY DEF SortInv, LevelsSorted
  <2>2. i > 1 => i - 1 \in DOMAIN queue[n] /\ i = (i - 1) + 1
    <3>1. PICK l \in Nat : DOMAIN queue[n] = 1 .. l
      <4>1. queue[n] \in Seq(OrderId)
        BY DEF LockInv, NumbersOK
      <4> QED
        BY <4>1
    <3> QED
      BY <3>1
  <2> QED
    BY <2>1, <2>2 DEF Belongs, InTime, SameLevel
<1> QED
  BY <1>1, <1>2, <1>3 DEF BooksSorted

LEMMA InitSorted == Init => SortInv
<1> SUFFICES ASSUME Init PROVE SortInv
  OBVIOUS
<1>1. \A n \in Node : queue[n] = <<>> /\ next[n] = Nil /\ Nil # n
  BY Names DEF Init
<1>2. Priced /\ LinksSorted /\ LevelsSorted
  BY <1>1 DEF Init, Priced, LinksSorted, LevelsSorted, Belongs, InTime
<1>3. ThreadsAtPlace
  BY DEF Init, ThreadsAtPlace, AtPlace
<1> QED
  BY <1>2, <1>3 DEF SortInv

-----------------------------------------------------------------------------
(* Neither do the lists ever cross, although an order is added long after  *)
(* its prelude has looked at the other side: what an order that stays must *)
(* not meet there is kept away by the head it locked, and what it did meet *)
(* is on its path, so that it is matched before the order is added.        *)
(*                                                                         *)
(* Orders that face each other: of different sides, with prices at which   *)
(* they trade.                                                             *)
Facing(o, p) == cmd[o].side # cmd[p].side /\ Trades(o, p)
InLevel(n, o) == \E i \in DOMAIN queue[n] : queue[n][i] = o

(* From its commit on a thread whose order will not be matched up is known *)
(* to the threads that follow: it has the head of its own side, or stands  *)
(* in the list.                                                            *)
Staying(c) ==
  \/ pc[c] \in LockedPc /\ v[c] > 0
  \/ pc[c] \in {"add", "new level", "register", "enqueue"}

(* No two of these threads face each other; an order in a level that faces *)
(* one is going to be matched with it, in a level that is still locked for *)
(* that; and orders in levels do not face each other.                      *)
ThreadsApart ==
  \A c, d \in Client : Staying(c) /\ Staying(d) => ~Facing(my[c], my[d])

FacesItsLevels ==
  \A c \in Client, n \in Node, p \in OrderId :
    Staying(c) /\ InLevel(n, p) /\ Facing(my[c], p) =>
      pc[c] \in LockedPc /\ Holds(c, n)

LevelsApart ==
  \A m, n \in Node, o, p \in OrderId :
    InLevel(m, o) /\ InLevel(n, p) => ~Facing(o, p)

CrossInv == ThreadsApart /\ FacesItsLevels /\ LevelsApart

(* What it is to face an order, and one that is behind another.            *)
LEMMA Faces ==
  ASSUME LockInv, NEW o \in OrderId, NEW p \in OrderId, cmd[o] # Nil, cmd[p] # Nil,
         Facing(o, p)
  PROVE  /\ Facing(p, o)
         /\ HeadOf(Opposite(cmd[o].side)) = HeadOf(cmd[p].side)
         /\ \A q \in OrderId :
              /\ cmd[q] # Nil
              /\ SameLevel(p, q) \/ SameLevel(q, p)
                   \/ (cmd[q].side = cmd[p].side
                       /\ Better(cmd[p].side, cmd[q].price, cmd[p].price))
              => Facing(o, q)
<1>1. /\ cmd[o].side \in {"buy", "sell"} /\ cmd[p].side \in {"buy", "sell"}
      /\ cmd[o].price \in Nat /\ cmd[p].price \in Nat
  BY CommandOf DEF Side
<1>2. \A q \in OrderId : PriceOf(q) = cmd[q].price
  BY Names DEF PriceOf
<1>3. Facing(p, o) /\ HeadOf(Opposite(cmd[o].side)) = HeadOf(cmd[p].side)
  BY <1>1, <1>2 DEF Facing, Trades, Better, Opposite
<1>4. ASSUME NEW q \in OrderId, cmd[q] # Nil,
             SameLevel(p, q) \/ SameLevel(q, p)
               \/ (cmd[q].side = cmd[p].side
                   /\ Better(cmd[p].side, cmd[q].price, cmd[p].price))
      PROVE  Facing(o, q)
  <2>1. cmd[q].price \in Nat /\ cmd[q].side = cmd[p].side
    BY <1>4, CommandOf DEF SameLevel
  <2> QED
    BY <1>1, <1>2, <1>4, <2>1 DEF Facing, Trades, Better, Opposite, SameLevel
<1> QED
  BY <1>3, <1>4

(* A set that holds what is behind the heads and behind its levels holds   *)
(* all levels that are linked.                                             *)
LEMMA AllLinked ==
  ASSUME LockInv, SortInv, NEW L \in SUBSET OrderId,
         \A n \in Heads \cup L : next[n] # Nil => next[n] \in L
  PROVE  \A n \in OrderId : IsLinked(n) => n \in L
<1> DEFINE Far(n) == IF cmd[n].side = "sell" THEN cmd[n].price
                                             ELSE (Modulus - 1) - cmd[n].price
           T == {Far(n) : n \in {m \in OrderId : IsLinked(m) /\ m \notin L}}
<1>1. \A n \in OrderId : cmd[n] # Nil => Far(n) \in Nat /\ cmd[n].side \in Side
                                          /\ cmd[n].price \in Nat
  BY BookAssumption DEF LockInv, IInv, ShapeOK, Command
<1>2. T \in SUBSET Nat
  BY <1>1, LinkedIsRead
<1>3. SUFFICES ASSUME T # {} PROVE FALSE
  OBVIOUS
<1>4. PICK n \in OrderId : /\ IsLinked(n) /\ n \notin L
                           /\ \A m \in T : Far(n) <= m
  <2> HIDE DEF Far
  <2>1. PICK x \in T : \A m \in T : x <= m
    BY <1>2, <1>3, Least
  <2> QED
    BY <2>1
<1>5. PICK p \in Node : next[p] = n
  BY <1>4 DEF IsLinked
<1>6. p \in OrderId /\ p \notin L /\ n # Nil /\ n \in Node
  BY <1>4, <1>5, Names
<1>7. IsLinked(p)
  BY <1>5, <1>6 DEF LockInv, Places, LinkedByMaker, IsLinked
<1>8. Far(n) <= Far(p)
  BY <1>4, <1>6, <1>7
<1>9. cmd[n] # Nil /\ cmd[p] # Nil
  BY <1>4, <1>6, <1>7, LinkedIsRead
<1>10. cmd[p].side = cmd[n].side /\ Better(cmd[n].side, cmd[p].price, cmd[n].price)
  <2>1. HeadOf(cmd[n].side) \in Heads
    BY DEF HeadOf, Heads
  <2>2. InFront(p, n)
    BY <1>5, <1>6 DEF SortInv, LinksSorted
  <2> QED
    BY <1>6, <2>1, <2>2, Names DEF InFront
<1>11. PICK x \in Nat, y \in Nat : x = cmd[p].price /\ y = cmd[n].price
  BY <1>1, <1>6, <1>9
<1>12. CASE cmd[n].side = "sell"
  <2>1. y <= x
    BY <1>8, <1>10, <1>11, <1>12
  <2>2. x < y
    BY <1>10, <1>11, <1>12 DEF Better
  <2> QED
    BY <2>1, <2>2
<1>13. CASE cmd[n].side # "sell"
  <2>1. cmd[n].side = "buy" /\ cmd[p].side # "sell"
    BY <1>1, <1>9, <1>10, <1>13 DEF Side
  <2>2. (Modulus - 1) - y <= (Modulus - 1) - x
    BY <1>8, <1>11, <1>13, <2>1
  <2>3. x > y
    BY <1>10, <1>11, <2>1 DEF Better
  <2> QED
    BY <2>2, <2>3, BookAssumption
<1> QED
  BY <1>12, <1>13

LEMMA NextIndex ==
  ASSUME NEW a \in Nat, NEW b \in Nat, NEW i \in a .. b, i # b
  PROVE  i \in a .. b - 1 /\ i + 1 \in a .. b
OBVIOUS

(* A thread whose prelude has come to the end of what trades has locked    *)
(* every level of the other side that its order faces.                     *)
LEMMA LocksAllItFaces ==
  ASSUME LockInv, SortInv, NEW c \in Client, pc[c] = "lock own"
  PROVE  \A n \in OrderId : IsLinked(n) /\ Facing(my[c], n) => Holds(c, n)
<1>1. PICK o \in OrderId : o = my[c] /\ cmd[o] # Nil
  BY OrderOf DEF OrderPc
<1>2. PICK level \in [Nat -> Node], left \in [Nat -> Int], a \in Nat, b \in Nat :
        Path(c, level, left, a, b)
  BY DEF LockInv, LocksExact, LocksOf, PathPc, HasPath
<1>3. /\ a <= b /\ a \in a .. b /\ b \in a .. b
      /\ \A i \in a .. b : level[i] \in Node /\ Holds(c, level[i])
      /\ next \in [Node -> OrderId \cup {Nil}]
  BY <1>2, PathLevels DEF PathPc
<1>4. /\ level[a] = OtherHead(c)
      /\ next[level[b]] = Nil \/ ~Trades(o, next[level[b]])
      /\ \A i \in a .. b - 1 : next[level[i]] = level[i + 1]
  BY <1>1, <1>2 DEF Path, Follow, AtPath
<1>5. PICK L \in SUBSET OrderId :
        L = {n \in OrderId : Facing(o, n) => \E i \in a .. b : n = level[i]}
  OBVIOUS
<1>6. ASSUME NEW i \in a .. b, next[level[i]] # Nil, Facing(o, next[level[i]])
      PROVE  \E j \in a .. b : next[level[i]] = level[j]
  <2>1. i # b
    BY <1>4, <1>6 DEF Facing
  <2>2. a \in Nat /\ b \in Nat
    BY <1>2
  <2>3. i \in a .. b - 1 /\ i + 1 \in a .. b
    BY <2>1, <2>2, NextIndex
  <2> QED
    BY <1>4, <2>3
<1>7. ASSUME NEW n \in Heads \cup L, next[n] # Nil PROVE next[n] \in L
  <2>1. n \in Node
    BY <1>5, Names
  <2>2. PICK m \in OrderId : m = next[n]
    BY <1>3, <1>7, <2>1
  <2>3. SUFFICES ASSUME Facing(o, m) PROVE \E i \in a .. b : m = level[i]
    BY <1>5, <2>2
  <2>4. cmd[m] # Nil /\ InFront(n, m)
    <3>1. IsLinked(m) /\ m \in Node
      BY <2>1, <2>2, Names DEF IsLinked
    <3> QED
      BY <2>1, <2>2, <3>1, LinkedIsRead DEF SortInv, LinksSorted
  <2>5. CASE n = HeadOf(cmd[m].side)
    <3>1. n = level[a]
      BY <1>1, <1>4, <2>3, <2>4, <2>5, Faces DEF OtherHead
    <3> QED
      BY <1>3, <1>6, <1>7, <2>2, <2>3, <3>1
  <2>6. CASE /\ n \in OrderId /\ cmd[n].side = cmd[m].side
             /\ Better(cmd[m].side, cmd[n].price, cmd[m].price)
    <3>1. cmd[n] # Nil
      BY <1>7, <2>6, LinkedIsRead
    <3>2. Facing(o, n)
      BY <1>1, <2>3, <2>4, <2>6, <3>1, Faces
    <3>3. n \in L
      BY <2>6, Names
    <3>4. PICK i \in a .. b : n = level[i]
      BY <1>5, <3>2, <3>3
    <3> QED
      BY <1>6, <1>7, <2>2, <2>3, <3>4
  <2> QED
    BY <2>4, <2>5, <2>6 DEF InFront
<1>8. \A n \in OrderId : IsLinked(n) => n \in L
  BY <1>7, AllLinked
<1> QED
  BY <1>1, <1>3, <1>5, <1>8

-----------------------------------------------------------------------------
(* A step at which levels get no order and no thread joins those that stay. *)
StillFaces(c) ==
  /\ my'[c] = my[c] /\ Staying(c)
  /\ \A n \in Node, p \in OrderId :
       InLevel(n, p)' /\ Facing(my[c], p) => pc'[c] \in LockedPc /\ Holds(c, n)'

FewerInLevels == \A n \in Node, p \in OrderId : InLevel(n, p)' => InLevel(n, p)

LEMMA SameFacing ==
  ASSUME cmd' = cmd
  PROVE  \A o, p : Facing(o, p)' <=> Facing(o, p)
BY DEF Facing, Trades, PriceOf

LEMMA OthersFace ==
  ASSUME NEW c \in Client, OthersStay(c), LocksOfOthersStay(c), NEW d \in Client \ {c}
  PROVE  /\ Staying(d)' <=> Staying(d)
         /\ pc'[d] = pc[d] /\ my'[d] = my[d]
         /\ \A n \in Node : Holds(d, n) => Holds(d, n)'
<1>1. pc'[d] = pc[d] /\ my'[d] = my[d] /\ v'[d] = v[d]
  BY DEF OthersStay
<1>2. \A n \in Node : Holds(d, n) => Holds(d, n)'
  BY Names DEF LocksOfOthersStay, Holds
<1> QED
  BY <1>1, <1>2 DEF Staying

LEMMA KeepsApart ==
  ASSUME LockInv, CrossInv, NEW c \in Client, OthersStay(c), LocksOfOthersStay(c),
         cmd' = cmd, FewerInLevels, Staying(c)' => StillFaces(c)
  PROVE  CrossInv'
<1>1. \A d \in Client : Staying(d)' => Staying(d) /\ my'[d] = my[d]
  BY OthersFace DEF StillFaces
<1>2. ThreadsApart'
  <2>1. ASSUME NEW d \in Client, NEW e \in Client, Staying(d)', Staying(e)'
        PROVE  ~Facing(my'[d], my'[e])
    BY <1>1, <2>1 DEF CrossInv, ThreadsApart
  <2>2. ASSUME NEW d \in Client, NEW e \in Client, Staying(d)', Staying(e)'
        PROVE  ~Facing(my[d], my[e])'
    <3>1. PICK x, y : x = my'[d] /\ y = my'[e]
      OBVIOUS
    <3>2. ~Facing(x, y)
      BY <2>1, <2>2, <3>1
    <3>3. ~Facing(x, y)'
      BY <3>2, SameFacing
    <3> QED
      BY <3>1, <3>3 DEF Facing, Trades, PriceOf
  <2> QED
    BY <2>2 DEF ThreadsApart
<1>3. FacesItsLevels'
  <2>1. ASSUME NEW d \in Client, NEW n \in Node, NEW p \in OrderId,
               Staying(d)', InLevel(n, p)', Facing(my'[d], p)
        PROVE  pc'[d] \in LockedPc /\ Holds(d, n)'
    <3>1. Staying(d) /\ InLevel(n, p) /\ Facing(my[d], p)
      BY <1>1, <2>1 DEF FewerInLevels
    <3>2. pc[d] \in LockedPc /\ Holds(d, n)
      BY <3>1 DEF CrossInv, FacesItsLevels
    <3>3. CASE d = c
      BY <2>1, <3>1, <3>3 DEF StillFaces
    <3>4. CASE d # c
      BY <3>2, <3>4, OthersFace
    <3> QED
      BY <3>3, <3>4
  <2>2. ASSUME NEW d \in Client, NEW n \in Node, NEW p \in OrderId,
               Staying(d)', InLevel(n, p)', Facing(my[d], p)'
        PROVE  pc'[d] \in LockedPc /\ Holds(d, n)'
    <3>1. Facing(my'[d], p)
      BY <2>2 DEF Facing, Trades, PriceOf
    <3> QED
      BY <2>1, <2>2, <3>1
  <2> QED
    BY <2>2 DEF FacesItsLevels
<1>4. LevelsApart'
  BY SameFacing DEF CrossInv, LevelsApart, FewerInLevels
<1> QED
  BY <1>2, <1>3, <1>4 DEF CrossInv

(* Steps after which c does not stay. *)
LEMMA LeavesApart ==
  ASSUME LockInv, CrossInv, NEW c \in Client, OthersStay(c), LocksOfOthersStay(c),
         cmd' = cmd, FewerInLevels, ~Staying(c)'
  PROVE  CrossInv'
BY KeepsApart

(* No step touches a mutex that another thread holds.                      *)
LEMMA LocksOthersKeep ==
  ASSUME LockInv, NEW c \in Client, Read(c) \/ EndOfFile(c) \/ Work(c)
  PROVE  LocksOfOthersStay(c)
<1>1. CASE UNCHANGED owner
  BY <1>1 DEF LocksOfOthersStay
<1>2. ASSUME NEW m \in Mutex, Free(m), owner' = [owner EXCEPT ![m] = c]
      PROVE  LocksOfOthersStay(c)
  BY <1>2, OneLock DEF Free
<1>3. ASSUME NEW m \in Mutex, Holds(c, m), owner' = [owner EXCEPT ![m] = Nil]
      PROVE  LocksOfOthersStay(c)
  BY <1>3, OneLock DEF Holds
<1>4. ASSUME pc[c] \in MatchPc \cup OneLockPc
      PROVE  curr[c] \in Mutex /\ Holds(c, curr[c])
  BY <1>4, HoldsLevel, Names DEF LockInv
<1>5. \A side : HeadOf(side) \in Mutex
  BY HeadIsNode, Names
<1>6. CASE LockBook(c) \/ LockOpposite(c) \/ LockOwn(c) \/ CancelHead(c)
  BY <1>2, <1>5, <1>6, Names DEF LockBook, LockOpposite, LockOwn, CancelHead, ListOf
<1>7. CASE WalkOn(c)
  <2>1. curr[c] \in Mutex
    BY <1>7, Names DEF WalkOn, LockInv, IInv, StandsOn, OnLevel
  <2> QED
    BY <1>2, <1>7, <2>1 DEF WalkOn
<1>8. CASE UnlockBook(c)
  <2>1. Holds(c, BookMutex)
    BY <1>8 DEF UnlockBook, LockInv, IInv, HoldsBook, PreludeSteps
  <2> QED
    BY <1>3, <1>8, <2>1, Names DEF UnlockBook
<1>9. CASE MatchHead(c) \/ LeaveLevel(c)
  <2>1. pc[c] \in MatchPc /\ Advance(c)
    BY <1>9 DEF MatchHead, LeaveLevel, MatchPc
  <2> QED
    BY <1>3, <1>4, <2>1 DEF Advance
<1>10. CASE CancelFails(c) \/ AcceptCancel(c) \/ Enqueue(c)
  <2>1. pc[c] \in OneLockPc /\ owner' = [owner EXCEPT ![curr[c]] = Nil]
    BY <1>10 DEF CancelFails, AcceptCancel, Enqueue, OneLockPc
  <2> QED
    BY <1>3, <1>4, <2>1
<1>11. CASE AddStep(c) \/ CancelStep(c)
  <2>1. PICK m \in Node : m = curr[c] /\ Holds(c, m)
    BY <1>11, HoldsLevel DEF LockInv, OneLockPc, AddStep, CancelStep
  <2>2. PICK n \in Node : n = next[m] /\ Free(n)
    BY <1>11, <2>1, Names DEF LockInv, IInv, ShapeOK, AddStep, CancelStep
  <2>3. owner' = [owner EXCEPT ![n] = c, ![m] = Nil]
    BY <1>11, <2>1, <2>2 DEF AddStep, CancelStep
  <2> QED
    BY <2>1, <2>2, <2>3, HandOver, Names
<1>12. CASE NewLevel(c)
  <2>1. PICK o \in OrderId, p \in Node :
          o = my[c] /\ p = curr[c] /\ Holds(c, p) /\ Free(o)
    BY <1>12, NewLevelIsNew DEF NewLevel
  <2>2. owner' = [owner EXCEPT ![o] = c, ![p] = Nil]
    BY <1>12, <2>1 DEF NewLevel
  <2> QED
    BY <2>1, <2>2, HandOver, Names
<1>13. CASE Read(c) \/ EndOfFile(c)
  BY <1>1, <1>13 DEF Read, ReadOrder, ReadCancel, EndOfFile, bookVars
<1>14. CASE WalkEnd(c) \/ FillResting(c) \/ FillNew(c) \/ PlaceFound(c)
             \/ RegisterOrder(c)
  BY <1>1, <1>14 DEF WalkEnd, FillResting, FillNew, PlaceFound, RegisterOrder, bookVars
<1>15. CASE LookUp(c) \/ RejectUnknown(c) \/ RejectGone(c) \/ CancelErase(c)
  BY <1>1, <1>15 DEF LookUp, RejectUnknown, RejectGone, CancelErase, bookVars
<1> QED
  BY <1>6, <1>7, <1>8, <1>9, <1>10, <1>11, <1>12, <1>13, <1>14, <1>15
     DEF Work, Prelude, Match, AddToBook, Cancel

LEMMA SameLevelsApart ==
  ASSUME LockInv, CrossInv, NEW c \in Client, Read(c) \/ EndOfFile(c) \/ Work(c),
         cmd' = cmd, FewerInLevels, Staying(c)' => StillFaces(c)
  PROVE  CrossInv'
BY OthersWait, LocksOthersKeep, KeepsApart

(* Steps after which the order of c does not stay.                         *)
LEMMA PreludeApart ==
  ASSUME LockInv, CrossInv, NEW c \in Client, Prelude(c), ~LockOwn(c)
  PROVE  CrossInv'
<1>1. pc \in [Client -> Pc] /\ v \in [Client -> Int]
  BY DEF LockInv, IInv, ShapeOK, NumbersOK
<1>2. cmd' = cmd /\ queue' = queue
  BY DEF Prelude, LockBook, LockOpposite, WalkOn, WalkEnd, orderVars, bookVars
<1>3. \A left, n : PreludePc(left, n) \in {"walk", "lock own"}
                   \/ (PreludePc(left, n) = "commit" /\ ~(left > 0))
  BY DEF PreludePc
<1>4. ~Staying(c)'
  <2>1. CASE LockBook(c) \/ WalkEnd(c)
    BY <1>1, <2>1 DEF LockBook, WalkEnd, Goto, Staying, LockedPc, MatchPc
  <2>2. CASE LockOpposite(c)
    <3>1. \E n : pc'[c] = PreludePc(v'[c], n)
      BY <1>1, <2>2 DEF LockOpposite, Goto
    <3> QED
      BY <1>3, <3>1 DEF Staying, LockedPc, MatchPc
  <2>3. CASE WalkOn(c)
    <3>1. \E n : pc'[c] = PreludePc(v'[c], n)
      BY <1>1, <2>3 DEF WalkOn, Goto
    <3> QED
      BY <1>3, <3>1 DEF Staying, LockedPc, MatchPc
  <2> QED
    BY <2>1, <2>2, <2>3 DEF Prelude
<1> QED
  BY <1>2, <1>4, SameLevelsApart DEF Work, FewerInLevels, InLevel

LEMMA QuietApart ==
  ASSUME LockInv, CrossInv, NEW c \in Client,
         \/ EndOfFile(c) \/ CancelHead(c) \/ Cancel(c)
         \/ \E o \in OrderId : ReadCancel(c, o)
  PROVE  CrossInv'
<1>1. pc \in [Client -> Pc]
  BY DEF LockInv, IInv, ShapeOK
<1>2. cmd' = cmd
  BY DEF EndOfFile, ReadCancel, CancelHead, Cancel, LookUp, RejectUnknown, CancelStep,
     CancelFails, RejectGone, CancelErase, AcceptCancel, orderVars
<1>3. CASE CancelErase(c)
  <2>1. PICK n \in Node, o \in OrderId : n = curr[c] /\ o = my[c]
    BY <1>3, HoldsLevel DEF CancelErase, OneLockPc, LockInv, IInv, HasOrder, Idle
  <2>2. PICK q \in Seq(OrderId) : q = queue[n]
    BY DEF LockInv, NumbersOK
  <2>3. /\ queue \in [Node -> Seq(OrderId)] /\ o \in ToSet(q)
        /\ queue' = [queue EXCEPT ![n] = Erase(q, o)]
    BY <1>3, <2>1, <2>2 DEF CancelErase, LockInv, NumbersOK
  <2>4. \A i \in DOMAIN Erase(q, o) : \E j \in DOMAIN q : Erase(q, o)[i] = q[j]
    <3>1. PICK l \in Nat, k \in Nat, r \in Seq(OrderId) :
            /\ l = Len(q) /\ 1 <= k /\ k <= l /\ q[k] = o /\ DOMAIN q = 1 .. l
            /\ r = Erase(q, o) /\ Len(r) = l - 1 /\ DOMAIN r = 1 .. l - 1
            /\ \A i \in 1 .. l - 1 :
                 /\ i \in 1 .. l /\ i + 1 \in 1 .. l
                 /\ r[i] = IF i < k THEN q[i] ELSE q[i + 1]
      BY <2>3, Erased
    <3>2. \A i \in DOMAIN r : \E j \in DOMAIN q : r[i] = q[j]
      BY <3>1
    <3> QED
      BY <3>1, <3>2
  <2>5. FewerInLevels
    BY <2>2, <2>3, <2>4 DEF FewerInLevels, InLevel
  <2>6. ~Staying(c)'
    BY <1>1, <1>3 DEF CancelErase, Goto, Staying, LockedPc, MatchPc
  <2> QED
    BY <1>2, <1>3, <2>5, <2>6, SameLevelsApart DEF Work, Cancel
<1>4. CASE ~CancelErase(c)
  <2>1. queue' = queue
    BY <1>4 DEF EndOfFile, ReadCancel, CancelHead, Cancel, LookUp, RejectUnknown,
       CancelStep, CancelFails, RejectGone, AcceptCancel, bookVars
  <2>2. CASE EndOfFile(c) \/ LookUp(c) \/ CancelHead(c) \/ CancelStep(c) \/ CancelFails(c)
             \/ \E o \in OrderId : ReadCancel(c, o)
    <3>1. ~Staying(c)'
      BY <1>1, <2>2 DEF EndOfFile, ReadCancel, CancelHead, LookUp, CancelStep,
         CancelFails, Goto, Staying, LockedPc, MatchPc
    <3> QED
      BY <1>2, <2>1, <2>2, <3>1, SameLevelsApart
         DEF Read, Work, Cancel, FewerInLevels, InLevel
  <2>3. CASE RejectUnknown(c) \/ RejectGone(c) \/ AcceptCancel(c)
    <3>1. ~Staying(c)'
      BY <1>1, <2>3 DEF RejectUnknown, RejectGone, AcceptCancel, Finish, Goto, Staying,
         LockedPc, MatchPc
    <3> QED
      BY <1>2, <2>1, <2>3, <3>1, SameLevelsApart
         DEF Work, Cancel, FewerInLevels, InLevel
  <2> QED
    BY <1>4, <2>2, <2>3 DEF Cancel
<1> QED
  BY <1>3, <1>4

(* Steps on the way from the commit to the order's place.                  *)
LEMMA OnTheWayApart ==
  ASSUME LockInv, CrossInv, NEW c \in Client,
         \/ UnlockBook(c) \/ FillResting(c) \/ FillNew(c)
         \/ PlaceFound(c) \/ AddStep(c) \/ NewLevel(c) \/ RegisterOrder(c)
  PROVE  CrossInv'
<1>1. /\ pc \in [Client -> Pc] /\ v \in [Client -> Int]
      /\ owner \in [Mutex -> Client \cup {Nil}]
  BY DEF LockInv, IInv, ShapeOK, NumbersOK
<1>2. cmd' = cmd /\ queue' = queue /\ my' = my /\ v' = v
  BY DEF UnlockBook, FillResting, FillNew, PlaceFound, AddStep, NewLevel,
     RegisterOrder, orderVars, bookVars, threadVars
<1>3. CASE UnlockBook(c) \/ FillResting(c) \/ FillNew(c)
  <2>1. pc[c] \in LockedPc /\ pc'[c] \in LockedPc
    BY <1>1, <1>3 DEF UnlockBook, FillResting, FillNew, Goto, threadVars, LockedPc, MatchPc
  <2>2. \A n \in Node : owner'[n] = owner[n]
    BY <1>1, <1>3, Names DEF UnlockBook, FillResting, FillNew
  <2>3. Staying(c)' => Staying(c)
    BY <1>2, <2>1 DEF Staying, LockedPc, MatchPc
  <2>4. ASSUME Staying(c) PROVE StillFaces(c)
    BY <1>2, <2>1, <2>2, <2>4 DEF StillFaces, CrossInv, FacesItsLevels, InLevel, Holds
  <2> QED
    BY <1>2, <1>3, <2>3, <2>4, SameLevelsApart
       DEF Work, Match, FewerInLevels, InLevel
<1>4. CASE PlaceFound(c) \/ AddStep(c) \/ NewLevel(c) \/ RegisterOrder(c)
  <2>1. Staying(c) /\ pc[c] \notin LockedPc
    BY <1>4 DEF PlaceFound, AddStep, NewLevel, RegisterOrder, Staying, LockedPc, MatchPc
  <2>2. StillFaces(c)
    BY <1>2, <2>1 DEF StillFaces, CrossInv, FacesItsLevels, InLevel
  <2> QED
    BY <1>2, <1>4, <2>2, SameLevelsApart
       DEF Work, AddToBook, FewerInLevels, InLevel
<1> QED
  BY <1>3, <1>4

(* An order in a level rests in one that an order made.                    *)
LEMMA InLevelOf ==
  ASSUME LockInv, SortInv, NEW n \in Node, NEW p, InLevel(n, p)
  PROVE  /\ n \in OrderId /\ n \notin Heads /\ IsLinked(n) /\ SameLevel(p, n)
         /\ p \in OrderId /\ cmd[p] # Nil /\ cmd[n] # Nil
<1>1. PICK i \in DOMAIN queue[n] : queue[n][i] = p
  BY DEF InLevel
<1>2. n \in OrderId /\ IsLinked(n) /\ SameLevel(p, n)
  BY <1>1 DEF SortInv, LevelsSorted, Belongs
<1> QED
  BY <1>1, <1>2, TimesOf, LinkedIsRead, Names

(* matchOrder leaves a level without orders: no order is left in it that   *)
(* faces the one it adds.                                                  *)
LEMMA AdvanceApart ==
  ASSUME LockInv, SortInv, CrossInv, NEW c \in Client, Work(c), pc[c] \in MatchPc,
         NEW n \in Node, n = curr[c], count[my[c]] > 0 => ToTrade(n) = 0, Advance(c),
         cmd' = cmd, FewerInLevels,
         count[my[c]] > 0 => \A p : ~InLevel(n, p)'
  PROVE  CrossInv'
<1>1. \A m \in Node : Holds(c, m)' <=> Holds(c, m) /\ m # n
  BY LeavesLock
<1>2. pc \in [Client -> Pc]
  BY DEF LockInv, IInv, ShapeOK
<1>3. pc[c] \in LockedPc
  BY DEF LockedPc
<1>4. CASE GoesOn(my[c], next[n]) /\ Goto(c, "match") /\ UNCHANGED <<my, v>>
  <2>1. pc'[c] \in LockedPc /\ pc'[c] \notin {"add", "new level", "register", "enqueue"}
    BY <1>2, <1>4 DEF Goto, LockedPc, MatchPc
  <2>2. Staying(c)' => Staying(c)
    BY <1>3, <1>4, <2>1 DEF Staying
  <2>3. count[my[c]] > 0
    BY <1>4 DEF GoesOn
  <2>4. ASSUME Staying(c), NEW m \in Node, NEW p \in OrderId,
               InLevel(m, p)', Facing(my[c], p)
        PROVE  Holds(c, m)'
    <3>1. Holds(c, m)
      BY <2>4 DEF CrossInv, FacesItsLevels, FewerInLevels
    <3>2. m # n
      BY <2>3, <2>4
    <3> QED
      BY <1>1, <3>1, <3>2
  <2>5. Staying(c)' => StillFaces(c)
    BY <1>4, <2>1, <2>2, <2>4 DEF StillFaces
  <2> QED
    BY <2>5, SameLevelsApart
<1>5. CASE ~GoesOn(my[c], next[n]) /\ count[my[c]] > 0 /\ Goto(c, "add")
           /\ UNCHANGED <<my, v>>
  <2>1. Staying(c)
    <3>1. PICK level \in [Nat -> Node], left \in [Nat -> Int], a \in Nat, b \in Nat :
            Path(c, level, left, a, b)
      BY <1>3 DEF LockInv, LocksExact, LocksOf, PathPc, HasPath
    <3>2. Holds(c, OwnHead(c))
      BY <1>5, <3>1, PathEnds
    <3>3. v[c] > 0
      BY <3>1, <3>2 DEF Path, HoldsPath
    <3> QED
      BY <1>3, <3>3 DEF Staying
  <2>2. \A m \in Node : Holds(c, m)' <=> m = OwnHead(c)
    BY <1>1, <1>5, EndOfPath
  <2>3. ASSUME NEW m \in Node, NEW p \in OrderId, InLevel(m, p)', Facing(my[c], p)
        PROVE  FALSE
    <3>1. Holds(c, m) /\ InLevel(m, p)
      BY <2>1, <2>3 DEF CrossInv, FacesItsLevels, FewerInLevels
    <3>2. m # n
      BY <1>5, <2>3
    <3>3. m = OwnHead(c)
      BY <1>1, <2>2, <3>1, <3>2
    <3>4. OwnHead(c) \in Heads
      BY OrderOf DEF MatchPc, OrderPc
    <3> QED
      BY <3>1, <3>3, <3>4, InLevelOf
  <2>4. StillFaces(c)
    BY <1>5, <2>1, <2>3 DEF StillFaces
  <2> QED
    BY <2>4, SameLevelsApart
<1>6. CASE Finish(c)
  <2>1. ~Staying(c)'
    BY <1>2, <1>6 DEF Finish, Goto, Staying, LockedPc, MatchPc
  <2> QED
    BY <2>1, SameLevelsApart
<1> QED
  BY <1>4, <1>5, <1>6 DEF Advance

LEMMA MatchHeadApart ==
  ASSUME LockInv, SortInv, CrossInv, NEW c \in Client, MatchHead(c)
  PROVE  CrossInv'
<1>1. pc[c] = "match head" /\ pc[c] \in MatchPc /\ Advance(c) /\ Work(c)
  BY DEF MatchHead, MatchPc, Work, Match
<1>2. cmd' = cmd /\ queue' = queue
  BY DEF MatchHead, orderVars
<1>3. PICK n \in Node : n = curr[c]
  BY <1>1, HoldsLevel DEF LockInv
<1>4. n \in Heads
  <2>1. PICK level \in [Nat -> Node], left \in [Nat -> Int], a \in Nat, b \in Nat :
          Path(c, level, left, a, b)
    BY <1>1 DEF LockInv, LocksExact, LocksOf, PathPc, HasPath
  <2>2. n = OtherHead(c)
    BY <1>1, <1>3, <2>1 DEF Path, AtPath
  <2> QED
    BY <1>1, <2>2, OrderOf DEF OrderPc
<1>5. ToTrade(n) = 0
  BY <1>4 DEF ToTrade
<1>6. \A p : ~InLevel(n, p)'
  BY <1>2, <1>4, InLevelOf DEF InLevel
<1>7. FewerInLevels
  BY <1>2 DEF FewerInLevels, InLevel
<1> QED
  BY <1>1, <1>2, <1>3, <1>5, <1>6, <1>7, AdvanceApart

LEMMA LeaveLevelApart ==
  ASSUME LockInv, SortInv, CrossInv, NEW c \in Client, LeaveLevel(c)
  PROVE  CrossInv'
<1>1. pc[c] = "match" /\ pc[c] \in MatchPc /\ Advance(c) /\ LevelDone(c) /\ Work(c)
  BY DEF LeaveLevel, MatchPc, Work, Match
<1>2. cmd' = cmd
  BY DEF LeaveLevel, orderVars
<1>3. PICK n \in Node : n = curr[c]
  BY <1>1, HoldsLevel DEF LockInv
<1>4. PICK k \in Nat : k = popped[c]
  BY LocalTypes
<1>5. PICK q \in Seq(OrderId) : q = queue[n]
  BY DEF LockInv, NumbersOK
<1>6. k <= Len(q)
  BY <1>1, <1>3, <1>4, <1>5 DEF LockInv, PoppedInLevel
<1>7. PICK r : r = PopBack(q, k)
  OBVIOUS
<1>8. /\ DOMAIN r = 1 .. Len(q) - k
      /\ \A i \in DOMAIN r : i \in DOMAIN q /\ r[i] = q[i]
  BY <1>6, <1>7, Popped
<1>9. queue'[n] = r /\ \A m \in Node : m # n => queue'[m] = queue[m]
  <2>1. queue \in [Node -> Seq(OrderId)]
    BY DEF LockInv, NumbersOK
  <2>2. queue' = [queue EXCEPT ![n] = r]
    BY <1>3, <1>4, <1>5, <1>7 DEF LeaveLevel
  <2> QED
    BY <2>1, <2>2
<1>10. FewerInLevels
  BY <1>5, <1>8, <1>9 DEF FewerInLevels, InLevel
<1>11. ASSUME count[my[c]] > 0 PROVE ToTrade(n) = 0 /\ \A p : ~InLevel(n, p)'
  <2>1. k = Len(q)
    BY <1>1, <1>3, <1>4, <1>5, <1>11 DEF LevelDone
  <2>2. Matching(c, n) /\ AreLeft(n, 0)
    <3>1. Len(queue[n]) - popped[c] = 0
      BY <1>4, <1>5, <2>1
    <3> QED
      BY <1>1, <1>3, <3>1 DEF Matching, AreLeft
  <2>3. volume[n] = 0
    BY <2>2 DEF LockInv, VolumesExact, IsVolume, Sums
  <2>4. DOMAIN r = {}
    BY <1>8, <2>1
  <2> QED
    BY <1>9, <2>3, <2>4 DEF ToTrade, InLevel
<1> QED
  BY <1>1, <1>2, <1>3, <1>10, <1>11, AdvanceApart

(* Commands stay, so orders face each other as before.                     *)
LEMMA ApartAfter ==
  ASSUME cmd' = cmd,
         \A d, e \in Client : Staying(d)' /\ Staying(e)' => ~Facing(my'[d], my'[e]),
         \A d \in Client, n \in Node, p \in OrderId :
           Staying(d)' /\ InLevel(n, p)' /\ Facing(my'[d], p) =>
             pc'[d] \in LockedPc /\ Holds(d, n)',
         \A m, n \in Node, o, p \in OrderId :
           InLevel(m, o)' /\ InLevel(n, p)' => ~Facing(o, p)
  PROVE  CrossInv'
<1>1. \A o, p : (cmd'[o].side # cmd'[p].side
                 /\ ~Better(Opposite(cmd'[o].side), cmd'[o].price,
                            IF p \in Heads THEN 0 ELSE cmd'[p].price))
                <=> Facing(o, p)
  BY DEF Facing, Trades, PriceOf
<1>2. ThreadsApart'
  BY <1>1 DEF ThreadsApart, Facing, Trades, PriceOf
<1>3. FacesItsLevels'
  BY <1>1 DEF FacesItsLevels, Facing, Trades, PriceOf
<1>4. LevelsApart'
  BY <1>1 DEF LevelsApart, Facing, Trades, PriceOf
<1> QED
  BY <1>2, <1>3, <1>4 DEF CrossInv

LEMMA StayingOrder ==
  ASSUME LockInv, NEW c \in Client, Staying(c)
  PROVE  pc[c] \in OrderPc /\ my[c] \in OrderId /\ cmd[my[c]] # Nil
<1>1. pc[c] \in OrderPc
  BY DEF Staying, LockedPc, MatchPc, OrderPc
<1> QED
  BY <1>1, OrderOf

(* When a thread gets the head of its side, every thread that stays with an *)
(* order that faces its own would have to hold what it holds.              *)
LEMMA NobodyFaces ==
  ASSUME LockInv, SortInv, NEW c \in Client, pc[c] = "lock own",
         NEW d \in Client, d # c, Staying(d)
  PROVE  ~Facing(my[c], my[d])
<1> SUFFICES ASSUME Facing(my[c], my[d]) PROVE FALSE
  OBVIOUS
<1>1. PICK o \in OrderId : o = my[c] /\ cmd[o] # Nil
  BY OrderOf DEF OrderPc
<1>2. PICK p \in OrderId : p = my[d] /\ cmd[p] # Nil
  BY StayingOrder
<1>3. \A n \in Node : ~(Holds(c, n) /\ Holds(d, n))
  BY DEF Holds
<1>4. OtherHead(c) = OwnHead(d) /\ OwnHead(d) \in Node /\ Holds(c, OwnHead(d))
  <2>1. OtherHead(c) = OwnHead(d)
    BY <1>1, <1>2, Faces DEF OtherHead, OwnHead
  <2>2. PICK level \in [Nat -> Node], left \in [Nat -> Int], a \in Nat, b \in Nat :
          Path(c, level, left, a, b)
    BY DEF LockInv, LocksExact, LocksOf, PathPc, HasPath
  <2>3. level[a] = OtherHead(c)
    BY <2>2 DEF Path, AtPath
  <2>4. Holds(c, level[a])
    BY <2>2, PathLevels DEF PathPc
  <2> QED
    BY <2>1, <2>3, <2>4
<1>5. ASSUME NEW n \in OrderId, Holds(d, n),
             SameLevel(p, n) \/ (cmd[n].side = cmd[p].side
                                 /\ Better(cmd[p].side, cmd[n].price, cmd[p].price))
      PROVE  FALSE
  <2>1. owner[n] # Nil /\ n \in Node
    BY <1>5, Names DEF Holds
  <2>2. IsLinked(n) /\ cmd[n] # Nil
    BY <2>1, LinkedIsRead DEF LockInv, Places, LinkedByMaker, IsLinked
  <2>3. Facing(o, n)
    BY <1>1, <1>2, <1>5, <2>2, Faces
  <2> QED
    BY <1>1, <1>3, <1>5, <2>1, <2>2, <2>3, LocksAllItFaces
<1>6. CASE pc[d] \in LockedPc /\ v[d] > 0
  <2>1. PICK level \in [Nat -> Node], left \in [Nat -> Int], a \in Nat, b \in Nat :
          Path(d, level, left, a, b)
    BY <1>6 DEF LockInv, LocksExact, LocksOf, PathPc, LockedPc, HasPath
  <2>2. Holds(d, OwnHead(d))
    BY <1>6, <2>1 DEF Path, HoldsPath
  <2> QED
    BY <1>3, <1>4, <2>2
<1>7. CASE pc[d] \in {"add", "new level", "register", "enqueue"}
  <2>1. PICK n \in Node : n = curr[d] /\ Holds(d, n)
    BY <1>7, HoldsLevel DEF LockInv, OneLockPc
  <2>2. CASE pc[d] \in {"register", "enqueue"}
    <3>1. n \in OrderId /\ SameLevel(p, n)
      BY <1>2, <2>1, <2>2 DEF SortInv, ThreadsAtPlace, AtPlace
    <3> QED
      BY <1>5, <2>1, <3>1
  <2>3. CASE pc[d] \in {"add", "new level"}
    <3>1. InFront(n, p)
      BY <1>2, <2>1, <2>3 DEF SortInv, ThreadsAtPlace, AtPlace
    <3>2. n # HeadOf(cmd[p].side)
      BY <1>2, <1>3, <1>4, <2>1 DEF OwnHead
    <3> QED
      BY <1>5, <2>1, <3>1, <3>2 DEF InFront
  <2> QED
    BY <1>7, <2>2, <2>3
<1> QED
  BY <1>6, <1>7 DEF Staying

LEMMA LockOwnApart ==
  ASSUME LockInv, SortInv, CrossInv, NEW c \in Client, LockOwn(c)
  PROVE  CrossInv'
<1>1. pc[c] = "lock own" /\ Work(c)
  BY DEF LockOwn, Work, Prelude
<1>2. cmd' = cmd /\ queue' = queue /\ my' = my
  BY DEF LockOwn, orderVars
<1>3. PICK o \in OrderId : o = my[c] /\ cmd[o] # Nil
  BY <1>1, OrderOf DEF OrderPc
<1>4. pc'[c] = "commit" /\ pc'[c] \in LockedPc
  BY DEF LockOwn, Goto, LockInv, IInv, ShapeOK, LockedPc
<1>5. \A d \in Client \ {c} : /\ Staying(d)' <=> Staying(d)
                              /\ pc'[d] = pc[d]
                              /\ \A n \in Node : Holds(d, n) => Holds(d, n)'
  BY <1>1, OthersWait, LocksOthersKeep, OthersFace
<1>6. \A n \in Node : Holds(c, n) => Holds(c, n)'
  BY Names DEF LockOwn, Holds, LockInv, IInv, ShapeOK
<1>7. ~Facing(o, o)
  BY DEF Facing
<1>8. \A d \in Client \ {c} : Staying(d) => ~Facing(o, my[d]) /\ ~Facing(my[d], o)
  <2>1. ASSUME NEW d \in Client \ {c}, Staying(d)
        PROVE  ~Facing(o, my[d]) /\ ~Facing(my[d], o)
    <3>1. ~Facing(o, my[d])
      BY <1>1, <1>3, <2>1, NobodyFaces
    <3>2. my[d] \in OrderId /\ cmd[my[d]] # Nil
      BY <2>1, StayingOrder
    <3> QED
      BY <1>3, <3>1, <3>2, Faces
  <2> QED
    BY <2>1
<1>9. \A d, e \in Client : Staying(d)' /\ Staying(e)' => ~Facing(my'[d], my'[e])
  BY <1>2, <1>3, <1>5, <1>7, <1>8 DEF CrossInv, ThreadsApart
<1>10. ASSUME NEW d \in Client, NEW n \in Node, NEW p \in OrderId,
              Staying(d)', InLevel(n, p)', Facing(my'[d], p)
       PROVE  pc'[d] \in LockedPc /\ Holds(d, n)'
  <2>1. InLevel(n, p) /\ Facing(my[d], p)
    BY <1>2, <1>10 DEF InLevel
  <2>2. CASE d # c
    <3>1. d \in Client \ {c} /\ Staying(d)
      BY <1>5, <1>10, <2>2
    <3>2. pc[d] \in LockedPc /\ Holds(d, n)
      BY <2>1, <3>1 DEF CrossInv, FacesItsLevels
    <3> QED
      BY <1>5, <3>1, <3>2
  <2>3. CASE d = c
    <3>1. n \in OrderId /\ IsLinked(n) /\ SameLevel(p, n) /\ cmd[p] # Nil /\ cmd[n] # Nil
      BY <2>1, InLevelOf
    <3>2. Facing(o, n)
      BY <1>3, <2>1, <2>3, <3>1, Faces
    <3>3. Holds(c, n)
      BY <1>1, <1>3, <3>1, <3>2, LocksAllItFaces
    <3> QED
      BY <1>4, <1>6, <2>3, <3>3
  <2> QED
    BY <2>2, <2>3
<1>11. \A m, n \in Node, x, y \in OrderId :
         InLevel(m, x)' /\ InLevel(n, y)' => ~Facing(x, y)
  BY <1>2 DEF CrossInv, LevelsApart, InLevel
<1> QED
  BY <1>2, <1>9, <1>10, <1>11, ApartAfter

(* The order that joins a level faces none that rests, because its thread  *)
(* stayed, and none that is still to be added.                             *)
LEMMA EnqueueApart ==
  ASSUME LockInv, CrossInv, NEW c \in Client, Enqueue(c)
  PROVE  CrossInv'
<1>1. pc[c] = "enqueue" /\ Work(c) /\ cmd' = cmd /\ Finish(c)
  BY DEF Enqueue, Work, AddToBook, orderVars
<1>2. PICK o \in OrderId : o = my[c] /\ cmd[o] # Nil
  BY <1>1, OrderOf DEF OrderPc
<1>3. PICK n \in Node : n = curr[c]
  BY <1>1, HoldsLevel DEF LockInv, OneLockPc
<1>4. PICK q \in Seq(OrderId) : q = queue[n]
  BY DEF LockInv, NumbersOK
<1>5. PICK r : r = InsertAt(q, Position(q, cmd[o].time), o)
  OBVIOUS
<1>6. \A i \in DOMAIN r : r[i] = o \/ \E j \in DOMAIN q : r[i] = q[j]
  <2>1. PICK time \in Nat : time = cmd[o].time
    BY <1>2, CommandOf
  <2>2. \A i \in DOMAIN q : cmd[q[i]].time \in Nat
    BY <1>4, TimesOf
  <2>3. PICK l \in Nat, k \in Nat, s \in Seq(OrderId) :
          /\ l = Len(q) /\ 1 <= k /\ k <= l + 1 /\ DOMAIN q = 1 .. l
          /\ s = InsertAt(q, Position(q, time), o)
          /\ Len(s) = l + 1 /\ DOMAIN s = 1 .. l + 1
          /\ \A i \in 1 .. l + 1 :
               s[i] = IF i < k THEN q[i] ELSE IF i = k THEN o ELSE q[i - 1]
          /\ \A j \in 1 .. k - 1 : time <= cmd[q[j]].time
          /\ k <= l => time > cmd[q[k]].time
    BY <2>2, PlacedInTime
  <2>4. \A i \in 1 .. l + 1 : \/ i = k
                              \/ i < k /\ i \in 1 .. l
                              \/ ~(i < k) /\ i # k /\ i - 1 \in 1 .. l
    <3>1. k \in Nat /\ l \in Nat /\ 1 <= k /\ k <= l + 1
      BY <2>3
    <3> QED
      BY <3>1
  <2>5. \A i \in DOMAIN s : s[i] = o \/ \E j \in DOMAIN q : s[i] = q[j]
    BY <2>3, <2>4
  <2>6. r = s
    BY <1>5, <2>1, <2>3
  <2> QED
    BY <2>5, <2>6
<1>7. queue'[n] = r /\ \A m \in Node : m # n => queue'[m] = queue[m]
  <2>1. queue \in [Node -> Seq(OrderId)]
    BY DEF LockInv, NumbersOK
  <2>2. queue' = [queue EXCEPT ![n] = r]
    BY <1>2, <1>3, <1>4, <1>5 DEF Enqueue
  <2> QED
    BY <2>1, <2>2
<1>8. \A m \in Node : \A p : InLevel(m, p)' => p = o \/ InLevel(m, p)
  BY <1>4, <1>6, <1>7 DEF InLevel
<1>9. Staying(c) /\ pc[c] \notin LockedPc /\ ~Staying(c)'
  <2>1. pc'[c] = "read"
    BY <1>1, FinishGoes
  <2> QED
    BY <1>1, <2>1 DEF Staying, LockedPc, MatchPc
<1>10. \A d \in Client \ {c} : /\ Staying(d)' <=> Staying(d)
                               /\ pc'[d] = pc[d] /\ my'[d] = my[d]
                               /\ \A m \in Node : Holds(d, m) => Holds(d, m)'
  BY <1>1, OthersWait, LocksOthersKeep, OthersFace
<1>11. \A d, e \in Client : Staying(d)' /\ Staying(e)' => ~Facing(my'[d], my'[e])
  BY <1>9, <1>10 DEF CrossInv, ThreadsApart
<1>12. ASSUME NEW d \in Client, NEW m \in Node, NEW p \in OrderId,
              Staying(d)', InLevel(m, p)', Facing(my'[d], p)
       PROVE  pc'[d] \in LockedPc /\ Holds(d, m)'
  <2>1. d \in Client \ {c} /\ Staying(d) /\ Facing(my[d], p)
    BY <1>9, <1>10, <1>12
  <2>2. p # o
    BY <1>2, <1>9, <2>1 DEF CrossInv, ThreadsApart
  <2>3. pc[d] \in LockedPc /\ Holds(d, m)
    BY <1>8, <1>12, <2>1, <2>2 DEF CrossInv, FacesItsLevels
  <2> QED
    BY <1>10, <2>1, <2>3
<1>13. ASSUME NEW m \in Node, NEW p \in OrderId, InLevel(m, p)
       PROVE  ~Facing(o, p) /\ ~Facing(p, o)
  <2>1. ~Facing(o, p)
    BY <1>2, <1>9, <1>13 DEF CrossInv, FacesItsLevels
  <2>2. cmd[p] # Nil
    BY <1>13, TimesOf DEF InLevel
  <2> QED
    BY <1>2, <2>1, <2>2, Faces
<1>14. ~Facing(o, o)
  BY DEF Facing
<1>15. \A m, k \in Node, x, y \in OrderId :
         InLevel(m, x)' /\ InLevel(k, y)' => ~Facing(x, y)
  BY <1>8, <1>13, <1>14 DEF CrossInv, LevelsApart
<1> QED
  BY <1>1, <1>11, <1>12, <1>15, ApartAfter

(* A new order is with its thread only, which does not stay yet.           *)
LEMMA ReadOrderApart ==
  ASSUME LockInv, CrossInv, NEW c \in Client, NEW o \in OrderId,
         NEW offer \in Offer, ReadOrder(c, o, offer)
  PROVE  CrossInv'
<1>1. Read(c) /\ queue' = queue /\ cmd[o] = Nil
  BY DEF ReadOrder, Read, bookVars
<1>2. \A x \in OrderId : cmd[x] # Nil => cmd'[x] = cmd[x]
  BY DEF ReadOrder, LockInv, IInv, ShapeOK
<1>3. pc'[c] = "lock book" /\ ~Staying(c)'
  BY DEF ReadOrder, Goto, LockInv, IInv, ShapeOK, Staying, LockedPc, MatchPc
<1>4. \A d \in Client \ {c} : /\ Staying(d)' <=> Staying(d)
                              /\ pc'[d] = pc[d] /\ my'[d] = my[d]
                              /\ \A n \in Node : Holds(d, n) => Holds(d, n)'
  BY <1>1, OthersWait, LocksOthersKeep, OthersFace
<1>5. \A n \in Node : \A p : InLevel(n, p)' <=> InLevel(n, p)
  BY <1>1 DEF InLevel
<1>6. \A n \in Node : \A p \in OrderId : InLevel(n, p) => cmd'[p] = cmd[p]
  BY <1>2, TimesOf DEF InLevel
<1>7. \A d \in Client : Staying(d) => my[d] \in OrderId /\ cmd'[my[d]] = cmd[my[d]]
  BY <1>2, StayingOrder
<1>8. \A x, y \in OrderId :
        cmd'[x] = cmd[x] /\ cmd'[y] = cmd[y] => (Facing(x, y)' <=> Facing(x, y))
  BY DEF Facing, Trades, PriceOf
<1>9. ThreadsApart'
  <2>1. ASSUME NEW d \in Client, NEW e \in Client, Staying(d)', Staying(e)'
        PROVE  ~Facing(my[d], my[e])'
    <3>1. d # c /\ e # c /\ Staying(d) /\ Staying(e)
      BY <1>3, <1>4, <2>1
    <3>2. PICK x \in OrderId, y \in OrderId :
            /\ x = my[d] /\ y = my[e] /\ x = my'[d] /\ y = my'[e]
            /\ cmd'[x] = cmd[x] /\ cmd'[y] = cmd[y]
      BY <1>4, <1>7, <3>1
    <3>3. ~Facing(x, y)
      BY <3>1, <3>2 DEF CrossInv, ThreadsApart
    <3>4. ~Facing(x, y)'
      BY <1>8, <3>2, <3>3
    <3> QED
      BY <3>2, <3>4 DEF Facing, Trades, PriceOf
  <2> QED
    BY <2>1 DEF ThreadsApart
<1>10. FacesItsLevels'
  <2>1. ASSUME NEW d \in Client, NEW n \in Node, NEW p \in OrderId,
               Staying(d)', InLevel(n, p)', Facing(my[d], p)'
        PROVE  pc'[d] \in LockedPc /\ Holds(d, n)'
    <3>1. d \in Client \ {c} /\ Staying(d) /\ InLevel(n, p)
      BY <1>3, <1>4, <1>5, <2>1
    <3>2. PICK x \in OrderId : x = my[d] /\ x = my'[d] /\ cmd'[x] = cmd[x]
      BY <1>4, <1>7, <3>1
    <3>3. Facing(x, p)'
      BY <2>1, <3>2 DEF Facing, Trades, PriceOf
    <3>4. Facing(x, p)
      BY <1>6, <1>8, <3>1, <3>2, <3>3
    <3>5. pc[d] \in LockedPc /\ Holds(d, n)
      BY <3>1, <3>2, <3>4 DEF CrossInv, FacesItsLevels
    <3> QED
      BY <1>4, <3>1, <3>5
  <2> QED
    BY <2>1 DEF FacesItsLevels
<1>11. LevelsApart'
  BY <1>5, <1>6, <1>8 DEF CrossInv, LevelsApart
<1> QED
  BY <1>9, <1>10, <1>11 DEF CrossInv

LEMMA StaysApart ==
  ASSUME LockInv, SortInv, CrossInv, [Next]_vars
  PROVE  CrossInv'
<1>1. ASSUME NEW c \in Client, Read(c) \/ EndOfFile(c) PROVE CrossInv'
  BY <1>1, ReadOrderApart, QuietApart DEF Read
<1>2. ASSUME NEW c \in Client, Prelude(c) \/ UnlockBook(c) PROVE CrossInv'
  BY <1>2, PreludeApart, LockOwnApart, OnTheWayApart
<1>3. ASSUME NEW c \in Client, Match(c) PROVE CrossInv'
  BY <1>3, MatchHeadApart, OnTheWayApart, LeaveLevelApart DEF Match
<1>4. ASSUME NEW c \in Client, AddToBook(c) PROVE CrossInv'
  BY <1>4, OnTheWayApart, EnqueueApart DEF AddToBook
<1>5. ASSUME NEW c \in Client, CancelHead(c) \/ Cancel(c) PROVE CrossInv'
  BY <1>5, QuietApart
<1>6. CASE UNCHANGED vars
  <2>1. UNCHANGED <<cmd, queue, pc, my, v, owner>>
    BY <1>6 DEF vars, orderVars, bookVars, threadVars
  <2>2. \A c \in Client : /\ Staying(c)' <=> Staying(c)
                          /\ pc'[c] = pc[c] /\ my'[c] = my[c]
                          /\ \A n \in Node : Holds(c, n)' <=> Holds(c, n)
    BY <2>1 DEF Staying, Holds
  <2>3. \A n \in Node, p \in OrderId : InLevel(n, p)' <=> InLevel(n, p)
    BY <2>1 DEF InLevel
  <2>4. \A d, e \in Client : Staying(d)' /\ Staying(e)' => ~Facing(my'[d], my'[e])
    BY <2>2 DEF CrossInv, ThreadsApart
  <2>5. \A d \in Client, n \in Node, p \in OrderId :
          Staying(d)' /\ InLevel(n, p)' /\ Facing(my'[d], p) =>
            pc'[d] \in LockedPc /\ Holds(d, n)'
    BY <2>2, <2>3 DEF CrossInv, FacesItsLevels
  <2>6. \A m, n \in Node, o, p \in OrderId :
          InLevel(m, o)' /\ InLevel(n, p)' => ~Facing(o, p)
    BY <2>3 DEF CrossInv, LevelsApart
  <2> QED
    BY <2>1, <2>4, <2>5, <2>6, ApartAfter
<1> QED
  BY <1>1, <1>2, <1>3, <1>4, <1>5, <1>6 DEF Next, Work, Terminated

LEMMA ApartIsNotCrossed == LockInv /\ CrossInv => NeverCrossed
<1> SUFFICES ASSUME LockInv, CrossInv, NEW m \in Node, NEW n \in Node,
                    NEW o \in ToSet(queue[m]), NEW p \in ToSet(queue[n]),
                    cmd[o].side = "buy", cmd[p].side = "sell"
             PROVE  cmd[o].price < cmd[p].price
  BY DEF NeverCrossed
<1>1. InLevel(m, o) /\ InLevel(n, p)
  BY DEF InLevel, ToSet
<1>2. o \in OrderId /\ cmd[o] # Nil /\ p \in OrderId /\ cmd[p] # Nil
  BY <1>1, TimesOf DEF InLevel
<1>3. ~Facing(o, p)
  BY <1>1, <1>2 DEF CrossInv, LevelsApart
<1>4. cmd[o].price \in Nat /\ cmd[p].price \in Nat /\ PriceOf(p) = cmd[p].price
  BY <1>2, CommandOf, Names DEF PriceOf
<1> QED
  BY <1>3, <1>4 DEF Facing, Trades, Better, Opposite

LEMMA InitApart == Init => CrossInv
<1> SUFFICES ASSUME Init PROVE CrossInv
  OBVIOUS
<1>1. \A c \in Client : ~Staying(c)
  BY DEF Init, Staying, LockedPc, MatchPc
<1>2. \A n \in Node : \A p : ~InLevel(n, p)
  BY DEF Init, InLevel
<1> QED
  BY <1>1, <1>2 DEF CrossInv, ThreadsApart, FacesItsLevels, LevelsApart

(* The lists stay sorted, a price has one level and a level keeps the      *)
(* earliest input time last, and no resting buy order could trade with a   *)
(* resting sell order, although orders are added hand over hand while      *)
(* others match, add and cancel in the same lists.  Prices have to be      *)
(* above 0, the price of the list heads.                                   *)
THEOREM BooksStayInOrder == PricesAboveZero => (Spec /\ []Fits => []BooksInOrder)
<1> SUFFICES ASSUME PricesAboveZero PROVE Spec /\ []Fits => []BooksInOrder
  OBVIOUS
<1>1. Init => SortInv /\ CrossInv
  BY InitSorted, InitApart
<1>2. LockInv /\ SortInv /\ CrossInv /\ [Next]_vars => SortInv' /\ CrossInv'
  BY StaysSorted, StaysApart
<1>3. LockInv /\ SortInv /\ CrossInv => BooksInOrder
  BY SortedIsSorted, ApartIsNotCrossed DEF BooksInOrder
<1> QED
  BY <1>1, <1>2, <1>3, LocksHold, PTL DEF Spec

-----------------------------------------------------------------------------
(* What an order traded is a fold over the printed lines: a line more adds *)
(* at most its size.                                                       *)
IsTrade(e, o) == e.kind = "executed" /\ (e.id = o \/ e.resting = o)

TradeRecursion(f, S, q, o) ==
  f = [s \in SUBSET S |->
         IF s = {} THEN 0
         ELSE IF IsTrade(q[Max(s)], o) THEN f[s \ {Max(s)}] + q[Max(s)].count
                                      ELSE f[s \ {Max(s)}]]

TradedIn(q, o) ==
  FoldLeft(LAMBDA sum, e :
             IF e.kind = "executed" /\ (e.id = o \/ e.resting = o)
             THEN sum + e.count ELSE sum, 0, q)

LEMMA TradedUnfold ==
  ASSUME NEW q, NEW o
  PROVE  TradedIn(q, o) = (CHOOSE f : TradeRecursion(f, DOMAIN q, q, o))[DOMAIN q]
BY DEF TradedIn, FoldLeft, MapThenFoldSet, TradeRecursion, IsTrade

LEMMA TradeRecursionLonger ==
  ASSUME NEW q, NEW o, NEW j \in Nat, NEW f, TradeRecursion(f, 1 .. j, q, o)
  PROVE  \E g : TradeRecursion(g, 1 .. j + 1, q, o)
<1>1. PICK i \in Nat : i = j + 1
  OBVIOUS
<1>2. PICK g : g = [s \in SUBSET (1 .. i) |->
                      IF i \in s THEN IF IsTrade(q[i], o) THEN f[s \ {i}] + q[i].count
                                                         ELSE f[s \ {i}]
                                 ELSE f[s]]
  OBVIOUS
<1>3. \A s \in SUBSET (1 .. i) :
        /\ s \ {i} \in SUBSET (1 .. j)
        /\ i \notin s => s \in SUBSET (1 .. j)
  <2>1. \A x \in 1 .. i : x # i => x \in 1 .. j
    BY <1>1
  <2> QED
    BY <2>1
<1>4. ASSUME NEW s \in SUBSET (1 .. i)
      PROVE  g[s] = IF s = {} THEN 0
                    ELSE IF IsTrade(q[Max(s)], o) THEN g[s \ {Max(s)}] + q[Max(s)].count
                                                 ELSE g[s \ {Max(s)}]
  <2>1. CASE i \in s
    <3>1. Max(s) = i
      <4>1. s \in SUBSET Nat /\ \A x \in s : x <= i
        OBVIOUS
      <4> QED
        BY <2>1, <4>1, MaxOf
    <3>2. g[s] = IF IsTrade(q[i], o) THEN f[s \ {i}] + q[i].count ELSE f[s \ {i}]
      BY <1>2, <2>1
    <3>3. g[s \ {i}] = f[s \ {i}]
      BY <1>2
    <3> QED
      BY <2>1, <3>1, <3>2, <3>3
  <2>2. CASE i \notin s
    <3>1. g[s] = f[s] /\ s \in SUBSET (1 .. j)
      BY <1>2, <1>3, <2>2
    <3>2. f[s] = IF s = {} THEN 0
                 ELSE IF IsTrade(q[Max(s)], o) THEN f[s \ {Max(s)}] + q[Max(s)].count
                                              ELSE f[s \ {Max(s)}]
      BY <3>1 DEF TradeRecursion
    <3>3. g[s \ {Max(s)}] = f[s \ {Max(s)}]
      <4>1. PICK r : r = s \ {Max(s)}
        OBVIOUS
      <4>2. r \in SUBSET (1 .. i) /\ i \notin r
        BY <2>2, <4>1
      <4> QED
        BY <1>2, <4>1, <4>2
    <3> QED
      BY <3>1, <3>2, <3>3
  <2> QED
    BY <2>1, <2>2
<1>5. g = [s \in SUBSET (1 .. i) |->
             IF s = {} THEN 0
             ELSE IF IsTrade(q[Max(s)], o) THEN g[s \ {Max(s)}] + q[Max(s)].count
                                          ELSE g[s \ {Max(s)}]]
  BY <1>2, <1>4
<1> QED
  BY <1>1, <1>5 DEF TradeRecursion

LEMMA TradeRecursionExists ==
  ASSUME NEW q, NEW o, NEW k \in Nat
  PROVE  \E f : TradeRecursion(f, 1 .. k, q, o)
<1> DEFINE S == {i \in Nat : ~\E f : TradeRecursion(f, 1 .. i, q, o)}
<1>1. ASSUME S # {} PROVE FALSE
  <2>1. S \in SUBSET Nat
    OBVIOUS
  <2>2. PICK i \in S : \A j \in S : i <= j
    <3> HIDE DEF S
    <3> QED
      BY <1>1, <2>1, Least
  <2>3. i # 0
    <3>1. PICK f : f = [s \in SUBSET (1 .. 0) |-> 0]
      OBVIOUS
    <3>2. \A s \in SUBSET (1 .. 0) : s = {}
      OBVIOUS
    <3>3. TradeRecursion(f, 1 .. 0, q, o)
      BY <3>1, <3>2 DEF TradeRecursion
    <3> QED
      BY <3>3
  <2>4. PICK j \in Nat : i = j + 1 /\ ~(i <= j)
    <3>1. i - 1 \in Nat /\ i = (i - 1) + 1 /\ ~(i <= i - 1)
      BY <2>3
    <3> QED
      BY <3>1
  <2>5. PICK f : TradeRecursion(f, 1 .. j, q, o)
    BY <2>2, <2>4
  <2>6. \E g : TradeRecursion(g, 1 .. i, q, o)
    BY <2>4, <2>5, TradeRecursionLonger
  <2> QED
    BY <2>6
<1> QED
  BY <1>1

(* The fold up to an index. *)
Totals(q, sum, k, o) ==
  /\ sum[0] = 0
  /\ \A i \in 1 .. k : sum[i] = IF IsTrade(q[i], o) THEN sum[i - 1] + q[i].count
                                                    ELSE sum[i - 1]

LEMMA TotalsOf ==
  ASSUME NEW q, NEW o, NEW k \in Nat, NEW f, TradeRecursion(f, 1 .. k, q, o)
  PROVE  \E sum : Totals(q, sum, k, o) /\ sum[k] = f[1 .. k]
<1>1. PICK sum : sum = [i \in 0 .. k |-> f[1 .. i]]
  OBVIOUS
<1>2. \A s \in SUBSET (1 .. k) :
        f[s] = IF s = {} THEN 0
               ELSE IF IsTrade(q[Max(s)], o) THEN f[s \ {Max(s)}] + q[Max(s)].count
                                            ELSE f[s \ {Max(s)}]
  BY DEF TradeRecursion
<1>3. sum[0] = 0
  <2>1. 1 .. 0 = {} /\ 0 \in 0 .. k
    OBVIOUS
  <2> QED
    BY <1>1, <1>2, <2>1
<1>4. ASSUME NEW i \in 1 .. k
      PROVE  sum[i] = IF IsTrade(q[i], o) THEN sum[i - 1] + q[i].count ELSE sum[i - 1]
  <2>1. PICK j \in Nat : j = i - 1 /\ j \in 0 .. k /\ i \in 0 .. k
    OBVIOUS
  <2>2. 1 .. i \in SUBSET (1 .. k)
    <3>1. \A x \in 1 .. i : x \in 1 .. k
      OBVIOUS
    <3> QED
      BY <3>1
  <2>3. i \in 1 .. i /\ 1 .. i # {} /\ (1 .. i) \ {i} = 1 .. j
    <3>1. i \in 1 .. i
      OBVIOUS
    <3>2. \A x \in 1 .. i : x # i => x \in 1 .. j
      BY <2>1
    <3>3. \A x \in 1 .. j : x \in 1 .. i /\ x # i
      BY <2>1
    <3> QED
      BY <3>1, <3>2, <3>3
  <2>4. Max(1 .. i) = i
    <3>1. 1 .. i \in SUBSET Nat /\ \A x \in 1 .. i : x <= i
      OBVIOUS
    <3> QED
      BY <2>3, <3>1, MaxOf
  <2>5. f[1 .. i] = IF IsTrade(q[i], o) THEN f[1 .. j] + q[i].count ELSE f[1 .. j]
    BY <1>2, <2>2, <2>3, <2>4
  <2> QED
    BY <1>1, <2>1, <2>5
<1>5. sum[k] = f[1 .. k]
  BY <1>1
<1> QED
  BY <1>3, <1>4, <1>5 DEF Totals

(* The totals of a sequence are one function, and numbers. *)
LEMMA TotalsAgree ==
  ASSUME NEW q, NEW r, NEW o, NEW k \in Nat, \A i \in 1 .. k : q[i] = r[i],
         NEW s, NEW t, Totals(q, s, k, o), Totals(r, t, k, o)
  PROVE  s[k] = t[k]
<1> DEFINE S == {i \in 0 .. k : s[i] # t[i]}
<1>1. ASSUME S # {} PROVE FALSE
  <2>1. S \in SUBSET Nat
    OBVIOUS
  <2>2. PICK i \in S : \A j \in S : i <= j
    <3> HIDE DEF S
    <3> QED
      BY <1>1, <2>1, Least
  <2>3. i # 0
    BY <2>2 DEF Totals
  <2>4. PICK j \in 0 .. k : j = i - 1 /\ ~(i <= j) /\ i \in 1 .. k
    BY <2>3
  <2>5. s[j] = t[j]
    BY <2>2, <2>4
  <2>6. s[i] = t[i]
    BY <2>4, <2>5 DEF Totals
  <2> QED
    BY <2>6
<1> QED
  BY <1>1

LEMMA TotalsTyped ==
  ASSUME NEW q, NEW o, NEW k \in Nat, NEW s, Totals(q, s, k, o),
         \A i \in 1 .. k : IsTrade(q[i], o) => q[i].count \in Nat
  PROVE  s[k] \in Nat
<1> DEFINE S == {i \in 0 .. k : s[i] \notin Nat}
<1>1. ASSUME S # {} PROVE FALSE
  <2>1. S \in SUBSET Nat
    OBVIOUS
  <2>2. PICK i \in S : \A j \in S : i <= j
    <3> HIDE DEF S
    <3> QED
      BY <1>1, <2>1, Least
  <2>3. i # 0
    BY <2>2 DEF Totals
  <2>4. PICK j \in 0 .. k : j = i - 1 /\ ~(i <= j) /\ i \in 1 .. k
    BY <2>3
  <2>5. s[j] \in Nat
    BY <2>2, <2>4
  <2>6. s[i] \in Nat
    BY <2>4, <2>5 DEF Totals
  <2> QED
    BY <2>6
<1> QED
  BY <1>1

LEMMA TradedIs ==
  ASSUME NEW q, NEW k \in Nat, DOMAIN q = 1 .. k, NEW o
  PROVE  \E sum : Totals(q, sum, k, o) /\ TradedIn(q, o) = sum[k]
<1>1. PICK f : f = CHOOSE g : TradeRecursion(g, DOMAIN q, q, o)
  OBVIOUS
<1>2. TradeRecursion(f, 1 .. k, q, o)
  BY <1>1, TradeRecursionExists
<1>3. TradedIn(q, o) = f[1 .. k]
  BY <1>1, TradedUnfold
<1> QED
  BY <1>2, <1>3, TotalsOf

LEMMA LinesOf ==
  ASSUME NEW q \in Seq(Line)
  PROVE  /\ \E k \in Nat : k = Len(q) /\ DOMAIN q = 1 .. k
         /\ \A i \in DOMAIN q : q[i] \in Line
OBVIOUS

LEMMA TradeCount ==
  ASSUME NEW e \in Line, NEW o, IsTrade(e, o)
  PROVE  e.count \in Nat
BY DEF Line, IsTrade

LEMMA TradedTyped ==
  ASSUME NEW q \in Seq(Line), NEW o
  PROVE  TradedIn(q, o) \in Nat
<1>1. PICK k \in Nat : DOMAIN q = 1 .. k
  BY LinesOf
<1>2. PICK sum : Totals(q, sum, k, o) /\ TradedIn(q, o) = sum[k]
  BY <1>1, TradedIs
<1>3. \A i \in 1 .. k : IsTrade(q[i], o) => q[i].count \in Nat
  BY <1>1, LinesOf, TradeCount
<1> QED
  BY <1>2, <1>3, TotalsTyped

(* Line after line. *)
LEMMA Longer ==
  ASSUME NEW q \in Seq(Line), NEW e \in Line, NEW k \in Nat, k = Len(q)
  PROVE  /\ DOMAIN q = 1 .. k
         /\ DOMAIN Append(q, e) = 1 .. k + 1 /\ Append(q, e)[k + 1] = e
         /\ \A i \in 1 .. k : Append(q, e)[i] = q[i]
OBVIOUS

LEMMA TradedLonger ==
  ASSUME NEW q \in Seq(Line), NEW e \in Line, NEW o
  PROVE  TradedIn(Append(q, e), o) = IF IsTrade(e, o) THEN TradedIn(q, o) + e.count
                                                     ELSE TradedIn(q, o)
<1>1. PICK k \in Nat : k = Len(q)
  BY LinesOf
<1>2. PICK r : r = Append(q, e)
  OBVIOUS
<1>3. DOMAIN q = 1 .. k /\ DOMAIN r = 1 .. k + 1 /\ r[k + 1] = e
      /\ \A i \in 1 .. k : r[i] = q[i]
  BY <1>1, <1>2, Longer
<1>4. PICK s : Totals(q, s, k, o) /\ TradedIn(q, o) = s[k]
  BY <1>3, TradedIs
<1>5. PICK l \in Nat : l = k + 1
  OBVIOUS
<1>6. PICK t : Totals(r, t, l, o) /\ TradedIn(r, o) = t[l]
  BY <1>3, <1>5, TradedIs
<1>7. Totals(r, t, k, o)
  <2>1. \A i \in 1 .. k : i \in 1 .. l
    BY <1>5
  <2> QED
    BY <1>6, <2>1 DEF Totals
<1>8. s[k] = t[k]
  BY <1>3, <1>4, <1>7, TotalsAgree
<1>9. t[l] = IF IsTrade(e, o) THEN t[k] + e.count ELSE t[k]
  <2>1. l \in 1 .. l /\ l - 1 = k
    BY <1>5
  <2>2. r[l] = e
    BY <1>3, <1>5
  <2> QED
    BY <1>6, <2>1, <2>2 DEF Totals
<1> QED
  BY <1>2, <1>4, <1>6, <1>8, <1>9

LEMMA TradedBefore ==
  ASSUME NEW o
  PROVE  Traded(o) = TradedIn(printed, o) /\ Traded(o)' = TradedIn(printed', o)
<1>1. Traded(o) = TradedIn(printed, o)
  BY DEF Traded, TradedIn, FoldLeft, MapThenFoldSet
<1>2. Traded(o)' = TradedIn(printed', o)
  BY DEF Traded, TradedIn, FoldLeft, MapThenFoldSet
<1> QED
  BY <1>1, <1>2

-----------------------------------------------------------------------------
(* Where the size of an order is staked: it waits, with its thread or in a *)
(* level, a cancel has taken it out, or an accepted cancel was printed.    *)
Works(c, o) == my[c] = o /\ pc[c] \in OrderPc

RestsAt(o, n, i) ==
  /\ i \in DOMAIN queue[n] /\ queue[n][i] = o
  /\ \A c \in Client : Matching(c, n) => i <= Len(queue[n]) - popped[c]

Waits(o) ==
  \/ \E c \in Client : Works(c, o)
  \/ \E n \in Node, i \in Nat : RestsAt(o, n, i)

Cancels(c, o) == my[c] = o /\ pc[c] = "cancelled"

TakesOut(e, o) == e.kind = "deleted" /\ e.id = o /\ e.accepted = TRUE
TakenOut(o, i) == i \in DOMAIN printed /\ TakesOut(printed[i], o)

Staked(o) ==
  \/ Waits(o)
  \/ \E c \in Client : Cancels(c, o)
  \/ \E i \in Nat : TakenOut(o, i)

(* It is in one of these places, ... *)
OneStake(o) ==
  /\ Waits(o) => /\ \A c \in Client : ~Cancels(c, o)
                 /\ \A i \in Nat : ~TakenOut(o, i)
  /\ \A c \in Client : Cancels(c, o) => \A i \in Nat : ~TakenOut(o, i)
  /\ \A c, d \in Client : Cancels(c, o) /\ Cancels(d, o) => c = d
  /\ \A i, j \in Nat : TakenOut(o, i) /\ TakenOut(o, j) => i = j

(* ... and what is staked is what was not traded, all of it. *)
Owed(o) == IF Staked(o) THEN count[o] ELSE 0
Settled(o) ==
  IF cmd[o] = Nil THEN Traded(o) = 0 /\ ~Staked(o)
                  ELSE Traded(o) + Owed(o) = cmd[o].count

AsRead(o) == \A i \in Nat : TakenOut(o, i) => printed[i] = Deleted(o, TRUE, cmd[o].time)

Account(o) == OneStake(o) /\ Settled(o) /\ AsRead(o)
AccountInv == \A o \in OrderId : Account(o)

-----------------------------------------------------------------------------
(* The lines as an order sees them. *)
SameLines(o) ==
  /\ Traded(o)' = Traded(o)
  /\ \A i \in Nat : /\ TakenOut(o, i)' <=> TakenOut(o, i)
                    /\ TakenOut(o, i) => printed'[i] = printed[i]

LEMMA Unprinted ==
  ASSUME UNCHANGED printed, NEW o
  PROVE  SameLines(o)
<1>1. Traded(o)' = Traded(o)
  BY TradedBefore
<1> QED
  BY <1>1 DEF SameLines, TakenOut, TakesOut

LEMMA OneLineMore ==
  ASSUME LockInv, NEW e \in Line, printed' = Append(printed, e), NEW o
  PROVE  /\ Traded(o) \in Nat
         /\ Traded(o)' = IF IsTrade(e, o) THEN Traded(o) + e.count ELSE Traded(o)
         /\ Len(printed) \in Nat
         /\ \A i \in Nat :
              /\ TakenOut(o, i)'
                   <=> TakenOut(o, i) \/ (i = Len(printed) + 1 /\ TakesOut(e, o))
              /\ TakenOut(o, i) => printed'[i] = printed[i]
         /\ printed'[Len(printed) + 1] = e
<1>1. PICK q \in Seq(Line) : q = printed
  BY LocalTypes
<1>2. PICK r : r = Append(q, e) /\ r = printed'
  BY <1>1
<1>3. Traded(o) \in Nat
  BY <1>1, TradedTyped, TradedBefore
<1>4. Traded(o)' = IF IsTrade(e, o) THEN Traded(o) + e.count ELSE Traded(o)
  BY <1>1, <1>2, TradedLonger, TradedBefore
<1>5. PICK k \in Nat : k = Len(q)
  BY LinesOf
<1>6. /\ DOMAIN q = 1 .. k /\ DOMAIN r = 1 .. k + 1 /\ r[k + 1] = e
      /\ \A i \in 1 .. k : r[i] = q[i]
  <2>1. r = Append(q, e)
    BY <1>2
  <2> QED
    BY <1>5, <2>1, Longer
<1>7. \A i : i \in 1 .. k + 1 <=> i \in 1 .. k \/ i = k + 1
  OBVIOUS
<1>8. ~(k + 1 \in 1 .. k)
  OBVIOUS
<1>9. \A i \in Nat : /\ TakenOut(o, i)' <=> TakenOut(o, i) \/ (i = k + 1 /\ TakesOut(e, o))
                     /\ TakenOut(o, i) => printed'[i] = printed[i]
  <2> SUFFICES ASSUME NEW i \in Nat
               PROVE  /\ TakenOut(o, i)' <=> TakenOut(o, i) \/ (i = k + 1 /\ TakesOut(e, o))
                      /\ TakenOut(o, i) => printed'[i] = printed[i]
    OBVIOUS
  <2>1. CASE i \in 1 .. k
    <3>1. printed'[i] = printed[i] /\ i \in DOMAIN printed' /\ i \in DOMAIN printed
          /\ i # k + 1
      BY <1>1, <1>2, <1>6, <1>7, <1>8, <2>1
    <3> QED
      BY <3>1 DEF TakenOut, TakesOut
  <2>2. CASE i = k + 1
    <3>1. printed'[i] = e /\ i \in DOMAIN printed' /\ i \notin DOMAIN printed
      BY <1>1, <1>2, <1>6, <1>7, <1>8, <2>2
    <3> QED
      BY <2>2, <3>1 DEF TakenOut, TakesOut
  <2>3. CASE i \notin 1 .. k /\ i # k + 1
    <3>1. i \notin DOMAIN printed' /\ i \notin DOMAIN printed
      BY <1>1, <1>2, <1>6, <1>7, <2>3
    <3> QED
      BY <2>3, <3>1 DEF TakenOut
  <2> QED
    BY <2>1, <2>2, <2>3
<1> QED
  BY <1>1, <1>2, <1>3, <1>4, <1>5, <1>6, <1>9

(* A line that is neither an execution nor an accepted cancel of it. *)
LEMMA OtherLine ==
  ASSUME LockInv, NEW e \in Line, printed' = Append(printed, e), NEW o,
         ~IsTrade(e, o), ~TakesOut(e, o)
  PROVE  SameLines(o)
BY OneLineMore DEF SameLines

-----------------------------------------------------------------------------
(* An account stays in order if the stakes stay where they are and what is *)
(* traded of them is what is no longer there.                              *)
SameStakes(o) ==
  /\ Waits(o)' <=> Waits(o)
  /\ \A c \in Client : Cancels(c, o)' <=> Cancels(c, o)
  /\ \A i \in Nat : /\ TakenOut(o, i)' <=> TakenOut(o, i)
                    /\ TakenOut(o, i) => printed'[i] = printed[i]

LEMMA StakesStay ==
  ASSUME NEW o, SameStakes(o), OneStake(o), AsRead(o), cmd'[o] = cmd[o]
  PROVE  OneStake(o)' /\ AsRead(o)' /\ (Staked(o)' <=> Staked(o))
<1>1. OneStake(o)'
  BY DEF SameStakes, OneStake
<1>2. Staked(o)' <=> Staked(o)
  BY DEF SameStakes, Staked
<1>3. AsRead(o)'
  BY DEF SameStakes, AsRead, Deleted
<1> QED
  BY <1>1, <1>2, <1>3

LEMMA AccountStays ==
  ASSUME NEW o, SameStakes(o), Account(o), cmd'[o] = cmd[o],
         Traded(o)' = Traded(o), count'[o] = count[o]
  PROVE  Account(o)'
<1>1. OneStake(o)' /\ AsRead(o)' /\ (Staked(o)' <=> Staked(o))
  BY StakesStay DEF Account
<1>2. Owed(o)' = Owed(o)
  BY <1>1 DEF Owed
<1>3. Settled(o)'
  BY <1>1, <1>2 DEF Account, Settled
<1> QED
  BY <1>1, <1>3 DEF Account

(* The levels as the orders in them see them. *)
LEMMA SameRests ==
  ASSUME UNCHANGED queue,
         \A c \in Client, n \in Node : /\ Matching(c, n)' <=> Matching(c, n)
                                       /\ Matching(c, n) => popped'[c] = popped[c],
         NEW o, NEW n \in Node, NEW i \in Nat
  PROVE  RestsAt(o, n, i)' <=> RestsAt(o, n, i)
BY DEF RestsAt

(* A step that trades nothing and takes nothing out or in. *)
Passes(c) ==
  /\ OthersStay(c) /\ UNCHANGED <<cmd, count, queue>>
  /\ pc[c] \notin {"match", "cancelled"} /\ pc'[c] \notin {"match", "cancelled"}
  /\ pc'[c] \in OrderPc <=> pc[c] \in OrderPc
  /\ pc[c] \in OrderPc => my'[c] = my[c]

LEMMA PassesSame ==
  ASSUME NEW c \in Client, Passes(c), NEW o, SameLines(o), Account(o)
  PROVE  Account(o)'
<1>1. \A d \in Client : Works(d, o)' <=> Works(d, o)
  <2>1. ASSUME NEW d \in Client PROVE Works(d, o)' <=> Works(d, o)
    <3>1. CASE d = c
      BY <3>1 DEF Passes, Works
    <3>2. CASE d # c
      BY <3>2 DEF Passes, OthersStay, Works
    <3> QED
      BY <3>1, <3>2
  <2> QED
    BY <2>1
<1>2. \A d \in Client : Cancels(d, o)' <=> Cancels(d, o)
  <2>1. ASSUME NEW d \in Client PROVE Cancels(d, o)' <=> Cancels(d, o)
    <3>1. CASE d = c
      BY <3>1 DEF Passes, Cancels
    <3>2. CASE d # c
      BY <3>2 DEF Passes, OthersStay, Cancels
    <3> QED
      BY <3>1, <3>2
  <2> QED
    BY <2>1
<1>3. \A d \in Client, n \in Node : /\ Matching(d, n)' <=> Matching(d, n)
                                    /\ Matching(d, n) => popped'[d] = popped[d]
  <2>1. ASSUME NEW d \in Client, NEW n \in Node
        PROVE  /\ Matching(d, n)' <=> Matching(d, n)
               /\ Matching(d, n) => popped'[d] = popped[d]
    <3>1. CASE d = c
      BY <3>1 DEF Passes, Matching
    <3>2. CASE d # c
      BY <3>2 DEF Passes, OthersStay, Matching
    <3> QED
      BY <3>1, <3>2
  <2> QED
    BY <2>1
<1>4. \A n \in Node, i \in Nat : RestsAt(o, n, i)' <=> RestsAt(o, n, i)
  BY <1>3, SameRests DEF Passes
<1>5. SameStakes(o)
  BY <1>1, <1>2, <1>4 DEF SameStakes, SameLines, Waits
<1>6. cmd'[o] = cmd[o] /\ count'[o] = count[o] /\ Traded(o)' = Traded(o)
  BY DEF Passes, SameLines
<1> QED
  BY <1>5, <1>6, AccountStays

LEMMA PreludePasses ==
  ASSUME LockInv, NEW c \in Client, Prelude(c) \/ UnlockBook(c)
  PROVE  Passes(c) /\ UNCHANGED printed
<1>1. pc \in [Client -> Pc] /\ curr \in [Client -> Node \cup {Nil}] /\ v \in [Client -> Int]
  BY DEF LockInv, IInv, ShapeOK, NumbersOK
<1>2. CASE LockBook(c)
  BY <1>1, <1>2 DEF LockBook, Goto, Passes, OthersStay, orderVars, OrderPc
<1>3. CASE WalkEnd(c) \/ LockOwn(c)
  BY <1>1, <1>3 DEF WalkEnd, LockOwn, Goto, Passes, OthersStay, orderVars, bookVars, OrderPc
<1>4. CASE LockOpposite(c)
  <2>1. pc'[c] \in {"walk", "lock own", "commit"}
    BY <1>1, <1>4 DEF LockOpposite, Goto, PreludePc
  <2> QED
    BY <1>1, <1>4, <2>1 DEF LockOpposite, Goto, Passes, OthersStay, orderVars, OrderPc
<1>5. CASE WalkOn(c)
  <2>1. pc'[c] \in {"walk", "lock own", "commit"}
    BY <1>1, <1>5 DEF WalkOn, Goto, PreludePc
  <2> QED
    BY <1>1, <1>5, <2>1 DEF WalkOn, Goto, Passes, OthersStay, orderVars, OrderPc
<1>6. CASE UnlockBook(c)
  BY <1>1, <1>6 DEF UnlockBook, Goto, Passes, OthersStay, orderVars, OrderPc
<1> QED
  BY <1>2, <1>3, <1>4, <1>5, <1>6 DEF Prelude

LEMMA PlacePasses ==
  ASSUME LockInv, NEW c \in Client,
         PlaceFound(c) \/ AddStep(c) \/ NewLevel(c) \/ RegisterOrder(c)
  PROVE  Passes(c) /\ UNCHANGED printed
<1>1. pc \in [Client -> Pc] /\ curr \in [Client -> Node \cup {Nil}]
  BY DEF LockInv, IInv, ShapeOK
<1>2. CASE PlaceFound(c)
  <2>1. pc'[c] \in {"register", "new level"}
    BY <1>1, <1>2 DEF PlaceFound, Goto, PlacePc
  <2> QED
    BY <1>1, <1>2, <2>1 DEF PlaceFound, Goto, Passes, OthersStay, orderVars, bookVars, OrderPc
<1>3. CASE AddStep(c)
  <2>1. pc'[c] \in {"register", "add"}
    BY <1>1, <1>3 DEF AddStep, Goto
  <2> QED
    BY <1>1, <1>3, <2>1 DEF AddStep, Goto, Passes, OthersStay, orderVars, OrderPc
<1>4. CASE NewLevel(c)
  BY <1>1, <1>4 DEF NewLevel, Goto, Passes, OthersStay, orderVars, OrderPc
<1>5. CASE RegisterOrder(c)
  BY <1>1, <1>5 DEF RegisterOrder, Goto, Passes, OthersStay, orderVars, bookVars, OrderPc
<1> QED
  BY <1>2, <1>3, <1>4, <1>5

LEMMA CancelPasses ==
  ASSUME LockInv, NEW c \in Client,
         LookUp(c) \/ CancelHead(c) \/ CancelStep(c) \/ CancelFails(c)
  PROVE  Passes(c) /\ UNCHANGED printed
<1>1. pc \in [Client -> Pc] /\ curr \in [Client -> Node \cup {Nil}]
  BY DEF LockInv, IInv, ShapeOK
<1>2. CASE LookUp(c)
  <2>1. pc'[c] \in {"cancel head", "unknown"}
    BY <1>1, <1>2 DEF LookUp, Goto
  <2> QED
    BY <1>1, <1>2, <2>1 DEF LookUp, Goto, Passes, OthersStay, orderVars, bookVars, OrderPc
<1>3. CASE CancelHead(c)
  BY <1>1, <1>3 DEF CancelHead, Goto, Passes, OthersStay, orderVars, OrderPc
<1>4. CASE CancelStep(c)
  <2>1. pc'[c] \in {"cancel level", "cancel step"}
    BY <1>1, <1>4 DEF CancelStep, Goto
  <2> QED
    BY <1>1, <1>4, <2>1 DEF CancelStep, Goto, Passes, OthersStay, orderVars, OrderPc
<1>5. CASE CancelFails(c)
  BY <1>1, <1>5 DEF CancelFails, Goto, Passes, OthersStay, orderVars, OrderPc
<1> QED
  BY <1>2, <1>3, <1>4, <1>5

LEMMA ReadPasses ==
  ASSUME LockInv, NEW c \in Client,
         EndOfFile(c) \/ \E o \in OrderId : ReadCancel(c, o)
  PROVE  Passes(c) /\ UNCHANGED printed
<1>1. pc \in [Client -> Pc] /\ my \in [Client -> OrderId \cup {Nil}]
  BY DEF LockInv, IInv, ShapeOK
<1> QED
  BY <1>1 DEF EndOfFile, ReadCancel, Goto, Passes, OthersStay, orderVars, bookVars, OrderPc

LEMMA RejectPasses ==
  ASSUME LockInv, NEW c \in Client, RejectUnknown(c) \/ RejectGone(c)
  PROVE  /\ Passes(c)
         /\ \E e \in Line : /\ printed' = Append(printed, e)
                            /\ \A o : ~IsTrade(e, o) /\ ~TakesOut(e, o)
<1>1. OthersStay(c) /\ pc'[c] = "read"
  BY FinishGoes DEF RejectUnknown, RejectGone
<1>2. Passes(c)
  BY <1>1 DEF RejectUnknown, RejectGone, Passes, orderVars, bookVars, OrderPc
<1>3. PICK o \in OrderId : o = my[c]
  BY DEF RejectUnknown, RejectGone, LockInv, IInv, HasOrder, Idle
<1>4. PICK t \in Nat : printed' = Append(printed, Deleted(o, FALSE, t))
  <2>1. CASE RejectUnknown(c)
    <3>1. inputTime[c] \in Nat
      BY DEF LockInv, IInv, ShapeOK
    <3> QED
      BY <1>3, <2>1, <3>1 DEF RejectUnknown, PrintLine
  <2>2. CASE RejectGone(c)
    <3>1. cmd[o] # Nil
      BY <1>3, <2>2 DEF RejectGone, LockInv, Places, Known
    <3>2. cmd[o].time \in Nat
      BY <3>1 DEF LockInv, IInv, ShapeOK, Command
    <3> QED
      BY <1>3, <2>2, <3>2 DEF RejectGone, PrintLine
  <2> QED
    BY <2>1, <2>2
<1>5. Deleted(o, FALSE, t) \in Line
  BY DEF Deleted, Line
<1>6. \A x : ~IsTrade(Deleted(o, FALSE, t), x) /\ ~TakesOut(Deleted(o, FALSE, t), x)
  BY DEF Deleted, IsTrade, TakesOut
<1> QED
  BY <1>2, <1>4, <1>5, <1>6

LEMMA PassesKeeps ==
  ASSUME LockInv, AccountInv, NEW c \in Client,
         \/ Passes(c) /\ UNCHANGED printed
         \/ RejectUnknown(c) \/ RejectGone(c)
  PROVE  AccountInv'
<1>1. CASE Passes(c) /\ UNCHANGED printed
  BY <1>1, PassesSame, Unprinted DEF AccountInv
<1>2. CASE RejectUnknown(c) \/ RejectGone(c)
  <2>1. Passes(c)
    BY <1>2, RejectPasses
  <2>2. PICK e \in Line : /\ printed' = Append(printed, e)
                          /\ \A o : ~IsTrade(e, o) /\ ~TakesOut(e, o)
    BY <1>2, RejectPasses
  <2>3. \A o \in OrderId : SameLines(o)
    BY <2>2, OtherLine
  <2> QED
    BY <2>1, <2>3, PassesSame DEF AccountInv
<1> QED
  BY <1>1, <1>2

(* An order that waits trades, or its last size is traded: then it waits   *)
(* no longer.                                                              *)
TakenSame(o) ==
  /\ \A c \in Client : Cancels(c, o)' <=> Cancels(c, o)
  /\ \A i \in Nat : /\ TakenOut(o, i)' <=> TakenOut(o, i)
                    /\ TakenOut(o, i) => printed'[i] = printed[i]

LEMMA AccountTrades ==
  ASSUME NEW o, Account(o), cmd'[o] = cmd[o], TakenSame(o),
         Waits(o), Waits(o)', Traded(o)' + count'[o] = Traded(o) + count[o]
  PROVE  Account(o)'
<1>1. SameStakes(o)
  BY DEF TakenSame, SameStakes
<1>2. OneStake(o)' /\ AsRead(o)'
  BY <1>1, StakesStay DEF Account
<1>3. Staked(o) /\ Staked(o)'
  BY DEF Staked
<1>4. Owed(o) = count[o] /\ Owed(o)' = count'[o]
  BY <1>3 DEF Owed
<1>5. Settled(o)'
  BY <1>3, <1>4 DEF Account, Settled
<1> QED
  BY <1>2, <1>5 DEF Account

LEMMA AccountCloses ==
  ASSUME NEW o, Account(o), cmd'[o] = cmd[o], TakenSame(o),
         Waits(o), ~Waits(o)', Traded(o)' = Traded(o) + count[o], Traded(o)' \in Nat
  PROVE  Account(o)'
<1>1. /\ \A c \in Client : ~Cancels(c, o)'
      /\ \A i \in Nat : ~TakenOut(o, i)'
  BY DEF TakenSame, Account, OneStake
<1>2. OneStake(o)' /\ AsRead(o)'
  BY <1>1 DEF OneStake, AsRead
<1>3. Staked(o) /\ ~Staked(o)'
  BY <1>1 DEF Staked
<1>4. Owed(o) = count[o] /\ Owed(o)' = 0
  BY <1>3 DEF Owed
<1>5. Traded(o)' + 0 = Traded(o)'
  OBVIOUS
<1>6. Settled(o)'
  BY <1>3, <1>4, <1>5 DEF Account, Settled
<1> QED
  BY <1>2, <1>6 DEF Account

-----------------------------------------------------------------------------
(* A level that the thread does not match, or begins to match.             *)
LEMMA RestsStay ==
  ASSUME LockInv, NEW c \in Client, OthersStay(c), NEW m \in Node,
         queue'[m] = queue[m], ~Matching(c, m), Matching(c, m)' => popped'[c] = 0,
         NEW o, NEW i \in Nat
  PROVE  RestsAt(o, m, i)' <=> RestsAt(o, m, i)
<1>1. PICK q \in Seq(OrderId) : q = queue[m] /\ q = queue'[m]
  <2>1. queue[m] \in Seq(OrderId)
    BY DEF LockInv, NumbersOK
  <2> QED
    BY <2>1
<1>2. \A d \in Client : d # c =>
        /\ Matching(d, m)' <=> Matching(d, m)
        /\ popped'[d] = popped[d]
  BY DEF OthersStay, Matching
<1>3. i \in DOMAIN q => i <= Len(q) - 0
  OBVIOUS
<1>4. ASSUME RestsAt(o, m, i) PROVE RestsAt(o, m, i)'
  <2>1. i \in DOMAIN q /\ q[i] = o
    BY <1>1, <1>4 DEF RestsAt
  <2>2. ASSUME NEW d \in Client, Matching(d, m)' PROVE i <= Len(q) - popped'[d]
    <3>1. CASE d = c
      BY <1>3, <2>1, <2>2, <3>1
    <3>2. CASE d # c
      BY <1>1, <1>2, <1>4, <2>2, <3>2 DEF RestsAt
    <3> QED
      BY <3>1, <3>2
  <2> QED
    BY <1>1, <2>1, <2>2 DEF RestsAt
<1>5. ASSUME RestsAt(o, m, i)' PROVE RestsAt(o, m, i)
  <2>1. i \in DOMAIN q /\ q[i] = o
    BY <1>1, <1>5 DEF RestsAt
  <2>2. ASSUME NEW d \in Client, Matching(d, m) PROVE i <= Len(q) - popped[d]
    <3>1. d # c
      BY <2>2
    <3>2. Matching(d, m)' /\ popped'[d] = popped[d]
      BY <1>2, <2>2, <3>1
    <3>3. i <= Len(q) - popped'[d]
      BY <1>1, <1>5, <3>2 DEF RestsAt
    <3> QED
      BY <3>2, <3>3
  <2> QED
    BY <1>1, <2>1, <2>2 DEF RestsAt
<1> QED
  BY <1>4, <1>5

-----------------------------------------------------------------------------
(* matchOrder passes from level to level, and drops its order only when    *)
(* nothing is left of it.                                                  *)
LEMMA AdvanceEnds ==
  ASSUME LockInv, NEW c \in Client, Advance(c)
  PROVE  /\ OthersStay(c) /\ popped'[c] = 0
         /\ \/ pc'[c] \in {"match", "add"} /\ my'[c] = my[c]
            \/ pc'[c] = "read" /\ count[my[c]] = 0
<1>1. /\ pc \in [Client -> Pc] /\ curr \in [Client -> Node \cup {Nil}]
      /\ my \in [Client -> OrderId \cup {Nil}] /\ popped \in [Client -> Nat]
      /\ v \in [Client -> Int]
  BY DEF LockInv, IInv, ShapeOK, NumbersOK
<1>2. popped'[c] = 0
  BY <1>1 DEF Advance
<1>3. CASE count[my[c]] = 0 /\ Finish(c)
  <2>1. OthersStay(c) /\ pc'[c] = "read"
    BY <1>3, FinishGoes
  <2> QED
    BY <1>2, <1>3, <2>1
<1>4. CASE Goto(c, "match") /\ curr' = [curr EXCEPT ![c] = next[curr[c]]] /\ UNCHANGED <<my, v>>
  BY <1>1, <1>2, <1>4 DEF Advance, Goto, OthersStay
<1>5. CASE /\ Goto(c, "add")
           /\ curr' = [curr EXCEPT ![c] = HeadOf(cmd[my[c]].side)]
           /\ UNCHANGED <<my, v>>
  BY <1>1, <1>2, <1>5 DEF Advance, Goto, OthersStay
<1> QED
  BY <1>3, <1>4, <1>5 DEF Advance

LEMMA AdvanceAccounts ==
  ASSUME LockInv, AccountInv, NEW c \in Client, pc[c] \in MatchPc, Advance(c),
         UNCHANGED <<cmd, count, printed>>,
         \A x \in OrderId, m \in Node, i \in Nat : RestsAt(x, m, i)' <=> RestsAt(x, m, i)
  PROVE  AccountInv'
<1>1. pc[c] \in OrderPc /\ my[c] \in OrderId /\ cmd[my[c]] # Nil
  BY OrderOf DEF MatchPc, OrderPc
<1>2. OthersStay(c)
  BY AdvanceEnds
<1>3. pc'[c] \in {"match", "add", "read"}
  BY AdvanceEnds
<1>5. ASSUME NEW x \in OrderId PROVE TakenSame(x) /\ Traded(x)' = Traded(x)
  <2>1. SameLines(x)
    BY Unprinted
  <2>2. \A d \in Client : Cancels(d, x)' <=> Cancels(d, x)
    <3>1. ASSUME NEW d \in Client PROVE Cancels(d, x)' <=> Cancels(d, x)
      <4>1. CASE d = c
        BY <1>3, <4>1 DEF Cancels, MatchPc
      <4>2. CASE d # c
        BY <1>2, <4>2 DEF Cancels, OthersStay
      <4> QED
        BY <4>1, <4>2
    <3> QED
      BY <3>1
  <2> QED
    BY <2>1, <2>2 DEF SameLines, TakenSame
<1>6. ASSUME NEW x \in OrderId, \A d \in Client : Works(d, x)' <=> Works(d, x)
      PROVE  Account(x)'
  <2>1. Waits(x)' <=> Waits(x)
    BY <1>6 DEF Waits
  <2>2. SameStakes(x) /\ Traded(x)' = Traded(x) /\ Account(x)
    BY <1>5, <2>1 DEF SameStakes, TakenSame, AccountInv
  <2> QED
    BY <2>2, AccountStays
<1>7. \A d \in Client, x \in OrderId : d # c => (Works(d, x)' <=> Works(d, x))
  BY <1>2 DEF Works, OthersStay
<1>8. CASE pc'[c] \in {"match", "add"} /\ my'[c] = my[c]
  <2>1. \A x \in OrderId : Works(c, x)' <=> Works(c, x)
    BY <1>1, <1>8 DEF Works, OrderPc
  <2> QED
    BY <1>6, <1>7, <2>1 DEF AccountInv
<1>9. CASE pc'[c] = "read" /\ count[my[c]] = 0
  <2>1. ASSUME NEW x \in OrderId, x # my[c] PROVE Account(x)'
    <3>1. ~Works(c, x) /\ ~Works(c, x)'
      BY <1>9, <2>1 DEF Works, OrderPc
    <3> QED
      BY <1>6, <1>7, <3>1
  <2>2. PICK o \in OrderId : o = my[c]
    BY <1>1
  <2>3. Waits(o)
    BY <1>1, <2>2 DEF Waits, Works
  <2>4. ~Waits(o)'
    <3>1. \A d \in Client : d # c => ~Works(d, o)
      BY <1>1, <2>2 DEF Works, LockInv, Places, OnePlace
    <3>2. \A d \in Client : ~Works(d, o)'
      BY <1>7, <1>9, <3>1 DEF Works, OrderPc
    <3>3. \A m \in Node, i \in Nat : ~RestsAt(o, m, i)
      BY <1>1, <2>2 DEF RestsAt, LockInv, Places, OnePlace
    <3> QED
      BY <3>2, <3>3 DEF Waits
  <2>5. Traded(o)' = Traded(o) + count[o] /\ Traded(o)' \in Nat
    <3>1. Traded(o) \in Nat
      BY LocalTypes, TradedTyped, TradedBefore
    <3> QED
      BY <1>5, <1>9, <2>2, <3>1
  <2>6. Account(o)'
    BY <1>5, <2>3, <2>4, <2>5, AccountCloses DEF AccountInv
  <2> QED
    BY <2>1, <2>2, <2>6 DEF AccountInv
<1> QED
  BY <1>8, <1>9, AdvanceEnds

LEMMA MatchHeadAccounts ==
  ASSUME LockInv, AccountInv, NEW c \in Client, MatchHead(c)
  PROVE  AccountInv'
<1>1. pc[c] = "match head" /\ pc[c] \in MatchPc /\ Advance(c)
      /\ UNCHANGED <<cmd, count, printed, queue>>
  BY DEF MatchHead, MatchPc, orderVars
<1>2. OthersStay(c) /\ popped'[c] = 0
  BY <1>1, AdvanceEnds
<1>3. ASSUME NEW x \in OrderId, NEW m \in Node, NEW i \in Nat
      PROVE  RestsAt(x, m, i)' <=> RestsAt(x, m, i)
  <2>1. ~Matching(c, m) /\ queue'[m] = queue[m]
    BY <1>1 DEF Matching
  <2> QED
    BY <1>2, <2>1, RestsStay
<1> QED
  BY <1>1, <1>3, AdvanceAccounts

(* The orders that the pop_backs take out rested no longer. *)
LEMMA LeaveLevelAccounts ==
  ASSUME LockInv, AccountInv, NEW c \in Client, LeaveLevel(c)
  PROVE  AccountInv'
<1>1. pc[c] = "match" /\ pc[c] \in MatchPc /\ Advance(c)
      /\ UNCHANGED <<cmd, count, printed>>
  BY DEF LeaveLevel, MatchPc, orderVars
<1>2. OthersStay(c) /\ popped'[c] = 0
  BY <1>1, AdvanceEnds
<1>3. PICK n \in Node : n = curr[c] /\ Holds(c, n)
  BY <1>1, HoldsLevel DEF LockInv
<1>4. PICK p \in Nat : p = popped[c]
  BY LocalTypes
<1>5. PICK q \in Seq(OrderId) : q = queue[n]
  BY DEF LockInv, NumbersOK
<1>6. p <= Len(q)
  BY <1>1, <1>3, <1>4, <1>5 DEF LockInv, PoppedInLevel
<1>7. PICK r : r = PopBack(q, p)
  OBVIOUS
<1>8. PICK k \in Nat : k = Len(q) - p
  <2>1. Len(q) \in Nat
    OBVIOUS
  <2> QED
    BY <1>6, <2>1
<1>9. DOMAIN r = 1 .. k /\ Len(r) = k /\ \A i \in 1 .. k : i \in DOMAIN q /\ r[i] = q[i]
  BY <1>6, <1>7, <1>8, Popped
<1>10. queue'[n] = r /\ \A m \in Node : m # n => queue'[m] = queue[m]
  <2>1. queue \in [Node -> Seq(OrderId)]
    BY DEF LockInv, NumbersOK
  <2>2. queue' = [queue EXCEPT ![n] = r]
    BY <1>3, <1>4, <1>5, <1>7 DEF LeaveLevel
  <2> QED
    BY <2>1, <2>2
<1>11. \A d \in Client : d # c => ~Matching(d, n) /\ ~Matching(d, n)'
  <2>1. \A d \in Client : d # c => ~Matching(d, n)
    BY <1>3, AloneOnLevel DEF LockInv
  <2> QED
    BY <1>2, <2>1 DEF Matching, OthersStay
<1>12. ASSUME NEW x \in OrderId, NEW i \in Nat
       PROVE  RestsAt(x, n, i)' <=> RestsAt(x, n, i)
  <2>1. RestsAt(x, n, i) <=> i \in 1 .. k /\ q[i] = x
    <3>1. Matching(c, n)
      BY <1>1, <1>3 DEF Matching
    <3>2. i \in 1 .. k <=> i \in DOMAIN q /\ i <= k
      <4>1. i \in DOMAIN q => 1 <= i
        OBVIOUS
      <4> QED
        BY <1>9, <4>1
    <3> QED
      BY <1>4, <1>5, <1>8, <1>11, <3>1, <3>2 DEF RestsAt
  <2>2. RestsAt(x, n, i)' <=> i \in 1 .. k /\ r[i] = x
    <3>1. i \in 1 .. k => i <= k - 0
      OBVIOUS
    <3> QED
      BY <1>2, <1>9, <1>10, <1>11, <3>1 DEF RestsAt
  <2> QED
    BY <1>9, <2>1, <2>2
<1>13. ASSUME NEW x \in OrderId, NEW m \in Node, NEW i \in Nat
       PROVE  RestsAt(x, m, i)' <=> RestsAt(x, m, i)
  <2>1. CASE m = n
    BY <1>12, <2>1
  <2>2. CASE m # n
    <3>1. ~Matching(c, m) /\ queue'[m] = queue[m]
      BY <1>3, <1>10, <2>2 DEF Matching
    <3> QED
      BY <1>2, <3>1, RestsStay
  <2> QED
    BY <2>1, <2>2
<1> QED
  BY <1>1, <1>13, AdvanceAccounts

-----------------------------------------------------------------------------
(* An execution is a line about both orders.                               *)
LEMMA FillLines ==
  ASSUME LockInv, NEW c \in Client, NEW n \in Node, NEW q \in Seq(OrderId),
         NEW k \in Nat, NEW r \in OrderId, Rests(c, n, q, k, r), k \in 1 .. Len(q),
         NEW size \in 0 .. Modulus - 1, PrintLine(Executed(my[c], r, size)),
         UNCHANGED <<pc, my>>, NEW x \in OrderId
  PROVE  /\ TakenSame(x)
         /\ Traded(x) \in Nat
         /\ Traded(x)' = IF x = my[c] \/ x = r THEN Traded(x) + size ELSE Traded(x)
<1>1. PICK e \in Line : e = Executed(my[c], r, size)
  BY ExecutedIsLine
<1>2. printed' = Append(printed, e)
  BY <1>1 DEF PrintLine
<1>3. /\ e.count = size /\ ~TakesOut(e, x)
      /\ IsTrade(e, x) <=> x = my[c] \/ x = r
  BY <1>1 DEF Executed, TakesOut, IsTrade
<1>4. /\ Traded(x) \in Nat
      /\ Traded(x)' = IF IsTrade(e, x) THEN Traded(x) + e.count ELSE Traded(x)
      /\ \A i \in Nat : /\ TakenOut(x, i)' <=> TakenOut(x, i)
                        /\ TakenOut(x, i) => printed'[i] = printed[i]
  BY <1>2, <1>3, OneLineMore
<1>5. \A d \in Client : Cancels(d, x)' <=> Cancels(d, x)
  BY DEF Cancels
<1> QED
  BY <1>3, <1>4, <1>5 DEF TakenSame

(* The resting order is the last one of the level that rests.              *)
LEMMA RestsLast ==
  ASSUME LockInv, NEW c \in Client, NEW n \in Node, NEW q \in Seq(OrderId),
         NEW k \in Nat, NEW r \in OrderId, Rests(c, n, q, k, r), k \in 1 .. Len(q)
  PROVE  /\ my[c] \in OrderId /\ my[c] # r
         /\ Waits(my[c]) /\ Waits(r)
         /\ \A d \in Client : Matching(d, n) <=> d = c
<1>1. pc[c] = "match" /\ pc[c] \in OrderPc /\ n = curr[c]
  BY DEF Rests, OrderPc
<1>2. my[c] \in OrderId /\ my[c] # r
  BY <1>1, OrderOf, RestsAlone
<1>3. Waits(my[c])
  BY <1>1 DEF Waits, Works
<1>4. \A d \in Client : Matching(d, n) <=> d = c
  <2>1. Holds(c, n) /\ Matching(c, n)
    BY <1>1, HoldsLevel DEF LockInv, MatchPc, Matching
  <2> QED
    BY <2>1, AloneOnLevel DEF LockInv
<1>5. RestsAt(r, n, k)
  <2>1. k \in DOMAIN queue[n] /\ queue[n][k] = r /\ k = Len(queue[n]) - popped[c]
    BY DEF Rests
  <2>2. k <= k
    OBVIOUS
  <2> QED
    BY <1>4, <2>1, <2>2 DEF RestsAt
<1> QED
  BY <1>2, <1>3, <1>4, <1>5 DEF Waits

LEMMA FillNewAccounts ==
  ASSUME LockInv, AccountInv, NEW c \in Client, FillNew(c)
  PROVE  AccountInv'
<1>1. PICK n \in Node, q \in Seq(OrderId), k \in Nat, r \in OrderId :
        /\ Rests(c, n, q, k, r) /\ r = Resting(c) /\ n = curr[c] /\ k \in 1 .. Len(q)
  BY RestingOrder DEF FillNew
<1>2. Rests(c, n, q, k, r) /\ k \in 1 .. Len(q)
  BY <1>1
<1>3. PICK o \in OrderId : o = my[c]
  BY <1>2, RestsLast
<1>4. /\ o # r /\ Waits(o) /\ Waits(r)
  BY <1>2, <1>3, RestsLast
<1>5. PICK size \in Nat : size = count[o] /\ size \in 0 .. Modulus - 1
  BY Counted DEF LockInv
<1>6. PICK y \in Nat : y = count[r] /\ size < y
  <2>1. count[r] \in Nat
    BY Counted DEF LockInv
  <2> QED
    BY <1>1, <1>3, <1>5, <2>1 DEF FillNew
<1>7. UNCHANGED <<cmd, queue, pc, my, curr, popped>>
  BY DEF FillNew, threadVars
<1>8. PrintLine(Executed(my[c], r, size))
  BY <1>1, <1>3, <1>5 DEF FillNew
<1>9. ASSUME NEW x \in OrderId
      PROVE  /\ TakenSame(x) /\ Traded(x) \in Nat
             /\ Traded(x)' = IF x = o \/ x = r THEN Traded(x) + size ELSE Traded(x)
  BY <1>2, <1>3, <1>5, <1>7, <1>8, FillLines
<1>10. ASSUME NEW x \in OrderId PROVE Waits(x)' <=> Waits(x)
  BY <1>7 DEF Waits, Works, RestsAt, Matching
<1>11. /\ count'[o] = 0 /\ count'[r] = y - size
       /\ \A x \in OrderId : x # o /\ x # r => count'[x] = count[x]
  <2>1. count \in [OrderId -> 0 .. Modulus - 1]
    BY DEF LockInv, NumbersOK
  <2>2. count' = [count EXCEPT ![r] = y - size, ![o] = 0]
    BY <1>1, <1>3, <1>5, <1>6 DEF FillNew
  <2> QED
    BY <1>4, <2>1, <2>2
<1>12. ASSUME NEW x \in OrderId, x # o, x # r PROVE Account(x)'
  <2>1. SameStakes(x) /\ Traded(x)' = Traded(x) /\ count'[x] = count[x] /\ Account(x)
    BY <1>9, <1>10, <1>11, <1>12 DEF SameStakes, TakenSame, AccountInv
  <2> QED
    BY <1>7, <2>1, AccountStays
<1>13. \A t, s \in Nat : (t + s) + 0 = t + s
  OBVIOUS
<1>14. \A t, s, z \in Nat : s < z => (t + s) + (z - s) = t + z
  OBVIOUS
<1>15. Account(o)'
  <2>1. Traded(o)' + count'[o] = Traded(o) + count[o]
    BY <1>5, <1>9, <1>11, <1>13
  <2> QED
    BY <1>4, <1>7, <1>9, <1>10, <2>1, AccountTrades DEF AccountInv
<1>16. Account(r)'
  <2>1. Traded(r)' + count'[r] = Traded(r) + count[r]
    BY <1>6, <1>9, <1>11, <1>14
  <2> QED
    BY <1>4, <1>7, <1>9, <1>10, <2>1, AccountTrades DEF AccountInv
<1> QED
  BY <1>12, <1>15, <1>16 DEF AccountInv

LEMMA FillRestingAccounts ==
  ASSUME LockInv, AccountInv, NEW c \in Client, FillResting(c)
  PROVE  AccountInv'
<1>1. PICK n \in Node, q \in Seq(OrderId), k \in Nat, r \in OrderId :
        /\ Rests(c, n, q, k, r) /\ r = Resting(c) /\ n = curr[c] /\ k \in 1 .. Len(q)
  BY RestingOrder DEF FillResting
<1>2. Rests(c, n, q, k, r) /\ k \in 1 .. Len(q)
  BY <1>1
<1>3. PICK o \in OrderId : o = my[c]
  BY <1>2, RestsLast
<1>4. /\ o # r /\ Waits(o) /\ Waits(r)
      /\ \A d \in Client : Matching(d, n) <=> d = c
  BY <1>2, <1>3, RestsLast
<1>5. PICK size \in Nat : size = count[r] /\ size \in 0 .. Modulus - 1
  BY Counted DEF LockInv
<1>6. PICK y \in Nat : y = count[o] /\ size <= y
  <2>1. count[o] \in Nat
    BY Counted DEF LockInv
  <2> QED
    BY <1>1, <1>3, <1>5, <2>1 DEF FillResting
<1>7. UNCHANGED <<cmd, queue, pc, my, curr>>
  BY DEF FillResting
<1>8. PrintLine(Executed(my[c], r, size))
  BY <1>1, <1>3, <1>5 DEF FillResting
<1>9. ASSUME NEW x \in OrderId
      PROVE  /\ TakenSame(x) /\ Traded(x) \in Nat
             /\ Traded(x)' = IF x = o \/ x = r THEN Traded(x) + size ELSE Traded(x)
  BY <1>2, <1>3, <1>5, <1>7, <1>8, FillLines
<1>10. PICK p \in Nat : /\ p = popped[c] /\ popped'[c] = p + 1 /\ k = Len(q) - p
                        /\ \A d \in Client : d # c => popped'[d] = popped[d]
  <2>1. popped \in [Client -> Nat]
    BY LocalTypes
  <2>2. popped' = [popped EXCEPT ![c] = @ + 1]
    BY DEF FillResting
  <2> QED
    BY <1>2, <2>1, <2>2 DEF Rests
<1>11. q = queue[n] /\ q[k] = r
  BY <1>2 DEF Rests
<1>12. ASSUME NEW x \in OrderId, NEW m \in Node, NEW i \in Nat
       PROVE  RestsAt(x, m, i)' <=> RestsAt(x, m, i) /\ x # r
  <2>1. CASE m = n
    <3>1. RestsAt(x, m, i) <=> i \in DOMAIN q /\ q[i] = x /\ i <= k
      BY <1>4, <1>10, <1>11, <2>1 DEF RestsAt
    <3>2. RestsAt(x, m, i)' <=> i \in DOMAIN q /\ q[i] = x /\ i <= Len(q) - (p + 1)
      <4>1. \A d \in Client : Matching(d, n)' <=> d = c
        BY <1>4, <1>7 DEF Matching
      <4> QED
        BY <1>7, <1>10, <1>11, <2>1, <4>1 DEF RestsAt
    <3>3. i <= Len(q) - (p + 1) <=> i <= k /\ i # k
      <4>1. PICK l \in Nat : l = Len(q)
        OBVIOUS
      <4> QED
        BY <1>10, <4>1
    <3>4. \A j \in DOMAIN q : q[j] = r => j = k
      BY <1>2, <1>11, RestsAlone
    <3> QED
      BY <1>11, <3>1, <3>2, <3>3, <3>4
  <2>2. CASE m # n
    <3>1. RestsAt(x, m, i) => x # r
      BY <1>2, <2>2, RestsAlone DEF RestsAt
    <3>2. \A d \in Client : /\ Matching(d, m)' <=> Matching(d, m)
                            /\ Matching(d, m) => d # c
      BY <1>1, <1>7, <2>2 DEF Matching
    <3>3. RestsAt(x, m, i)' <=> RestsAt(x, m, i)
      BY <1>7, <1>10, <3>2 DEF RestsAt
    <3> QED
      BY <3>1, <3>3
  <2> QED
    BY <2>1, <2>2
<1>13. ASSUME NEW x \in OrderId, x # r PROVE Waits(x)' <=> Waits(x)
  BY <1>7, <1>12, <1>13 DEF Waits, Works
<1>14. ~Waits(r)'
  <2>1. \A d \in Client : ~Works(d, r)
    BY <1>2, RestsAlone DEF Works
  <2>2. \A d \in Client : ~Works(d, r)'
    BY <1>7, <2>1 DEF Works
  <2>3. \A m \in Node, i \in Nat : ~RestsAt(r, m, i)'
    BY <1>12
  <2> QED
    BY <2>2, <2>3 DEF Waits
<1>15. /\ count'[o] = y - size
       /\ \A x \in OrderId : x # o => count'[x] = count[x]
  <2>1. count \in [OrderId -> 0 .. Modulus - 1]
    BY DEF LockInv, NumbersOK
  <2>2. count' = [count EXCEPT ![o] = y - size]
    BY <1>1, <1>3, <1>5, <1>6 DEF FillResting
  <2> QED
    BY <2>1, <2>2
<1>16. ASSUME NEW x \in OrderId, x # o, x # r PROVE Account(x)'
  <2>1. SameStakes(x) /\ Traded(x)' = Traded(x) /\ count'[x] = count[x] /\ Account(x)
    BY <1>9, <1>13, <1>15, <1>16 DEF SameStakes, TakenSame, AccountInv
  <2> QED
    BY <1>7, <2>1, AccountStays
<1>17. \A t, s, z \in Nat : s <= z => (t + s) + (z - s) = t + z
  OBVIOUS
<1>18. Account(o)'
  <2>1. Traded(o)' + count'[o] = Traded(o) + count[o]
    BY <1>6, <1>9, <1>15, <1>17
  <2>2. Waits(o)'
    BY <1>4, <1>13
  <2> QED
    BY <1>4, <1>7, <1>9, <2>1, <2>2, AccountTrades DEF AccountInv
<1>19. Account(r)'
  <2>1. Traded(r)' = Traded(r) + count[r] /\ Traded(r)' \in Nat
    BY <1>5, <1>9
  <2> QED
    BY <1>4, <1>7, <1>9, <1>14, <2>1, AccountCloses DEF AccountInv
<1> QED
  BY <1>16, <1>18, <1>19 DEF AccountInv

-----------------------------------------------------------------------------
(* A step of c that leaves the other threads alone. *)
LEMMA ThreadsSame ==
  ASSUME NEW c \in Client, OthersStay(c), NEW o,
         Works(c, o)' <=> Works(c, o), Cancels(c, o)' <=> Cancels(c, o)
  PROVE  /\ \A d \in Client : Works(d, o)' <=> Works(d, o)
         /\ \A d \in Client : Cancels(d, o)' <=> Cancels(d, o)
<1>1. ASSUME NEW d \in Client, d # c
      PROVE  (Works(d, o)' <=> Works(d, o)) /\ (Cancels(d, o)' <=> Cancels(d, o))
  BY <1>1 DEF OthersStay, Works, Cancels
<1> QED
  BY <1>1

(* A new order is staked as a whole. *)
LEMMA ReadOrderAccounts ==
  ASSUME LockInv, AccountInv, NEW c \in Client, NEW o \in OrderId, NEW offer \in Offer,
         ReadOrder(c, o, offer)
  PROVE  AccountInv'
<1>1. /\ pc \in [Client -> Pc] /\ my \in [Client -> OrderId \cup {Nil}]
      /\ cmd \in [OrderId -> Command \cup {Nil}]
      /\ count \in [OrderId -> 0 .. Modulus - 1]
  BY DEF LockInv, IInv, ShapeOK, NumbersOK
<1>2. /\ pc[c] = "read" /\ cmd[o] = Nil /\ pc'[c] = "lock book" /\ my'[c] = o
      /\ UNCHANGED <<queue, curr, v, popped, printed>>
  BY <1>1 DEF ReadOrder, Goto, bookVars
<1>3. OthersStay(c)
  BY <1>1 DEF ReadOrder, Goto, OthersStay
<1>4. /\ cmd'[o].count = offer.count /\ count'[o] = offer.count
      /\ \A x \in OrderId : x # o => cmd'[x] = cmd[x] /\ count'[x] = count[x]
  BY <1>1 DEF ReadOrder
<1>5. cmd'[o] # Nil
  <2>1. cmd'[o] = [side |-> offer.side, price |-> offer.price,
                   count |-> offer.count, time |-> clock']
    BY <1>1 DEF ReadOrder
  <2>2. clock' \in Nat
    <3>1. clock \in Nat /\ clock' \in {clock + d : d \in Ticks}
      BY DEF ReadOrder, Stamp, LockInv, IInv, ShapeOK
    <3> QED
      BY <3>1, BookAssumption
  <2>3. cmd'[o] \in Command
    BY <2>1, <2>2, BookAssumption DEF Command
  <2> QED
    BY <2>3, BookAssumption
<1>6. \A d \in Client, n \in Node : /\ Matching(d, n)' <=> Matching(d, n)
                                    /\ Matching(d, n) => popped'[d] = popped[d]
  <2>1. ASSUME NEW d \in Client, NEW n \in Node PROVE Matching(d, n)' <=> Matching(d, n)
    <3>1. CASE d = c
      BY <1>2, <3>1 DEF Matching
    <3>2. CASE d # c
      BY <1>3, <3>2 DEF OthersStay, Matching
    <3> QED
      BY <3>1, <3>2
  <2> QED
    BY <1>2, <2>1
<1>7. ASSUME NEW x \in OrderId
      PROVE  \A n \in Node, i \in Nat : RestsAt(x, n, i)' <=> RestsAt(x, n, i)
  BY <1>2, <1>6, SameRests
<1>8. ASSUME NEW x \in OrderId
      PROVE  /\ Traded(x)' = Traded(x)
             /\ \A i \in Nat : /\ TakenOut(x, i)' <=> TakenOut(x, i)
                               /\ TakenOut(x, i) => printed'[i] = printed[i]
  BY <1>2, Unprinted DEF SameLines
<1>9. ASSUME NEW x \in OrderId, x # o PROVE Account(x)'
  <2>1. /\ Works(c, x)' <=> Works(c, x)
        /\ Cancels(c, x)' <=> Cancels(c, x)
    BY <1>2, <1>9 DEF Works, Cancels, OrderPc
  <2>2. /\ \A d \in Client : Works(d, x)' <=> Works(d, x)
        /\ \A d \in Client : Cancels(d, x)' <=> Cancels(d, x)
    BY <1>3, <2>1, ThreadsSame
  <2>3. SameStakes(x)
    BY <1>7, <1>8, <2>2 DEF SameStakes, Waits
  <2>4. Account(x)
    BY DEF AccountInv
  <2> QED
    BY <1>4, <1>8, <1>9, <2>3, <2>4, AccountStays
<1>10. Traded(o) = 0 /\ ~Staked(o)
  BY <1>2 DEF AccountInv, Account, Settled
<1>11. \A d \in Client : ~Cancels(d, o)'
  <2>1. ~Cancels(c, o)'
    BY <1>2 DEF Cancels
  <2>2. \A d \in Client : d # c => (Cancels(d, o)' <=> Cancels(d, o))
    BY <1>3 DEF OthersStay, Cancels
  <2> QED
    BY <1>10, <2>1, <2>2 DEF Staked
<1>12. \A i \in Nat : ~TakenOut(o, i)'
  BY <1>8, <1>10 DEF Staked
<1>13. Staked(o)'
  <2>1. Works(c, o)'
    BY <1>2 DEF Works, OrderPc
  <2> QED
    BY <2>1 DEF Staked, Waits
<1>14. Settled(o)'
  <2>1. Traded(o)' = 0 /\ Owed(o)' = offer.count
    BY <1>4, <1>8, <1>10, <1>13 DEF Owed
  <2>2. offer.count \in Nat
    <3>1. Modulus \in Nat /\ offer.count \in 0 .. Modulus - 1
      BY BookAssumption
    <3> QED
      BY <3>1
  <2>3. 0 + offer.count = offer.count
    BY <2>2
  <2> QED
    BY <1>4, <1>5, <2>1, <2>3 DEF Settled
<1>15. OneStake(o)' /\ AsRead(o)'
  BY <1>11, <1>12 DEF OneStake, AsRead
<1> QED
  BY <1>9, <1>14, <1>15 DEF AccountInv, Account

-----------------------------------------------------------------------------
(* Nobody matches a level that another thread holds to change it. *)
LEMMA NobodyMatches ==
  ASSUME LockInv, NEW c \in Client, pc[c] \in OneLockPc, pc'[c] # "match", OthersStay(c),
         NEW n \in Node, n = curr[c]
  PROVE  /\ \A d \in Client : ~Matching(d, n) /\ ~Matching(d, n)'
         /\ \A m \in Node : ~Matching(c, m) /\ ~Matching(c, m)'
<1>1. Holds(c, n)
  BY HoldsLevel DEF LockInv
<1>2. pc[c] # "match"
  BY DEF OneLockPc
<1>3. ASSUME NEW d \in Client, Matching(d, n) PROVE FALSE
  <2>1. d = c
    BY <1>1, <1>3, AloneOnLevel DEF LockInv
  <2> QED
    BY <1>2, <1>3, <2>1 DEF Matching
<1>4. ASSUME NEW d \in Client, Matching(d, n)' PROVE FALSE
  <2>1. CASE d = c
    BY <1>4, <2>1 DEF Matching
  <2>2. CASE d # c
    BY <1>3, <1>4, <2>2 DEF Matching, OthersStay
  <2> QED
    BY <2>1, <2>2
<1> QED
  BY <1>2, <1>3, <1>4 DEF Matching

(* A level that nobody matches rests as a whole. *)
LEMMA RestsWhole ==
  ASSUME NEW n \in Node, \A d \in Client : ~Matching(d, n), NEW o, NEW i \in Nat
  PROVE  RestsAt(o, n, i) <=> i \in DOMAIN queue[n] /\ queue[n][i] = o
BY DEF RestsAt

(* The order goes from its thread into the level. *)
LEMMA EnqueueAccounts ==
  ASSUME LockInv, AccountInv, NEW c \in Client, Enqueue(c)
  PROVE  AccountInv'
<1>1. pc[c] = "enqueue" /\ pc[c] \in OneLockPc /\ pc[c] \in OrderPc
      /\ UNCHANGED <<cmd, count>>
  BY DEF Enqueue, OneLockPc, OrderPc, orderVars
<1>2. OthersStay(c) /\ pc'[c] = "read"
  BY FinishGoes DEF Enqueue
<1>3. PICK o \in OrderId : o = my[c] /\ cmd[o] # Nil
  BY <1>1, OrderOf
<1>4. PICK n \in Node : n = curr[c]
  BY <1>1, HoldsLevel DEF LockInv
<1>5. /\ \A d \in Client : ~Matching(d, n) /\ ~Matching(d, n)'
      /\ \A m \in Node : ~Matching(c, m) /\ ~Matching(c, m)'
  BY <1>1, <1>2, <1>4, NobodyMatches
<1>6. PICK q \in Seq(OrderId) : q = queue[n]
  BY DEF LockInv, NumbersOK
<1>7. PICK time \in Nat : time = cmd[o].time
  BY <1>3 DEF LockInv, IInv, ShapeOK, Command
<1>8. \A i \in DOMAIN q : cmd[q[i]].time \in Nat
  <2>1. \A i \in DOMAIN q : q[i] \in OrderId
    OBVIOUS
  <2>2. \A i \in DOMAIN queue[n] : cmd[queue[n][i]] # Nil
    BY DEF LockInv, Places, Known
  <2>3. \A x \in OrderId : cmd[x] # Nil => cmd[x].time \in Nat
    BY DEF LockInv, IInv, ShapeOK, Command
  <2> QED
    BY <1>6, <2>1, <2>2, <2>3
<1>9. PICK l \in Nat, k \in Nat, r \in Seq(OrderId) :
        /\ l = Len(q) /\ 1 <= k /\ k <= l + 1 /\ DOMAIN q = 1 .. l
        /\ r = InsertAt(q, Position(q, time), o)
        /\ Len(r) = l + 1 /\ DOMAIN r = 1 .. l + 1
        /\ \A i \in 1 .. l + 1 :
             r[i] = IF i < k THEN q[i] ELSE IF i = k THEN o ELSE q[i - 1]
  BY ZenonT(30), <1>8, Placed
<1>10. queue'[n] = r /\ \A m \in Node : m # n => queue'[m] = queue[m]
  <2>1. queue \in [Node -> Seq(OrderId)]
    BY DEF LockInv, NumbersOK
  <2>2. queue' = [queue EXCEPT ![n] = r]
    BY <1>3, <1>4, <1>6, <1>7, <1>9 DEF Enqueue
  <2> QED
    BY <2>1, <2>2
<1>11. k \in 1 .. l + 1 /\ r[k] = o
  <2>1. k \in 1 .. l + 1 /\ ~(k < k)
    BY <1>9
  <2> QED
    BY <1>9, <2>1
<1>12. ASSUME NEW x \in OrderId, x # o
       PROVE  (\E i \in Nat : RestsAt(x, n, i)') <=> \E i \in Nat : RestsAt(x, n, i)
  <2>1. (\E i \in Nat : RestsAt(x, n, i)) <=> \E i \in 1 .. l : q[i] = x
    BY <1>5, <1>6, <1>9, RestsWhole
  <2>2. (\E i \in Nat : RestsAt(x, n, i)') <=> \E i \in 1 .. l + 1 : r[i] = x
    BY <1>5, <1>9, <1>10 DEF RestsAt
  <2>3. ASSUME NEW i \in 1 .. l, q[i] = x PROVE \E j \in 1 .. l + 1 : r[j] = x
    <3>1. CASE i < k
      <4>1. i \in 1 .. l + 1
        OBVIOUS
      <4> QED
        BY <1>9, <2>3, <3>1, <4>1
    <3>2. CASE ~(i < k)
      <4>1. PICK j \in 1 .. l + 1 : j = i + 1
        OBVIOUS
      <4>2. ~(j < k) /\ j # k /\ j - 1 = i
        BY <1>9, <3>2, <4>1
      <4>3. r[j] = q[i]
        BY <1>9, <4>2
      <4> QED
        BY <2>3, <4>3
    <3> QED
      BY <3>1, <3>2
  <2>4. ASSUME NEW i \in 1 .. l + 1, r[i] = x PROVE \E j \in 1 .. l : q[j] = x
    <3>1. \/ i = k
          \/ i < k /\ i \in 1 .. l
          \/ ~(i < k) /\ i # k /\ i - 1 \in 1 .. l
      <4>1. k \in Nat /\ l \in Nat /\ 1 <= k /\ k <= l + 1
        BY <1>9
      <4> QED
        BY <4>1
    <3>2. r[i] = IF i < k THEN q[i] ELSE IF i = k THEN o ELSE q[i - 1]
      BY <1>9
    <3> QED
      BY <1>12, <2>4, <3>1, <3>2
  <2> QED
    BY <2>1, <2>2, <2>3, <2>4
<1>13. ASSUME NEW x \in OrderId, NEW m \in Node, m # n, NEW i \in Nat
       PROVE  RestsAt(x, m, i)' <=> RestsAt(x, m, i)
  <2>1. queue'[m] = queue[m] /\ ~Matching(c, m) /\ ~Matching(c, m)'
    BY <1>5, <1>10, <1>13
  <2> QED
    BY <1>2, <2>1, RestsStay
<1>14. ASSUME NEW x \in OrderId PROVE Waits(x)' <=> Waits(x)
  <2>1. \A d \in Client : d # c => (Works(d, x)' <=> Works(d, x))
    BY <1>2 DEF OthersStay, Works
  <2>2. CASE x = o
    <3>1. Works(c, o)
      BY <1>1, <1>3 DEF Works
    <3>2. RestsAt(o, n, k)'
      BY <1>5, <1>9, <1>10, <1>11 DEF RestsAt
    <3> QED
      BY <2>2, <3>1, <3>2 DEF Waits
  <2>3. CASE x # o
    <3>1. ~Works(c, x) /\ ~Works(c, x)'
      BY <1>2, <1>3, <2>3 DEF Works, OrderPc
    <3>2. (\E d \in Client : Works(d, x)') <=> \E d \in Client : Works(d, x)
      BY <2>1, <3>1
    <3>3. (\E i \in Nat : RestsAt(x, n, i)') <=> \E i \in Nat : RestsAt(x, n, i)
      BY <1>12, <2>3
    <3>4. (\E m \in Node, i \in Nat : RestsAt(x, m, i)')
            <=> \E m \in Node, i \in Nat : RestsAt(x, m, i)
      BY <1>13, <3>3
    <3> QED
      BY <3>2, <3>4 DEF Waits
  <2> QED
    BY <2>2, <2>3
<1>15. ASSUME NEW x \in OrderId PROVE SameLines(x)
  <2>1. PICK e \in Line : e = Added(o)
    BY <1>3, AddedTyped
  <2>2. printed' = Append(printed, e)
    BY <1>3, <2>1 DEF Enqueue, PrintLine
  <2>3. ~IsTrade(e, x) /\ ~TakesOut(e, x)
    BY <2>1 DEF Added, IsTrade, TakesOut
  <2> QED
    BY <2>2, <2>3, OtherLine
<1>16. ASSUME NEW x \in OrderId PROVE Account(x)'
  <2>1. Cancels(c, x)' <=> Cancels(c, x)
    BY <1>1, <1>2 DEF Cancels
  <2>2. \A d \in Client : Cancels(d, x)' <=> Cancels(d, x)
    BY <1>2, <2>1 DEF OthersStay, Cancels
  <2>3. SameStakes(x) /\ Account(x) /\ Traded(x)' = Traded(x)
    BY <1>14, <1>15, <2>2 DEF SameStakes, SameLines, AccountInv
  <2> QED
    BY <1>1, <2>3, AccountStays
<1> QED
  BY <1>16 DEF AccountInv

(* The order goes from the level to the thread that cancels it. *)
LEMMA CancelEraseAccounts ==
  ASSUME LockInv, AccountInv, NEW c \in Client, CancelErase(c)
  PROVE  AccountInv'
<1>1. /\ pc[c] = "cancel level" /\ pc[c] \in OneLockPc
      /\ UNCHANGED <<cmd, count, my, curr, v, popped, printed>>
  BY DEF CancelErase, OneLockPc, orderVars
<1>2. pc'[c] = "cancelled" /\ OthersStay(c)
  <2>1. pc \in [Client -> Pc] /\ pc' = [pc EXCEPT ![c] = "cancelled"]
    BY DEF CancelErase, Goto, LockInv, IInv, ShapeOK
  <2> QED
    BY <1>1, <2>1 DEF OthersStay
<1>3. PICK o \in OrderId : o = my[c]
  BY <1>1 DEF LockInv, IInv, HasOrder, Idle
<1>4. PICK n \in Node : n = curr[c]
  BY <1>1, HoldsLevel DEF LockInv
<1>5. /\ \A d \in Client : ~Matching(d, n) /\ ~Matching(d, n)'
      /\ \A m \in Node : ~Matching(c, m) /\ ~Matching(c, m)'
  BY <1>1, <1>2, <1>4, NobodyMatches
<1>6. PICK q \in Seq(OrderId) : q = queue[n]
  BY DEF LockInv, NumbersOK
<1>7. o \in ToSet(q)
  BY <1>3, <1>4, <1>6 DEF CancelErase
<1>8. PICK l \in Nat, k \in Nat, r \in Seq(OrderId) :
        /\ l = Len(q) /\ 1 <= k /\ k <= l /\ q[k] = o /\ DOMAIN q = 1 .. l
        /\ r = Erase(q, o) /\ Len(r) = l - 1 /\ DOMAIN r = 1 .. l - 1
        /\ \A i \in 1 .. l - 1 :
             /\ i \in 1 .. l /\ i + 1 \in 1 .. l
             /\ r[i] = IF i < k THEN q[i] ELSE q[i + 1]
  BY <1>7, Erased
<1>9. queue'[n] = r /\ \A m \in Node : m # n => queue'[m] = queue[m]
  <2>1. queue \in [Node -> Seq(OrderId)]
    BY DEF LockInv, NumbersOK
  <2>2. queue' = [queue EXCEPT ![n] = r]
    BY <1>3, <1>4, <1>6, <1>8 DEF CancelErase
  <2> QED
    BY <2>1, <2>2
<1>10. k \in DOMAIN queue[n] /\ queue[n][k] = o /\ k \in 1 .. l
  BY <1>6, <1>8
<1>11. /\ \A d \in Client : ~Works(d, o)
       /\ \A m \in Node : \A i \in DOMAIN queue[m] : queue[m][i] = o => m = n /\ i = k
       /\ cmd[o] # Nil
  <2>1. OnePlace /\ Known
    BY DEF LockInv, Places
  <2>2. \A d \in Client : ~Works(d, o)
    BY <1>10, <2>1 DEF OnePlace, Works
  <2>3. \A m \in Node : \A i \in DOMAIN queue[m] : queue[m][i] = o => m = n /\ i = k
    BY <1>10, <2>1 DEF OnePlace
  <2>4. cmd[o] # Nil
    BY <1>10, <2>1 DEF Known
  <2> QED
    BY <2>2, <2>3, <2>4
<1>12. ASSUME NEW x \in OrderId
       PROVE  (\E i \in Nat : RestsAt(x, n, i)') <=> x # o /\ \E i \in Nat : RestsAt(x, n, i)
  <2>1. (\E i \in Nat : RestsAt(x, n, i)) <=> \E i \in 1 .. l : q[i] = x
    BY <1>5, <1>6, <1>8, RestsWhole
  <2>2. (\E i \in Nat : RestsAt(x, n, i)') <=> \E i \in 1 .. l - 1 : r[i] = x
    BY <1>5, <1>8, <1>9 DEF RestsAt
  <2>3. ASSUME NEW i \in 1 .. l, q[i] = x, x # o PROVE \E j \in 1 .. l - 1 : r[j] = x
    <3>1. CASE i < k
      <4>1. i \in 1 .. l - 1
        BY <1>8, <3>1
      <4> QED
        BY <1>8, <2>3, <3>1, <4>1
    <3>2. CASE ~(i < k)
      <4>1. i # k
        BY <1>8, <2>3
      <4>2. PICK j \in 1 .. l - 1 : j = i - 1 /\ ~(j < k) /\ j + 1 = i
        <5>1. i - 1 \in 1 .. l - 1 /\ ~(i - 1 < k) /\ (i - 1) + 1 = i
          BY <1>8, <3>2, <4>1
        <5> QED
          BY <5>1
      <4>3. r[j] = q[i]
        BY <1>8, <4>2
      <4> QED
        BY <2>3, <4>3
    <3> QED
      BY <3>1, <3>2
  <2>4. ASSUME NEW i \in 1 .. l - 1 PROVE r[i] # o /\ \E j \in 1 .. l : q[j] = r[i]
    <3>1. PICK j \in 1 .. l : j = (IF i < k THEN i ELSE i + 1) /\ j # k /\ r[i] = q[j]
      <4>1. i \in 1 .. l /\ i + 1 \in 1 .. l /\ r[i] = IF i < k THEN q[i] ELSE q[i + 1]
        BY <1>8
      <4>2. IF i < k THEN i # k ELSE i + 1 # k
        BY <1>8
      <4> QED
        BY <4>1, <4>2
    <3>2. q[j] # o
      BY <1>6, <1>8, <1>11, <3>1
    <3> QED
      BY <3>1, <3>2
  <2> QED
    BY <2>1, <2>2, <2>3, <2>4
<1>13. ASSUME NEW x \in OrderId, NEW m \in Node, m # n, NEW i \in Nat
       PROVE  RestsAt(x, m, i)' <=> RestsAt(x, m, i)
  <2>1. queue'[m] = queue[m] /\ ~Matching(c, m) /\ ~Matching(c, m)'
    BY <1>5, <1>9, <1>13
  <2> QED
    BY <1>2, <2>1, RestsStay
<1>14. ASSUME NEW x \in OrderId PROVE \A d \in Client : Works(d, x)' <=> Works(d, x)
  <2>1. ~Works(c, x) /\ ~Works(c, x)'
    BY <1>1, <1>2 DEF Works, OrderPc
  <2>2. \A d \in Client : d # c => (Works(d, x)' <=> Works(d, x))
    BY <1>2 DEF OthersStay, Works
  <2> QED
    BY <2>1, <2>2
<1>15. ASSUME NEW x \in OrderId PROVE SameLines(x)
  BY <1>1, Unprinted
<1>16. ASSUME NEW x \in OrderId, NEW d \in Client, d # c \/ x # o
       PROVE  Cancels(d, x)' <=> Cancels(d, x)
  BY <1>1, <1>2, <1>3, <1>16 DEF OthersStay, Cancels
<1>17. ASSUME NEW x \in OrderId, x # o PROVE Account(x)'
  <2>1. (\E m \in Node, i \in Nat : RestsAt(x, m, i)')
          <=> \E m \in Node, i \in Nat : RestsAt(x, m, i)
    BY <1>12, <1>13, <1>17
  <2>2. Waits(x)' <=> Waits(x)
    BY <1>14, <2>1 DEF Waits
  <2>3. SameStakes(x) /\ Account(x) /\ Traded(x)' = Traded(x)
    BY <1>15, <1>16, <1>17, <2>2 DEF SameStakes, SameLines, AccountInv
  <2> QED
    BY <1>1, <2>3, AccountStays
<1>18. Account(o)'
  <2>1. Waits(o)
    <3>1. RestsAt(o, n, k)
      BY <1>5, <1>10 DEF RestsAt
    <3> QED
      BY <3>1 DEF Waits
  <2>2. Account(o) /\ SameLines(o)
    BY <1>15 DEF AccountInv
  <2>3. /\ \A d \in Client : Cancels(d, o)' <=> d = c
        /\ \A i \in Nat : ~TakenOut(o, i)'
    <3>1. /\ \A d \in Client : ~Cancels(d, o)
          /\ \A i \in Nat : ~TakenOut(o, i)
      BY <2>1, <2>2 DEF Account, OneStake
    <3>2. \A i \in Nat : ~TakenOut(o, i)'
      BY <2>2, <3>1 DEF SameLines
    <3>3. \A d \in Client : d # c => ~Cancels(d, o)'
      BY <1>16, <3>1
    <3>4. Cancels(c, o)'
      BY <1>1, <1>2, <1>3 DEF Cancels
    <3> QED
      BY <3>2, <3>3, <3>4
  <2>4. ~Waits(o)'
    <3>1. \A m \in Node, i \in Nat : ~RestsAt(o, m, i)'
      <4>1. \A i \in Nat : ~RestsAt(o, n, i)'
        BY <1>12
      <4>2. \A m \in Node, i \in Nat : m # n => ~RestsAt(o, m, i)
        BY <1>11 DEF RestsAt
      <4> QED
        BY <1>13, <4>1, <4>2
    <3> QED
      BY <1>11, <1>14, <3>1 DEF Waits
  <2>5. OneStake(o)' /\ AsRead(o)'
    BY <2>3, <2>4 DEF OneStake, AsRead
  <2>6. Staked(o) /\ Staked(o)'
    BY <2>1, <2>3 DEF Staked
  <2>7. Settled(o)'
    BY <1>1, <2>2, <2>6 DEF Account, SameLines, Settled, Owed
  <2> QED
    BY <2>5, <2>7 DEF Account
<1> QED
  BY <1>17, <1>18 DEF AccountInv

(* The accepted cancel is printed. *)
LEMMA AcceptCancelAccounts ==
  ASSUME LockInv, AccountInv, NEW c \in Client, AcceptCancel(c)
  PROVE  AccountInv'
<1>1. pc[c] = "cancelled" /\ UNCHANGED <<cmd, count, queue>>
  BY DEF AcceptCancel, orderVars
<1>2. OthersStay(c) /\ pc'[c] = "read"
  BY FinishGoes DEF AcceptCancel
<1>3. PICK o \in OrderId : o = my[c] /\ cmd[o] # Nil
  BY <1>1 DEF LockInv, IInv, HasOrder, Idle, Places, Known
<1>4. PICK e \in Line : e = Deleted(o, TRUE, cmd[o].time)
  <2>1. cmd[o].time \in Nat
    BY <1>3 DEF LockInv, IInv, ShapeOK, Command
  <2> QED
    BY <2>1 DEF Deleted, Line
<1>5. printed' = Append(printed, e)
  BY <1>3, <1>4 DEF AcceptCancel, PrintLine
<1>6. /\ \A x : ~IsTrade(e, x)
      /\ \A x : TakesOut(e, x) <=> x = o
  BY <1>4 DEF Deleted, IsTrade, TakesOut
<1>7. ASSUME NEW x \in OrderId PROVE Waits(x)' <=> Waits(x)
  <2>1. \A d \in Client, n \in Node : /\ Matching(d, n)' <=> Matching(d, n)
                                      /\ Matching(d, n) => popped'[d] = popped[d]
    <3>1. ASSUME NEW d \in Client, NEW n \in Node
          PROVE  /\ Matching(d, n)' <=> Matching(d, n)
                 /\ Matching(d, n) => popped'[d] = popped[d]
      <4>1. CASE d = c
        BY <1>1, <1>2, <4>1 DEF Matching
      <4>2. CASE d # c
        BY <1>2, <4>2 DEF OthersStay, Matching
      <4> QED
        BY <4>1, <4>2
    <3> QED
      BY <3>1
  <2>2. \A n \in Node, i \in Nat : RestsAt(x, n, i)' <=> RestsAt(x, n, i)
    BY <1>1, <2>1, SameRests
  <2>3. ~Works(c, x) /\ ~Works(c, x)'
    BY <1>1, <1>2 DEF Works, OrderPc
  <2>4. \A d \in Client : d # c => (Works(d, x)' <=> Works(d, x))
    BY <1>2 DEF OthersStay, Works
  <2> QED
    BY <2>2, <2>3, <2>4 DEF Waits
<1>8. ASSUME NEW x \in OrderId
      PROVE  \A d \in Client : Cancels(d, x)' <=> Cancels(d, x) /\ d # c
  <2>1. ~Cancels(c, x)'
    BY <1>2 DEF Cancels
  <2>2. \A d \in Client : d # c => (Cancels(d, x)' <=> Cancels(d, x))
    BY <1>2 DEF OthersStay, Cancels
  <2> QED
    BY <2>1, <2>2
<1>9. PICK k \in Nat : k = Len(printed) + 1
  <2>1. Len(printed) \in Nat
    BY <1>5, OneLineMore
  <2> QED
    BY <2>1
<1>10. ASSUME NEW x \in OrderId
       PROVE  /\ Traded(x)' = Traded(x)
              /\ \A i \in Nat :
                   /\ TakenOut(x, i)' <=> TakenOut(x, i) \/ (i = k /\ x = o)
                   /\ TakenOut(x, i) => printed'[i] = printed[i]
              /\ printed'[k] = e
  BY <1>5, <1>6, <1>9, OneLineMore
<1>11. ASSUME NEW x \in OrderId, x # o PROVE Account(x)'
  <2>1. ~Cancels(c, x)
    BY <1>3, <1>11 DEF Cancels
  <2>2. \A d \in Client : Cancels(d, x)' <=> Cancels(d, x)
    BY <1>8, <2>1
  <2>3. SameStakes(x) /\ Account(x) /\ Traded(x)' = Traded(x)
    BY <1>7, <1>10, <1>11, <2>2 DEF SameStakes, AccountInv
  <2> QED
    BY <1>1, <2>3, AccountStays
<1>12. Account(o)'
  <2>1. Cancels(c, o) /\ Account(o)
    BY <1>1, <1>3 DEF Cancels, AccountInv
  <2>2. /\ ~Waits(o) /\ \A i \in Nat : ~TakenOut(o, i)
        /\ \A d \in Client : Cancels(d, o) => d = c
    BY <2>1 DEF Account, OneStake
  <2>3. /\ ~Waits(o)' /\ \A d \in Client : ~Cancels(d, o)'
        /\ \A i \in Nat : TakenOut(o, i)' <=> i = k
    BY <1>7, <1>8, <1>10, <2>2
  <2>4. OneStake(o)'
    BY <2>3 DEF OneStake
  <2>5. AsRead(o)'
    <3>1. printed'[k] = Deleted(o, TRUE, cmd[o].time)'
      BY <1>1, <1>4, <1>10 DEF Deleted
    <3> QED
      BY <2>3, <3>1 DEF AsRead
  <2>6. Staked(o) /\ Staked(o)'
    BY <2>1, <2>3 DEF Staked
  <2>7. Settled(o)'
    BY <1>1, <1>10, <2>1, <2>6 DEF Account, Settled, Owed
  <2> QED
    BY <2>4, <2>5, <2>7 DEF Account
<1> QED
  BY <1>11, <1>12 DEF AccountInv

-----------------------------------------------------------------------------
LEMMA InitAccounts ==
  ASSUME Init
  PROVE  AccountInv
<1> SUFFICES ASSUME NEW o \in OrderId PROVE Account(o)
  BY DEF AccountInv
<1>1. PICK q : q = printed
  OBVIOUS
<1>2. DOMAIN q = 1 .. 0 /\ q = <<>>
  BY <1>1 DEF Init
<1>3. PICK sum : Totals(q, sum, 0, o) /\ TradedIn(q, o) = sum[0]
  BY <1>2, TradedIs
<1>4. Traded(o) = 0
  BY <1>1, <1>3, TradedBefore DEF Totals
<1>5. \A i \in Nat : ~TakenOut(o, i)
  BY <1>1, <1>2 DEF TakenOut
<1>6. \A c \in Client : ~Cancels(c, o) /\ ~Works(c, o)
  BY DEF Init, Cancels, Works, OrderPc
<1>7. \A n \in Node, i \in Nat : ~RestsAt(o, n, i)
  BY DEF Init, RestsAt
<1>8. ~Staked(o) /\ cmd[o] = Nil
  BY <1>5, <1>6, <1>7 DEF Staked, Waits, Init
<1> QED
  BY <1>4, <1>5, <1>6, <1>7, <1>8 DEF Account, OneStake, AsRead, Settled

LEMMA StaysAccounted ==
  ASSUME LockInv, AccountInv, [Next]_vars
  PROVE  AccountInv'
<1>1. ASSUME NEW c \in Client, Read(c) \/ EndOfFile(c) PROVE AccountInv'
  BY <1>1, ReadOrderAccounts, ReadPasses, PassesKeeps DEF Read
<1>2. ASSUME NEW c \in Client, Prelude(c) \/ UnlockBook(c) PROVE AccountInv'
  BY <1>2, PreludePasses, PassesKeeps
<1>3. ASSUME NEW c \in Client, Match(c) PROVE AccountInv'
  BY <1>3, MatchHeadAccounts, LeaveLevelAccounts, FillRestingAccounts, FillNewAccounts
     DEF Match
<1>4. ASSUME NEW c \in Client, AddToBook(c) PROVE AccountInv'
  BY <1>4, PlacePasses, EnqueueAccounts, PassesKeeps DEF AddToBook
<1>5. ASSUME NEW c \in Client, CancelHead(c) \/ Cancel(c) PROVE AccountInv'
  BY <1>5, CancelPasses, CancelEraseAccounts, AcceptCancelAccounts, PassesKeeps DEF Cancel
<1>6. CASE UNCHANGED vars
  <2>1. UNCHANGED <<cmd, count, queue, pc, my, curr, popped, printed>>
    BY <1>6 DEF vars, orderVars, bookVars, threadVars
  <2>2. ASSUME NEW o \in OrderId PROVE Account(o)'
    <3>1. SameLines(o)
      BY <2>1, Unprinted
    <3>2. Waits(o)' <=> Waits(o)
      BY <2>1 DEF Waits, Works, RestsAt, Matching
    <3>3. \A c \in Client : Cancels(c, o)' <=> Cancels(c, o)
      BY <2>1 DEF Cancels
    <3>4. SameStakes(o) /\ Account(o) /\ Traded(o)' = Traded(o)
      BY <3>1, <3>2, <3>3 DEF SameStakes, SameLines, AccountInv
    <3> QED
      BY <2>1, <3>4, AccountStays
  <2> QED
    BY <2>2 DEF AccountInv
<1> QED
  BY <1>1, <1>2, <1>3, <1>4, <1>5, <1>6 DEF Next, Work, Terminated

(* What SizesAddUp counts are the stakes. *)
LEMMA UnmatchedRest ==
  ASSUME LockInv, NEW n \in Node, NEW o
  PROVE  o \in ToSet(Unmatched(n)) <=> \E i \in Nat : RestsAt(o, n, i)
<1>1. PICK k \in Nat : /\ k <= Len(queue[n]) /\ AreLeft(n, k)
                       /\ Unmatched(n) = SubSeq(queue[n], 1, k)
  BY UnmatchedIs
<1>2. PICK q \in Seq(OrderId) : q = queue[n]
  BY DEF LockInv, NumbersOK
<1>3. /\ DOMAIN SubSeq(q, 1, k) = 1 .. k
      /\ \A i \in 1 .. k : i \in DOMAIN q /\ SubSeq(q, 1, k)[i] = q[i]
  BY <1>1, <1>2, FirstOnes
<1>4. PICK s : s = Unmatched(n)
  OBVIOUS
<1>5. o \in ToSet(s) <=> \E i \in 1 .. k : q[i] = o
  BY <1>1, <1>2, <1>3, <1>4 DEF ToSet
<1>6. ASSUME NEW i \in Nat
      PROVE  RestsAt(o, n, i) <=> i \in DOMAIN q /\ q[i] = o /\ i <= k
  <2>1. CASE \E c \in Client : Matching(c, n) /\ k = Len(queue[n]) - popped[c]
    <3>1. PICK c \in Client : Matching(c, n) /\ k = Len(queue[n]) - popped[c]
      BY <2>1
    <3>2. \A d \in Client : Matching(d, n) <=> d = c
      <4>1. Holds(c, n)
        BY <3>1, HoldsLevel DEF LockInv, Matching, MatchPc
      <4> QED
        BY <3>1, <4>1, AloneOnLevel DEF LockInv
    <3> QED
      BY <1>2, <3>1, <3>2 DEF RestsAt
  <2>2. CASE (\A c \in Client : ~Matching(c, n)) /\ k = Len(queue[n])
    <3>1. i \in DOMAIN q => i <= k
      BY <1>2, <2>2
    <3> QED
      BY <1>2, <2>2, <3>1 DEF RestsAt
  <2> QED
    BY <1>1, <2>1, <2>2 DEF AreLeft
<1>7. \A i : i \in 1 .. k <=> i \in Nat /\ i \in DOMAIN q /\ i <= k
  <2>1. \A i \in DOMAIN q : 1 <= i /\ i \in Nat
    OBVIOUS
  <2> QED
    BY <1>3, <2>1
<1> QED
  BY <1>4, <1>5, <1>6, <1>7

LEMMA AccountsAddUp == LockInv /\ AccountInv => SizesAddUp
<1> SUFFICES ASSUME LockInv, AccountInv, NEW o \in OrderId, cmd[o] # Nil
             PROVE  LET waits == \/ o \in UNION {ToSet(Unmatched(n)) : n \in Node}
                                 \/ \E c \in Client : my[c] = o /\ pc[c] \in OrderPc
                        taken == Cardinality(Accepted(o))
                                 + Cardinality({c \in Client : my[c] = o /\ pc[c] = "cancelled"})
                    IN Traded(o) + count[o] * (taken + (IF waits THEN 1 ELSE 0)) = cmd[o].count
  BY DEF SizesAddUp
<1>1. Account(o)
  BY DEF AccountInv
<1>2. PICK lines : lines = Accepted(o)
  OBVIOUS
<1>3. PICK threads : threads = {c \in Client : my[c] = o /\ pc[c] = "cancelled"}
  OBVIOUS
<1>4. PICK t \in Nat, s \in Nat : t = Traded(o) /\ s = count[o]
  <2>1. Traded(o) \in Nat
    BY LocalTypes, TradedTyped, TradedBefore
  <2>2. Modulus \in Nat /\ count[o] \in 0 .. Modulus - 1
    BY BookAssumption DEF LockInv, NumbersOK
  <2>3. count[o] \in Nat
    BY <2>2
  <2> QED
    BY <2>1, <2>3
<1>5. \/ o \in UNION {ToSet(Unmatched(n)) : n \in Node}
      \/ \E c \in Client : my[c] = o /\ pc[c] \in OrderPc
      <=> Waits(o)
  BY UnmatchedRest DEF Waits, Works
<1>6. \A c : c \in threads <=> c \in Client /\ Cancels(c, o)
  BY <1>3 DEF Cancels
<1>7. \A i : i \in lines <=> i \in Nat /\ TakenOut(o, i)
  <2>1. \A i : i \in lines <=> i \in DOMAIN printed /\ printed[i] = Deleted(o, TRUE, cmd[o].time)
    BY <1>2 DEF Accepted
  <2>2. \A i \in DOMAIN printed : i \in Nat
    BY LocalTypes
  <2>3. \A i : printed[i] = Deleted(o, TRUE, cmd[o].time) => TakesOut(printed[i], o)
    BY DEF TakesOut, Deleted
  <2> QED
    BY <1>1, <2>1, <2>2, <2>3 DEF Account, AsRead, TakenOut
<1>8. Cardinality({}) = 0 /\ \A x : Cardinality({x}) = 1
  BY FS_EmptySet, FS_Singleton
<1>9. ~Waits(o) /\ (\A c \in Client : ~Cancels(c, o)) /\ (\A i \in Nat : ~TakenOut(o, i))
      => ~Staked(o)
  BY DEF Staked
<1>10. t + Owed(o) = cmd[o].count
  BY <1>1, <1>4 DEF Account, Settled
<1>11. \A x \in Nat : /\ x * ((0 + 0) + 0) = 0 /\ x * ((0 + 0) + 1) = x
                      /\ x * ((1 + 0) + 0) = x /\ x * ((0 + 1) + 0) = x
  OBVIOUS
<1>12. PICK stakes : stakes = (Cardinality(lines) + Cardinality(threads))
                              + (IF Waits(o) THEN 1 ELSE 0)
  OBVIOUS
<1>13. s * stakes = Owed(o)
  <2>1. CASE Waits(o)
    <3>1. lines = {} /\ threads = {} /\ Staked(o)
      BY <1>1, <1>6, <1>7, <2>1 DEF Account, OneStake, Staked
    <3> QED
      BY <1>4, <1>8, <1>11, <1>12, <2>1, <3>1 DEF Owed
  <2>2. CASE \E c \in Client : Cancels(c, o)
    <3>1. PICK c \in Client : Cancels(c, o)
      BY <2>2
    <3>2. lines = {} /\ threads = {c} /\ Staked(o) /\ ~Waits(o)
      BY <1>1, <1>6, <1>7, <3>1 DEF Account, OneStake, Staked
    <3> QED
      BY <1>4, <1>8, <1>11, <1>12, <3>2 DEF Owed
  <2>3. CASE \E i \in Nat : TakenOut(o, i)
    <3>1. PICK i \in Nat : TakenOut(o, i)
      BY <2>3
    <3>2. lines = {i} /\ threads = {} /\ Staked(o) /\ ~Waits(o)
      BY <1>1, <1>6, <1>7, <3>1 DEF Account, OneStake, Staked
    <3> QED
      BY ZenonT(30), <1>4, <1>8, <1>11, <1>12, <3>2 DEF Owed
  <2>4. CASE ~Waits(o) /\ (\A c \in Client : ~Cancels(c, o)) /\ (\A i \in Nat : ~TakenOut(o, i))
    <3>1. lines = {} /\ threads = {} /\ ~Staked(o)
      BY <1>6, <1>7, <1>9, <2>4
    <3> QED
      BY <1>4, <1>8, <1>11, <1>12, <2>4, <3>1 DEF Owed
  <2> QED
    BY <2>1, <2>2, <2>3, <2>4
<1> QED
  BY <1>2, <1>3, <1>4, <1>5, <1>10, <1>12, <1>13

(* Every unit of every order is accounted for exactly once, whatever is    *)
(* cancelled while it is matched and however often: processCancelOrder     *)
(* takes out what is still in its level under the level's mutex, or        *)
(* nothing.                                                                *)
THEOREM EveryUnitOnce == Spec /\ []Fits => []SizesAddUp
<1>1. Init => AccountInv
  BY InitAccounts
<1>2. LockInv /\ AccountInv /\ [Next]_vars => AccountInv'
  BY StaysAccounted
<1> QED
  BY <1>1, <1>2, LocksHold, AccountsAddUp, PTL DEF Spec

-----------------------------------------------------------------------------
(* So for few orders of small sizes nothing is assumed of the run: every   *)
(* level is touched under its mutex, every mutex is given back, volumes    *)
(* are sums, what rests can be cancelled, no unit is lost or counted twice *)
(* and the numbers stay in range.  If no order has the price of the list   *)
(* heads, the lists stay sorted and never cross.                           *)
THEOREM FewOrdersAreSafe ==
  FewAndSmall =>
    /\ Spec => [](LocksFollowUse /\ VolumeIsSum
                  /\ RestingIsRegistered /\ SizesAddUp /\ TypeOK)
    /\ PricesAboveZero => (Spec => []BooksInOrder)
<1> SUFFICES ASSUME FewAndSmall
             PROVE  /\ Spec => [](LocksFollowUse /\ VolumeIsSum
                                  /\ RestingIsRegistered /\ SizesAddUp /\ TypeOK)
                    /\ PricesAboveZero => (Spec => []BooksInOrder)
  OBVIOUS
<1>1. Spec => []Fits
  BY FewAndSmallFit
<1>2. Spec => [](LocksFollowUse /\ VolumeIsSum
                 /\ RestingIsRegistered /\ SizesAddUp /\ TypeOK)
  BY <1>1, LocksAreRight, VolumesSumUp, RestingCanBeCancelled, EveryUnitOnce, NumbersInRange, PTL
<1>3. PricesAboveZero => (Spec => []BooksInOrder)
  BY <1>1, BooksStayInOrder, PTL
<1> QED
  BY <1>2, <1>3

=============================================================================
