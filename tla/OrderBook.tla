----------------------------- MODULE OrderBook -----------------------------
(***************************************************************************)
(* The C++ engine: one instrument's OrderBook (src/engine.cpp) and the     *)
(* ConnectionThreads that work on it, one step per mutex acquisition.      *)
(*                                                                         *)
(* A book is two singly linked lists of price levels, each level with its  *)
(* own mutex, its volume and its resting orders, latest input first; the   *)
(* list heads are levels of price 0.  A new order runs in three phases:    *)
(*   prelude   under the book's mutex m it locks the opposite head and the *)
(*             levels it will match, adding up their volumes, and, if      *)
(*             volume is missing, the head of its own side;                *)
(*   matching  it trades against the locked levels, unlocking one by one;  *)
(*   adding    what is left goes hand over hand down its own side.         *)
(* A cancel goes hand over hand down the list of the order it is about.    *)
(*                                                                         *)
(* A level is named by the order that created it (it is never freed), so   *)
(* its price is that order's.  Mutex releases join the step that precedes  *)
(* them, except m's, which is where a command takes effect.  printed is    *)
(* the standard output: a sequence of lines in Grader's format.            *)
(***************************************************************************)
EXTENDS Integers, Sequences, FiniteSets, SequencesExt

CONSTANTS
  Client,             \* connections, each with a ConnectionThread
  OrderId,            \* ids that new orders take
  BuyHead, SellHead,  \* buyBook.head and sellBook.head
  BookMutex,          \* OrderBook::m
  Nil,                \* nullptr, no order, no owner
  Offer,              \* the new orders clients send: side, price, count
  Ticks,              \* how far the clock moves from one command to the next
  Modulus,            \* 2^32: uint32_t wraps there, int at half of it
  MaxCancels          \* bound of the model: cancel commands read

Side == {"buy", "sell"}
Heads == {BuyHead, SellHead}
Node == Heads \cup OrderId
Mutex == Node \cup {BookMutex}

(* An order as it is read, and the time it is stamped with. *)
Command == [side : Side, price : 0 .. Modulus - 1, count : 0 .. Modulus - 1,
            time : Nat]

ASSUME BookAssumption ==
  /\ Modulus \in Nat \ {0}
  /\ Offer \subseteq [side : Side, price : 0 .. Modulus - 1,
                      count : 0 .. Modulus - 1]
  /\ Ticks \subseteq Nat
  /\ MaxCancels \in Nat
  /\ BuyHead # SellHead
  /\ BookMutex \notin Node
  /\ Heads \cap OrderId = {}
  /\ Nil \notin Mutex \cup Client \cup Command

VARIABLES
  \* the commands that were read and the shared orders
  cmd,         \* order id -> side, price, count and input_time; Nil if not read
  count,       \* Order::count, what is left of the order
  executionId, \* Order::execution_id
  orders,      \* the keys of Engine::orders
  \* the book
  owner,       \* mutex -> the thread that holds it, or Nil
  next,        \* OrderNode::next
  volume,      \* OrderNode::volume
  queue,       \* OrderNode::orders
  \* the ConnectionThreads
  pc, my,      \* where a thread is, and the order it works on
  curr,        \* the level it stands on
  v,           \* prelude: size that no locked level covers yet
  popped,      \* matching: numPopback
  inputTime,   \* input_time of the command it executes
  \* the environment
  clock, cancels, printed

orderVars == <<cmd, count, executionId>>
bookVars == <<owner, next, volume, queue>>
threadVars == <<pc, my, curr, v, popped, inputTime>>
vars == <<orderVars, orders, bookVars, threadVars, clock, cancels, printed>>

-----------------------------------------------------------------------------
Opposite(side) == IF side = "buy" THEN "sell" ELSE "buy"
HeadOf(side) == IF side = "buy" THEN BuyHead ELSE SellHead

(* p is nearer to the front of the list of side than q. *)
Better(side, p, q) == IF side = "buy" THEN p > q ELSE p < q

PriceOf(n) == IF n \in Heads THEN 0 ELSE cmd[n].price

(* The order of a new command trades with level n: the price conditions of *)
(* the two preludes and of the two matchOrders.                            *)
TradesStrictly(o, n) == Better(cmd[o].side, cmd[o].price, PriceOf(n)) \* mutant
Trades(o, n) == ~Better(Opposite(cmd[o].side), cmd[o].price, PriceOf(n))

(* uint32_t arithmetic, and the value an int gets from it. *)
ToUInt(x) == x % Modulus
ToInt(x) == IF 2 * ToUInt(x) < Modulus THEN ToUInt(x) ELSE ToUInt(x) - Modulus

(* OrderNode::volume and OrderNode::orders of a level. *)
Grow(n, size) == volume' = [volume EXCEPT ![n] = ToUInt(@ + size)]

ShrinkForgotten(n, size) == UNCHANGED volume                        \* mutant
ShrinkSwapped(n, size) == volume' = [volume EXCEPT ![n] = size - @] \* mutant
Shrink(n, size) == volume' = [volume EXCEPT ![n] = ToUInt(@ - size)]

PopNothing(q, k) == q \* mutant
PopBack(q, k) == SubSeq(q, 1, Len(q) - k)

EraseNothing(q, o) == q \* mutant
Erase(q, o) == RemoveAt(q, CHOOSE i \in DOMAIN q : q[i] = o)

(* Engine::orders: put keeps a key that is there. *)
RegisterForgotten(o) == UNCHANGED orders \* mutant
Register(o) == orders' = orders \cup {o}
Deregister(o) == orders' = orders \ {o}

Free(m) == owner[m] = Nil
Holds(c, m) == owner[m] = c

Goto(c, label) == pc' = [pc EXCEPT ![c] = label]
PrintLine(line) == printed' = Append(printed, line)

Added(o) ==
  [kind |-> "added", id |-> o, side |-> cmd[o].side, price |-> cmd[o].price,
   count |-> count[o], time |-> cmd[o].time]

Executed(o, r, size) ==
  [kind |-> "executed", id |-> o, resting |-> r, exec |-> executionId[r],
   price |-> cmd[r].price, count |-> size, time |-> cmd[o].time]

Deleted(o, accepted, time) ==
  [kind |-> "deleted", id |-> o, accepted |-> accepted, time |-> time]

-----------------------------------------------------------------------------
Init ==
  /\ cmd = [o \in OrderId |-> Nil]
  /\ count = [o \in OrderId |-> 0]
  /\ executionId = [o \in OrderId |-> 1]
  /\ orders = {}
  /\ owner = [m \in Mutex |-> Nil]
  /\ next = [n \in Node |-> Nil]
  /\ volume = [n \in Node |-> 0]
  /\ queue = [n \in Node |-> <<>>]
  /\ pc = [c \in Client |-> "read"]
  /\ my = [c \in Client |-> Nil]
  /\ curr = [c \in Client |-> Nil]
  /\ v = [c \in Client |-> 0]
  /\ popped = [c \in Client |-> 0]
  /\ inputTime = [c \in Client |-> 0]
  /\ clock = 0
  /\ cancels = 0
  /\ printed = <<>>

-----------------------------------------------------------------------------
(* ConnectionThread: read a command and stamp it. *)
Stamp(c) ==
  /\ clock' \in {clock + d : d \in Ticks}
  /\ inputTime' = [inputTime EXCEPT ![c] = clock']

ReadOrder(c, o, offer) ==
  /\ pc[c] = "read"
  /\ cmd[o] = Nil
  /\ Stamp(c)
  /\ cmd' = [cmd EXCEPT ![o] =
               [side |-> offer.side, price |-> offer.price,
                count |-> offer.count, time |-> clock']]
  /\ count' = [count EXCEPT ![o] = offer.count]
  /\ my' = [my EXCEPT ![c] = o]
  /\ Goto(c, "lock book")
  /\ UNCHANGED <<executionId, orders, bookVars, curr, v, popped, cancels, printed>>

ReadCancel(c, o) ==
  /\ pc[c] = "read"
  /\ cancels < MaxCancels
  /\ cancels' = cancels + 1
  /\ Stamp(c)
  /\ my' = [my EXCEPT ![c] = o]
  /\ Goto(c, "look up")
  /\ UNCHANGED <<orderVars, orders, bookVars, curr, v, popped, printed>>

EndOfFile(c) ==
  /\ pc[c] = "read"
  /\ Goto(c, "closed")
  /\ UNCHANGED <<orderVars, orders, bookVars, my, curr, v, popped, inputTime,
                 clock, cancels, printed>>

(* Back to the top of ConnectionThread's loop; the locals of the command   *)
(* go out of scope.                                                        *)
Finish(c) ==
  /\ Goto(c, "read")
  /\ my' = [my EXCEPT ![c] = Nil]
  /\ curr' = [curr EXCEPT ![c] = Nil]
  /\ v' = [v EXCEPT ![c] = 0]
  /\ popped' = [popped EXCEPT ![c] = 0]
  /\ inputTime' = [inputTime EXCEPT ![c] = 0]

-----------------------------------------------------------------------------
(* processSellOrder and processBuyOrder: the prelude under m. *)
LockBook(c) ==
  /\ pc[c] = "lock book"
  /\ Free(BookMutex)
  /\ owner' = [owner EXCEPT ![BookMutex] = c]
  /\ v' = [v EXCEPT ![c] = ToInt(count[my[c]])]
  /\ Goto(c, "lock opposite")
  /\ UNCHANGED <<orderVars, orders, next, volume, queue, my, curr, popped,
                 inputTime, clock, cancels, printed>>

(* The while and the if that follows it, for the values at that point. *)
PreludePcNoHead(left, n) == IF left > 0 /\ n # Nil THEN "walk" ELSE "commit" \* mutant
PreludePc(left, n) ==
  CASE left > 0 /\ n # Nil -> "walk"
    [] left > 0 /\ n = Nil -> "lock own"
    [] OTHER               -> "commit"

LockOpposite(c) ==
  LET head == HeadOf(Opposite(cmd[my[c]].side)) IN
  /\ pc[c] = "lock opposite"
  /\ Free(head)
  /\ owner' = [owner EXCEPT ![head] = c]
  /\ curr' = [curr EXCEPT ![c] = next[head]]
  /\ Goto(c, PreludePc(v[c], next[head]))
  /\ UNCHANGED <<orderVars, orders, next, volume, queue, my, v, popped,
                 inputTime, clock, cancels, printed>>

(* The next level trades: keep it locked and go on. *)
WalkOn(c) ==
  LET n == curr[c]
      left == ToInt(v[c] - volume[n]) IN
  /\ pc[c] = "walk"
  /\ Free(n)
  /\ Trades(my[c], n)
  /\ owner' = [owner EXCEPT ![n] = c]
  /\ v' = [v EXCEPT ![c] = left]
  /\ curr' = [curr EXCEPT ![c] = next[n]]
  /\ Goto(c, PreludePc(left, next[n]))
  /\ UNCHANGED <<orderVars, orders, next, volume, queue, my, popped,
                 inputTime, clock, cancels, printed>>

(* It does not: it is locked to look at its price and unlocked again. *)
WalkEnd(c) ==
  /\ pc[c] = "walk"
  /\ Free(curr[c])
  /\ ~Trades(my[c], curr[c])
  /\ Goto(c, "lock own")
  /\ UNCHANGED <<orderVars, orders, bookVars, my, curr, v, popped, inputTime,
                 clock, cancels, printed>>

LockOwn(c) ==
  LET head == HeadOf(cmd[my[c]].side) IN
  /\ pc[c] = "lock own"
  /\ Free(head)
  /\ owner' = [owner EXCEPT ![head] = c]
  /\ Goto(c, "commit")
  /\ UNCHANGED <<orderVars, orders, next, volume, queue, my, curr, v, popped,
                 inputTime, clock, cancels, printed>>

UnlockBook(c) ==
  /\ pc[c] = "commit"
  /\ owner' = [owner EXCEPT ![BookMutex] = Nil]
  /\ curr' = [curr EXCEPT ![c] = HeadOf(Opposite(cmd[my[c]].side))]
  /\ Goto(c, "match head")
  /\ UNCHANGED <<orderVars, orders, next, volume, queue, my, v, popped,
                 inputTime, clock, cancels, printed>>

-----------------------------------------------------------------------------
(* matchOrder: leave level curr for the one behind it, and when none is    *)
(* left to trade with, add what remains or finish.                         *)
GoesOn(o, n) == count[o] > 0 /\ n # Nil /\ Trades(o, n)

Advance(c) ==
  LET o == my[c]
      n == next[curr[c]] IN
  /\ owner' = [owner EXCEPT ![curr[c]] = Nil]
  /\ popped' = [popped EXCEPT ![c] = 0]
  /\ \/ /\ GoesOn(o, n)
        /\ Goto(c, "match")
        /\ curr' = [curr EXCEPT ![c] = n]
        /\ UNCHANGED <<my, v, inputTime>>
     \/ /\ ~GoesOn(o, n) /\ count[o] > 0
        /\ Goto(c, "add")
        /\ curr' = [curr EXCEPT ![c] = HeadOf(cmd[o].side)]
        /\ UNCHANGED <<my, v, inputTime>>
     \/ /\ count[o] = 0
        /\ Finish(c)

MatchHead(c) ==
  /\ pc[c] = "match head"
  /\ Advance(c)
  /\ UNCHANGED <<orderVars, orders, next, volume, queue, clock, cancels, printed>>

(* The order the reverse iterator points at. *)
Resting(c) == LET q == queue[curr[c]] IN q[Len(q) - popped[c]]

LevelDone(c) == count[my[c]] = 0 \/ popped[c] = Len(queue[curr[c]])

(* One round of the inner loop that fills the resting order ...             *)
FillResting(c) ==
  LET o == my[c]
      r == Resting(c) IN
  /\ pc[c] = "match"
  /\ ~LevelDone(c)
  /\ count[o] >= count[r]
  /\ count' = [count EXCEPT ![o] = @ - count[r]]
  /\ popped' = [popped EXCEPT ![c] = @ + 1]
  /\ Deregister(o)
  /\ Shrink(curr[c], count[r])
  /\ PrintLine(Executed(o, r, count[r]))
  /\ UNCHANGED <<cmd, executionId, owner, next, queue, pc, my, curr, v,
                 inputTime, clock, cancels>>

(* ... and one that fills the new order and leaves some of the resting one. *)
FillNew(c) ==
  LET o == my[c]
      r == Resting(c) IN
  /\ pc[c] = "match"
  /\ ~LevelDone(c)
  /\ count[o] < count[r]
  /\ count' = [count EXCEPT ![r] = @ - count[o], ![o] = 0]
  /\ executionId' = [executionId EXCEPT ![r] = ToUInt(@ + 1)]
  /\ Shrink(curr[c], count[o])
  /\ PrintLine(Executed(o, r, count[o]))
  /\ UNCHANGED <<cmd, orders, owner, next, queue, threadVars, clock, cancels>>

(* The pop_backs, and on to the next level. *)
LeaveLevel(c) ==
  /\ pc[c] = "match"
  /\ LevelDone(c)
  /\ queue' = [queue EXCEPT ![curr[c]] = PopBack(@, popped[c])]
  /\ Advance(c)
  /\ UNCHANGED <<orderVars, orders, next, volume, clock, cancels, printed>>

-----------------------------------------------------------------------------
(* add: find the place in the list, holding the mutex of curr. *)
PlacePc(price, n) == IF price = PriceOf(n) THEN "register" ELSE "new level"

(* The level behind curr is missing, or further from the front. *)
PlaceFound(c) ==
  LET o == my[c]
      n == next[curr[c]] IN
  /\ pc[c] = "add"
  /\ \/ n = Nil
     \/ n # Nil /\ Free(n) /\ Better(cmd[o].side, cmd[o].price, PriceOf(n))
  /\ Goto(c, PlacePc(cmd[o].price, curr[c]))
  /\ UNCHANGED <<orderVars, orders, bookVars, my, curr, v, popped, inputTime,
                 clock, cancels, printed>>

(* It is nearer, or the one: hand over hand. *)
AddStep(c) ==
  LET o == my[c]
      n == next[curr[c]] IN
  /\ pc[c] = "add"
  /\ n # Nil
  /\ Free(n)
  /\ ~Better(cmd[o].side, cmd[o].price, PriceOf(n))
  /\ owner' = [owner EXCEPT ![n] = c, ![curr[c]] = Nil]
  /\ curr' = [curr EXCEPT ![c] = n]
  /\ Goto(c, IF cmd[o].price = PriceOf(n) THEN "register" ELSE "add")
  /\ UNCHANGED <<orderVars, orders, next, volume, queue, my, v, popped,
                 inputTime, clock, cancels, printed>>

NewLevel(c) ==
  LET o == my[c] IN
  /\ pc[c] = "new level"
  /\ owner' = [owner EXCEPT ![o] = c, ![curr[c]] = Nil]
  /\ next' = [next EXCEPT ![o] = next[curr[c]], ![curr[c]] = o]
  /\ curr' = [curr EXCEPT ![c] = o]
  /\ Goto(c, "register")
  /\ UNCHANGED <<orderVars, orders, volume, queue, my, v, popped, inputTime,
                 clock, cancels, printed>>

(* Engine::orders.put, under the map's own mutex: from here on a cancel     *)
(* finds an order that is in no level yet.                                 *)
RegisterOrder(c) ==
  /\ pc[c] = "register"
  /\ Register(my[c])
  /\ Goto(c, "enqueue")
  /\ UNCHANGED <<orderVars, bookVars, my, curr, v, popped, inputTime, clock,
                 cancels, printed>>

(* The position the insertion loop stops at: before the first order with   *)
(* an earlier input time.                                                  *)
PositionBack(q, time) == Len(q) + 1 \* mutant
Position(q, time) ==
  CHOOSE i \in 1 .. Len(q) + 1 :
    /\ \A j \in 1 .. i - 1 : time <= cmd[q[j]].time
    /\ i <= Len(q) => time > cmd[q[i]].time

(* The volume and the deque of a level are looked at under its mutex only,  *)
(* so they may change together, when the line is printed.                  *)
Enqueue(c) ==
  LET o == my[c]
      n == curr[c] IN
  /\ pc[c] = "enqueue"
  /\ Grow(n, count[o])
  /\ queue' = [queue EXCEPT ![n] = InsertAt(@, Position(@, cmd[o].time), o)]
  /\ PrintLine(Added(o))
  /\ owner' = [owner EXCEPT ![n] = Nil]
  /\ Finish(c)
  /\ UNCHANGED <<orderVars, orders, next, clock, cancels>>

-----------------------------------------------------------------------------
(* ConnectionThread, input_cancel: Engine::orders.get. *)
LookUp(c) ==
  /\ pc[c] = "look up"
  /\ Goto(c, IF my[c] \in orders THEN "cancel head" ELSE "unknown")
  /\ UNCHANGED <<orderVars, orders, bookVars, my, curr, v, popped, inputTime,
                 clock, cancels, printed>>

RejectUnknown(c) ==
  /\ pc[c] = "unknown"
  /\ PrintLine(Deleted(my[c], FALSE, inputTime[c]))
  /\ Finish(c)
  /\ UNCHANGED <<orderVars, orders, bookVars, clock, cancels>>

(* processCancelOrder: the list of the order that the look-up returned. *)
OppositeListOf(o) == HeadOf(Opposite(cmd[o].side)) \* mutant
ListOf(o) == HeadOf(cmd[o].side)

CancelHead(c) ==
  LET head == ListOf(my[c]) IN
  /\ pc[c] = "cancel head"
  /\ Free(head)
  /\ owner' = [owner EXCEPT ![head] = c]
  /\ curr' = [curr EXCEPT ![c] = head]
  /\ Goto(c, "cancel step")
  /\ UNCHANGED <<orderVars, orders, next, volume, queue, my, v, popped,
                 inputTime, clock, cancels, printed>>

(* Hand over hand, from the head or from a level of another price. *)
CancelStep(c) ==
  LET n == next[curr[c]] IN
  /\ pc[c] = "cancel step"
  /\ n # Nil
  /\ Free(n)
  /\ owner' = [owner EXCEPT ![n] = c, ![curr[c]] = Nil]
  /\ curr' = [curr EXCEPT ![c] = n]
  /\ Goto(c, IF PriceOf(n) = cmd[my[c]].price THEN "cancel level"
                                             ELSE "cancel step")
  /\ UNCHANGED <<orderVars, orders, next, volume, queue, my, v, popped,
                 inputTime, clock, cancels, printed>>

(* The list ends, or the level does not have the order. *)
CancelFailsLocked(c) == \* mutant
  /\ \/ pc[c] = "cancel step" /\ next[curr[c]] = Nil
     \/ pc[c] = "cancel level" /\ my[c] \notin ToSet(queue[curr[c]])
  /\ Goto(c, "gone")
  /\ UNCHANGED <<orderVars, orders, bookVars, my, curr, v, popped, inputTime,
                 clock, cancels, printed>>

CancelFails(c) ==
  /\ \/ pc[c] = "cancel step" /\ next[curr[c]] = Nil
     \/ pc[c] = "cancel level" /\ my[c] \notin ToSet(queue[curr[c]])
  /\ owner' = [owner EXCEPT ![curr[c]] = Nil]
  /\ Goto(c, "gone")
  /\ UNCHANGED <<orderVars, orders, next, volume, queue, my, curr, v, popped,
                 inputTime, clock, cancels, printed>>

RejectGone(c) ==
  /\ pc[c] = "gone"
  /\ PrintLine(Deleted(my[c], FALSE, cmd[my[c]].time))
  /\ Finish(c)
  /\ UNCHANGED <<orderVars, orders, bookVars, clock, cancels>>

CancelErase(c) ==
  LET o == my[c]
      n == curr[c] IN
  /\ pc[c] = "cancel level"
  /\ o \in ToSet(queue[n])
  /\ Shrink(n, count[o])
  /\ queue' = [queue EXCEPT ![n] = Erase(@, o)]
  /\ Deregister(o)
  /\ Goto(c, "cancelled")
  /\ UNCHANGED <<orderVars, owner, next, my, curr, v, popped, inputTime,
                 clock, cancels, printed>>

AcceptCancel(c) ==
  /\ pc[c] = "cancelled"
  /\ PrintLine(Deleted(my[c], TRUE, cmd[my[c]].time))
  /\ owner' = [owner EXCEPT ![curr[c]] = Nil]
  /\ Finish(c)
  /\ UNCHANGED <<orderVars, orders, next, volume, queue, clock, cancels>>

-----------------------------------------------------------------------------
Read(c) ==
  \/ \E o \in OrderId, offer \in Offer : ReadOrder(c, o, offer)
  \/ \E o \in OrderId : ReadCancel(c, o)

Prelude(c) ==
  \/ LockBook(c) \/ LockOpposite(c) \/ WalkOn(c) \/ WalkEnd(c) \/ LockOwn(c)

Match(c) == MatchHead(c) \/ FillResting(c) \/ FillNew(c) \/ LeaveLevel(c)

AddToBook(c) ==
  PlaceFound(c) \/ AddStep(c) \/ NewLevel(c) \/ RegisterOrder(c) \/ Enqueue(c)

Cancel(c) ==
  \/ LookUp(c) \/ RejectUnknown(c) \/ CancelStep(c) \/ CancelFails(c)
  \/ RejectGone(c) \/ CancelErase(c) \/ AcceptCancel(c)

(* Everything a thread does once it has read a command. *)
Work(c) ==
  Prelude(c) \/ UnlockBook(c) \/ Match(c) \/ AddToBook(c)
  \/ CancelHead(c) \/ Cancel(c)

(* Every connection is closed. *)
Terminated == (\A c \in Client : pc[c] = "closed") /\ UNCHANGED vars

Next ==
  \/ \E c \in Client : Read(c) \/ EndOfFile(c) \/ Work(c)
  \/ Terminated

Spec == Init /\ [][Next]_vars

-----------------------------------------------------------------------------
Pc == {"read", "closed", "lock book", "lock opposite", "walk", "lock own",
       "commit", "match head", "match", "add", "new level", "register",
       "enqueue", "look up", "unknown", "cancel head", "cancel step",
       "cancel level", "gone", "cancelled"}

Line ==
  [kind : {"added"}, id : OrderId, side : Side, price : 0 .. Modulus - 1,
   count : 0 .. Modulus - 1, time : Nat]
  \cup [kind : {"executed"}, id : OrderId, resting : OrderId,
        exec : 0 .. Modulus, price : 0 .. Modulus - 1,
        count : 0 .. Modulus - 1, time : Nat]
  \cup [kind : {"deleted"}, id : OrderId, accepted : BOOLEAN, time : Nat]

(* What the list and the threads are made of ... *)
ShapeOK ==
  /\ cmd \in [OrderId -> Command \cup {Nil}]
  /\ orders \in SUBSET OrderId
  /\ owner \in [Mutex -> Client \cup {Nil}]
  /\ next \in [Node -> OrderId \cup {Nil}]
  /\ pc \in [Client -> Pc]
  /\ my \in [Client -> OrderId \cup {Nil}]
  /\ curr \in [Client -> Node \cup {Nil}]
  /\ inputTime \in [Client -> Nat]
  /\ clock \in Nat
  /\ cancels \in 0 .. MaxCancels

(* ... and what it counts. *)
NumbersOK ==
  /\ count \in [OrderId -> 0 .. Modulus - 1]
  /\ executionId \in [OrderId -> 0 .. Modulus]
  /\ volume \in [Node -> 0 .. Modulus - 1]
  /\ queue \in [Node -> Seq(OrderId)]
  /\ v \in [Client -> Int]
  /\ popped \in [Client -> Nat]
  /\ printed \in Seq(Line)

(* Type invariant of the engine. *)
TypeOK == ShapeOK /\ NumbersOK

(* The steps between m's lock and its unlock. *)
PreludeSteps == {"lock opposite", "walk", "lock own", "commit"}

(* The prelude of a command runs under the book's mutex, so that commands  *)
(* take effect one after the other.                                        *)
HoldsBook == \A c \in Client : pc[c] \in PreludeSteps => Holds(c, BookMutex)

(* A thread that reads or changes a level or the links behind it holds the *)
(* mutex of that level: in matchOrder that is a lock the prelude took      *)
(* several levels earlier, in add the head lock kept since before matching *)
(* ("during condition check, holding current & next lock", engine.cpp).    *)
HoldsWhatItTouches ==
  /\ HoldsBook
  /\ \A c \in Client :
       pc[c] \in {"match head", "match", "add", "new level", "register",
                  "enqueue", "cancel step", "cancel level", "cancelled"}
         => Holds(c, curr[c])

(* Between commands a thread holds no mutex: whatever number of levels the *)
(* prelude locked, matching and adding released every one of them, and the *)
(* head of its own side was locked only if something was left to add.      *)
NothingLeftLocked ==
  \A c \in Client :
    pc[c] \in {"read", "closed", "lock book", "look up", "unknown",
              "cancel head", "gone"}
      => \A m \in Mutex : ~Holds(c, m)

(* Both: the levels the prelude decided to lock, by volumes it read, are   *)
(* exactly those that matching and adding, which decide by the orders they *)
(* meet, touch and give back several steps later.                          *)
LocksFollowUse == HoldsWhatItTouches /\ NothingLeftLocked

(* The orders of level n that are still to be matched: the ones behind the *)
(* reverse iterator of a thread that trades with the level.                *)
Unmatched(n) ==
  LET done == {popped[c] : c \in {d \in Client : pc[d] = "match" /\ curr[d] = n}}
      q == queue[n]
  IN SubSeq(q, 1, Len(q) - Max(done \cup {0}))

(* OrderNode::volume is the number the prelude of another thread relies on *)
(* to decide how many levels to lock: at every moment it is the sum of the *)
(* sizes left in the level.                                                *)
VolumeIsSum ==
  \A n \in Node :
    volume[n] = FoldLeft(LAMBDA sum, o : sum + count[o], 0, Unmatched(n))

(* The list of a side is strictly sorted from the best price, a price has  *)
(* one level, nothing that rests has become unreachable, and every level   *)
(* keeps only orders of its price and side, the earliest input last.       *)
BooksSorted ==
  /\ \A n \in OrderId :
       queue[n] # <<>> \/ next[n] # Nil => \E p \in Node : next[p] = n
  /\ \A p, n \in Node : next[p] = n =>
       /\ p = HeadOf(cmd[n].side)
            \/ /\ p \in OrderId
               /\ cmd[p].side = cmd[n].side
               /\ Better(cmd[n].side, cmd[p].price, cmd[n].price)
       /\ \A s \in Node : next[s] = n => s = p
  /\ \A n \in Node : \A i \in DOMAIN queue[n] :
       LET o == queue[n][i] IN
       /\ n \in OrderId
       /\ cmd[o].side = cmd[n].side /\ cmd[o].price = cmd[n].price
       /\ i > 1 => cmd[o].time <= cmd[queue[n][i - 1]].time

(* No buy order that rests could trade with a sell order that rests.       *)
(* Levels stay in their lists when they are empty, so this is about orders.*)
NeverCrossed ==
  \A m, n \in Node : \A o \in ToSet(queue[m]), p \in ToSet(queue[n]) :
    cmd[o].side = "buy" /\ cmd[p].side = "sell" => cmd[o].price < cmd[p].price

(* Both: the lists are sorted and never crossed, although an order is added*)
(* long after its prelude has seen the other list (the head of its own side*)
(* stays locked from then on, engine.cpp).                                 *)
BooksInOrder == BooksSorted /\ NeverCrossed

(* An order that rests can be cancelled: it is in Engine::orders as long   *)
(* as it is in its level and not matched to nothing.                       *)
RestingIsRegistered ==
  \A n \in Node : ToSet(Unmatched(n)) \subseteq orders

(* Sum of the sizes of the executions that order o took part in. *)
Traded(o) ==
  FoldLeft(LAMBDA sum, e :
             IF e.kind = "executed" /\ (e.id = o \/ e.resting = o)
             THEN sum + e.count ELSE sum, 0, printed)

Accepted(o) == {i \in DOMAIN printed : printed[i] = Deleted(o, TRUE, cmd[o].time)}

OrderPc == {"lock book", "lock opposite", "walk", "lock own", "commit",
            "match head", "match", "add", "new level", "register", "enqueue"}

(* Every unit a client sent is accounted for exactly once: it was traded,  *)
(* it still waits, or a cancel took it out.  A second cancel, or a cancel  *)
(* that races a match, takes nothing out again (processCancelOrder).       *)
SizesAddUp ==
  \A o \in OrderId :
    cmd[o] # Nil =>
      LET waits == \/ o \in UNION {ToSet(Unmatched(n)) : n \in Node}
                   \/ \E c \in Client : my[c] = o /\ pc[c] \in OrderPc
          taken == Cardinality(Accepted(o))
                   + Cardinality({c \in Client : my[c] = o /\ pc[c] = "cancelled"})
      IN Traded(o) + count[o] * (taken + (IF waits THEN 1 ELSE 0)) = cmd[o].count

-----------------------------------------------------------------------------
(* A thread that can go on does: std::mutex does not promise an order      *)
(* among waiters, but the commands of a run are finitely many, so every    *)
(* mutex is eventually free for good unless a thread keeps it.             *)
FairSpec == Spec /\ \A c \in Client : WF_vars(Work(c))

(* Every command that is read is executed: no thread waits for ever on the *)
(* book's mutex, a head or a level, whatever the others do.                *)
CommandsComplete ==
  \A c \in Client :
    pc[c] \notin {"read", "closed"} ~> pc[c] \in {"read", "closed"}

=============================================================================
