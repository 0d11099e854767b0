------------------------------- MODULE GoBook -------------------------------
(***************************************************************************)
(* The Go engine: connections (handleConn), one instrument's OrderBook     *)
(* (order_book.go, book.go, order_node.go) and the printer.  Every command *)
(* is executed by a goroutine of its own, and a matching order starts one  *)
(* more per level it trades with, so locks (channels of capacity 1) are    *)
(* taken in one goroutine and given back in another:                       *)
(*   MatchOrder   locks the levels from the front and hands each to an     *)
(*                executeOrder, which trades, closes its output and        *)
(*                unlocks the level;                                       *)
(*   AddOrder     walks hand over hand from the head that its caller       *)
(*                locked; CancelOrder does, with two levels locked.        *)
(* Every output is a channel of its own, and outputChannels, a bounded     *)
(* channel of those, decides the order in which the printer shows them.    *)
(*                                                                         *)
(* One step per blocking channel operation; what follows up to the next    *)
(* one joins the step, except reads of what others may change meanwhile.   *)
(* Messages never block: their channel has room for all of them.  The      *)
(* dispatcher of ordersChn only starts goroutines, and one that has not    *)
(* started is one that has not taken its first step, so the two are one.   *)
(* The maps are atomic here (ConcurrentHashMap shows that they are).       *)
(***************************************************************************)
EXTENDS Integers, Sequences, FiniteSets, SequencesExt

CONSTANTS
  Client,             \* connections, each with a handleConn
  OrderId, CancelId,  \* the commands: new orders by their id, and cancels
  Terms,              \* order -> side, price and count
  About,              \* cancel -> the order id it names
  Scripts,            \* what the connections may send: client -> commands
  BuyHead, SellHead,  \* buyBook.head and sellBook.head
  Nil,
  Modulus,            \* 2^32, where uint32 wraps
  Capacity            \* of outputChannels, 100

Command == OrderId \cup CancelId
Side == {"buy", "sell"}
Heads == {BuyHead, SellHead}
Node == Heads \cup OrderId       \* a level is named by the order it was made for
Lock == Node \cup {"sgl", "ordersLock"}

ASSUME GoBookAssumption ==
  /\ Modulus \in Nat \ {0}
  /\ Capacity \in Nat \ {0}
  /\ Terms \in [OrderId -> [side : Side, price : 0 .. Modulus - 1,
                            count : 1 .. Modulus - 1]]
  /\ About \in [CancelId -> OrderId]
  /\ Scripts \subseteq [Client -> Seq(Command)]
  /\ \A script \in Scripts, c, d \in Client :       \* a command is sent once
       \A i \in DOMAIN script[c], j \in DOMAIN script[d] :
         script[c][i] = script[d][j] => c = d /\ i = j
  /\ BuyHead # SellHead
  /\ Node \cap {"sgl", "ordersLock"} = {}
  /\ Heads \cap OrderId = {} /\ OrderId \cap CancelId = {}
  /\ Nil \notin Node \cup Client

VARIABLES
  \* the connections
  input,        \* client -> commands it has not sent yet
  conn,         \* client -> where handleConn is
  \* the orders
  rId,          \* order -> the connection that sent it, Nil if not read yet
  count,        \* Order.count
  executionId,  \* Order.executionId
  orders,       \* the keys of the map orders
  \* the book
  locked,       \* the locks that are taken; a channel has no owner
  next, volume, \* OrderNode
  queue,        \* OrderNode.orders, earliest first
  \* the goroutines
  pc,           \* command -> where its goroutine is
  curr,         \* command -> the level it works on
  prev,         \* cancel -> the level before
  v,            \* order -> what MatchOrder has left to match
  popPrev,      \* order -> shouldPopPrev
  executors,    \* the running executeOrders: order, level, left, channel
  \* the output
  outputs,      \* the output channels in the order they were queued
  mine,         \* command -> index of its output channel
  taken, shown  \* channels the printer took, lines of the last one it printed

connVars == <<input, conn>>
orderVars == <<rId, count, executionId>>
bookVars == <<locked, next, volume, queue>>
locals == <<pc, curr, prev, v, popPrev>>
outVars == <<outputs, mine>>
vars == <<connVars, orderVars, orders, bookVars, locals, executors, outVars,
          taken, shown>>

-----------------------------------------------------------------------------
Opposite(side) == IF side = "buy" THEN "sell" ELSE "buy"
HeadOf(side) == IF side = "buy" THEN BuyHead ELSE SellHead
PriceOf(n) == IF n \in Heads THEN 0 ELSE Terms[n].price

(* sortComparator of the book of side. *)
Before(side, p, q) == IF side = "buy" THEN p > q ELSE p < q

(* matchComparator of an active order. *)
MatchesStrictly(o, n) == Before(Terms[o].side, Terms[o].price, PriceOf(n)) \* mutant
Matches(o, n) == ~Before(Opposite(Terms[o].side), Terms[o].price, PriceOf(n))

MatchHead(o) == HeadOf(Opposite(Terms[o].side))
OwnHead(o) == HeadOf(Terms[o].side)

ToUInt(x) == x % Modulus
Grow(n, size) == volume' = [volume EXCEPT ![n] = ToUInt(@ + size)]
ShrinkForgotten(n, size) == UNCHANGED volume \* mutant
Shrink(n, size) == volume' = [volume EXCEPT ![n] = ToUInt(@ - size)]

Free(l) == l \notin locked
Acquire(l) == Free(l) /\ locked' = locked \cup {l}

(* A receive from an empty channel would block for ever. *)
Release(L) == L \subseteq locked /\ locked' = locked \ L
HandOver(l, m) == Free(l) /\ m \in locked /\ locked' = (locked \ {m}) \cup {l}

Goto(k, label) == pc' = [pc EXCEPT ![k] = label]

-----------------------------------------------------------------------------
(* outputChannels and the channels in it. *)
Room == Len(outputs) - taken < Capacity

Queue(lines, closed) ==
  /\ Room
  /\ outputs' = Append(outputs, [lines |-> lines, closed |-> closed])

QueueMine(k) == Queue(<<>>, FALSE) /\ mine' = [mine EXCEPT ![k] = Len(outputs')]

Send(ch, line) == outputs' = [outputs EXCEPT ![ch].lines = Append(@, line)]
SendLast(ch, line) ==
  outputs' = [outputs EXCEPT ![ch] = [lines |-> Append(@.lines, line), closed |-> TRUE]]

Added(o) ==
  [kind |-> "added", id |-> o, side |-> Terms[o].side,
   price |-> Terms[o].price, count |-> count[o]]

Executed(o, r, size) ==
  [kind |-> "executed", id |-> o, resting |-> r, exec |-> executionId[r],
   price |-> Terms[r].price, count |-> size]

Deleted(x, accepted) ==
  [kind |-> "deleted", id |-> About[x], accepted |-> accepted, cancel |-> x]

-----------------------------------------------------------------------------
Init ==
  /\ input \in Scripts
  /\ conn = [c \in Client |-> "read"]
  /\ rId = [o \in OrderId |-> Nil]
  /\ count = [o \in OrderId |-> 0]
  /\ executionId = [o \in OrderId |-> 1]
  /\ orders = {}
  /\ locked = {}
  /\ next = [n \in Node |-> Nil]
  /\ volume = [n \in Node |-> 0]
  /\ queue = [n \in Node |-> <<>>]
  /\ pc = [k \in Command |-> "unread"]
  /\ curr = [k \in Command |-> Nil]
  /\ prev = [x \in CancelId |-> Nil]
  /\ v = [o \in OrderId |-> 0]
  /\ popPrev = [o \in OrderId |-> FALSE]
  /\ executors = {}
  /\ outputs = <<>>
  /\ mine = [k \in Command |-> 0]
  /\ taken = 0 /\ shown = 0

-----------------------------------------------------------------------------
(* handleConn: read a command and pass it on. *)
Reads(c, k) == conn[c] = "read" /\ input[c] # <<>> /\ k = Head(input[c])
Sent(c) == input' = [input EXCEPT ![c] = Tail(@)]

ReadOrder(c, o) ==
  /\ Reads(c, o)
  /\ Sent(c)
  /\ rId' = [rId EXCEPT ![o] = c]
  /\ count' = [count EXCEPT ![o] = Terms[o].count]
  /\ Goto(o, "lock sgl")
  /\ UNCHANGED <<conn, executionId, orders, bookVars, curr, prev, v, popPrev,
                 executors, outVars, taken, shown>>

(* The look-up under ordersLock, which is kept to queue the rejection of an *)
(* order that is not in the map.                                           *)
LooksUp(c, x) == Reads(c, x) /\ Free("ordersLock")

UnknownUnlocked(c, x) == \* mutant: ordersLock is given back before the rejection is queued
  /\ LooksUp(c, x)
  /\ About[x] \notin orders
  /\ conn' = [conn EXCEPT ![c] = "reject foreign"]
  /\ UNCHANGED <<input, orderVars, orders, bookVars, locals, executors, outVars,
                 taken, shown>>
Unknown(c, x) ==
  /\ LooksUp(c, x)
  /\ About[x] \notin orders
  /\ Acquire("ordersLock")
  /\ conn' = [conn EXCEPT ![c] = "reject unknown"]
  /\ UNCHANGED <<input, orderVars, orders, next, volume, queue, locals, executors,
                 outVars, taken, shown>>

Foreign(c, x) ==
  /\ LooksUp(c, x)
  /\ About[x] \in orders /\ rId[About[x]] # c
  /\ conn' = [conn EXCEPT ![c] = "reject foreign"]
  /\ UNCHANGED <<input, orderVars, orders, bookVars, locals, executors, outVars,
                 taken, shown>>

Dispatch(c, x) ==
  /\ LooksUp(c, x)
  /\ About[x] \in orders /\ rId[About[x]] = c
  /\ Sent(c)
  /\ Goto(x, "lock head")
  /\ UNCHANGED <<conn, orderVars, orders, bookVars, curr, prev, v, popPrev,
                 executors, outVars, taken, shown>>

Reject(c) ==
  /\ conn[c] \in {"reject unknown", "reject foreign"}
  /\ Queue(<<Deleted(Head(input[c]), FALSE)>>, TRUE)
  /\ Release(IF conn[c] = "reject unknown" THEN {"ordersLock"} ELSE {})
  /\ Sent(c)
  /\ conn' = [conn EXCEPT ![c] = "read"]
  /\ UNCHANGED <<orderVars, orders, next, volume, queue, locals, executors, mine,
                 taken, shown>>

-----------------------------------------------------------------------------
(* ProcessActiveOrder and MatchOrder. *)
LockSgl(o) ==
  /\ pc[o] = "lock sgl"
  /\ Acquire("sgl")
  /\ Goto(o, "lock match head")
  /\ UNCHANGED <<connVars, orderVars, orders, next, volume, queue, curr, prev, v,
                 popPrev, executors, outVars, taken, shown>>

(* The loop condition, for the level that comes next. *)
LevelPc(n) == IF n = Nil THEN "matched" ELSE "lock level"

LockMatchHead(o) ==
  LET first == next[MatchHead(o)] IN
  /\ pc[o] = "lock match head"
  /\ Acquire(MatchHead(o))
  /\ v' = [v EXCEPT ![o] = count[o]]
  /\ curr' = [curr EXCEPT ![o] = first]
  /\ Goto(o, LevelPc(first))
  /\ UNCHANGED <<connVars, orderVars, orders, next, volume, queue, prev, popPrev,
                 executors, outVars, taken, shown>>

(* The level is locked, if only to see that it is not matched; the levels  *)
(* that were used up before it leave the list.                             *)
Unlink(o, n) ==
  next' = IF popPrev[o] THEN [next EXCEPT ![MatchHead(o)] = n] ELSE next

LockLevel(o) ==
  LET n == curr[o]
      trades == v[o] # 0 /\ Matches(o, n) IN
  /\ pc[o] = "lock level"
  /\ Free(n)
  /\ Unlink(o, n)
  /\ locked' = IF trades THEN locked \cup {n} ELSE locked
  /\ Goto(o, IF trades THEN "execute" ELSE "matched")
  /\ UNCHANGED <<connVars, orderVars, orders, volume, queue, curr, prev, v,
                 popPrev, executors, outVars, taken, shown>>

(* Queue an output and start executeOrder for the level. *)
UsesUpSwapped(o, n) == v[o] <= volume[n] \* mutant
UsesUp(o, n) == v[o] >= volume[n]

StartExecutor(o) ==
  LET n == curr[o] IN
  /\ pc[o] = "execute"
  /\ Queue(<<>>, FALSE)
  /\ executors' = executors \cup
       {[order |-> o, level |-> n, left |-> v[o], channel |-> Len(outputs')]}
  /\ v' = [v EXCEPT ![o] = IF UsesUp(o, n) THEN @ - volume[n] ELSE 0]
  /\ popPrev' = [popPrev EXCEPT ![o] = UsesUp(o, n)]
  /\ Goto(o, "advance")
  /\ UNCHANGED <<connVars, orderVars, orders, bookVars, curr, prev, mine, taken,
                 shown>>

(* curr.next is read while the executor runs and may have unlocked curr.   *)
Advance(o) ==
  LET n == next[curr[o]] IN
  /\ pc[o] = "advance"
  /\ curr' = [curr EXCEPT ![o] = n]
  /\ IF n = Nil THEN Unlink(o, Nil) ELSE UNCHANGED next
  /\ Goto(o, LevelPc(n))
  /\ UNCHANGED <<connVars, orderVars, orders, locked, volume, queue, prev, v,
                 popPrev, executors, outVars, taken, shown>>

EndMatch(o) ==
  /\ pc[o] = "matched"
  /\ \/ /\ v[o] = 0
        /\ Release({MatchHead(o), "sgl"})
        /\ Goto(o, "done")
     \/ /\ v[o] > 0
        /\ Release({MatchHead(o)})
        /\ Goto(o, "lock own head")
  /\ curr' = [curr EXCEPT ![o] = Nil]
  /\ popPrev' = [popPrev EXCEPT ![o] = FALSE]
  /\ UNCHANGED <<connVars, orderVars, orders, next, volume, queue, prev, v,
                 executors, outVars, taken, shown>>

LockOwnHead(o) ==
  /\ pc[o] = "lock own head"
  /\ Acquire(OwnHead(o))
  /\ Goto(o, "set")
  /\ UNCHANGED <<connVars, orderVars, orders, next, volume, queue, curr, prev, v,
                 popPrev, executors, outVars, taken, shown>>

(* SetCount and orders.Set, under ordersLock. *)
SetOrder(o) ==
  /\ pc[o] = "set"
  /\ Free("ordersLock")
  /\ count' = [count EXCEPT ![o] = v[o]]
  /\ orders' = orders \cup {o}
  /\ v' = [v EXCEPT ![o] = 0]
  /\ Goto(o, "queue add")
  /\ UNCHANGED <<connVars, rId, executionId, bookVars, curr, prev, popPrev,
                 executors, outVars, taken, shown>>

(* Queue the output, start the goroutine of AddOrder and leave sgl.        *)
StartAdd(o) ==
  /\ pc[o] = "queue add"
  /\ QueueMine(o)
  /\ Release({"sgl"})
  /\ curr' = [curr EXCEPT ![o] = OwnHead(o)]
  /\ Goto(o, "add")
  /\ UNCHANGED <<connVars, orderVars, orders, next, volume, queue, prev, v,
                 popPrev, executors, taken, shown>>

-----------------------------------------------------------------------------
(* executeOrder: one round of its loop ... *)
Trade(e) ==
  LET n == e.level
      r == Head(queue[n])
      whole == e.left >= count[r]
      size == IF whole THEN count[r] ELSE e.left IN
  /\ queue[n] # <<>> /\ e.left # 0
  /\ executors' = (executors \ {e}) \cup {[e EXCEPT !.left = @ - size]}
  /\ Shrink(n, size)
  /\ Send(e.channel, Executed(e.order, r, size))
  /\ \/ /\ whole
        /\ queue' = [queue EXCEPT ![n] = Tail(@)]
        /\ orders' = orders \ {r}
        /\ UNCHANGED <<count, executionId>>
     \/ /\ ~whole
        /\ count' = [count EXCEPT ![r] = @ - size]
        /\ executionId' = [executionId EXCEPT ![r] = @ + 1]
        /\ UNCHANGED <<queue, orders>>
  /\ UNCHANGED <<connVars, rId, locked, next, locals, mine, taken, shown>>

(* ... and its end. *)
EndExecutorLocked(e) == \* mutant: the level is not unlocked
  /\ queue[e.level] = <<>> \/ e.left = 0
  /\ executors' = executors \ {e}
  /\ outputs' = [outputs EXCEPT ![e.channel].closed = TRUE]
  /\ UNCHANGED <<connVars, orderVars, orders, bookVars, locals, mine, taken, shown>>
EndExecutor(e) ==
  /\ queue[e.level] = <<>> \/ e.left = 0
  /\ executors' = executors \ {e}
  /\ outputs' = [outputs EXCEPT ![e.channel].closed = TRUE]
  /\ Release({e.level})
  /\ UNCHANGED <<connVars, orderVars, orders, next, volume, queue, locals, mine,
                 taken, shown>>

-----------------------------------------------------------------------------
(* AddOrder, the lock of curr held. *)
PlacePc(o, n) == IF Terms[o].price = PriceOf(n) THEN "append" ELSE "new level"

(* No level behind curr, or one that the order goes before. *)
PlaceFound(o) ==
  LET n == next[curr[o]] IN
  /\ pc[o] = "add"
  /\ \/ n = Nil
     \/ n # Nil /\ Free(n) /\ Before(Terms[o].side, Terms[o].price, PriceOf(n))
  /\ Goto(o, PlacePc(o, curr[o]))
  /\ UNCHANGED <<connVars, orderVars, orders, bookVars, curr, prev, v, popPrev,
                 executors, outVars, taken, shown>>

AddStep(o) ==
  LET n == next[curr[o]] IN
  /\ pc[o] = "add"
  /\ n # Nil
  /\ ~Before(Terms[o].side, Terms[o].price, PriceOf(n))
  /\ HandOver(n, curr[o])
  /\ curr' = [curr EXCEPT ![o] = n]
  /\ Goto(o, IF Terms[o].price = PriceOf(n) THEN "append" ELSE "add")
  /\ UNCHANGED <<connVars, orderVars, orders, next, volume, queue, prev, v,
                 popPrev, executors, outVars, taken, shown>>

NewLevelUnlinked(o) == \* mutant: the new level loses what was behind curr
  /\ pc[o] = "new level"
  /\ next' = [next EXCEPT ![curr[o]] = o]
  /\ HandOver(o, curr[o])
  /\ curr' = [curr EXCEPT ![o] = o]
  /\ Goto(o, "append")
  /\ UNCHANGED <<connVars, orderVars, orders, volume, queue, prev, v, popPrev,
                 executors, outVars, taken, shown>>
NewLevel(o) ==
  /\ pc[o] = "new level"
  /\ next' = [next EXCEPT ![o] = next[curr[o]], ![curr[o]] = o]
  /\ HandOver(o, curr[o])
  /\ curr' = [curr EXCEPT ![o] = o]
  /\ Goto(o, "append")
  /\ UNCHANGED <<connVars, orderVars, orders, volume, queue, prev, v, popPrev,
                 executors, outVars, taken, shown>>

AppendOrder(o) ==
  LET n == curr[o] IN
  /\ pc[o] = "append"
  /\ queue' = [queue EXCEPT ![n] = Append(@, o)]
  /\ Grow(n, count[o])
  /\ SendLast(mine[o], Added(o))
  /\ Release({n})
  /\ curr' = [curr EXCEPT ![o] = Nil]
  /\ Goto(o, "done")
  /\ UNCHANGED <<connVars, orderVars, orders, next, prev, v, popPrev, executors,
                 mine, taken, shown>>

-----------------------------------------------------------------------------
(* ProcessCancelOrder. *)
LockCancelHead(x) ==
  /\ pc[x] = "lock head"
  /\ Acquire(OwnHead(About[x]))
  /\ Goto(x, "queue cancel")
  /\ UNCHANGED <<connVars, orderVars, orders, next, volume, queue, curr, prev, v,
                 popPrev, executors, outVars, taken, shown>>

QueueCancel(x) ==
  /\ pc[x] = "queue cancel"
  /\ QueueMine(x)
  /\ curr' = [curr EXCEPT ![x] = OwnHead(About[x])]
  /\ Goto(x, "cancel")
  /\ UNCHANGED <<connVars, orderVars, orders, bookVars, prev, v, popPrev, executors,
                 taken, shown>>

(* CancelOrder: what it has locked, and the answer that ends it.           *)
AtLevel(x) == curr[x] \notin Heads /\ PriceOf(curr[x]) = Terms[About[x]].price
Held(x) == {curr[x], prev[x]} \ {Nil}

Answer(x, accepted) ==
  /\ Release(Held(x))
  /\ SendLast(mine[x], Deleted(x, accepted))
  /\ curr' = [curr EXCEPT ![x] = Nil]
  /\ prev' = [prev EXCEPT ![x] = Nil]
  /\ Goto(x, "done")

(* Hand over hand; the head is the first prev. *)
CancelStep(x) ==
  LET n == next[curr[x]] IN
  /\ pc[x] = "cancel"
  /\ ~AtLevel(x)
  /\ n # Nil
  /\ \/ /\ prev[x] = Nil
        /\ Acquire(n)
     \/ /\ prev[x] # Nil
        /\ HandOver(n, prev[x])
  /\ prev' = [prev EXCEPT ![x] = curr[x]]
  /\ curr' = [curr EXCEPT ![x] = n]
  /\ Goto(x, "cancel")
  /\ UNCHANGED <<connVars, orderVars, orders, next, volume, queue, v, popPrev,
                 executors, outVars, taken, shown>>

CancelFails(x) ==
  /\ pc[x] = "cancel"
  /\ IF AtLevel(x) THEN About[x] \notin ToSet(queue[curr[x]])
                   ELSE next[curr[x]] = Nil
  /\ Answer(x, FALSE)
  /\ UNCHANGED <<connVars, orderVars, orders, next, volume, queue, v, popPrev,
                 executors, mine, taken, shown>>

(* The level leaves the list with its last order. *)
KeepLevel(n, p) == UNCHANGED next \* mutant: an emptied level stays
DropLevel(n, p) ==
  next' = IF volume'[n] = 0 THEN [next EXCEPT ![p] = next[n]] ELSE next

CancelSucceeds(x) ==
  LET o == About[x]
      n == curr[x] IN
  /\ pc[x] = "cancel"
  /\ AtLevel(x)
  /\ \E i \in DOMAIN queue[n] :
       /\ queue[n][i] = o
       /\ queue' = [queue EXCEPT ![n] = RemoveAt(@, i)]
  /\ Shrink(n, count[o])
  /\ orders' = orders \ {o}
  /\ DropLevel(n, prev[x])
  /\ Answer(x, TRUE)
  /\ UNCHANGED <<connVars, orderVars, v, popPrev, executors, mine, taken, shown>>

-----------------------------------------------------------------------------
(* printOutputChnl: the lines of one channel until it is closed, then the  *)
(* next channel.                                                           *)
NextChannel ==
  /\ taken < Len(outputs)
  /\ taken > 0 => outputs[taken].closed /\ shown = Len(outputs[taken].lines)
  /\ taken' = taken + 1
  /\ shown' = 0
  /\ UNCHANGED <<connVars, orderVars, orders, bookVars, locals, executors, outVars>>

PrintLine ==
  /\ taken > 0 /\ shown < Len(outputs[taken].lines)
  /\ shown' = shown + 1
  /\ UNCHANGED <<connVars, orderVars, orders, bookVars, locals, executors, outVars,
                 taken>>

-----------------------------------------------------------------------------
HandleConn(c) ==
  \/ \E o \in OrderId : ReadOrder(c, o)
  \/ \E x \in CancelId : Unknown(c, x) \/ Foreign(c, x) \/ Dispatch(c, x)
  \/ Reject(c)

ProcessActiveOrder(o) ==
  \/ LockSgl(o) \/ LockMatchHead(o) \/ LockLevel(o) \/ StartExecutor(o)
  \/ Advance(o) \/ EndMatch(o) \/ LockOwnHead(o) \/ SetOrder(o) \/ StartAdd(o)

ExecuteOrder(o) == \E e \in executors : e.order = o /\ (Trade(e) \/ EndExecutor(e))

AddOrder(o) == PlaceFound(o) \/ AddStep(o) \/ NewLevel(o) \/ AppendOrder(o)

ProcessCancelOrder(x) ==
  \/ LockCancelHead(x) \/ QueueCancel(x)
  \/ CancelStep(x) \/ CancelFails(x) \/ CancelSucceeds(x)

Printer == NextChannel \/ PrintLine

Goroutines ==
  \/ \E c \in Client : HandleConn(c)
  \/ \E o \in OrderId : ProcessActiveOrder(o) \/ ExecuteOrder(o) \/ AddOrder(o)
  \/ \E x \in CancelId : ProcessCancelOrder(x)

(* Every command was read and executed, and everything is printed.         *)
Quiet ==
  /\ \A c \in Client : input[c] = <<>>
  /\ \A k \in Command : pc[k] \in {"unread", "done"}
  /\ executors = {}
  /\ taken = Len(outputs)
  /\ taken > 0 => shown = Len(outputs[taken].lines)

Terminated == Quiet /\ UNCHANGED vars

Next == Goroutines \/ Printer \/ Terminated

Spec == Init /\ [][Next]_vars

-----------------------------------------------------------------------------
OrderPc == {"lock sgl", "lock match head", "lock level", "execute", "advance",
            "matched", "lock own head", "set", "queue add", "add", "new level",
            "append"}
CancelPc == {"lock head", "queue cancel", "cancel"}

Executor == [order : OrderId, level : OrderId, left : 0 .. Modulus - 1,
             channel : Nat \ {0}]

(* Type invariant of the Go engine. *)
TypeOK ==
  /\ conn \in [Client -> {"read", "reject unknown", "reject foreign"}]
  /\ \A c \in Client : input[c] \in Seq(Command)
  /\ rId \in [OrderId -> Client \cup {Nil}]
  /\ count \in [OrderId -> 0 .. Modulus - 1]
  /\ executionId \in [OrderId -> Nat \ {0}]
  /\ orders \subseteq OrderId
  /\ locked \subseteq Lock
  /\ next \in [Node -> OrderId \cup {Nil}]
  /\ volume \in [Node -> 0 .. Modulus - 1]
  /\ queue \in [Node -> Seq(OrderId)]
  /\ pc \in [Command -> {"unread", "done"} \cup OrderPc \cup CancelPc]
  /\ curr \in [Command -> Node \cup {Nil}]
  /\ prev \in [CancelId -> Node \cup {Nil}]
  /\ v \in [OrderId -> 0 .. Modulus - 1]
  /\ popPrev \in [OrderId -> BOOLEAN]
  /\ executors \subseteq Executor
  /\ mine \in [Command -> 0 .. Len(outputs)]
  /\ taken \in 0 .. Len(outputs) /\ Len(outputs) - taken <= Capacity

(* The levels a goroutine works on, and relies on being alone with:        *)
(* executeOrder its level, MatchOrder the head and the level it is about   *)
(* to hand over, AddOrder the level it stands on, CancelOrder two of them. *)
Uses(k) ==
  CASE pc[k] \in {"lock level", "advance", "matched"} -> {MatchHead(k)}
    [] pc[k] = "execute" -> {MatchHead(k), curr[k]}
    [] pc[k] \in {"set", "queue add"} -> {OwnHead(k)}
    [] pc[k] \in {"add", "new level", "append"} -> {curr[k]}
    [] pc[k] = "queue cancel" -> {OwnHead(About[k])}
    [] pc[k] = "cancel" -> Held(k)
    [] OTHER -> {}

(* A lock that is taken in one goroutine and given back in another is      *)
(* still held by exactly one of them at a time: no two of the goroutines   *)
(* use the same level, and a level nobody uses is not locked (MatchOrder,  *)
(* executeOrder, ProcessActiveOrder and AddOrder pass locks on).           *)
LocksHaveOneUser ==
  /\ \A k, l \in Command : k # l => Uses(k) \cap Uses(l) = {}
  /\ \A d, e \in executors : d # e => d.level # e.level
  /\ \A e \in executors, k \in Command : e.level \notin Uses(k)
  /\ locked \cap Node = (UNION {Uses(k) : k \in Command})
                        \cup {e.level : e \in executors}

(* The levels of the lists: what must be there with the next of the heads  *)
(* and with the next of every level that is.                               *)
FollowsLinks(L) == \A n \in Heads \cup L : next[n] # Nil => next[n] \in L

Linked ==
  Heads \cup {n \in OrderId : \A L \in SUBSET OrderId : FollowsLinks(L) => n \in L}

(* An order is never added to, or cancelled in, a level that has left the  *)
(* list: MatchOrder unlinks the levels it used up and CancelOrder the one  *)
(* it emptied, while others wait for the locks of these levels or of their *)
(* neighbours with pointers they read before (b.head.next = curr and       *)
(* prev.next = curr.next in book.go).                                      *)
NobodyOnUnlinkedLevel ==
  \A k \in Command :
    pc[k] \in {"add", "new level", "append", "cancel", "lock level"}
      => curr[k] \in Linked

(* volume, from which MatchOrder decides how much an executor will match   *)
(* and whether the level is used up, is the sum of the sizes in the level. *)
InLevel(n) == FoldLeft(LAMBDA sum, o : sum + count[o], 0, queue[n])

VolumeIsSum == \A n \in Node : volume[n] = InLevel(n)

(* No order is lost with a level that leaves the list.  MatchOrder unlinks *)
(* a level while orders rest in it, when by its volume the executor it has *)
(* started has enough left for all of them (shouldPopPrev in book.go); at  *)
(* any later step that must still be so, and a level that CancelOrder      *)
(* unlinks must be empty.                                                  *)
NothingIsLost ==
  \A n \in OrderId \ Linked :
    queue[n] # <<>> => \E e \in executors : e.level = n /\ e.left >= InLevel(n)

(* The list of a side is strictly sorted from the best price, and a level  *)
(* has orders of its side and price only, although AddOrder decides where  *)
(* to put its order when it has given back the lock of the level it        *)
(* compared the price with.  No order is in a head.                        *)
Ahead(n, m) ==
  /\ Terms[n].side = Terms[m].side
  /\ Before(Terms[n].side, Terms[n].price, Terms[m].price)

BooksSorted ==
  /\ \A h \in Heads : queue[h] = <<>> /\ (next[h] # Nil => OwnHead(next[h]) = h)
  /\ \A n \in Linked \cap OrderId : next[n] # Nil => Ahead(n, next[n])
  /\ \A n \in OrderId : \A o \in ToSet(queue[n]) :
       Terms[o].side = Terms[n].side /\ Terms[o].price = Terms[n].price

(* No buy level is in its list while a sell level that it could trade with *)
(* is in the other, at no time: an order is matched under the head lock of *)
(* the other side and added under that of its own, and in between other    *)
(* orders are matched, added and cancelled (ProcessActiveOrder).           *)
NeverCrossed ==
  \A b, s \in Linked \cap OrderId :
    Terms[b].side = "buy" /\ Terms[s].side = "sell" => Terms[b].price < Terms[s].price

(* Both: each list in its order and the two of them apart, at every step.  *)
BooksInOrder == BooksSorted /\ NeverCrossed

(* When all is quiet nothing is locked, every level of a list has orders,  *)
(* and the map orders, in which cancels look them up, has just the orders  *)
(* that rest in the lists.                                                 *)
QuietBookIsWhole ==
  Quiet =>
    /\ locked = {}
    /\ \A n \in Linked \cap OrderId : queue[n] # <<>>
    /\ orders = UNION {ToSet(queue[n]) : n \in Linked}

-----------------------------------------------------------------------------
(* Goroutines are scheduled.  A channel serves its senders in the order    *)
(* they wait, and the commands of a run are finitely many.                 *)
Fairness ==
  /\ \A c \in Client : WF_vars(HandleConn(c))
  /\ \A o \in OrderId : /\ WF_vars(ProcessActiveOrder(o) \/ AddOrder(o))
                        /\ WF_vars(ExecuteOrder(o))
  /\ \A x \in CancelId : WF_vars(ProcessCancelOrder(x))
  /\ WF_vars(Printer)

FairSpec == Spec /\ Fairness

(* Everything that was sent is executed and its output printed, although   *)
(* goroutines wait for room in outputChannels with sgl, ordersLock, heads  *)
(* and levels locked, and the printer for the goroutine whose turn it is.  *)
EverythingIsPrinted == <>Quiet

=============================================================================
