------------------------------- MODULE Grader -------------------------------
(***************************************************************************)
(* The judge of an engine's output: grader/grader.cpp replays the lines an *)
(* engine printed, in order, against one order book (template InstBook)    *)
(* and a life cycle per order (OrderStatus), and stops at the first line   *)
(* the priority in question does not allow.  The module holds no state:    *)
(* a replay is a fold over the printed lines.  Exchange turns the same     *)
(* operators into a state machine.                                         *)
(*                                                                         *)
(* One instrument is modelled (every check is local to the book of one     *)
(* instrument).  The three kinds of lines are                              *)
(*   B/S  [kind |-> "added",    id, side, price, count, time]              *)
(*   E    [kind |-> "executed", id, resting, exec, price, count, time]     *)
(*   X    [kind |-> "deleted",  id, accepted, time]                        *)
(* where id is the order the command was about.                            *)
(***************************************************************************)
EXTENDS Integers, Sequences, SequencesExt

CONSTANTS
  OrderId,   \* the order ids that occur in the input
  Priority,  \* the template parameter PType: "price-time" or "time"
  SortBy,    \* the template parameter SType: "input" or "added"
  Modulus    \* 2^32, where uint32_t wraps

ASSUME ReplayAssumption ==
  /\ Priority \in {"price-time", "time"}
  /\ SortBy \in {"input", "added"}
  /\ Modulus \in Nat \ {0}

Sides == {"buy", "sell"}
Other(side) == IF side = "buy" THEN "sell" ELSE "buy"

(* OrderState, with "Unknown" for an id that no input command introduced. *)
States == {"Unknown", "Active", "Booked", "Filled"}

(* OrderStatus as the constructor leaves it. *)
Fresh(side, price, count) ==
  [state |-> "Active", side |-> side, price |-> price, count |-> count,
   filled |-> 0, execs |-> 0, stamp |-> 0]

Absent == [Fresh("buy", 0, 0) EXCEPT !.state = "Unknown"]

(* What InstBook keeps in buys or sells. *)
InBook(st, side) == {o \in OrderId : st[o].state = "Booked" /\ st[o].side = side}

BetterPrice(side, p, q) == IF side = "buy" THEN p > q ELSE p < q

(* a trades before b.  With price-time priority a is sorted earlier by      *)
(* BuyOrdering or SellOrdering; with time priority it is earlier, and       *)
(* whoever may trade with b may trade with a.                              *)
Precedes(st, a, b) ==
  LET side == st[a].side
      earlier == st[a].stamp < st[b].stamp IN
  IF Priority = "time"
  THEN earlier /\ ~BetterPrice(side, st[b].price, st[a].price)
  ELSE \/ BetterPrice(side, st[a].price, st[b].price)
       \/ st[a].price = st[b].price /\ earlier

(* Resting orders no other precedes: the equal range of the first entry, or *)
(* the earliest of those that can be matched.                              *)
BestIsAny(st, side) == InBook(st, side) \* mutant
Best(st, side) ==
  {o \in InBook(st, side) : \A p \in InBook(st, side) : ~Precedes(st, p, o)}

(* add_buy and add_sell refuse an order that could have been matched. *)
UnmatchableStrictly(st, side, price) == \* mutant
  \A p \in InBook(st, Other(side)) :
    IF side = "buy" THEN st[p].price >= price ELSE st[p].price <= price
Unmatchable(st, side, price) ==
  \A p \in InBook(st, Other(side)) :
    IF side = "buy" THEN st[p].price > price ELSE st[p].price < price

MayAdd(st, line) ==
  LET o == st[line.id] IN
  /\ o.state = "Active"
  /\ o.side = line.side
  /\ o.filled < o.count
  /\ o.price = line.price
  /\ Unmatchable(st, line.side, line.price)

(* filled_count is a uint32_t, and nothing bounds the count of a line. *)
FilledAfter(order, count) == (order.filled + count) % Modulus

MayExecute(st, line) ==
  LET n == st[line.id]
      r == st[line.resting] IN
  /\ r.state = "Booked"
  /\ n.state = "Active"
  /\ r.price = line.price
  /\ line.resting \in Best(st, Other(n.side))
  /\ r.execs + 1 = line.exec
  /\ FilledAfter(r, line.count) <= r.count
  /\ FilledAfter(n, line.count) <= n.count

MayDelete(st, line) ==
  LET s == st[line.id].state IN
  IF line.accepted THEN s = "Booked" ELSE s \notin {"Booked", "Unknown"}

Allowed(st, line) ==
  CASE line.kind = "added"    -> MayAdd(st, line)
    [] line.kind = "executed" -> MayExecute(st, line)
    [] line.kind = "deleted"  -> MayDelete(st, line)

(* The stamp InstBook sorts by: the input timestamp printed on the line, or  *)
(* the order of the lines.                                                   *)
StampOf(line, n) == IF SortBy = "input" THEN line.time ELSE n

AfterAdd(st, line, n) ==
  [st EXCEPT ![line.id].state = "Booked", ![line.id].stamp = StampOf(line, n)]

FilledByNever(order, count) == \* mutant
  [order EXCEPT !.filled = FilledAfter(order, count)]
FilledBy(order, count) ==
  [order EXCEPT !.filled = FilledAfter(order, count),
                !.state = IF FilledAfter(order, count) = order.count
                          THEN "Filled" ELSE @]

(* A resting order also counts its executions. *)
FilledResting(order, count) ==
  [FilledBy(order, count) EXCEPT !.execs = order.execs + 1]

AfterExecute(st, line) ==
  [st EXCEPT ![line.id] = FilledBy(@, line.count),
             ![line.resting] = FilledResting(@, line.count)]

(* An accepted cancel fills the order up; a rejected one changes nothing.    *)
AfterDeleteRefunds(st, line) == \* mutant
  IF line.accepted
  THEN [st EXCEPT ![line.id].filled = @ - st[line.id].count,
                  ![line.id].state = "Filled"]
  ELSE st
AfterDelete(st, line) ==
  IF line.accepted
  THEN [st EXCEPT ![line.id].filled = st[line.id].count,
                  ![line.id].state = "Filled"]
  ELSE st

After(st, line, n) ==
  CASE line.kind = "added"    -> AfterAdd(st, line, n)
    [] line.kind = "executed" -> AfterExecute(st, line)
    [] line.kind = "deleted"  -> AfterDelete(st, line)

(* check_correctness: replay the lines one by one, stop at the first that  *)
(* is not allowed.                                                         *)
Judge(replay, line) ==
  IF ~replay.ok THEN replay
  ELSE IF Allowed(replay.st, line)
       THEN [ok |-> TRUE, n |-> replay.n + 1,
             st |-> After(replay.st, line, replay.n + 1)]
       ELSE [replay EXCEPT !.ok = FALSE]

Replay(st, lines) == FoldLeft(Judge, [ok |-> TRUE, n |-> 0, st |-> st], lines)

Accepts(st, lines) == Replay(st, lines).ok

=============================================================================
