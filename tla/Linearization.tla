--------------------------- MODULE Linearization ---------------------------
(***************************************************************************)
(* The C++ order book against a sequential exchange.  history is a ghost:  *)
(* the lines a sequential engine would print, were every command executed  *)
(* at once at its commit point, which is the unlock of the book's mutex m  *)
(* for a new order and the lock of the list head for a cancel.  A thread   *)
(* prints much later, level by level, while others commit and print; what  *)
(* it prints must still be what the history says.                          *)
(***************************************************************************)
EXTENDS OrderBook

VARIABLE history

G == INSTANCE Grader WITH Priority <- "price-time", SortBy <- "input"
GAdded == INSTANCE Grader WITH Priority <- "price-time", SortBy <- "added"
GTime == INSTANCE Grader WITH Priority <- "time", SortBy <- "input"
GTimeAdded == INSTANCE Grader WITH Priority <- "time", SortBy <- "added"

hvars == <<vars, history>>

-----------------------------------------------------------------------------
Known ==
  [o \in OrderId |->
    IF cmd[o] = Nil THEN G!Absent
                    ELSE G!Fresh(cmd[o].side, cmd[o].price, cmd[o].count)]

(* The sequential book all committed commands lead to. *)
Book == G!Replay(Known, history).st

(* Price-time matching, declaratively: o takes from every order it crosses *)
(* what those ahead of it leave over.                                      *)
Rivals(o) ==
  {r \in G!InBook(Book, Opposite(cmd[o].side)) :
     IF cmd[o].side = "buy" THEN cmd[r].price <= cmd[o].price
                            ELSE cmd[r].price >= cmd[o].price}

Left(o) == Book[o].count - Book[o].filled
Supply(S) == MapThenSumSet(Left, S)

Share(o, r) ==
  LET ahead == {q \in Rivals(o) : G!Precedes(Book, q, r)}
  IN Min({Left(r), Max({0, Left(o) - Supply(ahead)})})

Trade(o, r) ==
  [kind |-> "executed", id |-> o, resting |-> r, exec |-> Book[r].execs + 1,
   price |-> cmd[r].price, count |-> Share(o, r), time |-> cmd[o].time]

Rest(o) ==
  [kind |-> "added", id |-> o, side |-> cmd[o].side, price |-> cmd[o].price,
   count |-> Left(o) - Supply(Rivals(o)), time |-> cmd[o].time]

Plan(o) ==
  LET partners == SetToSortSeq({r \in Rivals(o) : Share(o, r) > 0},
                               LAMBDA a, b : G!Precedes(Book, a, b))
      trades == [i \in DOMAIN partners |-> Trade(o, partners[i])]
  IN IF Left(o) > Supply(Rivals(o)) THEN Append(trades, Rest(o)) ELSE trades

(* A cancel is recorded with its own input time, which tells it apart. *)
Verdict(c) == Deleted(my[c], Book[my[c]].state = "Booked", inputTime[c])

-----------------------------------------------------------------------------
HInit == Init /\ history = <<>>

HNext ==
  \/ \E c \in Client :
       \/ UnlockBook(c) /\ history' = history \o Plan(my[c])
       \/ CancelHead(c) /\ history' = Append(history, Verdict(c))
       \/ /\ Read(c) \/ EndOfFile(c) \/ Prelude(c) \/ Match(c)
             \/ AddToBook(c) \/ Cancel(c)
          /\ UNCHANGED history
  \/ Terminated /\ UNCHANGED history

HSpec == HInit /\ [][HNext]_hvars

-----------------------------------------------------------------------------
(* Lines about new order o: its executions and its booking. *)
LinesOf(log, o) == SelectSeq(log, LAMBDA e : e.kind # "deleted" /\ e.id = o)

CancelPc == {"look up", "unknown", "cancel head", "cancel step",
             "cancel level", "gone", "cancelled"}

Executing(o) == \E c \in Client : my[c] = o /\ pc[c] \notin CancelPc

(* Every new order trades with the orders, in the order, at the prices and *)
(* in the sizes, and is booked with the remainder, that price-time         *)
(* priority gave it when it committed, although it prints while others     *)
(* commit, trade and cancel on the same lists; and when its command is     *)
(* done nothing is missing (processSellOrder to add).                      *)
TradesFollowHistory ==
  \A o \in OrderId :
    /\ IsPrefix(LinesOf(printed, o), LinesOf(history, o))
    /\ Executing(o) \/ LinesOf(printed, o) = LinesOf(history, o)

(* A cancel that reaches the book is accepted exactly if the order still   *)
(* rested in the sequential book when the cancel locked the list head,     *)
(* whatever overtook it on the way to the level (processCancelOrder).      *)
CancelsFollowHistory ==
  \A c \in Client :
    pc[c] \in {"cancelled", "gone"} =>
      \E i \in DOMAIN history :
        history[i] = Deleted(my[c], pc[c] = "cancelled", inputTime[c])

(* The lists hold, whenever no thread works on the book, the orders of the *)
(* sequential book with their sizes and execution ids.                     *)
QuietBookIsHistory ==
  (\A c \in Client : pc[c] \in {"read", "closed"}) =>
    \A o \in OrderId :
      LET resting == \E n \in Node : o \in ToSet(queue[n]) IN
      /\ resting <=> Book[o].state = "Booked"
      /\ resting => count[o] = Left(o) /\ executionId[o] = Book[o].execs + 1

-----------------------------------------------------------------------------
(* The printed lines, read in the order they were printed, pass one of the *)
(* replays of grader/grader.cpp: price-time or time priority, with resting *)
(* orders sorted by the input time or by the place of their own line.      *)
(* Where the times of completion are in this order too, those are the      *)
(* eight algorithms of the grader (processSellOrder against BuyBook::add). *)
GraderAcceptsOutput ==
  \/ G!Accepts(Known, printed)
  \/ GAdded!Accepts(Known, printed)
  \/ GTime!Accepts(Known, printed)
  \/ GTimeAdded!Accepts(Known, printed)

=============================================================================
