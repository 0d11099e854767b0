---------------------------- MODULE GoExchange ----------------------------
(***************************************************************************)
(* The Go engine implements Exchange: what printOutputChnl prints, line by *)
(* line, is what the replay of grader/grader.cpp allows next, with orders  *)
(* sorted by the time they were added to the book.  status and lines are   *)
(* ghosts: Exchange's variables, driven by what the engine reads and       *)
(* prints.                                                                 *)
(***************************************************************************)
EXTENDS GoBook

VARIABLES status, lines

gvars == <<vars, status, lines>>

E == INSTANCE Exchange
       WITH Priority <- "price-time",
            SortBy <- "added",
            Price <- {Terms[o].price : o \in OrderId},
            Count <- {Terms[o].count : o \in OrderId},
            LineCount <- 1 .. Modulus - 1,
            MaxLines <- 2 * Cardinality(OrderId) + Cardinality(CancelId)

-----------------------------------------------------------------------------
(* The line PrintLine shows next. *)
NextLine == outputs[taken].lines[shown + 1]

(* A connection may ask to cancel the order of another; the rejection is   *)
(* no line about the order.                                                *)
IsForeign(line) ==
  /\ line.kind = "deleted" /\ ~line.accepted
  /\ \E script \in Scripts, c \in Client :
       /\ line.cancel \in ToSet(script[c])
       /\ line.id \notin ToSet(script[c])

Received(o) == E!Fresh(Terms[o].side, Terms[o].price, Terms[o].count)

GInit == Init /\ E!Init

GNext ==
  \/ \E c \in Client, o \in OrderId :
       /\ ReadOrder(c, o)
       /\ status' = [status EXCEPT ![o] = Received(o)]
       /\ UNCHANGED lines
  \/ /\ PrintLine
     /\ IF IsForeign(NextLine)
        THEN UNCHANGED <<status, lines>>
        ELSE /\ lines' = lines + 1
             /\ status' = E!After(status, NextLine, lines')
  \/ /\ \/ \E c \in Client :
             \/ \E x \in CancelId : Unknown(c, x) \/ Foreign(c, x) \/ Dispatch(c, x)
             \/ Reject(c)
        \/ \E o \in OrderId : ProcessActiveOrder(o) \/ ExecuteOrder(o) \/ AddOrder(o)
        \/ \E x \in CancelId : ProcessCancelOrder(x)
        \/ NextChannel
     /\ UNCHANGED <<status, lines>>
  \/ Terminated /\ UNCHANGED <<status, lines>>

GSpec == GInit /\ [][GNext]_gvars /\ Fairness

-----------------------------------------------------------------------------
(* Every printed line is one that price-time priority allows after those   *)
(* before it: executions in the order of the book although executors run   *)
(* in any order, cancels answered for the book of that moment, no order    *)
(* booked that could be matched (the order of outputChannels is that of    *)
(* the locks of the heads).                                                *)
ImplementsExchange == E!Spec

(* Exchange does not see whose rejection is printed, since one changes      *)
(* nothing there.  Here it does: every line, a rejection too, is allowed by *)
(* the lines before it.  A cancel is rejected only while the printed book   *)
(* does not hold its order, because the look-up and the place in           *)
(* outputChannels are one step for those who add orders (ordersLock in     *)
(* handleConn), which they are not in the C++ engine.                      *)
EveryLineIsAllowed ==
  [][(taken' = taken /\ shown' > shown /\ ~IsForeign(NextLine))
       => E!Allowed(status, NextLine)]_gvars

(* When all is quiet the lists hold exactly the orders that the printed    *)
(* lines leave in the book, with their sizes and execution counts.         *)
QuietBookIsPrinted ==
  Quiet =>
    \A o \in OrderId :
      LET rests == \E n \in Linked \cap OrderId : o \in ToSet(queue[n]) IN
      /\ rests <=> status[o].state = "Booked"
      /\ rests => /\ count[o] = status[o].count - status[o].filled
                  /\ executionId[o] = status[o].execs + 1

=============================================================================
