------------------------------ MODULE Exchange ------------------------------
(***************************************************************************)
(* What an exchange promises its clients, as a state machine: every line   *)
(* it prints is one that the replay of grader/grader.cpp allows next.  An  *)
(* order is Active from the moment its command is known, Booked while it   *)
(* rests and Filled once nothing of it is left.                            *)
(*                                                                         *)
(* The grader never looks at the limit price of the order that executes;   *)
(* so a buy may be executed above its limit here.  Nor does it look at the *)
(* count of an execution but through the uint32_t sums, so a line may      *)
(* execute nothing, or wrap the sum.                                       *)
(***************************************************************************)
EXTENDS Grader

CONSTANTS
  Price, Count,  \* the prices and sizes clients use
  LineCount,     \* the counts executions are printed with
  MaxLines       \* bound of the model: how many lines are printed

ASSUME MarketAssumption ==
  /\ Price \subseteq Nat
  /\ Count \subseteq 0 .. Modulus - 1
  /\ LineCount \subseteq 0 .. Modulus - 1
  /\ MaxLines \in Nat

VARIABLES
  status,  \* orders: OrderStatus of every order id
  lines    \* how many lines have been replayed

vars == <<status, lines>>

-----------------------------------------------------------------------------
Init == /\ status = [o \in OrderId |-> Absent]
        /\ lines = 0

(* A command of a client becomes known: OrderStatus is constructed. *)
Receive(o, side, price, count) ==
  /\ status[o].state = "Unknown"
  /\ status' = [status EXCEPT ![o] = Fresh(side, price, count)]
  /\ UNCHANGED lines

(* One more line is printed, and the replay accepts it. *)
PrintLine(line) ==
  /\ lines < MaxLines
  /\ Allowed(status, line)
  /\ lines' = lines + 1
  /\ status' = After(status, line, lines')

Add(o, time) ==
  PrintLine([kind |-> "added", id |-> o, side |-> status[o].side,
         price |-> status[o].price,
         count |-> status[o].count - status[o].filled, time |-> time])

Execute(n, r, count) ==
  PrintLine([kind |-> "executed", id |-> n, resting |-> r,
         exec |-> status[r].execs + 1, price |-> status[r].price,
         count |-> count, time |-> 0])

Delete(o, accepted) ==
  PrintLine([kind |-> "deleted", id |-> o, accepted |-> accepted, time |-> 0])

(* Input timestamps are at most as many as there are lines. *)
Time == 1..MaxLines

Next ==
  \/ \E o \in OrderId, side \in Sides, price \in Price, count \in Count :
       Receive(o, side, price, count)
  \/ \E o \in OrderId, time \in Time : Add(o, time)
  \/ \E n, r \in OrderId, count \in LineCount : Execute(n, r, count)
  \/ \E o \in OrderId, accepted \in BOOLEAN : Delete(o, accepted)

Spec == Init /\ [][Next]_vars

-----------------------------------------------------------------------------
OrderStatus ==
  [state : States, side : Sides, price : Nat, count : 0 .. Modulus - 1,
   filled : 0 .. Modulus - 1, execs : Nat, stamp : Nat]

(* Type invariant of the replay of grader/grader.cpp. *)
TypeOK == /\ status \in [OrderId -> OrderStatus]
          /\ lines \in Nat

(* A resting buy and a resting sell never cross: add_buy and add_sell      *)
(* refuse an order that a resting one matches, and nothing else may bring  *)
(* a resting order back into the book.                                     *)
NotCrossed ==
  \A b, s \in OrderId :
    (status[b].state = "Booked" /\ status[b].side = "buy"
     /\ status[s].state = "Booked" /\ status[s].side = "sell")
      => status[b].price < status[s].price

(* A line that executes b leaves no a behind that was before b. *)
InTurn ==
  \A a, b \in OrderId :
    (/\ status[a].state = "Booked" /\ status[b].state = "Booked"
     /\ status[a].side = status[b].side
     /\ ~BetterPrice(status[a].side, status[b].price, status[a].price)
     /\ status[a].stamp < status[b].stamp)
       => status'[b].execs = status[b].execs

(* Whichever priority the replay checks, an order that came earlier and    *)
(* asks no worse a price is never passed over: no later one trades while   *)
(* it rests (InstBook searches the equal range of the first entry, or all  *)
(* entries that can be matched).                                           *)
NoOvertaking == [][InTurn]_vars

=============================================================================
