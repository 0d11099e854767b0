--------------------------- MODULE ExchangeSizes ---------------------------
(***************************************************************************)
(* What the replay of grader/grader.cpp knows of the sizes orders trade.   *)
(* traded is a ghost: the sum of the counts of an order's execution lines, *)
(* of which OrderStatus keeps only filled_count, a uint32_t.               *)
(***************************************************************************)
EXTENDS Exchange

VARIABLE traded

svars == <<vars, traded>>

SInit == Init /\ traded = [o \in OrderId |-> 0]

Trade(n, r, count) ==
  /\ Execute(n, r, count)
  /\ traded' = [traded EXCEPT ![n] = @ + count, ![r] = @ + count]

SNext ==
  \/ \E n, r \in OrderId, count \in LineCount : Trade(n, r, count)
  \/ /\ \/ \E o \in OrderId, side \in Sides, price \in Price, count \in Count :
               Receive(o, side, price, count)
        \/ \E o \in OrderId, time \in Time : Add(o, time)
        \/ \E o \in OrderId, accepted \in BOOLEAN : Delete(o, accepted)
     /\ UNCHANGED traded

SSpec == SInit /\ [][SNext]_svars

-----------------------------------------------------------------------------
(* As long as the lines about an order add up to less than 2^32, it trades *)
(* no more than its size, something of it is left while it rests, and what *)
(* the replay takes for filled is what was traded, whatever mixture of     *)
(* executions (of nothing, too), bookings and cancels the order meets and  *)
(* whatever the orders it trades with have wrapped                         *)
(* (check_correctness_outputset, execute_buy, execute_sell).               *)
TradedWithinSize ==
  \A o \in OrderId :
    traded[o] < Modulus =>
      /\ traded[o] <= status[o].count
      /\ status[o].state = "Booked" => traded[o] < status[o].count
      /\ status[o].state \in {"Active", "Booked"} => status[o].filled = traded[o]

(* "resting order filled more than initial quantity" and the same of the   *)
(* new order are what check_correctness_outputset is to find: no output it *)
(* accepts trades more of an order than its size.                          *)
NeverOverfilled == \A o \in OrderId : traded[o] <= status[o].count

=============================================================================
