-------------------------- MODULE MCOrderBookLive --------------------------
EXTENDS OrderBook

CONSTANT Spare  \* the order id that only the ladder uses

Strict == {1}

(* Two sell levels, a buy that takes both and one that crosses the first. *)
Ladder == {[side |-> "sell", price |-> 1, count |-> 1],
           [side |-> "sell", price |-> 2, count |-> 1],
           [side |-> "buy", price |-> 2, count |-> 2],
           [side |-> "buy", price |-> 1, count |-> 1]}

(* A resting order that is matched in part, matched up, or cancelled. *)
Trio == {[side |-> "sell", price |-> 1, count |-> 2],
         [side |-> "buy", price |-> 1, count |-> 1],
         [side |-> "buy", price |-> 2, count |-> 2]}

LadderOrTrio == Ladder \cup Trio

(* Every size fits an int, but two of them overflow it in a level's sum. *)
Heavy == {[side |-> "sell", price |-> 1, count |-> 3],
          [side |-> "buy", price |-> 1, count |-> 1]}

WasRead == {o \in OrderId : cmd[o] # Nil}
ReadFrom(offers) ==
  \A o \in WasRead : [side |-> cmd[o].side, price |-> cmd[o].price,
                      count |-> cmd[o].count] \in offers

(* Two instances in one: three orders of the ladder without a cancel, or    *)
(* two of the trio with two.  Only what is read is constrained.             *)
Scenarios ==
  \/ ReadFrom(Ladder) /\ cancels = 0
  \/ ReadFrom(Trio) /\ Spare \notin WasRead /\ \A c \in Client : my[c] # Spare

MCFairSpec ==
  Init /\ [][Next /\ Scenarios']_vars /\ \A c \in Client : WF_vars(Work(c))
=============================================================================
