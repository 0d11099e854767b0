---------------------------- MODULE MCOrderBook ----------------------------
EXTENDS Linearization, TLC

(* Two sell levels, a buy that takes both and one that crosses the first. *)
Ladder == {[side |-> "sell", price |-> 1, count |-> 1],
           [side |-> "sell", price |-> 2, count |-> 1],
           [side |-> "buy", price |-> 2, count |-> 2],
           [side |-> "buy", price |-> 1, count |-> 1]}

(* A sell that is matched in part, matched up or cancelled, or that takes   *)
(* two buy levels.                                                          *)
Trio == {[side |-> "sell", price |-> 1, count |-> 2],
         [side |-> "buy", price |-> 1, count |-> 1],
         [side |-> "buy", price |-> 2, count |-> 1]}

LadderOrTrio == Ladder \cup Trio

(* In the order they are read: a sell, a better one, two at one worse price *)
(* and a buy that takes two sells.                                          *)
Overtake == <<[side |-> "sell", price |-> 2, count |-> 1],
              [side |-> "sell", price |-> 1, count |-> 1],
              [side |-> "sell", price |-> 3, count |-> 1],
              [side |-> "sell", price |-> 3, count |-> 1],
              [side |-> "buy", price |-> 3, count |-> 2]>>
OvertakeOffers == ToSet(Overtake)

WasRead == {o \in OrderId : cmd[o] # Nil}
ReadFrom(offers) ==
  \A o \in WasRead : [side |-> cmd[o].side, price |-> cmd[o].price,
                   count |-> cmd[o].count] \in offers

(* Order ids are taken in turn: which id an order has is all the same.      *)
Ids == SetToSeq(OrderId)
TakenInTurn ==
  \A i \in 2 .. Len(Ids) : cmd[Ids[i]] # Nil => cmd[Ids[i - 1]] # Nil

(* Two instances in one: four orders of the ladder without a cancel, or     *)
(* three of the trio with one.  Only what is read is constrained.           *)
Scenarios ==
  /\ TakenInTurn
  /\ \/ ReadFrom(Ladder) /\ cancels = 0
     \/ ReadFrom(Trio) /\ Cardinality(WasRead) <= 3

(* One command after the other, each as given by Overtake. *)
OvertakeRead ==
  /\ TakenInTurn
  /\ \A i \in 1 .. Len(Ids) : cmd[Ids[i]] # Nil =>
       [side |-> cmd[Ids[i]].side, price |-> cmd[Ids[i]].price,
        count |-> cmd[Ids[i]].count] = Overtake[i]

Reading == cmd' # cmd \/ cancels' # cancels

MCSpec == HInit /\ [][HNext /\ (Reading => Scenarios')]_hvars

OvertakeSpec == HInit /\ [][HNext /\ (Reading => OvertakeRead')]_hvars

MCSymmetry == Permutations(Client)
Strict == {1}
=============================================================================
