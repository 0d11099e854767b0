----------------------------- MODULE MCExchange -----------------------------
(* Two resting orders of one price are needed for time priority, a third   *)
(* order to trade against them, sizes that trade in part, and a uint32_t   *)
(* that wraps after few lines.                                             *)
EXTENDS ExchangeSizes, TLC

MCPrice == {1, 2}
MCCount == {0, 2, 3}
MCLineCount == 0 .. Modulus - 1
MCSymmetry == Permutations(OrderId)

(* The replays of both priorities, one of which is chosen in the beginning. *)
VARIABLE replay

ByTime == INSTANCE ExchangeSizes WITH Priority <- "time"

MCInit == SInit /\ replay \in {"price-time", "time"}

MCNext == /\ \/ replay = "price-time" /\ SNext
             \/ replay = "time" /\ ByTime!SNext
          /\ UNCHANGED replay

MCSpec == MCInit /\ [][MCNext]_<<svars, replay>>
=============================================================================
