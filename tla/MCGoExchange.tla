--------------------------- MODULE MCGoExchange ---------------------------
EXTENDS GoExchange, TLC

CONSTANTS c1, c2, c3, s1, s2, s3, s4, s5, b1, b2, x1, x2, x3, x4

(* Sells on three levels, a buy that takes a level and a half, a buy that  *)
(* rests below them or takes the first.                                    *)
MCTerms ==
  s1 :> [side |-> "sell", price |-> 1, count |-> 1]
  @@ s2 :> [side |-> "sell", price |-> 2, count |-> 2]
  @@ s3 :> [side |-> "sell", price |-> 1, count |-> 2]
  @@ s4 :> [side |-> "sell", price |-> 3, count |-> 1]
  @@ s5 :> [side |-> "sell", price |-> 3, count |-> 1]
  @@ b1 :> [side |-> "buy", price |-> 2, count |-> 2]
  @@ b2 :> [side |-> "buy", price |-> 1, count |-> 1]

(* x1 to x3 are sent by the client of the order, x4 is not. *)
MCAbout == x1 :> s1 @@ x2 :> s2 @@ x3 :> s2 @@ x4 :> s1

Script(first, second, third) == c1 :> first @@ c2 :> second @@ c3 :> third

MCScripts ==
  {Script(<<s1>>, <<s2, b2>>, <<b1>>),           \* two levels, add below them
   Script(<<s1, s3>>, <<s2>>, <<b1>>),           \* add behind executors
   Script(<<s1, x1>>, <<s3>>, <<b1>>),           \* one level, emptied by both
   Script(<<s2, x2, x3>>, <<s1>>, <<b1>>),       \* two cancels of one order
   Script(<<s1, x1>>, <<s2, x2>>, <<>>),         \* neighbours unlinked
   Script(<<s2, s4>>, <<s5>>, <<s1>>),           \* a new level before a walker
   Script(<<s1>>, <<x4>>, <<b2>>)}
=============================================================================
