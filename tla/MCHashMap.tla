----------------------------- MODULE MCHashMap -----------------------------
EXTENDS ConcurrentHashMap, TLC

CONSTANTS p1, p2, p3, k1, k2

Does(op, key) == [op |-> op, key |-> key]
Program(first, second, third) == p1 :> first @@ p2 :> second @@ p3 :> third

(* Two connections look for one book while the chain changes around it; an *)
(* order is set and removed while others look for it and for its neighbour. *)
Finite ==
  {Program(<<Does("find", k1)>>, <<Does("find", k1)>>, <<Does("find", k2), Does("find", k1)>>),
   Program(<<Does("set", k1), Does("remove", k1)>>,
           <<Does("set", k2), Does("get", k1)>>, <<Does("get", k2), Does("get", k1)>>),
   Program(<<Does("set", k1), Does("remove", k1)>>,
           <<Does("set", k2), Does("remove", k2)>>, <<Does("set", k1), Does("remove", k1)>>)}

(* Readers that never stop. *)
Streams ==
  {Program(<<Does("set", k1), Does("remove", k1)>>, <<Does("poll", k1)>>, <<Does("poll", k2)>>)}

MCGo == Finite \cup Streams
=============================================================================
