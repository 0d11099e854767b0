----------------------------- MODULE AtomicMap -----------------------------
(***************************************************************************)
(* What a concurrent map promises: every call takes effect at one moment   *)
(* between its invocation and its response.  get answers the value of the  *)
(* key, set keeps a value that is there already ("Keys are not updated, if *)
(* key exist, do nothing", hashmap.hpp), remove says whether there was one. *)
(***************************************************************************)
CONSTANTS Proc, Key, Value,
          Nil  \* no value, no call

VARIABLES
  store,  \* key -> its value, or Nil
  req,    \* process -> the call it has made, or Nil
  ret     \* process -> <<>> or <<answer>>, once the call has taken effect

vars == <<store, req, ret>>

Request == [op : {"get", "set", "remove"}, key : Key, value : Value \cup {Nil}]

Init == /\ store = [k \in Key |-> Nil]
        /\ req = [p \in Proc |-> Nil]
        /\ ret = [p \in Proc |-> <<>>]

Invoke(p) == /\ req[p] = Nil
             /\ \E r \in Request : req' = [req EXCEPT ![p] = r]
             /\ UNCHANGED <<store, ret>>

Pending(p, op) == req[p] # Nil /\ req[p].op = op /\ ret[p] = <<>>
Answer(p, x) == ret' = [ret EXCEPT ![p] = <<x>>] /\ UNCHANGED req

Get(p) == /\ Pending(p, "get")
          /\ Answer(p, store[req[p].key])
          /\ UNCHANGED store

Set(p) == /\ Pending(p, "set")
          /\ store' = [store EXCEPT ![req[p].key] = IF @ = Nil THEN req[p].value ELSE @]
          /\ Answer(p, Nil)

Remove(p) == /\ Pending(p, "remove")
             /\ store' = [store EXCEPT ![req[p].key] = Nil]
             /\ Answer(p, store[req[p].key] # Nil)

Respond(p) == /\ ret[p] # <<>>
              /\ req' = [req EXCEPT ![p] = Nil]
              /\ ret' = [ret EXCEPT ![p] = <<>>]
              /\ UNCHANGED store

Next == \E p \in Proc : Invoke(p) \/ Get(p) \/ Set(p) \/ Remove(p) \/ Respond(p)

Spec == Init /\ [][Next]_vars
=============================================================================
