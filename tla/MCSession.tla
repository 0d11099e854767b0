----------------------------- MODULE MCSession -----------------------------
EXTENDS GraderSession, TLC

CONSTANTS t1, t2, o1, o2

MCCount == o1 :> 2 @@ o2 :> 1

New(o) == [type |-> "new", order |-> o]
Cancel(o) == [type |-> "cancel", order |-> o]
WaitFor(o) == [type |-> "wait", order |-> o]
Sync == [type |-> "sync"]

(* Both threads wait for one order; a barrier between two orders; a cancel *)
(* sent at once; a thread that only waits.                                 *)
MCPlans ==
  {t1 :> <<New(o1), WaitFor(o1), Cancel(o1)>> @@ t2 :> <<WaitFor(o1), New(o2)>>,
   t1 :> <<New(o1), Sync, Cancel(o1)>> @@ t2 :> <<Sync, New(o2), WaitFor(o1)>>,
   t1 :> <<New(o1), Cancel(o1)>> @@ t2 :> <<New(o2), Cancel(o2)>>,
   t1 :> <<New(o1), New(o2), WaitFor(o2)>> @@ t2 :> <<WaitFor(o1)>>}

(* One client cancels its order twice. *)
TwiceCancelled == {t1 :> <<New(o1), Cancel(o1), Cancel(o1)>> @@ t2 :> <<New(o2)>>}
=============================================================================
