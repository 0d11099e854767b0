---------------------------- MODULE MCTaskRunner ----------------------------
(* Three workers, so that one can steal from another while a third checks  *)
(* the counters; three tasks, so that the child of a child can be stolen.  *)
EXTENDS TaskRunner, SequencesExt

(* Which tasks are there in the beginning is all the same, how many is not. *)
Tasks == SetToSeq(Task)
MCInit ==
  Init /\ injector \in {ToSet(SubSeq(Tasks, 1, n)) : n \in 0 .. Len(Tasks)}

MCFairSpec == MCInit /\ [][Next]_vars /\ Fairness
=============================================================================
