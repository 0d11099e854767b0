---------------------------- MODULE TaskRunner ----------------------------
(***************************************************************************)
(* The Rust task runner (src/main.rs): workers that pop tasks from their   *)
(* own deque, steal a batch from the injector or one task from another     *)
(* worker, execute it, push its children, and stop when the counter of     *)
(* queued tasks is 0 and all workers are idle.  Each access to a deque or  *)
(* to an atomic counter is a step of its own.                              *)
(*                                                                         *)
(* crossbeam-deque is external: pop, steal and steal_batch_and_pop are     *)
(* atomic, and the two steals may answer Retry as long as there is a task  *)
(* to take.  Which task a deque hands out is left open, and so are the     *)
(* children of a task (task.rs derives them from hashes): any tasks that   *)
(* do not exist yet.                                                       *)
(***************************************************************************)
EXTENDS Integers, FiniteSets

CONSTANTS
  Worker,      \* n_workers threads, num_cpus::get() and so at least one
  Task,        \* bound of the model: all tasks that can come to exist
  NoTask       \* None

ASSUME RunnerAssumption ==
  /\ IsFiniteSet(Worker) /\ Worker # {}
  /\ IsFiniteSet(Task)
  /\ NoTask \notin Task

VARIABLES
  injector,     \* tasks in the global queue
  deque,        \* worker -> tasks in its local queue
  unborn,       \* tasks that do not exist yet
  queuedCount,  \* queued_count
  numIdle,      \* num_idle
  pc,
  isIdle,       \* worker -> is_idle
  unseen,       \* worker -> deques it has not tried to steal from yet
  next,         \* worker -> the task it took
  children,     \* worker -> tasks of a result that are not pushed yet
  executed,     \* worker -> tasks its local counters and output stand for
  counted       \* tasks the global counters stand for

vars == <<injector, deque, unborn, queuedCount, numIdle, pc, isIdle, unseen,
          next, children, executed, counted>>

-----------------------------------------------------------------------------
Init ==
  /\ injector \in SUBSET Task
  /\ unborn = Task \ injector
  /\ deque = [w \in Worker |-> {}]
  /\ queuedCount = Cardinality(injector)
  /\ numIdle = Cardinality(Worker)
  /\ pc = [w \in Worker |-> "pop"]
  /\ isIdle = [w \in Worker |-> TRUE]
  /\ unseen = [w \in Worker |-> {}]
  /\ next = [w \in Worker |-> NoTask]
  /\ children = [w \in Worker |-> {}]
  /\ executed = [w \in Worker |-> {}]
  /\ counted = {}

Goto(w, label) == pc' = [pc EXCEPT ![w] = label]

Take(w, t) == next' = [next EXCEPT ![w] = t] /\ Goto(w, "taken")

-----------------------------------------------------------------------------
(* Looking for a task: the local queue, the injector, the other workers.   *)
Pop(w) ==
  /\ pc[w] = "pop"
  /\ \/ \E t \in deque[w] :
          /\ deque' = [deque EXCEPT ![w] = @ \ {t}]
          /\ Take(w, t)
     \/ /\ deque[w] = {}
        /\ Goto(w, "inject")
        /\ UNCHANGED <<deque, next>>
  /\ UNCHANGED <<injector, unborn, queuedCount, numIdle, isIdle, unseen,
                 children, executed, counted>>

StealBatch(w) ==
  /\ pc[w] = "inject"
  /\ \E t \in injector, batch \in SUBSET injector :
       /\ t \notin batch
       /\ injector' = injector \ ({t} \cup batch)
       /\ deque' = [deque EXCEPT ![w] = @ \cup batch]
       /\ Take(w, t)
  /\ UNCHANGED <<unborn, queuedCount, numIdle, isIdle, unseen, children,
                 executed, counted>>

(* or_else: Empty and Retry both go on to the stealers, but what is empty  *)
(* there is the end of the search only if nothing answered Retry.          *)
AskStealers(w) ==
  /\ pc[w] = "inject"
  /\ \/ injector = {} /\ Goto(w, "steal")
     \/ injector # {} /\ Goto(w, "steal again")
  /\ unseen' = [unseen EXCEPT ![w] = Worker]
  /\ UNCHANGED <<injector, deque, unborn, queuedCount, numIdle, isIdle, next,
                 children, executed, counted>>

Stealing == {"steal", "steal again"}

(* One stealer after the other; the deques change between two looks.       *)
Steal(w, u) ==
  /\ pc[w] \in Stealing
  /\ u \in unseen[w]
  /\ \/ \E t \in deque[u] :
          /\ deque' = [deque EXCEPT ![u] = @ \ {t}]
          /\ unseen' = [unseen EXCEPT ![w] = {}]
          /\ Take(w, t)
     \/ /\ deque[u] = {}
        /\ unseen' = [unseen EXCEPT ![w] = @ \ {u}]
        /\ UNCHANGED <<deque, next, pc>>
     \/ /\ deque[u] # {}
        /\ unseen' = [unseen EXCEPT ![w] = @ \ {u}]
        /\ Goto(w, "steal again")
        /\ UNCHANGED <<deque, next>>
  /\ UNCHANGED <<injector, unborn, queuedCount, numIdle, isIdle, children,
                 executed, counted>>

(* find and success: after a Retry the search begins anew at the injector.  *)
NothingFound(w) ==
  /\ pc[w] \in Stealing
  /\ unseen[w] = {}
  /\ Goto(w, IF pc[w] = "steal" THEN "idle" ELSE "inject")
  /\ UNCHANGED <<injector, deque, unborn, queuedCount, numIdle, isIdle, unseen,
                 next, children, executed, counted>>

-----------------------------------------------------------------------------
(* next.is_some() *)
LeaveIdleAlways(w) == \* mutant: num_idle is decremented for every task
  /\ pc[w] = "taken"
  /\ numIdle' = numIdle - 1
  /\ isIdle' = [isIdle EXCEPT ![w] = FALSE]
  /\ Goto(w, "uncount")
  /\ UNCHANGED <<injector, deque, unborn, queuedCount, unseen, next, children,
                 executed, counted>>
LeaveIdle(w) ==
  /\ pc[w] = "taken"
  /\ numIdle' = IF isIdle[w] THEN numIdle - 1 ELSE numIdle
  /\ isIdle' = [isIdle EXCEPT ![w] = FALSE]
  /\ Goto(w, "uncount")
  /\ UNCHANGED <<injector, deque, unborn, queuedCount, unseen, next, children,
                 executed, counted>>

Uncount(w) ==
  /\ pc[w] = "uncount"
  /\ queuedCount' = queuedCount - 1
  /\ Goto(w, "execute")
  /\ UNCHANGED <<injector, deque, unborn, numIdle, isIdle, unseen, next,
                 children, executed, counted>>

(* The local counters and output, and the tasks of the result. *)
Execute(w) ==
  /\ pc[w] = "execute"
  /\ executed' = [executed EXCEPT ![w] = @ \cup {next[w]}]
  /\ next' = [next EXCEPT ![w] = NoTask]
  /\ \E born \in SUBSET unborn :
       /\ children' = [children EXCEPT ![w] = born]
       /\ unborn' = unborn \ born
  /\ Goto(w, "count")
  /\ UNCHANGED <<injector, deque, queuedCount, numIdle, isIdle, unseen, counted>>

CountOneChild(w) == \* mutant: one, whatever the length of the result
  /\ pc[w] = "count"
  /\ queuedCount' = queuedCount + 1
  /\ Goto(w, "push")
  /\ UNCHANGED <<injector, deque, unborn, numIdle, isIdle, unseen, next,
                 children, executed, counted>>
CountChildren(w) ==
  /\ pc[w] = "count"
  /\ queuedCount' = queuedCount + Cardinality(children[w])
  /\ Goto(w, "push")
  /\ UNCHANGED <<injector, deque, unborn, numIdle, isIdle, unseen, next,
                 children, executed, counted>>

PushGlobal(w) == \* mutant: children go to the injector
  /\ pc[w] = "push"
  /\ injector' = injector \cup children[w]
  /\ children' = [children EXCEPT ![w] = {}]
  /\ Goto(w, "pop")
  /\ UNCHANGED <<deque, unborn, queuedCount, numIdle, isIdle, unseen, next,
                 executed, counted>>
Push(w) ==
  /\ pc[w] = "push"
  /\ \/ \E t \in children[w] :
          /\ deque' = [deque EXCEPT ![w] = @ \cup {t}]
          /\ children' = [children EXCEPT ![w] = @ \ {t}]
          /\ UNCHANGED pc
     \/ /\ children[w] = {}
        /\ Goto(w, "pop")
        /\ UNCHANGED <<deque, children>>
  /\ UNCHANGED <<injector, unborn, queuedCount, numIdle, isIdle, unseen, next,
                 executed, counted>>

-----------------------------------------------------------------------------
(* No task: declare idle, then look at the two counters, one by one.       *)
BecomeIdleAgain(w) == \* mutant: num_idle is incremented at every fruitless look
  /\ pc[w] = "idle"
  /\ numIdle' = numIdle + 1
  /\ isIdle' = [isIdle EXCEPT ![w] = TRUE]
  /\ Goto(w, "check queued")
  /\ UNCHANGED <<injector, deque, unborn, queuedCount, unseen, next, children,
                 executed, counted>>
BecomeIdle(w) ==
  /\ pc[w] = "idle"
  /\ numIdle' = IF isIdle[w] THEN numIdle ELSE numIdle + 1
  /\ isIdle' = [isIdle EXCEPT ![w] = TRUE]
  /\ Goto(w, "check queued")
  /\ UNCHANGED <<injector, deque, unborn, queuedCount, unseen, next, children,
                 executed, counted>>

CheckQueued(w) ==
  /\ pc[w] = "check queued"
  /\ Goto(w, IF queuedCount = 0 THEN "check idle" ELSE "pop")
  /\ UNCHANGED <<injector, deque, unborn, queuedCount, numIdle, isIdle, unseen,
                 next, children, executed, counted>>

CheckIdle(w) ==
  /\ pc[w] = "check idle"
  /\ Goto(w, IF numIdle = Cardinality(Worker) THEN "report" ELSE "pop")
  /\ UNCHANGED <<injector, deque, unborn, queuedCount, numIdle, isIdle, unseen,
                 next, children, executed, counted>>

(* The fetch_adds and the fetch_xor; main reads them after join only.      *)
ReportStore(w) == \* mutant: the global counters are overwritten
  /\ pc[w] = "report"
  /\ counted' = executed[w]
  /\ Goto(w, "exited")
  /\ UNCHANGED <<injector, deque, unborn, queuedCount, numIdle, isIdle, unseen,
                 next, children, executed>>
Report(w) ==
  /\ pc[w] = "report"
  /\ counted' = counted \cup executed[w]
  /\ Goto(w, "exited")
  /\ UNCHANGED <<injector, deque, unborn, queuedCount, numIdle, isIdle, unseen,
                 next, children, executed>>

Joined == \A w \in Worker : pc[w] = "exited"

Terminated == Joined /\ UNCHANGED vars

Step(w) ==
  \/ Pop(w) \/ StealBatch(w) \/ AskStealers(w) \/ (\E u \in Worker : Steal(w, u))
  \/ NothingFound(w) \/ LeaveIdle(w) \/ Uncount(w) \/ Execute(w)
  \/ CountChildren(w) \/ Push(w)
  \/ BecomeIdle(w) \/ CheckQueued(w) \/ CheckIdle(w) \/ Report(w)

Next == (\E w \in Worker : Step(w)) \/ Terminated

Spec == Init /\ [][Next]_vars

(* Threads are scheduled: a worker that can take a step does.  The         *)
(* injector is lock-free: a steal is told to retry because another one     *)
(* succeeds, so they do not answer Retry to everybody for ever.            *)
Fairness ==
  /\ \A w \in Worker : WF_vars(Step(w))
  /\ SF_vars(\E w \in Worker : StealBatch(w))

FairSpec == Spec /\ Fairness

-----------------------------------------------------------------------------
Pc == {"pop", "inject", "steal", "steal again", "taken", "uncount", "execute",
       "count", "push", "idle", "check queued", "check idle", "report", "exited"}

(* Type invariant; the two counters are usize and stay at or above 0. *)
TypeOK ==
  /\ injector \in SUBSET Task
  /\ deque \in [Worker -> SUBSET Task]
  /\ unborn \in SUBSET Task
  /\ queuedCount \in Nat
  /\ numIdle \in Nat
  /\ pc \in [Worker -> Pc]
  /\ isIdle \in [Worker -> BOOLEAN]
  /\ unseen \in [Worker -> SUBSET Worker]
  /\ next \in [Worker -> Task \cup {NoTask}]
  /\ children \in [Worker -> SUBSET Task]
  /\ executed \in [Worker -> SUBSET Task]
  /\ counted \in SUBSET Task

(* Tasks that are counted as queued: those in a deque, those a worker took *)
(* and has not subtracted, those it added and has not pushed.              *)
Queued ==
  injector
  \cup (UNION {deque[w] : w \in Worker})
  \cup {next[w] : w \in {u \in Worker : pc[u] \in {"taken", "uncount"}}}
  \cup (UNION {children[w] : w \in {u \in Worker : pc[u] = "push"}})

(* queued_count is exact at every step although it is updated after a task *)
(* is taken and before children are pushed: the usize never wraps below 0, *)
(* and it is 0 only when nothing can be found anywhere.                    *)
QueuedCountExact == queuedCount = Cardinality(Queued)

(* num_idle counts the workers whose is_idle is set, and a worker that     *)
(* executes is never among them.                                           *)
IdleExact ==
  /\ numIdle = Cardinality({w \in Worker : isIdle[w]})
  /\ \A w \in Worker : pc[w] \in {"uncount", "execute", "count", "push"} => ~isIdle[w]

(* Both counters by which a worker decides to stop, which it reads one     *)
(* after the other (queued_count and num_idle in main.rs).                 *)
CountersExact == QueuedCountExact /\ IdleExact

(* A worker that stopped leaves no task behind in its deque, and the work  *)
(* that others still have stays reachable for those that have not stopped. *)
ExitLeavesNothing ==
  \A w \in Worker :
    pc[w] \in {"report", "exited"} => deque[w] = {} /\ injector = {}

(* Once main has joined the workers every task that ever existed was       *)
(* executed, by exactly one worker, and is in the printed counters.        *)
JoinSeesEverything ==
  Joined => /\ counted = Task \ unborn
            /\ \A w, u \in Worker : w # u => executed[w] \cap executed[u] = {}

(* The runner stops: with finitely many tasks every worker reports.        *)
Termination == <>Joined

=============================================================================
