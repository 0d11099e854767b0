-------------------------- MODULE TaskRunnerProofs --------------------------
(***************************************************************************)
(* The safety of the Rust task runner for any number of workers and tasks. *)
(* A task that came to exist is in exactly one place, so the set of queued *)
(* tasks changes by the one that was taken or by those that are pushed,    *)
(* and queued_count follows its cardinality.  Deques are only filled by    *)
(* their owner, which stops after it found its own and the injector empty. *)
(***************************************************************************)
EXTENDS TaskRunner, FiniteSetTheorems, TLAPS

(* What a worker holds at each place of its loop. *)
WorkerShape ==
  \A w \in Worker :
    /\ next[w] # NoTask <=> pc[w] \in {"taken", "uncount", "execute"}
    /\ children[w] # {} => pc[w] \in {"count", "push"}

(* t is in the hands of w. *)
Has(w, t) ==
  t \in deque[w] \/ t \in children[w] \/ t \in executed[w] \/ t = next[w]

OnePlace ==
  \A t \in Task :
    /\ t \in injector => t \notin unborn
    /\ \A w \in Worker :
         /\ Has(w, t) => t \notin injector /\ t \notin unborn
         /\ \A u \in Worker : Has(w, t) /\ Has(u, t) => w = u
         /\ t \in deque[w] => t \notin children[w] /\ t \notin executed[w]
         /\ t \in children[w] => t \notin executed[w]
         /\ t = next[w] => /\ t \notin deque[w] /\ t \notin children[w]
                           /\ t \notin executed[w]

NothingLost ==
  \A t \in Task : t \in injector \/ t \in unborn \/ \E w \in Worker : Has(w, t)

IdleShape ==
  \A w \in Worker :
    /\ pc[w] \in {"uncount", "execute", "count", "push"} => ~isIdle[w]
    /\ pc[w] \in {"check queued", "check idle", "report", "exited"} => isIdle[w]

(* What a fruitless look for a task has shown, and is still true. *)
LookedEverywhere ==
  \A w \in Worker :
    /\ pc[w] \in {"inject", "steal", "steal again", "idle", "check queued",
                  "check idle", "report", "exited"} => deque[w] = {}
    /\ pc[w] \in {"steal", "idle", "check queued", "check idle",
                  "report", "exited"} => injector = {}

ReportsCounted ==
  \A t \in Task :
    t \in counted <=> \E w \in Worker : pc[w] = "exited" /\ t \in executed[w]

IdleCount == numIdle = Cardinality({w \in Worker : isIdle[w]})

Shape == TypeOK /\ WorkerShape /\ OnePlace /\ NothingLost /\ IdleShape
         /\ LookedEverywhere /\ ReportsCounted

IInv == Shape /\ QueuedCountExact /\ IdleCount

-----------------------------------------------------------------------------
(* t is queued. *)
IsQueued(t) ==
  \/ t \in injector
  \/ \E w \in Worker : \/ t \in deque[w]
                       \/ t = next[w] /\ pc[w] \in {"taken", "uncount"}
                       \/ t \in children[w] /\ pc[w] = "push"

(* Membership in Queued, before and after a step. *)
LEMMA InQueued ==
  ASSUME NEW t
  PROVE  (t \in Queued <=> IsQueued(t)) /\ (t \in Queued' <=> IsQueued(t)')
BY DEF Queued, IsQueued

(* Nobody counts None as a task. *)
LEMMA QueuedIsFinite ==
  ASSUME TypeOK, WorkerShape
  PROVE  Queued \in SUBSET Task /\ IsFiniteSet(Queued)
<1>1. Queued \in SUBSET Task
  BY RunnerAssumption DEF Queued, TypeOK, WorkerShape
<1> QED
  BY <1>1, RunnerAssumption, FS_Subset

(* There are finitely many threads. *)
LEMMA IdleIsFinite == IsFiniteSet({w \in Worker : isIdle[w]})
  BY RunnerAssumption, FS_Subset

-----------------------------------------------------------------------------
(* main fills the injector before the workers start. *)
LEMMA InitHolds == Init => IInv
<1> SUFFICES ASSUME Init PROVE IInv
  OBVIOUS
<1>1. /\ deque = [w \in Worker |-> {}] /\ children = [w \in Worker |-> {}]
      /\ next = [w \in Worker |-> NoTask] /\ pc = [w \in Worker |-> "pop"]
      /\ isIdle = [w \in Worker |-> TRUE] /\ executed = [w \in Worker |-> {}]
      /\ injector \in SUBSET Task
  BY DEF Init
<1>2. Queued = injector
  BY <1>1 DEF Queued
<1>3. IsFiniteSet(injector)
  BY <1>1, RunnerAssumption, FS_Subset
<1>4. QueuedCountExact /\ queuedCount \in Nat
  BY <1>2, <1>3, FS_CardinalityType DEF Init, QueuedCountExact
<1>5. {w \in Worker : isIdle[w]} = Worker
  BY <1>1
<1>6. IdleCount /\ numIdle \in Nat
  BY <1>5, RunnerAssumption, FS_CardinalityType DEF Init, IdleCount
<1>7. TypeOK
  BY <1>4, <1>6 DEF Init, TypeOK, Pc
<1>8. WorkerShape /\ OnePlace /\ NothingLost
  BY <1>1, RunnerAssumption DEF Init, WorkerShape, OnePlace, NothingLost, Has
<1>9. IdleShape /\ LookedEverywhere /\ ReportsCounted
  BY <1>1 DEF Init, IdleShape, LookedEverywhere, ReportsCounted
<1> QED
  BY <1>4, <1>6, <1>7, <1>8, <1>9 DEF IInv, Shape

-----------------------------------------------------------------------------
(* A worker moves: the others keep what they hold.                         *)
LEMMA WorkerShapeHolds ==
  ASSUME TypeOK, WorkerShape, NEW w \in Worker, Step(w)
  PROVE  WorkerShape'
<1>1. CASE Pop(w)
  <2>1. CASE \E t \in deque[w] : Take(w, t)
    <3> PICK t \in Task : Take(w, t)
      BY <2>1 DEF TypeOK
    <3> QED
      BY <1>1, RunnerAssumption DEF Pop, Take, Goto, TypeOK, WorkerShape
  <2>2. CASE ~\E t \in deque[w] : Take(w, t)
    BY <1>1, <2>2 DEF Pop, Goto, TypeOK, WorkerShape
  <2> QED
    BY <1>1, <2>1, <2>2 DEF Pop
<1>2. CASE StealBatch(w)
  BY <1>2, RunnerAssumption DEF StealBatch, Take, Goto, TypeOK, WorkerShape
<1>3. ASSUME NEW u \in Worker, Steal(w, u) PROVE WorkerShape'
  <2>1. CASE \E t \in deque[u] : Take(w, t)
    <3> PICK t \in Task : Take(w, t)
      BY <2>1 DEF TypeOK
    <3> QED
      BY <1>3, RunnerAssumption DEF Steal, Stealing, Take, Goto, TypeOK, WorkerShape
  <2>2. CASE ~\E t \in deque[u] : Take(w, t)
    BY <1>3, <2>2 DEF Steal, Stealing, Goto, TypeOK, WorkerShape
  <2> QED
    BY <1>3, <2>1, <2>2 DEF Steal
<1>4. CASE NothingFound(w)
  BY <1>4, RunnerAssumption DEF NothingFound, Stealing, Take, Goto, TypeOK, WorkerShape
<1>5. CASE LeaveIdle(w)
  BY <1>5, RunnerAssumption DEF LeaveIdle, Take, Goto, TypeOK, WorkerShape
<1>6. CASE Uncount(w)
  BY <1>6, RunnerAssumption DEF Uncount, Take, Goto, TypeOK, WorkerShape
<1>7. CASE Execute(w)
  BY <1>7, RunnerAssumption DEF Execute, Take, Goto, TypeOK, WorkerShape
<1>8. CASE CountChildren(w)
  BY <1>8, RunnerAssumption DEF CountChildren, Take, Goto, TypeOK, WorkerShape
<1>9. CASE Push(w)
  BY <1>9, RunnerAssumption DEF Push, Take, Goto, TypeOK, WorkerShape
<1>10. CASE BecomeIdle(w)
  BY <1>10, RunnerAssumption DEF BecomeIdle, Take, Goto, TypeOK, WorkerShape
<1>11. CASE CheckQueued(w)
  BY <1>11, RunnerAssumption DEF CheckQueued, Take, Goto, TypeOK, WorkerShape
<1>12. CASE CheckIdle(w)
  BY <1>12, RunnerAssumption DEF CheckIdle, Take, Goto, TypeOK, WorkerShape
<1>13. CASE Report(w)
  BY <1>13, RunnerAssumption DEF Report, Take, Goto, TypeOK, WorkerShape
<1>14. CASE AskStealers(w)
  BY <1>14, RunnerAssumption DEF AskStealers, Take, Goto, TypeOK, WorkerShape
<1> QED
  BY <1>1, <1>2, <1>3, <1>4, <1>5, <1>6, <1>7, <1>8, <1>9, <1>10, <1>11,
     <1>12, <1>13, <1>14 DEF Step

(* Most actions leave the tasks where they are ...                         *)
LEMMA TasksStay ==
  ASSUME OnePlace, NothingLost,
         UNCHANGED <<injector, unborn, deque, next, children, executed>>
  PROVE  OnePlace' /\ NothingLost'
BY DEF OnePlace, NothingLost, Has

(* ... and the others move them from one place to another.                 *)
LEMMA OnePlaceHolds ==
  ASSUME TypeOK, WorkerShape, OnePlace, NothingLost, NEW w \in Worker, Step(w)
  PROVE  OnePlace'
<1>1. CASE Pop(w)
  BY <1>1, RunnerAssumption DEF Pop, Take, Goto, TypeOK, WorkerShape,
     OnePlace, Has
<1>2. CASE StealBatch(w)
  BY <1>2, RunnerAssumption DEF StealBatch, Take, Goto, TypeOK, WorkerShape,
     OnePlace, Has
<1>3. ASSUME NEW u \in Worker, Steal(w, u) PROVE OnePlace'
  <2>1. CASE deque' = deque /\ next' = next
    BY <1>3, <2>1, TasksStay DEF Steal
  <2>2. ASSUME NEW t \in deque[u],
               deque' = [deque EXCEPT ![u] = @ \ {t}], next' = [next EXCEPT ![w] = t],
               pc' = [pc EXCEPT ![w] = "taken"]
        PROVE  OnePlace'
    <3>1. /\ next[w] = NoTask /\ t \in Task /\ t # NoTask
          /\ UNCHANGED <<injector, unborn, children, executed>>
          /\ deque \in [Worker -> SUBSET Task]
          /\ next \in [Worker -> Task \cup {NoTask}]
      BY <1>3, RunnerAssumption DEF Steal, Stealing, TypeOK, WorkerShape
    <3> QED
      BY <2>2, <3>1, RunnerAssumption DEF OnePlace, Has
  <2> QED
    BY <1>3, <2>1, <2>2 DEF Steal, Take, Goto
<1>4. CASE NothingFound(w)
  BY <1>4, TasksStay DEF NothingFound
<1>5. CASE LeaveIdle(w)
  BY <1>5, TasksStay DEF LeaveIdle
<1>6. CASE Uncount(w)
  BY <1>6, TasksStay DEF Uncount
<1>7. CASE Execute(w)
  BY <1>7, RunnerAssumption DEF Execute, Take, Goto, TypeOK, WorkerShape,
     OnePlace, Has
<1>8. CASE CountChildren(w)
  BY <1>8, TasksStay DEF CountChildren
<1>9. CASE Push(w)
  BY <1>9, RunnerAssumption DEF Push, Take, Goto, TypeOK, WorkerShape,
     OnePlace, Has
<1>10. CASE BecomeIdle(w)
  BY <1>10, TasksStay DEF BecomeIdle
<1>11. CASE CheckQueued(w)
  BY <1>11, TasksStay DEF CheckQueued
<1>12. CASE CheckIdle(w)
  BY <1>12, TasksStay DEF CheckIdle
<1>13. CASE Report(w)
  BY <1>13, TasksStay DEF Report
<1>14. CASE AskStealers(w)
  BY <1>14, TasksStay DEF AskStealers
<1> QED
  BY <1>1, <1>2, <1>3, <1>4, <1>5, <1>6, <1>7, <1>8, <1>9, <1>10, <1>11,
     <1>12, <1>13, <1>14 DEF Step

(* None disappears on the way.                                             *)
LEMMA NothingLostHolds ==
  ASSUME TypeOK, WorkerShape, OnePlace, NothingLost, NEW w \in Worker, Step(w)
  PROVE  NothingLost'
<1>1. CASE Pop(w)
  BY <1>1, RunnerAssumption DEF Pop, Take, Goto, TypeOK, WorkerShape,
     NothingLost, Has
<1>2. CASE StealBatch(w)
  BY <1>2, RunnerAssumption DEF StealBatch, Take, Goto, TypeOK, WorkerShape,
     NothingLost, Has
<1>3. ASSUME NEW u \in Worker, Steal(w, u) PROVE NothingLost'
  <2>1. CASE deque' = deque /\ next' = next
    BY <1>3, <2>1, TasksStay DEF Steal
  <2>2. ASSUME NEW t \in deque[u],
               deque' = [deque EXCEPT ![u] = @ \ {t}], next' = [next EXCEPT ![w] = t],
               pc' = [pc EXCEPT ![w] = "taken"]
        PROVE  NothingLost'
    <3>1. /\ next[w] = NoTask /\ t \in Task /\ t # NoTask
          /\ UNCHANGED <<injector, unborn, children, executed>>
          /\ deque \in [Worker -> SUBSET Task]
          /\ next \in [Worker -> Task \cup {NoTask}]
      BY <1>3, RunnerAssumption DEF Steal, Stealing, TypeOK, WorkerShape
    <3> QED
      BY <2>2, <3>1, RunnerAssumption DEF NothingLost, Has
  <2> QED
    BY <1>3, <2>1, <2>2 DEF Steal, Take, Goto
<1>4. CASE NothingFound(w)
  BY <1>4, TasksStay DEF NothingFound
<1>5. CASE LeaveIdle(w)
  BY <1>5, TasksStay DEF LeaveIdle
<1>6. CASE Uncount(w)
  BY <1>6, TasksStay DEF Uncount
<1>7. CASE Execute(w)
  BY <1>7, RunnerAssumption DEF Execute, Take, Goto, TypeOK, WorkerShape,
     NothingLost, Has
<1>8. CASE CountChildren(w)
  BY <1>8, TasksStay DEF CountChildren
<1>9. CASE Push(w)
  BY <1>9, RunnerAssumption DEF Push, Take, Goto, TypeOK, WorkerShape,
     NothingLost, Has
<1>10. CASE BecomeIdle(w)
  BY <1>10, TasksStay DEF BecomeIdle
<1>11. CASE CheckQueued(w)
  BY <1>11, TasksStay DEF CheckQueued
<1>12. CASE CheckIdle(w)
  BY <1>12, TasksStay DEF CheckIdle
<1>13. CASE Report(w)
  BY <1>13, TasksStay DEF Report
<1>14. CASE AskStealers(w)
  BY <1>14, TasksStay DEF AskStealers
<1> QED
  BY <1>1, <1>2, <1>3, <1>4, <1>5, <1>6, <1>7, <1>8, <1>9, <1>10, <1>11,
     <1>12, <1>13, <1>14 DEF Step

(* A worker declares itself idle before it looks at the counters.          *)
LEMMA IdleShapeHolds ==
  ASSUME TypeOK, IdleShape, NEW w \in Worker, Step(w)
  PROVE  IdleShape'
<1>1. CASE Pop(w)
  BY <1>1 DEF Pop, Take, Goto, TypeOK, IdleShape
<1>2. CASE StealBatch(w)
  BY <1>2 DEF StealBatch, Take, Goto, TypeOK, IdleShape
<1>3. ASSUME NEW u \in Worker, Steal(w, u) PROVE IdleShape'
  BY <1>3 DEF Steal, Stealing, Take, Goto, TypeOK, IdleShape
<1>4. CASE NothingFound(w)
  BY <1>4 DEF NothingFound, Stealing, Take, Goto, TypeOK, IdleShape
<1>5. CASE LeaveIdle(w)
  BY <1>5 DEF LeaveIdle, Take, Goto, TypeOK, IdleShape
<1>6. CASE Uncount(w)
  BY <1>6 DEF Uncount, Take, Goto, TypeOK, IdleShape
<1>7. CASE Execute(w)
  BY <1>7 DEF Execute, Take, Goto, TypeOK, IdleShape
<1>8. CASE CountChildren(w)
  BY <1>8 DEF CountChildren, Take, Goto, TypeOK, IdleShape
<1>9. CASE Push(w)
  BY <1>9 DEF Push, Take, Goto, TypeOK, IdleShape
<1>10. CASE BecomeIdle(w)
  BY <1>10 DEF BecomeIdle, Take, Goto, TypeOK, IdleShape
<1>11. CASE CheckQueued(w)
  BY <1>11 DEF CheckQueued, Take, Goto, TypeOK, IdleShape
<1>12. CASE CheckIdle(w)
  BY <1>12 DEF CheckIdle, Take, Goto, TypeOK, IdleShape
<1>13. CASE Report(w)
  BY <1>13 DEF Report, Take, Goto, TypeOK, IdleShape
<1>14. CASE AskStealers(w)
  BY <1>14 DEF AskStealers, Take, Goto, TypeOK, IdleShape
<1> QED
  BY <1>1, <1>2, <1>3, <1>4, <1>5, <1>6, <1>7, <1>8, <1>9, <1>10, <1>11,
     <1>12, <1>13, <1>14 DEF Step

(* An empty deque stays empty while its owner does not push, and only      *)
(* main fills the injector.                                                *)
LEMMA LookedEverywhereHolds ==
  ASSUME TypeOK, WorkerShape, LookedEverywhere, NEW w \in Worker, Step(w)
  PROVE  LookedEverywhere'
<1>1. CASE Pop(w)
  BY <1>1 DEF Pop, Take, Goto, TypeOK, WorkerShape, LookedEverywhere
<1>2. CASE StealBatch(w)
  BY ZenonT(30), <1>2 DEF StealBatch, Take, Goto, TypeOK, WorkerShape, LookedEverywhere
<1>3. ASSUME NEW u \in Worker, Steal(w, u) PROVE LookedEverywhere'
  BY <1>3 DEF Steal, Stealing, Take, Goto, TypeOK, WorkerShape, LookedEverywhere
<1>4. CASE NothingFound(w)
  BY <1>4 DEF NothingFound, Stealing, Take, Goto, TypeOK, WorkerShape, LookedEverywhere
<1>5. CASE LeaveIdle(w)
  BY <1>5 DEF LeaveIdle, Take, Goto, TypeOK, WorkerShape, LookedEverywhere
<1>6. CASE Uncount(w)
  BY <1>6 DEF Uncount, Take, Goto, TypeOK, WorkerShape, LookedEverywhere
<1>7. CASE Execute(w)
  BY <1>7 DEF Execute, Take, Goto, TypeOK, WorkerShape, LookedEverywhere
<1>8. CASE CountChildren(w)
  BY <1>8 DEF CountChildren, Take, Goto, TypeOK, WorkerShape, LookedEverywhere
<1>9. CASE Push(w)
  BY <1>9 DEF Push, Take, Goto, TypeOK, WorkerShape, LookedEverywhere
<1>10. CASE BecomeIdle(w)
  BY <1>10 DEF BecomeIdle, Take, Goto, TypeOK, WorkerShape, LookedEverywhere
<1>11. CASE CheckQueued(w)
  BY <1>11 DEF CheckQueued, Take, Goto, TypeOK, WorkerShape, LookedEverywhere
<1>12. CASE CheckIdle(w)
  BY <1>12 DEF CheckIdle, Take, Goto, TypeOK, WorkerShape, LookedEverywhere
<1>13. CASE Report(w)
  BY <1>13 DEF Report, Take, Goto, TypeOK, WorkerShape, LookedEverywhere
<1>14. CASE AskStealers(w)
  BY <1>14 DEF AskStealers, Take, Goto, TypeOK, WorkerShape, LookedEverywhere
<1> QED
  BY <1>1, <1>2, <1>3, <1>4, <1>5, <1>6, <1>7, <1>8, <1>9, <1>10, <1>11,
     <1>12, <1>13, <1>14 DEF Step

(* A worker executes nothing after its report.                             *)
LEMMA ReportsCountedHolds ==
  ASSUME TypeOK, ReportsCounted, NEW w \in Worker, Step(w)
  PROVE  ReportsCounted'
<1>1. CASE Pop(w)
  BY <1>1 DEF Pop, Take, Goto, TypeOK, ReportsCounted
<1>2. CASE StealBatch(w)
  BY <1>2 DEF StealBatch, Take, Goto, TypeOK, ReportsCounted
<1>3. ASSUME NEW u \in Worker, Steal(w, u) PROVE ReportsCounted'
  BY <1>3 DEF Steal, Stealing, Take, Goto, TypeOK, ReportsCounted
<1>4. CASE NothingFound(w)
  BY <1>4 DEF NothingFound, Stealing, Take, Goto, TypeOK, ReportsCounted
<1>5. CASE LeaveIdle(w)
  BY <1>5 DEF LeaveIdle, Take, Goto, TypeOK, ReportsCounted
<1>6. CASE Uncount(w)
  BY <1>6 DEF Uncount, Take, Goto, TypeOK, ReportsCounted
<1>7. CASE Execute(w)
  BY <1>7 DEF Execute, Take, Goto, TypeOK, ReportsCounted
<1>8. CASE CountChildren(w)
  BY <1>8 DEF CountChildren, Take, Goto, TypeOK, ReportsCounted
<1>9. CASE Push(w)
  BY <1>9 DEF Push, Take, Goto, TypeOK, ReportsCounted
<1>10. CASE BecomeIdle(w)
  BY <1>10 DEF BecomeIdle, Take, Goto, TypeOK, ReportsCounted
<1>11. CASE CheckQueued(w)
  BY <1>11 DEF CheckQueued, Take, Goto, TypeOK, ReportsCounted
<1>12. CASE CheckIdle(w)
  BY <1>12 DEF CheckIdle, Take, Goto, TypeOK, ReportsCounted
<1>13. CASE Report(w)
  BY <1>13 DEF Report, Take, Goto, TypeOK, ReportsCounted
<1>14. CASE AskStealers(w)
  BY <1>14 DEF AskStealers, Take, Goto, TypeOK, ReportsCounted
<1> QED
  BY <1>1, <1>2, <1>3, <1>4, <1>5, <1>6, <1>7, <1>8, <1>9, <1>10, <1>11,
     <1>12, <1>13, <1>14 DEF Step

-----------------------------------------------------------------------------
(* Moving a task to a worker's hands, or a child to its deque, leaves the  *)
(* set of queued tasks as it is.                                           *)
LEMMA QueuedStays ==
  ASSUME TypeOK, WorkerShape, NEW w \in Worker, Step(w),
         ~Uncount(w), ~CountChildren(w)
  PROVE  Queued' = Queued
<1> SUFFICES ASSUME NEW t PROVE t \in Queued' <=> t \in Queued
  OBVIOUS
<1>1. CASE Pop(w)
  BY <1>1, InQueued DEF Pop, Take, Goto, TypeOK, WorkerShape, IsQueued
<1>2. CASE StealBatch(w)
  BY <1>2, InQueued DEF StealBatch, Take, Goto, TypeOK, WorkerShape, IsQueued
<1>3. ASSUME NEW u \in Worker, Steal(w, u) PROVE t \in Queued' <=> t \in Queued
  <2>1. ASSUME UNCHANGED <<deque, next>>, pc' = pc \/ Goto(w, "steal again")
        PROVE  t \in Queued' <=> t \in Queued
    <3>1. /\ pc[w] \notin {"taken", "uncount", "push"}
          /\ UNCHANGED <<injector, children>>
      BY <1>3 DEF Steal, Stealing
    <3> QED
      BY <2>1, <3>1, InQueued DEF Goto, TypeOK, IsQueued
  <2>2. ASSUME NEW k \in deque[u],
               deque' = [deque EXCEPT ![u] = @ \ {k}], next' = [next EXCEPT ![w] = k],
               pc' = [pc EXCEPT ![w] = "taken"]
        PROVE  t \in Queued' <=> t \in Queued
    <3>1. /\ pc[w] \notin {"taken", "uncount", "push"}
          /\ UNCHANGED <<injector, children>>
      BY <1>3 DEF Steal, Stealing
    <3>2. /\ deque' = [x \in Worker |-> IF x = u THEN deque[u] \ {k} ELSE deque[x]]
          /\ next' = [x \in Worker |-> IF x = w THEN k ELSE next[x]]
          /\ pc' = [x \in Worker |-> IF x = w THEN "taken" ELSE pc[x]]
      BY <2>2 DEF TypeOK
    <3>3. IsQueued(t) => IsQueued(t)'
      BY <2>2, <3>1, <3>2 DEF IsQueued
    <3>4. IsQueued(t)' => IsQueued(t)
      BY <2>2, <3>1, <3>2 DEF IsQueued
    <3> QED
      BY <3>3, <3>4, InQueued
  <2> QED
    BY <1>3, <2>1, <2>2 DEF Steal, Take, Goto
<1>4. CASE NothingFound(w)
  BY <1>4, InQueued DEF NothingFound, Stealing, Take, Goto, TypeOK, WorkerShape,
     IsQueued
<1>5. CASE LeaveIdle(w)
  BY <1>5, InQueued DEF LeaveIdle, Take, Goto, TypeOK, WorkerShape, IsQueued
<1>6. CASE Execute(w)
  BY <1>6, InQueued DEF Execute, Take, Goto, TypeOK, WorkerShape, IsQueued
<1>7. CASE Push(w)
  BY <1>7, InQueued DEF Push, Take, Goto, TypeOK, WorkerShape, IsQueued
<1>8. CASE BecomeIdle(w)
  BY <1>8, InQueued DEF BecomeIdle, Take, Goto, TypeOK, WorkerShape, IsQueued
<1>9. CASE CheckQueued(w)
  BY <1>9, InQueued DEF CheckQueued, Take, Goto, TypeOK, WorkerShape, IsQueued
<1>10. CASE CheckIdle(w)
  BY <1>10, InQueued DEF CheckIdle, Take, Goto, TypeOK, WorkerShape, IsQueued
<1>11. CASE Report(w)
  BY <1>11, InQueued DEF Report, Take, Goto, TypeOK, WorkerShape, IsQueued
<1>12. CASE AskStealers(w)
  BY <1>12, InQueued DEF AskStealers, Take, Goto, TypeOK, WorkerShape,
     IsQueued
<1> QED
  BY <1>1, <1>2, <1>3, <1>4, <1>5, <1>6, <1>7, <1>8, <1>9, <1>10, <1>11,
     <1>12 DEF Step

(* queued_count follows the cardinality of Queued.                         *)
LEMMA QueuedHolds ==
  ASSUME TypeOK, WorkerShape, OnePlace, QueuedCountExact,
         NEW w \in Worker, Step(w)
  PROVE  QueuedCountExact' /\ queuedCount' \in Nat
<1>fin. IsFiniteSet(Queued)
  BY QueuedIsFinite
<1>1. CASE Uncount(w)
  <2>1. next[w] \in Queued /\ next[w] \in Task
    BY <1>1, InQueued DEF Uncount, IsQueued, WorkerShape, TypeOK
  <2>2. ASSUME NEW t PROVE t \in Queued' <=> t \in Queued /\ t # next[w]
    <3>1. IsQueued(t)' => IsQueued(t) /\ t # next[w]
      BY <1>1, <2>1
         DEF Uncount, Goto, IsQueued, TypeOK, WorkerShape, OnePlace, Has
    <3>2. IsQueued(t) /\ t # next[w] => IsQueued(t)'
      BY <1>1 DEF Uncount, Goto, IsQueued, TypeOK, WorkerShape
    <3> QED
      BY <3>1, <3>2, InQueued
  <2>3. Queued' = Queued \ {next[w]}
    BY <2>2
  <2>4. Cardinality(Queued') = Cardinality(Queued) - 1
    BY <1>fin, <2>1, <2>3, FS_RemoveElement
  <2>5. Cardinality(Queued') \in Nat
    BY <1>fin, <2>3, FS_RemoveElement, FS_CardinalityType
  <2> QED
    BY <1>1, <2>4, <2>5 DEF Uncount, QueuedCountExact
<1>2. CASE CountChildren(w)
  <2>1. children[w] \cap Queued = {}
    <3> SUFFICES ASSUME NEW t \in children[w], t \in Queued PROVE FALSE
      OBVIOUS
    <3>1. t \in Task /\ IsQueued(t)
      BY InQueued DEF TypeOK
    <3> QED
      BY <1>2, <3>1
         DEF CountChildren, IsQueued, TypeOK, WorkerShape, OnePlace, Has
  <2>2. ASSUME NEW t PROVE t \in Queued' <=> t \in Queued \/ t \in children[w]
    BY <1>2, InQueued DEF CountChildren, Goto, IsQueued, TypeOK, WorkerShape
  <2>3. Queued' = Queued \cup children[w]
    BY <2>2
  <2>4. IsFiniteSet(children[w])
    BY RunnerAssumption, FS_Subset DEF TypeOK
  <2>5. Cardinality(Queued') = Cardinality(Queued) + Cardinality(children[w])
    <3>1. Cardinality(Queued \cap children[w]) = 0
      <4>1. Queued \cap children[w] = {}
        BY <2>1
      <4> QED
        BY <4>1, FS_EmptySet
    <3>2. Cardinality(Queued') = Cardinality(Queued) + Cardinality(children[w])
                                 - Cardinality(Queued \cap children[w])
      BY <1>fin, <2>3, <2>4, FS_Union
    <3> QED
      BY <1>fin, <2>4, <3>1, <3>2, FS_CardinalityType
  <2>6. Cardinality(Queued') \in Nat
    BY <1>fin, <2>3, <2>4, FS_Union, FS_CardinalityType
  <2> QED
    BY <1>2, <2>5, <2>6 DEF CountChildren, QueuedCountExact
<1>3. CASE ~Uncount(w) /\ ~CountChildren(w)
  <2>1. queuedCount' = queuedCount
    BY <1>3 DEF Step, Pop, StealBatch, AskStealers, Steal, NothingFound, LeaveIdle,
       Execute, Push, BecomeIdle, CheckQueued, CheckIdle, Report
  <2> QED
    BY <1>3, <2>1, QueuedStays DEF QueuedCountExact, TypeOK
<1> QED
  BY <1>1, <1>2, <1>3

(* num_idle follows the number of workers whose is_idle is set.            *)
LEMMA IdleCountHolds ==
  ASSUME TypeOK, IdleCount, NEW w \in Worker, Step(w)
  PROVE  IdleCount' /\ numIdle' \in Nat
<1> DEFINE I == {u \in Worker : isIdle[u]}
<1>1. CASE LeaveIdle(w)
  <2>1. CASE isIdle[w]
    <3>1. I' = I \ {w} /\ w \in I /\ numIdle' = numIdle - 1
      BY <1>1, <2>1 DEF LeaveIdle, TypeOK
    <3>2. Cardinality(I') = Cardinality(I) - 1 /\ Cardinality(I') \in Nat
      BY <3>1, IdleIsFinite, FS_RemoveElement, FS_CardinalityType
    <3> QED
      BY <3>1, <3>2 DEF IdleCount
  <2>2. CASE ~isIdle[w]
    BY <1>1, <2>2 DEF LeaveIdle, IdleCount, TypeOK
  <2> QED
    BY <2>1, <2>2
<1>2. CASE BecomeIdle(w)
  <2>1. CASE ~isIdle[w]
    <3>1. I' = I \cup {w} /\ w \notin I /\ numIdle' = numIdle + 1
      BY <1>2, <2>1 DEF BecomeIdle, TypeOK
    <3>2. Cardinality(I') = Cardinality(I) + 1 /\ Cardinality(I') \in Nat
      BY <3>1, IdleIsFinite, FS_AddElement, FS_CardinalityType
    <3> QED
      BY <3>1, <3>2 DEF IdleCount
  <2>2. CASE isIdle[w]
    BY <1>2, <2>2 DEF BecomeIdle, IdleCount, TypeOK
  <2> QED
    BY <2>1, <2>2
<1>3. CASE ~LeaveIdle(w) /\ ~BecomeIdle(w)
  <2>1. UNCHANGED <<numIdle, isIdle>>
    BY <1>3 DEF Step, Pop, StealBatch, AskStealers, Steal, NothingFound, Uncount,
       Execute, CountChildren, Push, CheckQueued, CheckIdle, Report
  <2> QED
    BY <2>1 DEF IdleCount, TypeOK
<1> QED
  BY <1>1, <1>2, <1>3

(* The rest of the type invariant, once the counters do not wrap.          *)
LEMMA TypeHolds ==
  ASSUME TypeOK, WorkerShape, queuedCount' \in Nat, numIdle' \in Nat,
         NEW w \in Worker, Step(w)
  PROVE  TypeOK'
<1>1. CASE Pop(w)
  <2>1. deque' \in [Worker -> SUBSET Task]
    BY <1>1 DEF Pop, TypeOK
  <2>2. next' \in [Worker -> Task \cup {NoTask}]
    BY <1>1 DEF Pop, Take, TypeOK
  <2>3. pc' \in [Worker -> Pc]
    BY <1>1 DEF Pop, Take, Goto, Pc, TypeOK
  <2> QED
    BY <1>1, <2>1, <2>2, <2>3 DEF Pop, Take, TypeOK
<1>2. CASE StealBatch(w)
  <2>1. deque' \in [Worker -> SUBSET Task]
    BY <1>2 DEF StealBatch, TypeOK
  <2>2. next' \in [Worker -> Task \cup {NoTask}]
    BY <1>2 DEF StealBatch, Take, TypeOK
  <2>3. pc' \in [Worker -> Pc]
    BY <1>2 DEF StealBatch, Take, Goto, Pc, TypeOK
  <2> QED
    BY <1>2, <2>1, <2>2, <2>3 DEF StealBatch, Take, TypeOK
<1>3. ASSUME NEW u \in Worker, Steal(w, u) PROVE TypeOK'
  <2>1. deque' \in [Worker -> SUBSET Task]
    <3>1. CASE deque' = deque
      BY <3>1 DEF TypeOK
    <3>2. CASE \E t \in deque[u] : deque' = [deque EXCEPT ![u] = @ \ {t}]
      BY <3>2 DEF TypeOK
    <3> QED
      BY <1>3, <3>1, <3>2 DEF Steal
  <2>2. next' \in [Worker -> Task \cup {NoTask}]
    <3>1. CASE next' = next
      BY <3>1 DEF TypeOK
    <3>2. CASE \E t \in deque[u] : next' = [next EXCEPT ![w] = t]
      BY <3>2 DEF TypeOK
    <3> QED
      BY <1>3, <3>1, <3>2 DEF Steal, Take
  <2>3. unseen' \in [Worker -> SUBSET Worker]
    BY <1>3 DEF Steal, Stealing, TypeOK
  <2>4. pc' \in [Worker -> Pc]
    BY <1>3 DEF Steal, Stealing, Take, Goto, Pc, TypeOK
  <2> QED
    BY <1>3, <2>1, <2>2, <2>3, <2>4 DEF Steal, Stealing, Take, TypeOK
<1>4. CASE NothingFound(w)
  BY <1>4, RunnerAssumption DEF NothingFound, Stealing, Take, Goto, TypeOK, Pc
<1>5. CASE LeaveIdle(w)
  BY <1>5, RunnerAssumption DEF LeaveIdle, Take, Goto, TypeOK, Pc
<1>6. CASE Uncount(w)
  BY <1>6, RunnerAssumption DEF Uncount, Take, Goto, TypeOK, Pc
<1>7. CASE Execute(w)
  <2>1. executed' \in [Worker -> SUBSET Task]
    BY <1>7 DEF Execute, WorkerShape, TypeOK
  <2>2. next' \in [Worker -> Task \cup {NoTask}]
    BY <1>7 DEF Execute, Take, TypeOK
  <2>3. children' \in [Worker -> SUBSET Task]
    BY <1>7 DEF Execute, TypeOK
  <2>4. pc' \in [Worker -> Pc]
    BY <1>7 DEF Execute, Take, Goto, Pc, TypeOK
  <2> QED
    BY <1>7, <2>1, <2>2, <2>3, <2>4 DEF Execute, Take, TypeOK
<1>8. CASE CountChildren(w)
  BY <1>8, RunnerAssumption DEF CountChildren, Take, Goto, TypeOK, Pc
<1>9. CASE Push(w)
  <2>1. deque' \in [Worker -> SUBSET Task]
    BY <1>9 DEF Push, TypeOK
  <2>2. children' \in [Worker -> SUBSET Task]
    BY <1>9 DEF Push, TypeOK
  <2>3. pc' \in [Worker -> Pc]
    BY <1>9 DEF Push, Take, Goto, Pc, TypeOK
  <2> QED
    BY <1>9, <2>1, <2>2, <2>3 DEF Push, Take, TypeOK
<1>10. CASE BecomeIdle(w)
  BY <1>10, RunnerAssumption DEF BecomeIdle, Take, Goto, TypeOK, Pc
<1>11. CASE CheckQueued(w)
  BY <1>11, RunnerAssumption DEF CheckQueued, Take, Goto, TypeOK, Pc
<1>12. CASE CheckIdle(w)
  BY <1>12, RunnerAssumption DEF CheckIdle, Take, Goto, TypeOK, Pc
<1>13. CASE Report(w)
  BY <1>13, RunnerAssumption DEF Report, Take, Goto, TypeOK, Pc
<1>14. CASE AskStealers(w)
  BY <1>14, RunnerAssumption DEF AskStealers, Take, Goto, TypeOK, Pc
<1> QED
  BY <1>1, <1>2, <1>3, <1>4, <1>5, <1>6, <1>7, <1>8, <1>9, <1>10, <1>11,
     <1>12, <1>13, <1>14 DEF Step

-----------------------------------------------------------------------------
(* One step of one worker preserves all parts of the invariant. *)
LEMMA InvariantHolds == Spec => []IInv
<1>1. ASSUME IInv, NEW w \in Worker, Step(w) PROVE IInv'
  <2>1. WorkerShape' /\ OnePlace' /\ NothingLost'
    BY <1>1, WorkerShapeHolds, OnePlaceHolds, NothingLostHolds DEF IInv, Shape
  <2>2. IdleShape' /\ LookedEverywhere' /\ ReportsCounted'
    BY <1>1, IdleShapeHolds, LookedEverywhereHolds, ReportsCountedHolds
       DEF IInv, Shape
  <2>3. QueuedCountExact' /\ queuedCount' \in Nat
    BY <1>1, QueuedHolds DEF IInv, Shape
  <2>4. IdleCount' /\ numIdle' \in Nat
    BY <1>1, IdleCountHolds DEF IInv, Shape
  <2>5. TypeOK'
    BY <1>1, <2>3, <2>4, TypeHolds DEF IInv, Shape
  <2> QED
    BY <2>1, <2>2, <2>3, <2>4, <2>5 DEF IInv, Shape
<1>2. ASSUME IInv, UNCHANGED vars PROVE IInv'
  <2>1. Queued' = Queued
    BY <1>2 DEF vars, Queued
  <2>2. QueuedCountExact' /\ IdleCount'
    BY <1>2, <2>1 DEF vars, IInv, QueuedCountExact, IdleCount
  <2>3. TypeOK' /\ WorkerShape' /\ OnePlace' /\ NothingLost'
    BY <1>2
       DEF vars, IInv, Shape, TypeOK, WorkerShape, OnePlace, NothingLost, Has
  <2>4. IdleShape' /\ LookedEverywhere' /\ ReportsCounted'
    BY <1>2 DEF vars, IInv, Shape, IdleShape, LookedEverywhere, ReportsCounted
  <2> QED
    BY <2>2, <2>3, <2>4 DEF IInv, Shape
<1>3. IInv /\ [Next]_vars => IInv'
  BY <1>1, <1>2 DEF Next, Terminated
<1> QED
  BY InitHolds, <1>3, PTL DEF Spec

-----------------------------------------------------------------------------
(* The counters of the runner are well typed: neither usize ever wraps     *)
(* below 0.                                                                *)
THEOREM TypeCorrect == Spec => []TypeOK
<1>1. IInv => TypeOK
  BY DEF IInv, Shape
<1> QED
  BY <1>1, InvariantHolds, PTL

(* queued_count is the number of queued tasks and num_idle that of idle    *)
(* workers, none of which executes, at every step of any number of workers. *)
THEOREM CountersAreExact == Spec => []CountersExact
<1>1. IInv => CountersExact
  BY DEF IInv, Shape, IdleCount, IdleShape, IdleExact, CountersExact
<1> QED
  BY <1>1, InvariantHolds, PTL

(* A worker that reports has left no task in its deque or in the injector. *)
THEOREM ExitsEmpty == Spec => []ExitLeavesNothing
<1>1. IInv => ExitLeavesNothing
  BY DEF IInv, Shape, LookedEverywhere, ExitLeavesNothing
<1> QED
  BY <1>1, InvariantHolds, PTL

(* After join the counters stand for every task that came to exist, each   *)
(* executed by one worker.                                                 *)
THEOREM JoinsAll == Spec => []JoinSeesEverything
<1>1. ASSUME IInv, Joined PROVE counted = Task \ unborn
  <2>1. ASSUME NEW t \in Task, t \notin unborn PROVE t \in counted
    <3>1. t \notin injector
      BY <1>1, RunnerAssumption DEF IInv, Shape, LookedEverywhere, Joined
    <3>2. PICK w \in Worker : Has(w, t)
      BY <2>1, <3>1, <1>1 DEF IInv, Shape, NothingLost
    <3>3. t \in executed[w]
      BY <1>1, <2>1, <3>2, RunnerAssumption
         DEF IInv, Shape, LookedEverywhere, WorkerShape, Joined, Has
    <3> QED
      BY <1>1, <3>3 DEF IInv, Shape, ReportsCounted, Joined
  <2>2. ASSUME NEW t \in counted PROVE t \in Task /\ t \notin unborn
    BY <1>1, <2>2 DEF IInv, Shape, TypeOK, ReportsCounted, OnePlace, Has
  <2> QED
    BY <2>1, <2>2
<1>2. ASSUME IInv, NEW w \in Worker, NEW u \in Worker, w # u
      PROVE  executed[w] \cap executed[u] = {}
  BY <1>2 DEF IInv, Shape, TypeOK, OnePlace, Has
<1>3. IInv => JoinSeesEverything
  BY <1>1, <1>2 DEF JoinSeesEverything
<1> QED
  BY <1>3, InvariantHolds, PTL

=============================================================================
