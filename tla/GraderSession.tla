--------------------------- MODULE GraderSession ---------------------------
(***************************************************************************)
(* GradingSession (grader/grader.cpp, grader.hpp): one client thread per   *)
(* connection feeds the engine its commands, the output thread reads what  *)
(* the engine prints and decides when everything has arrived, and run      *)
(* waits for all of them.  What was sent and not answered yet is kept in   *)
(* active_buysell_count and active_cancel under active_orders_mut; exit    *)
(* conditions are kept under exit_mut.                                     *)
(*                                                                         *)
(* The engine is external: it answers the commands of a connection in      *)
(* order, with any executions, and may die.  Connecting, sleeping and      *)
(* time-outs that only print a warning are left out.  exit_mut is held     *)
(* within a step only; active_orders_mut longer by the output thread only, *)
(* while it evaluates the predicate it waits with.  A notification joins   *)
(* the step before it, except those of a client that is done.              *)
(***************************************************************************)
EXTENDS Integers, Sequences, FiniteSets

CONSTANTS
  Thread,
  OrderId,
  Count,     \* order -> count of the command
  Plans,     \* what thread_commands may be: thread -> inputs
  Nil

Input == [type : {"new", "cancel", "wait"}, order : OrderId] \cup [type : {"sync"}]

Orders(inputs, type) ==
  {inputs[i].order : i \in {j \in DOMAIN inputs : inputs[j].type = type}}

(* What validate_commands asserts: an order is sent once, and cancelled by *)
(* the thread that sent it.                                                *)
Valid(plan) ==
  /\ \A t, u \in Thread : t # u =>
       Orders(plan[t], "new") \cap Orders(plan[u], "new") = {}
  /\ \A t \in Thread : \A i, j \in DOMAIN plan[t] :
       plan[t][i].type = "new" /\ plan[t][j] = plan[t][i] => i = j
  /\ \A t \in Thread : \A j \in DOMAIN plan[t] :
       plan[t][j].type = "cancel" =>
         plan[t][j].order \in Orders(SubSeq(plan[t], 1, j - 1), "new")

ASSUME SessionAssumption ==
  /\ Count \in [OrderId -> Nat \ {0}]
  /\ Plans \subseteq [Thread -> Seq(Input)]
  /\ \A plan \in Plans : Valid(plan)
  /\ IsFiniteSet(Thread)
  /\ Nil \notin Nat

VARIABLES
  \* the clients
  commands, clientPc,    \* what is left of thread_commands, where the thread is
  arrived,               \* threads at their std::barrier
  \* the engine and its pipes
  wire, left,            \* commands not answered, what remains of an order
  stdout, dead,
  \* the session
  active_buysell_count,  \* order -> count not answered for, or Nil
  active_cancel,
  permits,               \* order_completion_latches
  num_threads_done, output_thread_done, failed,
  outPc, runPc           \* the output thread and run

clientVars == <<commands, clientPc, arrived>>
engineVars == <<wire, left, stdout, dead>>
activeVars == <<active_buysell_count, active_cancel>>
exitVars == <<num_threads_done, output_thread_done, failed>>
vars == <<clientVars, engineVars, activeVars, permits, exitVars, outPc, runPc>>

Init ==
  /\ commands \in Plans
  /\ clientPc = [t \in Thread |-> "next"]
  /\ arrived = {}
  /\ wire = [t \in Thread |-> <<>>]
  /\ left = Count
  /\ stdout = <<>> /\ dead = FALSE
  /\ active_buysell_count = [o \in OrderId |-> Nil]
  /\ active_cancel = {}
  /\ permits = [o \in OrderId |-> 0]
  /\ num_threads_done = 0 /\ output_thread_done = FALSE /\ failed = FALSE
  /\ outPc = "read" /\ runPc = "check"

-----------------------------------------------------------------------------
(* client_thread. *)
Upcoming(t) == Head(commands[t])
At(t, type) == clientPc[t] = "next" /\ commands[t] # <<>> /\ Upcoming(t).type = type
Did(t) == commands' = [commands EXCEPT ![t] = Tail(@)]
GoClient(t, label) == clientPc' = [clientPc EXCEPT ![t] = label]

(* active_orders_mut is not held by the output thread. *)
ActiveFree == outPc \notin {"threads", "sleep", "leave"}

WakeOutput == outPc' = IF outPc = "asleep" THEN "check" ELSE outPc
WakeRun == runPc' = IF runPc = "asleep" THEN "check" ELSE runPc

(* The command is active before it is sent. *)
Register(t) ==
  /\ ActiveFree
  /\ \/ /\ At(t, "new")
        /\ active_buysell_count' =
             [active_buysell_count EXCEPT ![Upcoming(t).order] = Count[Upcoming(t).order]]
        /\ UNCHANGED active_cancel
     \/ /\ At(t, "cancel")
        /\ active_cancel' = active_cancel \cup {Upcoming(t).order}
        /\ UNCHANGED active_buysell_count
  /\ GoClient(t, "write")
  /\ WakeOutput
  /\ UNCHANGED <<commands, arrived, engineVars, permits, exitVars, runPc>>

Write(t) ==
  /\ clientPc[t] = "write"
  /\ wire' = [wire EXCEPT ![t] = Append(@, Upcoming(t))]
  /\ Did(t)
  /\ GoClient(t, "next")
  /\ UNCHANGED <<arrived, left, stdout, dead, activeVars, permits, exitVars, outPc, runPc>>

Wait(t) ==
  /\ At(t, "wait")
  /\ permits[Upcoming(t).order] > 0
  /\ permits' = [permits EXCEPT ![Upcoming(t).order] = @ - 1]
  /\ Did(t)
  /\ UNCHANGED <<clientPc, arrived, engineVars, activeVars, exitVars, outPc, runPc>>

(* arrive_and_wait of a barrier of all threads. *)
Arrive(t) ==
  /\ At(t, "sync")
  /\ arrived' = IF arrived \cup {t} = Thread THEN {} ELSE arrived \cup {t}
  /\ clientPc' = IF arrived \cup {t} = Thread
                 THEN [u \in Thread |-> "next"]
                 ELSE [clientPc EXCEPT ![t] = "arrived"]
  /\ Did(t)
  /\ UNCHANGED <<engineVars, activeVars, permits, exitVars, outPc, runPc>>

(* num_threads_done is changed under exit_mut, the output thread is        *)
(* notified afterwards, without active_orders_mut.                         *)
OneDoneTwice == 2 \* mutant
OneDone == 1

Finish(t) ==
  /\ clientPc[t] = "next" /\ commands[t] = <<>>
  /\ num_threads_done' = num_threads_done + OneDone
  /\ GoClient(t, "notify output")
  /\ UNCHANGED <<commands, arrived, engineVars, activeVars, permits,
                 output_thread_done, failed, outPc, runPc>>

NotifyOutput(t) ==
  /\ clientPc[t] = "notify output"
  /\ WakeOutput
  /\ GoClient(t, "notify run")
  /\ UNCHANGED <<commands, arrived, engineVars, activeVars, permits, exitVars, runPc>>

NotifyRun(t) ==
  /\ clientPc[t] = "notify run"
  /\ WakeRun
  /\ GoClient(t, "done")
  /\ UNCHANGED <<commands, arrived, engineVars, activeVars, permits, exitVars, outPc>>

-----------------------------------------------------------------------------
(* The engine: it prints for every new order executions, then that it was  *)
(* added unless they filled it, and one line for every cancel.             *)
Reads(t, type) == ~dead /\ wire[t] # <<>> /\ Head(wire[t]).type = type
Prints(kind, o, n) ==
  stdout' = Append(stdout, [kind |-> kind, order |-> o, count |-> n])
Answered(t) == wire' = [wire EXCEPT ![t] = Tail(@)]
engineElse == <<clientVars, activeVars, permits, exitVars, outPc, runPc>>

EngineExecutes(t) ==
  LET o == Head(wire[t]).order IN
  /\ Reads(t, "new")
  /\ \E n \in 1 .. left[o] :
       /\ left' = [left EXCEPT ![o] = @ - n]
       /\ Prints("executed", o, n)
       /\ IF n = left[o] THEN Answered(t) ELSE UNCHANGED wire
  /\ UNCHANGED <<dead, engineElse>>

EngineAdds(t) ==
  /\ Reads(t, "new")
  /\ Prints("added", Head(wire[t]).order, left[Head(wire[t]).order])
  /\ Answered(t)
  /\ UNCHANGED <<left, dead, engineElse>>

EngineDeletes(t) ==
  /\ Reads(t, "cancel")
  /\ Prints("deleted", Head(wire[t]).order, 0)
  /\ Answered(t)
  /\ UNCHANGED <<left, dead, engineElse>>

EngineDies ==
  /\ ~dead
  /\ dead' = TRUE
  /\ UNCHANGED <<wire, left, stdout, engineElse>>

-----------------------------------------------------------------------------
(* output_thread: a line, and what it says of the active commands.  An     *)
(* order is complete when it was added or has executed in full; then every *)
(* thread may wait for it once.                                            *)
Fail == failed' = TRUE /\ WakeRun /\ outPc' = "failed"
GoOn == outPc' = "check" /\ UNCHANGED <<failed, runPc>>

ReleaseOne(o) == permits' = [permits EXCEPT ![o] = @ + 1] \* mutant
Release(o) == permits' = [permits EXCEPT ![o] = @ + Cardinality(Thread)]

Erase(o) == active_buysell_count' = [active_buysell_count EXCEPT ![o] = Nil]

TakeAdded(o) ==
  /\ UNCHANGED active_cancel
  /\ IF active_buysell_count[o] = Nil
     THEN Fail /\ UNCHANGED <<active_buysell_count, permits>>
     ELSE GoOn /\ Erase(o) /\ Release(o)

(* "active_count < 0" is never true of a uint32_t. *)
TakeExecutedWhole(o, n) == \* mutant: every execution is taken to fill the order
  /\ UNCHANGED active_cancel
  /\ IF active_buysell_count[o] = Nil
     THEN Fail /\ UNCHANGED <<active_buysell_count, permits>>
     ELSE GoOn /\ Erase(o) /\ Release(o)
TakeExecuted(o, n) ==
  /\ UNCHANGED active_cancel
  /\ CASE active_buysell_count[o] = Nil ->
            Fail /\ UNCHANGED <<active_buysell_count, permits>>
       [] active_buysell_count[o] = n -> GoOn /\ Erase(o) /\ Release(o)
       [] OTHER -> /\ GoOn
                   /\ active_buysell_count' = [active_buysell_count EXCEPT ![o] = @ - n]
                   /\ UNCHANGED permits

TakeDeleted(o) ==
  /\ IF o \in active_cancel THEN GoOn ELSE Fail
  /\ active_cancel' = active_cancel \ {o}
  /\ UNCHANGED <<active_buysell_count, permits>>

outElse == <<clientVars, wire, left, dead, num_threads_done, output_thread_done>>

ReadLine ==
  LET line == Head(stdout) IN
  /\ outPc = "read" /\ stdout # <<>>
  /\ stdout' = Tail(stdout)
  /\ CASE line.kind = "added"    -> TakeAdded(line.order)
       [] line.kind = "executed" -> TakeExecuted(line.order, line.count)
       [] line.kind = "deleted"  -> TakeDeleted(line.order)
  /\ UNCHANGED outElse

GoOut(from, to) ==
  /\ outPc = from
  /\ outPc' = to
  /\ UNCHANGED <<clientVars, engineVars, activeVars, permits, exitVars, runPc>>

OrdersAnswered == \A o \in OrderId : active_buysell_count[o] = Nil \* mutant
NothingActive ==
  active_cancel = {} /\ \A o \in OrderId : active_buysell_count[o] = Nil

AllDone == num_threads_done = Cardinality(Thread)

(* active_orders_cond.wait: the predicate looks at the active commands ... *)
CheckActive == GoOut("check", IF NothingActive THEN "threads" ELSE "leave")

(* ... at num_threads_done under exit_mut, and then the thread sleeps.     *)
CheckThreads == GoOut("threads", IF AllDone THEN "leave" ELSE "sleep")
Sleep == GoOut("sleep", "asleep")
WakeForNothing == GoOut("asleep", "check")

(* All output has arrived, or there is more to read. *)
Leave == GoOut("leave", IF NothingActive /\ AllDone THEN "judge" ELSE "read")

EndOfFile ==
  /\ outPc = "read" /\ stdout = <<>> /\ dead
  /\ IF NothingActive /\ AllDone
     THEN outPc' = "judge" /\ UNCHANGED <<failed, runPc>>
     ELSE Fail
  /\ UNCHANGED <<outElse, stdout, activeVars, permits>>

(* The replays of the collected lines: one of them accepts, or none does.  *)
Judge ==
  /\ outPc = "judge"
  /\ \/ /\ output_thread_done' = TRUE
        /\ outPc' = "accepted"
        /\ UNCHANGED failed
     \/ /\ failed' = TRUE
        /\ outPc' = "rejected"
        /\ UNCHANGED output_thread_done
  /\ WakeRun
  /\ UNCHANGED <<clientVars, engineVars, activeVars, permits, num_threads_done>>

-----------------------------------------------------------------------------
(* run waits on exit_cond; every change it waits for is made under exit_mut. *)
Run ==
  /\ runPc = "check"
  /\ runPc' = CASE failed -> "exit 1"
                [] ~failed /\ AllDone /\ output_thread_done -> "exit 0"
                [] OTHER -> "asleep"
  /\ UNCHANGED <<clientVars, engineVars, activeVars, permits, exitVars, outPc>>

Over == runPc \in {"exit 0", "exit 1"}

Client(t) == \/ Register(t) \/ Write(t) \/ Wait(t) \/ Arrive(t)
             \/ Finish(t) \/ NotifyOutput(t) \/ NotifyRun(t)

Engine == \E t \in Thread : EngineExecutes(t) \/ EngineAdds(t) \/ EngineDeletes(t)

OutputThread == \/ ReadLine \/ CheckActive \/ CheckThreads \/ Sleep
                \/ Leave \/ EndOfFile \/ Judge

(* The end of the process ends everything. *)
Next ==
  \/ ~Over /\ ((\E t \in Thread : Client(t)) \/ Engine \/ EngineDies
               \/ OutputThread \/ WakeForNothing \/ Run)
  \/ Over /\ UNCHANGED vars

Spec == Init /\ [][Next]_vars

-----------------------------------------------------------------------------
(* Type invariant of the session. *)
TypeOK ==
  /\ commands \in [Thread -> Seq(Input)]
  /\ clientPc \in [Thread -> {"next", "write", "arrived", "notify output",
                              "notify run", "done"}]
  /\ arrived \subseteq Thread
  /\ wire \in [Thread -> Seq(Input)]
  /\ left \in [OrderId -> Nat]
  /\ stdout \in Seq([kind : {"added", "executed", "deleted"}, order : OrderId, count : Nat])
  /\ \A o \in OrderId : active_buysell_count[o] \in {Nil} \/ active_buysell_count[o] \in Nat \ {0}
  /\ active_cancel \subseteq OrderId
  /\ permits \in [OrderId -> Nat]
  /\ num_threads_done \in 0 .. Cardinality(Thread)
  /\ {output_thread_done, failed, dead} \subseteq BOOLEAN
  /\ outPc \in {"read", "check", "threads", "sleep", "asleep", "leave", "judge",
                "accepted", "rejected", "failed"}
  /\ runPc \in {"check", "asleep", "exit 0", "exit 1"}

(* "This is how we know that all the output has arrived, and to start      *)
(* checking for correctness" (grader.hpp): when the replay begins, every   *)
(* command was sent and answered and every line was read, although clients *)
(* send while lines are read and the engine may close its output early.    *)
VerdictOnAllOutput ==
  outPc \in {"judge", "accepted", "rejected"} =>
    /\ \A t \in Thread : commands[t] = <<>> /\ wire[t] = <<>>
    /\ stdout = <<>>

(* An engine that answers every command and lives is never failed before   *)
(* its output is replayed: no answer comes before its command is active,   *)
(* none is counted twice ("order that should not exist", "cancel output    *)
(* without corresponding cancel command").                                 *)
GoodEngineIsJudged == failed => dead \/ outPc = "rejected"

-----------------------------------------------------------------------------
(* Threads are scheduled, and the engine answers unless it died.  A wait    *)
(* ends without a notification only finitely often, or the output thread   *)
(* could keep active_orders_mut from the clients.                          *)
Fairness ==
  /\ \A t \in Thread : WF_vars(~Over /\ Client(t))
  /\ WF_vars(~Over /\ Engine)
  /\ WF_vars(~Over /\ OutputThread)
  /\ WF_vars(~Over /\ Run)
  /\ <>[][~WakeForNothing]_vars

FairSpec == Spec /\ Fairness

(* The one way to hang: the last client counts itself and notifies after   *)
(* the output thread found it missing and before it sleeps, because the    *)
(* two use different mutexes.                                              *)
Overslept == outPc = "asleep" /\ NothingActive /\ AllDone

(* The session ends with a verdict, whatever waits and barriers the        *)
(* clients pass and whenever the engine dies, unless the output thread     *)
(* missed the last notification (client_thread, output_thread, run).       *)
EndsOrOversleeps == <>[](Over \/ Overslept)

=============================================================================
