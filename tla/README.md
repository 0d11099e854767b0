# Order-matching engines: specifications, model checking and proofs

The repository holds three concurrent programs that share one subject. The C++
program (`Assignment1 - C++/src`) is an exchange: clients send buy, sell and
cancel commands over sockets, one thread per connection executes them on shared
order books, and every effect is printed as a line. The Go program
(`Assignment2 - Go/src`) is the same exchange with goroutines and channels. The
Rust program (`Assignment3 - Rust/src`) is a work-stealing task runner. A grader
(`Assignment1 - C++/grader`) feeds an engine and judges what it printed.

This directory holds TLA+ modules of these programs, TLC configurations that
check them on small instances, and TLAPS proofs of what holds for every instance.

## Inventory

| Part | State | Operations | Interacts with |
|---|---|---|---|
| C++ connection threads (`engine.cpp:10-79`) | the command being executed and its `input_time` | read, stamp, dispatch, end | order books, `Engine::orders`, `orderBooks`, output |
| C++ order book (`engine.cpp:81-375`, `engine.hpp`) | mutex `m`; per side a list of levels, each with a mutex, `volume`, `orders`, `next` | processBuyOrder, processSellOrder, matchOrder, add, processCancelOrder | shared by all threads; locks taken in one function are released in another |
| C++ hash map (`hashmap.hpp`) and look-up of a book | buckets with a chain and a `shared_mutex` | get, put, remove; get, put, get | `Engine::orders`, `orderBooks` |
| C++ server (`io.cpp`, `main.c`, `client.c`) | socket, signals | accept, print | calls `Engine::Accept` |
| Grader replay (`grader.cpp:504-966`) | `OrderStatus` per order, `InstBook` per instrument | replay an added, executed or deleted line | reads an engine's output |
| Grader session (`grader.cpp:69-500`, `968-1245`) | active orders and cancels, permits, barriers, exit conditions | client threads, output thread, `run` | the engine process, through pipes |
| Grader formats (`main.cpp`, `input.cpp`, `output.cpp`, `split.hpp`) | none | parse | start of session and replay |
| Go engine (`engine.go`, `order_book.go`, `io.go`) | `ordersLock`, `sgl`, `outputChannels` | handleConn, dispatch, printOutputChnl | books, printer |
| Go book (`book.go`, `order_node.go`) | lists of levels with channel locks | MatchOrder, executeOrder, AddOrder, CancelOrder | goroutines per command and per level |
| Go hash map (`concurrent_hashmap.go`) | per bucket turnstile, read switch, room | Get, Set, Remove; look-up of a book | `orders`, `orderbooks` |
| Rust runner (`main.rs`) | injector, deques, `queued_count`, `num_idle`, counters | pop, steal, execute, push, stop, join | workers share everything but their locals |
| Rust tasks (`task.rs`) | none | execute, generate children | called by workers |
| Python generators and checkers | none | offline scripts | none |

What is hard in this code:

* **C++.** The book's mutex protects only a prelude, which locks the levels a
  command will trade with. Matching and adding happen after its release, at the
  same time as other commands. Whether the locks are the right ones is decided
  by arithmetic on `volume`. Cancels do not take `m` at all. Each command prints
  while others commit and print.
* **Go.** A goroutine per command and one more per traded level; a level is locked
  in one goroutine and unlocked in another; emptied levels are unlinked while
  others wait for them; a bounded channel is written to while locks are held.
* **Maps.** The Go lock is three channels and a counter, and its readers must not
  starve its writers. A book is obtained with three calls.
* **Grader session.** Nobody tells the output thread that the last answer has
  come: it follows from bookkeeping which the clients change at the same time,
  partly under another mutex.
* **Rust.** Termination is detected by two atomic counters that are read one
  after the other, and updated at different moments of taking and pushing tasks.
* **Grader replay.** Price-time priority is spread over several lines and checks.

What makes them correct: commands take effect one after the other with
price-time priority (C++, Go, replay); a cancel gets the answer of one moment;
levels, volumes, maps and locks stay consistent; every command completes; map
calls are atomic; the session judges all of the output and ends; the runner
executes every task once and stops.

## Modules

| Module | Models | Kind |
|---|---|---|
| `Grader` | the replay of `grader.cpp` as operators on order states | operators |
| `Exchange` | the state machine of all outputs the replay accepts | abstract specification |
| `ExchangeSizes` | `Exchange` beside what each order has really traded | ghost variable |
| `OrderBook` | connection threads and one order book of the C++ engine | detailed specification |
| `Linearization` | `OrderBook` beside a sequential exchange | composition of `OrderBook` and `Grader` |
| `GoBook` | connections, one order book and the printer of the Go engine | detailed specification |
| `GoExchange` | `GoBook` implements `Exchange` | refinement |
| `AtomicMap` | a map whose calls take effect at one moment | abstract specification |
| `ConcurrentHashMap` | a bucket of either hash map, implements `AtomicMap` | detailed specification, refinement |
| `GraderSession` | clients, output thread and `run` of the grader, an engine | detailed specification |
| `TaskRunner` | the Rust runner | detailed specification |
| `ExchangeProofs`, `OrderBookProofs`, `GoBookProofs`, `GoExchangeProofs`, `ConcurrentHashMapProofs`, `GraderSessionProofs`, `TaskRunnerProofs` | what holds for every instance | proofs |
| `HashMapRefinement` | that `ConcurrentHashMap` implements `AtomicMap`, for every instance | proofs |
| `MC...` | values for TLC | instances |

### Grader and Exchange

`status[o]` is the grader's `OrderStatus`: `state`, side, price, `count`,
`filled_count`, the number of executions and the time the book sorts by.
`MayAdd`, `MayExecute` and `MayDelete` are the checks of
`check_correctness_outputset` and of `InstBook` for the three kinds of lines, and
`AfterAdd`, `AfterExecute` and `AfterDelete` what an accepted line changes.
`Replay` folds them over a sequence of lines as `check_correctness` does. The
template parameters are constants: `Priority` (price-time, or time only among the
orders that can be matched) and `SortBy` (input or added-to-book time). One
instrument is modelled, since every check is local to one. `Exchange` prints any
line the replay allows; it is the promise an engine makes to its clients as far
as the grader judges it.

`filled_count` and the counts of lines are `uint32_t`. No check looks at the count
of an execution line by itself, so `Execute` takes any of `0 .. Modulus - 1`, and
`FilledAfter` adds modulo `Modulus`, as lines 566 and 902 do, before `MayExecute`
compares with the size. `ExchangeSizes` adds the ghost `traded`, the true sum of the
counts of an order's lines, which the replay does not keep. Execution ids are
natural numbers: one that wraps needs 2^32 lines of one order.

### OrderBook

One action per critical section between two mutex operations; unlocks join the
step before them, because a thread that has unlocked does nothing others can see
before its next lock. The exception is `m`: its unlock, `UnlockBook`, is a step
of its own, because it is where a new order takes effect.

| Code | Actions |
|---|---|
| `ConnectionThread` reads and stamps a command | `ReadOrder`, `ReadCancel`, `EndOfFile` |
| prelude of `processBuyOrder`, `processSellOrder` | `LockBook`, `LockOpposite`, `WalkOn`, `WalkEnd`, `LockOwn`, `UnlockBook` |
| `matchOrder` | `MatchHead`, `FillResting`, `FillNew`, `LeaveLevel` |
| `add` | `PlaceFound`, `AddStep`, `NewLevel`, `RegisterOrder`, `Enqueue` |
| cancel: look-up, then `processCancelOrder` | `LookUp`, `RejectUnknown`, `CancelHead`, `CancelStep`, `CancelFails`, `RejectGone`, `CancelErase`, `AcceptCancel` |

Buy and sell are one definition with the side as a parameter; the code has the
two written out, and both were read for each action. A level is named after the
order that created it, since levels are never freed. `queue[n]` is the vector of
the level, latest input time first. `volume` and `count` are reduced modulo
`Modulus` (the code's 2^32) and `v` is read as a signed number of that width, so
the conversions of the code are in the model. `printed` is the standard output,
one line per `Output` call.

`Engine::orders` is the set `orders`, with get, put and remove as atomic steps,
which `ConcurrentHashMap` justifies. `add` puts the order into the map
(`RegisterOrder`) before it inserts and prints it (`Enqueue`): in between, a cancel
may find it and wait for its level. The change of `volume`, which comes first in the
code, is in `Enqueue`, and a cancel's in `CancelErase`: nobody reads the volume or
the orders of a level without its mutex. Two instruments share nothing but this map,
so one book is enough. Order ids are unique, as the input format requires. The
clock moves with every command in the runs (`Ticks = {1}`): the code inserts
orders of equal microseconds latest first, and no document says how ties are
broken.

### Linearization

`history` is a ghost variable: the lines a sequential exchange would print if
each new order were executed at `m`'s unlock and each cancel at its lock of the
list head. What an order gets is defined declaratively (`Share`: what those ahead
of it leave over), not by repeating the loops of the code, and the sequential
book is obtained by replaying the history with `Grader`. `GraderAcceptsOutput` says
that one of the grader's replays accepts the printed lines: there are four, with
either priority and either time to sort by, and the grader tries each on the lines
as they were printed and sorted by their time of completion. In the model the two
orders are one, which is why its eight algorithms are four.

### GoBook and GoExchange

One action per blocking channel operation. A lock is a channel of capacity 1, so
it is a member of the set `locked` and has no owner: who must give it back is
what `LocksHaveOneUser` says.

| Code | Actions |
|---|---|
| `handleConn` | `ReadOrder`, `Unknown`, `Foreign`, `Dispatch`, `Reject` |
| `ProcessActiveOrder`, `MatchOrder` | `LockSgl`, `LockMatchHead`, `LockLevel`, `StartExecutor`, `Advance`, `EndMatch`, `LockOwnHead`, `SetOrder`, `StartAdd` |
| `executeOrder` | `Trade`, `EndExecutor` |
| `AddOrder` | `PlaceFound`, `AddStep`, `NewLevel`, `AppendOrder` |
| `ProcessCancelOrder`, `CancelOrder` | `LockCancelHead`, `QueueCancel`, `CancelStep`, `CancelFails`, `CancelSucceeds` |
| `printOutputChnl` | `NextChannel`, `PrintLine` |

Each output is a channel of its own, and `outputs` is the sequence of those that
were ever put into `outputChannels`; `taken` and `shown` say how far the printer
has come, and `Room` is the capacity of the channel. The channels of the messages
have room for all of them (`book.go` makes them large enough), so sends to them
do not block. `MatchOrder` reads `curr.next` in a step of its own (`Advance`),
since the executor it has just started may already have unlocked the level. The
dispatcher of `ordersChn` is not a process of the model: it starts goroutines and
nothing else, and one that was started late is one whose first step comes late.

`GoExchange` adds the variables of `Exchange` as ghosts, driven by what
connections read and the printer prints, with the order of the lines as the time
that sorts the book. `ImplementsExchange` is `Exchange`'s specification under
`INSTANCE ... WITH`. Since a rejected cancel changes nothing there,
`EveryLineIsAllowed` checks in addition that each line, a rejection too, is
allowed after those before it. The rejection of a cancel that names another
client's order is left out of both: it says nothing about the order.

### AtomicMap and ConcurrentHashMap

Buckets share nothing, so one bucket is modelled, with the lock of either engine:
the channels of `RWLock` (`turnstile`, `readSwitch`, `room`, `counter`) or a
`std::shared_mutex`. The walk over the chain is one definition for both, a step
per node, with `heap` as the nodes ever made. `engine` is chosen in the beginning.
Besides get, set and remove, `find` is the get, put, get with which a connection
obtains the book of an instrument, and `poll` a get that is repeated for ever.
`ImplementsAtomicMap` maps a call in its critical section to a pending request and
its answer to the response.

### GraderSession

A thread's `thread_commands` are orders, cancels, waits for the completion of an
order and barriers, any plan that passes `validate_commands`. `Register` makes a
command active and `Write` sends it, in this order; `ReadLine` takes a line off
the pipe and updates what is active; `CheckActive`, `CheckThreads`, `Sleep` and
`Leave` are the wait with its predicate, taken apart because the predicate looks
at things under two mutexes; `EndOfFile`, `Judge` and `Run` are the ways to the
end. Permits are the semaphores of the orders, released once per thread. The
engine is external: it answers the commands of each connection in order, with any
executions, and may die at any moment. What the replay says is a choice, since
`Exchange` is about it.

### TaskRunner

One action per access to a deque or a counter. The deques of crossbeam are
external: pop and steal are atomic, and which task they hand out is left open.
A steal from the injector or a deque that is not empty may answer Retry. As with
`Steal::or_else` in the code, the stealers are asked then as well (`AskStealers`),
one of them may have a task, and if none has the search begins anew at the injector
(`NothingFound`); what was empty everywhere ends it only if nothing answered Retry.
The tasks of a result are any tasks that do not exist yet, which covers every
seed and height. A worker whose stealer is not registered yet has an empty deque
and is not told apart from one that has.

## Runs

| Run | Instance | States | What it shows |
|---|---|---|---|
| `exchange` | 3 orders, 2 prices, sizes 0, 2 and 3, `Modulus` 4, 5 lines, both priorities | 2,496,000 | accepted outputs keep the book uncrossed; up to the first wrap an order's `filled_count` is what it traded, at most its size, and decides its state; nobody trades before an earlier order of no worse a price |
| `book` | 3 threads; 4 orders over two levels, or 3 orders and a cancel | 1,292,000 | lists sorted and never crossed, volumes exact, locks held where levels are touched, nothing left locked; each order trades and rests, and each cancel is answered, as in the sequential exchange; the quiet book is the sequential one |
| `book_live` | 2 threads; 3 orders over several levels, or 2 orders and 2 cancels | 440,000 | quantities are conserved; every command completes; no deadlock |
| `go_book` | 3 connections, 7 scripts of 2 to 4 commands, 2 places in `outputChannels` | 97,000 | one user per level and lock, nobody on an unlinked level, volumes exact, no order lost with a level, lists sorted and never crossed, the quiet book whole; the printed lines are a run of `Exchange` and every rejection is right; everything is printed; the quiet book is the printed one |
| `hash_map` | 3 processes, 2 keys in one bucket, both locks | 14,000 | writers are alone, nobody stands on a removed node, calls are atomic, connections agree on a book, writers are not starved |
| `session` | 2 client threads, 2 orders, 4 plans | 154,000 | the replay begins when all output has arrived; a good engine is never failed before; the session ends or the output thread oversleeps |
| `runner` | 3 workers, 3 tasks | 1,581,000 | counters exact, no task lost or executed twice, everything counted after join, termination |
| `exchange_wrap` | as `exchange`, 3 execution lines | | violated: an order trades more than its size and every replay accepts it |
| `book_overtake` | 3 threads, 5 orders | | violated: none of the grader's replays accepts the printed lines |
| `book_heavy` | 2 threads, 4 orders, `Modulus` 8 | | violated: a volume that does not fit an int leaves a head locked for ever |
| `session_cancel` | 2 threads, one of which cancels an order twice | | violated: the replay begins although an answer is still to come |

**Why these bounds.** The interesting cases of the C++ book need a thread that
matches two levels, another that commits against the levels the first has
already left, and a third that adds or cancels in between: three threads, two
levels, four orders. Sizes 1 and 2 give partial fills on either side. Two
instances share one run: `Scenarios` constrains which commands are read, and
nothing that happens afterwards. `Modulus` is 64 where wrapping is not the
subject, far above every sum of sizes, and 8 in `book_heavy`, where two sizes of
3 already pass the range of the signed number. In `exchange` it is 4: a line has any
count from 0 to 3, and three lines of one order are enough to wrap `filled_count`.

The scripts of `go_book` are the encounters that matter: a buy that uses up a
level and part of the next while an order is added below them, an add behind
running executors, a level emptied by an executor and a cancel, two cancels of
one order, neighbouring levels that are unlinked at once, a new level in front of
somebody who walks, and a client that names an order that is not its own. With
two places `outputChannels` is full in most of their states. In `hash_map` the
two keys are neighbours in the chain, so that a walk meets a node that is being
linked or unlinked. In `session` both threads can wait for one order, a barrier
can stand behind a wait, and a cancel can be on its way together with its order.
For the runner two workers can steal from each other while the third reads the
counters, and three tasks allow the child of a child to be stolen.

Client, order and task names are model values. `exchange` uses the permutations of
the orders as symmetry and the safety runs of `MCOrderBook` those of the clients,
with order ids taken in turn (`TakenInTurn`); no property mentions a particular
name, and the runs with liveness properties use no symmetry.

**Fairness.** `FairSpec` of `OrderBook` has weak fairness of each thread's steps
after a command was read, and none for reading: clients may stay silent. A
`std::mutex` promises no order among waiters, but the commands of a run are
finitely many, so a mutex that is released each time it is taken is free for
good in the end, and weak fairness is enough. `GoBook` has weak fairness of each
goroutine for the same reasons. In `ConcurrentHashMap` the Go lock has strong
fairness of the steps that take a channel, because a Go channel serves those who
wait in order, and readers that never stop are part of the run; for the
`shared_mutex`, which promises no such thing, calls return because they are
finitely many. `GraderSession` has weak fairness of clients, output thread, `run`
and the engine, which may die instead of answering, and only finitely many
spurious wake-ups. `FairSpec` of `TaskRunner` has weak fairness of each worker:
threads are scheduled, and workers spin. Of the steals from the injector, by
whichever worker, it has strong fairness: a steal answers Retry because another one
won the race, so if workers ask for ever, some of them get a task. A
deque needs none, since its owner pops what it pushed.

Deadlock is checked in all runs except `exchange`, where the bound on the lines
ends a behaviour, and `book_heavy`, which is about threads that stop. What has
ended stutters (`Terminated`, or the last disjunct of `Next`).

**Mutants.** Operators marked `\* mutant` are broken variants of the definition
that follows them: a forgotten update, a strict comparison, a missing lock. Each
property of a passing run is violated when the definition is replaced by the
variant `PROJECT.json` names, which shows that the instance is large enough for
the property to see the mistake.

## What the violated runs say

* `filled_count` wraps. Lines of 1, 2^32 - 1 and 2 units of an order of size 2 are
  accepted by each replay, and the order is taken for filled although it traded
  2^32 + 2 units. `TradedWithinSize` says what is left of the check.
* The C++ engine commits in price-time order (`TradesFollowHistory`), but it does
  not print in it. A buy that the volumes fill does not hold the place where
  better sells are added, so a better sell may be printed between its
  executions. With time priority alone such lines may still pass, but in the trace of
  the run (a sell at 2 that rests, a sell at 1 that is delayed, two sells at 3 that
  are booked in the other order than they were read, and a buy of 2 units) each
  of the grader's replays finds somebody who should have traded first. The Go engine
  decides the order of its lines under the locks of the heads and has no such
  problem (`ImplementsExchange`, `EveryLineIsAllowed`).
* Volumes are sums that are compared as `int`: a level of half the range of
  `uint32_t` makes the prelude lock a head that nobody unlocks.
* `active_cancel` is a set of order ids. Cancelling one order twice is a valid
  plan, and the answer to the first clears the entry of both.

Seen while modelling, and without a run of their own: the replay never compares
the price of the order that executes with its limit (`grader.cpp:881`); an
accepted cancel is answered with the time of the order (`engine.cpp:180`); price 0
is the price of the list heads, where an order of that price is queued and never
found (`engine.cpp:353`, `book.go:147`); a single size of 2^31 or more makes `v`
negative (`engine.cpp:84`); a Go `volume` that wraps makes `MatchOrder` start
executors for the wrong sizes, in a run with `Modulus` 4 and two sizes of 2;
`active_count < 0` is never true of a `uint32_t` (`grader.cpp:1018`). The Go
dispatcher starts a goroutine per command, so two orders that one client sends
without waiting may be committed in either order; `assignment1.html` forbids it,
`assignment2.html` lets any of the orders that are active at the same time be
processed first. In C++ a cancel that is rejected while its order is on its way to
the book may be answered after the order was printed as added; it takes a second
connection to send it, which `validate_commands` does not allow a plan. A client that
is done counts itself under one mutex and notifies without the other
(`grader.cpp:362-364`), so the output thread may fall asleep for good although
everything has arrived; `EndsOrOversleeps` says that this is the only way to hang.

In the runner a worker may pass both of its checks while another holds a task
that it has just stolen and still counts as idle. This is harmless: the thief
executes it and whatever follows from it, as `ExitLeavesNothing` and
`JoinSeesEverything` show.

## Proofs

`ExchangeProofs` proves for every set of orders, prices and sizes, any number of
lines and both priorities `Spec => []TypeOK`, `Spec => []NotCrossed` and
`SSpec => []TradedWithinSize`, and the action property `NoOvertaking`
(`NobodyOvertakes`). `TradedWithinSize` needs besides (`SizesInv`) that nothing
was traded of an order nobody sent, that `filled_count` is at most the size and below it
while the order rests, and that it equals the true sum as long as that is below
`Modulus`: a line that keeps the sum there did not wrap (`FilledAfterFits`), and one
that passes it leaves nothing to show. The counts of lines may be 0 or wrap. `NotCrossed` is kept
because only a booking puts an order into the book and `MayAdd` compares it with
every resting order of the other side; executions and cancels book nothing. The
assumptions are those of the modules: prices are natural numbers, sizes and the
counts of lines are below `Modulus`, and sizes are above 0.

The first part of `OrderBookProofs` proves, for every number of clients and orders and for every
`Modulus`, that lists, owners and threads are well formed and no thread follows a
null pointer (`ShapeHolds`), and that the steps between `m`'s lock and unlock are
exclusive (`PreludeIsExclusive`). The inductive invariant adds that a working
thread has an order and stands on a level (`HasOrder`, `StandsOn`): then its lock
steps touch mutexes of levels, never `m`. Each action goes through one lemma
(`MoveKeeps`), which says what a step may do to the thread and to the mutexes.
The assumption is `BookAssumption`.

The rest of `OrderBookProofs` is about what depends on the volumes. The prelude locks
levels until their volumes cover the order; matching and adding, which begin after
`m` is given back, rely on exactly these locks. Its theorems are `LocksFollowUse`
(`HoldsWhatItTouches` and `NothingLeftLocked`), `TypeOK`, `VolumeIsSum`, `RestingIsRegistered`, `BooksInOrder`
(`BooksSorted` and `NeverCrossed`) and `SizesAddUp`, each for any number of clients, orders and prices.

* *The hypothesis.* They hold for behaviours with `[]Fits`: a volume and a size
  together are below half of `Modulus`, so that the `int` the code puts them into
  has their value. It is needed, since `book_heavy` shows what happens without.
  `FewAndSmallFit` derives it from a condition on the constants alone: with `n`
  orders of sizes up to `m`, `2 * (n + 1) * m < Modulus`. `FewOrdersAreSafe` states
  the properties under this condition, which the instance of `book` meets.
* *The invariant* (`LockInv`). What a thread holds is a path in the list
  (`HasPath`): levels that follow each other, the first of them the other side's
  head or, while it matches, the level it stands on. What is left of the order
  before each of them is above 0; what is left after the last is `v`, and the head
  of its own side is locked exactly if that is above 0. So when `matchOrder` comes
  to the end of the path, `count` is `v`, and the condition under which it adds
  (`count > 0`) is the one under which the prelude locked the head (`v > 0`).
* *The map.* What is in a level is in `Engine::orders` (`Registered`), because what
  is about to be put into one is (`PutFirst`): `add` registers before it inserts, and
  in between nobody takes the order out, neither `matchOrder`, which removes
  the order it executes for, nor a cancel, which removes what it found in a level.
* *Sums.* A volume is a sum because nobody changes it, or a size in the level,
  without the level's mutex. `VolumesExact` says so with the partial sums of a
  level, which steps are easy to follow on; a step at the end, in the middle and at
  any place of the level are `Popped`, `Erased` and `Placed`. The fold of
  `VolumeIsSum` is unfolded at the end (`FoldIsSum`).
* *Who has an order.* An order is with one thread or once in one level
  (`OnePlace`), and a level is linked by the thread that makes it
  (`LinkedByMaker`); a size that is changed therefore belongs to no other sum.
* *Sorted lists.* `SortInv` says of links and of levels what `BooksSorted` says of
  pairs, and of a thread that looks for the place of its order that it stands in
  front of it (`AtPlace`): on the head or on a level with a better price. It holds
  the mutex of that level, so nobody else links a level behind it; others change
  the list elsewhere, which `OneLevelChanges` and `ListsStay` say once for all
  actions. The heads have price 0 and are compared with the price of the order
  like any level, so this is only true if no order has that price
  (`PricesAboveZero`); the hazard at `engine.cpp:353` is about those that have.
* *Lists that never cross.* From its commit until it is in a level, an order that
  will not be matched up is `Staying`: its thread has locked the head of its side or
  stands in the list behind it. `CrossInv` says that no two such orders face each
  other, that one faces orders in levels only while it is matched, and then only in
  levels its thread holds, and that orders in levels do not face each other. A thread
  begins to stay with one step, the lock of its own head. It then holds all levels
  its order faces (`LocksAllItFaces`): they are the path of the prelude, which starts
  at the other side's head and went on as long as levels traded. So a thread that
  stays with an order its own one faces would have to hold a lock that is taken
  (`NobodyFaces`). When the path is used up, its levels are empty, as `LockInv` has
  it, and the order that is left faces nothing (`AdvanceApart`). This needs sorted
  lists, hence `PricesAboveZero`.
* *Accounts.* For `SizesAddUp` every order has an account (`AccountInv`): what was
  traded and what is staked make up the size of its command (`Settled`). It is
  staked in at most one place (`OneStake`): it waits, with its thread or in the
  part of a level that is not matched yet, a cancel has erased it, or an accepted
  cancel was printed. A step moves the stake, prints nothing or one line, and a line
  adds at most one term to the sum (`TradedLonger`); that a trade takes the same
  from both orders is the one place where two accounts change. That a cancel
  erases what the matching thread does not count any more is where the mutex of the
  level comes in.
* *Induction.* Where an argument goes from a number to the next, it takes the
  least one that fails (`Least`, from the well-foundedness of finite sets under
  inclusion).

The assumption is `BookAssumption`; that `Nil` is neither a mutex, a client nor a
command is about values of the model.

`ConcurrentHashMapProofs` proves `WritersAreAlone` for any number of processes,
any keys and any programs, and with either lock (`WritersExclude`). For the
`shared_mutex` it is enough that its holders are those inside. For the Go lock it
is not: the reader that empties the room is the one that counts to 0, so the proof
needs that `counter` is the number of readers that have counted themselves in
(`CounterExact`), that a reader which waits for the room keeps the switch and is
the only one counted (`SwitchTaken`), and that the room is full exactly while
somebody is inside (`RoomTaken`). The three are inductive together only; the
first and the last are `RoomIsExact`.

`TaskRunnerProofs` proves all safety properties of the runner for any number of
workers and tasks: `TypeOK`, `CountersExact`, `ExitLeavesNothing`
and `JoinSeesEverything`. The core of the invariant is that a task is in one place
(`OnePlace`) and none gets lost (`NothingLost`). Then an action changes the set
`Queued` only where it changes `queued_count`: it loses the task that was taken
(`Uncount`), which it still held, and gains the children (`CountChildren`), which
it did not hold, and the theorems on cardinalities do the rest; in particular the
unsigned counter never passes below 0. `LookedEverywhere` carries what a fruitless
look for a task has shown up to the exit: nobody but the owner pushes to a deque
and nobody but main to the injector. That there is at least one worker is part of
the assumption: without one the injector would stay full after join.

`HashMapRefinement` goes on from there to what the lock is for. Its invariant
`MapInv` says that nodes get younger along the chain (`ChainOrdered`), since new
ones go to its end, and that a walk knows what it has passed (`WalkKnows`): every
linked node up to where it is, none of which has its key. A reader's knowledge
survives the steps of other readers because they change nothing, and those of
writers because there are none (`WritersExclude`). From this follow the types of
the bucket (`BucketTypes`), that no walk is on a node that was taken out and
deleted (`WalksStayLinked`), and, step by step, that a bucket implements the
atomic map (`BucketIsAtomic`): the step that finds a key or the end of the chain
is the one at which the call takes effect. `OneBook` is about the get, put, get
of a connection that looks for a book: nobody removes a book, so what one call
has seen is still there at the next. It rests on `BooksAreKept`, that programs
remove no key that is looked for as a book, which is how both engines use their
maps, and `NilIsNoRequest`, on values of the model.

`GoBookProofs` proves `TypeOK`, `LocksHaveOneUser` and `NobodyOnUnlinkedLevel` for
any connections, scripts, prices, sizes and any capacity of `outputChannels`. No
sum of sizes is in the argument, so it holds where `volume` wraps as well, and then
`VolumeIsSum` for sizes with which it does not. The first invariant, `LockInv`, joins
to the first two that goroutines stand on levels (`Standing`), write to channels that exist (`Channels`) and are where a goroutine
of their kind can be (`Labels`). The second, `ListInv`, is about the links. The
argument is that `MatchOrder` keeps its head lock all the time: at most the first
level of the list is used up and still linked (`MatchesOnList`), its lock is with
an executor, and whoever wants to get to it or past it waits for the head
(`HandedOver`). A cancel keeps two neighbouring locks, so the level it unlinks is
the one behind the level it changes (`WalksOnList`). What is linked is the least
set that is closed under `next`, so each of the ways to change a link, behind a
level that is linked, has a lemma (`Shortcut`, `Insert`, `SameLinksStep`,
`UnlinkStep`) and each action goes through one of them. The assumption that is not
about sizes is that `sgl` and `ordersLock` are no levels. The third, `VolumeInv`, is
about the volumes: an order that rests is in one place (`RestsOnce`) and its own
goroutine is done (`RestsDone`), so a size that `SetOrder` or a trade changes is in
no other sum; the volume is then the sum modulo `Modulus` (`SumsModulo`), for any
sizes (`VolumeWrapsOnly`). For `VolumeIsSum` the sum must fit, which
`FewOrdersSumUp` has from the constants: `n` orders of sizes up to `m` with
`n * m < Modulus` (`FewAndSmall`), as in the instance of the run.

The rest of `GoBookProofs` is built on these three.

* *No order is lost with its level* (`NothingIsLost`, `NothingLeavesWithALevel`).
  `MatchOrder` unlinks a level while orders rest in it, because by the volume it
  read its executor will take all of them. `LossInv` says that this stays true:
  of a level that has left the list, and of one that `MatchOrder` is going to
  unlink (`LeavesUsedUp`), the executor still has at least the volume to trade.
  Nobody else is at the level (`LocksHaveOneUser`), and what the executor trades
  goes off both sides. Together with volumes that are the sums this is the
  property, so its hypothesis is `FewAndSmall`.
* *The lists are sorted* (`BooksSorted`, `ListsAreSorted`). `SortInv` has, besides
  the order of links and levels, that who walks stands in front of the place of his
  order (`AtPlace`), and that the next level of one who is about to make a new level
  is behind it. The link he read does not change until he does so, because the
  level before it is locked by him (`LinkStays`). As in the C++ engine the heads
  look like levels of price 0, so the hypothesis is `PricesAboveZero`.
* *The lists never cross* (`NeverCrossed`, `BooksNeverCross`; with the order of each
  list this is `BooksInOrder`, the property of the run). An order is
  `Committed` from the end of its match to the end of its life in a list. No two
  committed orders of different sides can trade (`Uncrossed`): one that commits saw
  under the lock of the other head that the first level of the list is too dear, and
  with it all that follow, as the list is sorted (`BehindTheFirst`); those that
  are committed and still walk stand on a level of that list; and the orders that
  could be between the two commit one after the other, because they have `sgl`
  (`GlobalLocks`).
* *The quiet book is whole* (`QuietBookIsWhole`, `QuietBooksAreWhole`). A linked
  level has orders, more than its executor can trade, or it is going to be unlinked,
  or an order is about to be appended to it (`NoneEmpty`); and the map `orders` has
  exactly what rests in a level or is on its way to one (`Registered`). When nobody
  is at work the first case is the only one, nothing is locked, and by
  `NothingIsLost` all that rests is in a linked level.

Both hypotheses are conditions on the constants, met by the instance of `go_book`;
the hazards at `order_node.go:109` and `engine.cpp:353` (in Go `book.go:147`) are
about those that do not meet them.

`GoExchangeProofs` goes from the book to the lines: `QuietBookIsPrinted`
(`QuietBooksArePrinted`), for any connections and scripts, under the same two
hypotheses. A book that orders are still traded in and the lines printed so far have
nothing simple in common, since executors that run at the same time write into
channels of their own and the printer may be many channels behind. The invariant
therefore counts, and compares only at the end.

* *Where lines are* (`OutInv`). A channel has one goroutine that writes to it
  (`Owners`) and the printer has not passed one that is open (`InPrint`). The channel
  of an order begins with the line that books it (`AddLines`), and a line that takes
  from an order that rests, an execution or an accepted cancel, is in a channel that
  was queued behind the order's own (`TouchLines`): who takes from an order has found
  it in a level, so it was added by then, and adding takes a place in
  `outputChannels` under the lock of the head first (`Traders` has the same of the
  trades an executor has still to make). So the printer never meets a line about an
  order before the line that books it. The last conjunct, `LeaveLines`, is the
  converse: an order that was booked and rests no more has left by such a line.
* *What the lines add up to* (`Accounts`). Of an order that was printed as booked,
  the units the printed lines have filled, those in lines that wait in channels and
  those left in it are its size; of its execution ids, the printed ones, those that
  wait and the next one it will give make the same sequence. The order that executes has
  what its executors have still to take in its account as well, since `MatchOrder`
  takes the volume of a level off its size before an executor trades. Sums over
  the lines are sums over finite sets of places, so a step that writes a line, prints
  one or starts an executor moves a term from one part of the account to another.
* *Quiet.* Then no line waits and no executor runs, and the account says that what is
  printed and what is left make up the size. An order with something left is booked by
  the lines; that it is in a list, and not in a level that has left it, is
  `NothingIsLost`, which needs `FewAndSmall`; that the heads have no orders is
  `BooksSorted`, which needs `PricesAboveZero`.

`GraderSessionProofs` proves `TypeOK`, `VerdictOnAllOutput` and `GoodEngineIsJudged`
for any number of threads, any plans that pass `validate_commands` and any engine.
There is an account per command (`Balanced`): it opens before the command is
written, each line in the pipe settles some of it, and what remains after the last
of them is what the engine still owes. An account that is closed therefore has
neither a line nor a command behind it. This is only true of commands that are
sent once (`Tracked`). Orders are, by `validate_commands`; nothing keeps a plan from
cancelling an order twice, so that it does not (`CancelledOnce`) is a hypothesis of
the last two theorems. Without it they are false, as `session_cancel` shows.

Only model-checked:

* liveness, whose proofs need ENABLED;
* `TradesFollowHistory`, `CancelsFollowHistory` and `QuietBookIsHistory` of
  `Linearization`. They replay a history with a fold whose value is a function of
  records, and compare the commands of the code with what it returns; how such a
  fold goes from one history to a longer one is an induction over data, which the
  library states for operators only;
* `ImplementsExchange` and `EveryLineIsAllowed` of the Go engine. They relate each
  line to the lines printed before it, which may be many behind the book; the
  accounts of `GoExchangeProofs` say what an order's lines add up to, not which order
  came first in the book when each was written. What would be needed is the book that the printer is going to print, that
  is the fold of `E!After` over all lines in `outputs` and those executors will
  still send, and with it the same induction.

## Not modelled, and the plan

Left out for good: sockets, signals and text formats (`io.cpp`, `main.c`,
`client.c`, `io.go`, `main.go`, and `main.cpp`, `input.cpp`, `output.cpp`,
`split.hpp` of the grader), which are sequential I/O without state of their own;
launching the engine, connecting, disconnecting and sleeping in the session;
hashing and random numbers in `task.rs`; and the Python scripts.

What would come next, in this order:

1. An atomic exchange, one step per command, as the abstract specification of
   `Linearization`, by refinement, so that the history is a state and no fold.
2. `ImplementsExchange` of the Go book: first that the channels of `outputChannels`
   are in the order of the locks of the heads.
