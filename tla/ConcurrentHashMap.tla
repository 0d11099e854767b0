------------------------- MODULE ConcurrentHashMap -------------------------
(***************************************************************************)
(* One bucket of the hash map of both engines: a chain of nodes behind a   *)
(* reader-writer lock.  The Go map (concurrent_hashmap.go) builds that lock *)
(* of three channels of capacity 1, a turnstile, a light switch and the    *)
(* room; the C++ map (hashmap.hpp) has a std::shared_mutex.  The calls and  *)
(* the walk over the chain are the same in both.  Buckets share nothing.   *)
(*                                                                         *)
(* Besides get, set and remove a process may "find" a value: the look-up,  *)
(* set and second look-up with which connections get the order book of an  *)
(* instrument.  The wait for numReadersArr in Set and Remove never waits,  *)
(* since nothing writes that array.  Two releases in a row are one step,   *)
(* and so are taking and leaving the turnstile in Get.                     *)
(***************************************************************************)
EXTENDS Integers, Sequences, FiniteSets

CONSTANTS
  Proc, Key, Nil,
  GoPrograms,   \* process -> the calls it makes: what goroutines may do
  CppPrograms,  \* and threads
  MaxCalls      \* bound of the model: the length of a program and two more

Op == {"get", "set", "remove", "find", "make", "find again", "poll"}
Call == [op : Op, key : Key]
Value == Proc \X (1 .. MaxCalls)
Book == [key : Key, value : Value \cup {Nil}]

ASSUME MapAssumption ==
  /\ MaxCalls \in Nat
  /\ GoPrograms \cup CppPrograms \subseteq [Proc -> Seq(Call)]
  /\ \A todo \in GoPrograms \cup CppPrograms : \A p \in Proc :
       Len(todo[p]) + 2 <= MaxCalls
  /\ Nil \notin Value \cup Book

(* Books are made by those who look for them, and never removed: only      *)
(* orders are (handleConn, ProcessCancelOrder).                            *)
ASSUME BooksAreKept ==
  \A todo \in GoPrograms \cup CppPrograms : \A p, q \in Proc :
    \A i \in DOMAIN todo[p], j \in DOMAIN todo[q] :
      /\ todo[p][i].op \notin {"make", "find again"}
      /\ todo[p][i].op = "find" /\ todo[q][j].op = "remove"
           => todo[p][i].key # todo[q][j].key

VARIABLES
  engine,      \* whose lock the bucket has
  todo,        \* process -> calls not yet returned from
  pc, result,  \* process -> where it is, <<answer>> when it has one
  prev, curr,  \* process -> the nodes its walk is at, 0 for nil
  book,        \* process -> the book it found: key and value
  head, heap,  \* hashTable[h], and all nodes ever made
  turnstile, readSwitch, room,  \* RWLock: the channels that are full
  counter,                      \* RWLock.counter
  shared, exclusive             \* the std::shared_mutex: its holders

callVars == <<engine, todo, result, book>>
walkVars == <<prev, curr>>
chain == <<head, heap>>
rwLock == <<turnstile, readSwitch, room, counter>>
mutex == <<shared, exclusive>>
vars == <<callVars, pc, walkVars, chain, rwLock, mutex>>

-----------------------------------------------------------------------------
Idle(p) == pc[p] = "idle" /\ todo[p] # <<>>
OpOf(p) == Head(todo[p]).op
KeyOf(p) == Head(todo[p]).key

IsSet(p) == OpOf(p) \in {"set", "make"}
IsRemove(p) == OpOf(p) = "remove"
IsRead(p) == ~IsSet(p) /\ ~IsRemove(p)

(* What a process stores is always new: an order, or NewOrderBook. *)
Mine(p) == <<p, Len(todo[p])>>

Goto(p, label) == pc' = [pc EXCEPT ![p] = label]

(* The lock is there: the walk begins at hashTable[h]. *)
BeginWalk(p) == /\ prev' = [prev EXCEPT ![p] = 0]
                /\ curr' = [curr EXCEPT ![p] = head]
                /\ Goto(p, "walk")

Init ==
  /\ \/ engine = "go" /\ todo \in GoPrograms
     \/ engine = "cpp" /\ todo \in CppPrograms
  /\ pc = [p \in Proc |-> "idle"]
  /\ result = [p \in Proc |-> <<>>]
  /\ prev = [p \in Proc |-> 0] /\ curr = [p \in Proc |-> 0]
  /\ book = [p \in Proc |-> Nil]
  /\ head = 0 /\ heap = <<>>
  /\ turnstile = FALSE /\ readSwitch = FALSE /\ room = FALSE
  /\ counter = 0
  /\ shared = {} /\ exclusive = {}

-----------------------------------------------------------------------------
(* Readers of the Go lock. *)
PassTurnstile(p) ==
  /\ Idle(p) /\ engine = "go" /\ IsRead(p)
  /\ ~turnstile
  /\ Goto(p, "count in")
  /\ UNCHANGED <<callVars, walkVars, chain, rwLock, mutex>>

(* The first one keeps readSwitch while it waits for the room. *)
OneMoreForgotten == counter \* mutant
OneMore == counter + 1
FirstInEarly(n) == n = 0 \* mutant: counter compared before it is incremented
FirstIn(n) == n = 1

CountIn(p) ==
  /\ pc[p] = "count in"
  /\ ~readSwitch
  /\ counter' = OneMore
  /\ \/ /\ FirstIn(counter')
        /\ readSwitch' = TRUE
        /\ Goto(p, "enter room")
        /\ UNCHANGED walkVars
     \/ /\ ~FirstIn(counter')
        /\ BeginWalk(p)
        /\ UNCHANGED readSwitch
  /\ UNCHANGED <<callVars, chain, turnstile, room, mutex>>

EnterRoom(p) ==
  /\ pc[p] = "enter room"
  /\ ~room
  /\ room' = TRUE
  /\ readSwitch' = FALSE
  /\ BeginWalk(p)
  /\ UNCHANGED <<callVars, chain, turnstile, counter, mutex>>

(* Writers of the Go lock. *)
TakeNoTurnstile(p) == \* mutant
  /\ Idle(p) /\ engine = "go" /\ ~IsRead(p)
  /\ Goto(p, "take room")
  /\ UNCHANGED <<callVars, walkVars, chain, rwLock, mutex>>
TakeTurnstile(p) ==
  /\ Idle(p) /\ engine = "go" /\ ~IsRead(p)
  /\ ~turnstile
  /\ turnstile' = TRUE
  /\ Goto(p, "take room")
  /\ UNCHANGED <<callVars, walkVars, chain, readSwitch, room, counter, mutex>>

TakeRoom(p) ==
  /\ pc[p] = "take room"
  /\ ~room
  /\ room' = TRUE
  /\ BeginWalk(p)
  /\ UNCHANGED <<callVars, chain, turnstile, readSwitch, counter, mutex>>

(* The std::shared_mutex. *)
LockShared(p) ==
  /\ Idle(p) /\ engine = "cpp" /\ IsRead(p)
  /\ exclusive = {}
  /\ shared' = shared \cup {p}
  /\ BeginWalk(p)
  /\ UNCHANGED <<callVars, chain, rwLock, exclusive>>

LockSharedToWrite(p) == \* mutant: a shared_lock where a unique_lock is needed
  /\ Idle(p) /\ engine = "cpp" /\ ~IsRead(p)
  /\ exclusive = {}
  /\ shared' = shared \cup {p}
  /\ BeginWalk(p)
  /\ UNCHANGED <<callVars, chain, rwLock, exclusive>>
LockExclusive(p) ==
  /\ Idle(p) /\ engine = "cpp" /\ ~IsRead(p)
  /\ exclusive = {} /\ shared = {}
  /\ exclusive' = {p}
  /\ BeginWalk(p)
  /\ UNCHANGED <<callVars, chain, rwLock, shared>>

-----------------------------------------------------------------------------
(* The walk, and what each call does at its end. *)
AtKey(p) == curr[p] # 0 /\ heap[curr[p]].key = KeyOf(p)
WalkEnds(p) == pc[p] = "walk" /\ (curr[p] = 0 \/ AtKey(p))

Visit(p) ==
  /\ pc[p] = "walk" /\ curr[p] # 0 /\ ~AtKey(p)
  /\ prev' = [prev EXCEPT ![p] = curr[p]]
  /\ curr' = [curr EXCEPT ![p] = heap[curr[p]].next]
  /\ UNCHANGED <<callVars, pc, chain, rwLock, mutex>>

EndWith(p, answer) ==
  /\ result' = [result EXCEPT ![p] = <<answer>>]
  /\ Goto(p, "leave")
  /\ UNCHANGED <<engine, todo, book, walkVars, rwLock, mutex>>

EndGet(p) ==
  /\ WalkEnds(p) /\ IsRead(p)
  /\ EndWith(p, IF curr[p] = 0 THEN Nil ELSE heap[curr[p]].value)
  /\ UNCHANGED chain

(* A new node behind the last one; a key that is there keeps its value. *)
Put(p) ==
  LET new == [key |-> KeyOf(p), value |-> Mine(p), next |-> 0]
      n == Len(heap) + 1 IN
  IF prev[p] = 0
  THEN head' = n /\ heap' = Append(heap, new)
  ELSE head' = head /\ heap' = Append([heap EXCEPT ![prev[p]].next = n], new)

KeepOverwrites(p) == \* mutant: the new value replaces the old one
  heap' = [heap EXCEPT ![curr[p]].value = Mine(p)] /\ UNCHANGED head
Keep(p) == UNCHANGED chain

EndSet(p) ==
  /\ WalkEnds(p) /\ IsSet(p)
  /\ EndWith(p, Nil)
  /\ IF curr[p] = 0 THEN Put(p) ELSE Keep(p)

UnlinkAll(p) == head' = heap[curr[p]].next /\ UNCHANGED heap \* mutant: prev ignored
Unlink(p) ==
  LET n == heap[curr[p]].next IN
  IF prev[p] = 0 THEN head' = n /\ UNCHANGED heap
                 ELSE heap' = [heap EXCEPT ![prev[p]].next = n] /\ UNCHANGED head

EndRemove(p) ==
  /\ WalkEnds(p) /\ IsRemove(p)
  /\ EndWith(p, curr[p] # 0)
  /\ IF curr[p] = 0 THEN UNCHANGED chain ELSE Unlink(p)

-----------------------------------------------------------------------------
(* The end of a call.  A connection that found no book goes on with a set  *)
(* and a second look-up.                                                   *)
Missing(p) == OpOf(p) = "find" /\ result[p] = <<Nil>>

Rest(p) ==
  IF Missing(p) THEN <<[op |-> "make", key |-> KeyOf(p)],
                       [op |-> "find again", key |-> KeyOf(p)]>> \o Tail(todo[p])
  ELSE IF OpOf(p) = "poll" THEN todo[p]  \* a stream of commands, never used up
  ELSE Tail(todo[p])

Return(p) ==
  /\ todo' = [todo EXCEPT ![p] = Rest(p)]
  /\ book' = IF OpOf(p) \in {"find", "find again"} /\ ~Missing(p)
             THEN [book EXCEPT ![p] = [key |-> KeyOf(p), value |-> result[p][1]]]
             ELSE book
  /\ result' = [result EXCEPT ![p] = <<>>]
  /\ prev' = [prev EXCEPT ![p] = 0] /\ curr' = [curr EXCEPT ![p] = 0]
  /\ Goto(p, "idle")
  /\ UNCHANGED <<engine, chain>>

Leaves(p, e) == pc[p] = "leave" /\ engine = e

CountOut(p) ==
  /\ Leaves(p, "go") /\ IsRead(p)
  /\ ~readSwitch
  /\ counter' = counter - 1
  /\ room' = (room /\ counter' # 0)
  /\ Return(p)
  /\ UNCHANGED <<turnstile, readSwitch, mutex>>

ReleaseRoom(p) ==
  /\ Leaves(p, "go") /\ ~IsRead(p)
  /\ turnstile' = FALSE /\ room' = FALSE
  /\ Return(p)
  /\ UNCHANGED <<readSwitch, counter, mutex>>

Unlock(p) ==
  /\ Leaves(p, "cpp")
  /\ shared' = shared \ {p} /\ exclusive' = exclusive \ {p}
  /\ Return(p)
  /\ UNCHANGED rwLock

-----------------------------------------------------------------------------
GoLock(p) ==
  \/ PassTurnstile(p) \/ CountIn(p) \/ EnterRoom(p)
  \/ TakeTurnstile(p) \/ TakeRoom(p) \/ CountOut(p)

Step(p) ==
  \/ GoLock(p) \/ LockShared(p) \/ LockExclusive(p)
  \/ Visit(p) \/ EndGet(p) \/ EndSet(p) \/ EndRemove(p)
  \/ ReleaseRoom(p) \/ Unlock(p)

Terminated == (\A p \in Proc : todo[p] = <<>>) /\ UNCHANGED vars

Next == (\E p \in Proc : Step(p)) \/ Terminated

Spec == Init /\ [][Next]_vars

-----------------------------------------------------------------------------
Node == [key : Key, value : Value, next : 0 .. Len(heap)]

(* Type invariant of one bucket. *)
TypeOK ==
  /\ engine \in {"go", "cpp"}
  /\ todo \in [Proc -> Seq(Call)]
  /\ pc \in [Proc -> {"idle", "count in", "enter room", "take room", "walk", "leave"}]
  /\ \A p \in Proc :
       result[p] # <<>> => result[p] \in Seq(IF IsRemove(p) THEN BOOLEAN
                                              ELSE Value \cup {Nil})
  /\ {prev, curr} \subseteq [Proc -> 0 .. Len(heap)]
  /\ \A p \in Proc : book[p] \in {Nil} \cup Book
  /\ head \in 0 .. Len(heap) /\ heap \in Seq(Node)
  /\ {turnstile, readSwitch, room} \subseteq BOOLEAN
  /\ counter \in Nat
  /\ shared \subseteq Proc /\ exclusive \subseteq Proc

(* Who is between getting the lock and giving it back. *)
Readers == {p \in Proc : pc[p] \in {"walk", "leave"} /\ IsRead(p)}
Writers == {p \in Proc : pc[p] \in {"walk", "leave"} /\ ~IsRead(p)}

(* Nobody reads or writes the chain beside a writer, although the room is  *)
(* filled by the first reader and emptied by the last, two goroutines that *)
(* know of each other only by counter (readSwitchLock, readSwitchUnlock).  *)
WritersAreAlone ==
  /\ Cardinality(Writers) <= 1
  /\ Writers # {} => Readers = {}

(* The nodes of the chain: what must be there with hashTable[h] and with   *)
(* the next of every node that is.                                         *)
FollowsLinks(S) ==
  /\ head # 0 => head \in S
  /\ \A n \in S : heap[n].next # 0 => heap[n].next \in S

Linked ==
  {n \in DOMAIN heap : \A S \in SUBSET DOMAIN heap : FollowsLinks(S) => n \in S}

(* No walk is on a node that left the chain, which HashMap::remove deletes. *)
NobodyOnRemovedNode ==
  \A p \in Proc : pc[p] = "walk" => {prev[p], curr[p]} \subseteq Linked \cup {0}

(* Two connections that find no book for an instrument both set one, and   *)
(* go on with the same: nobody ever works on a book that others do not see *)
(* (handleConn, ConnectionThread).                                         *)
OneBookPerInstrument ==
  \A p, q \in Proc :
    (book[p] # Nil /\ book[q] # Nil /\ book[p].key = book[q].key)
      => book[p].value = book[q].value /\ book[p].value # Nil

(* What the chain says to those who hold the lock. *)
Contents ==
  [k \in Key |->
     LET hits == {n \in Linked : heap[n].key = k} IN
     IF hits = {} THEN Nil ELSE heap[CHOOSE n \in hits : TRUE].value]

AbstractCall(p) ==
  IF pc[p] = "idle" THEN Nil
  ELSE [op |-> IF IsRead(p) THEN "get" ELSE IF IsSet(p) THEN "set" ELSE "remove",
        key |-> KeyOf(p),
        value |-> IF IsSet(p) THEN Mine(p) ELSE Nil]

A == INSTANCE AtomicMap
       WITH store <- Contents, req <- [p \in Proc |-> AbstractCall(p)], ret <- result

ASSUME NilIsNoRequest == Nil \notin A!Request

(* Every call answers as if it had taken effect at one moment, which is    *)
(* what the models of the order books assume of orders and orderbooks.     *)
ImplementsAtomicMap == A!Spec

-----------------------------------------------------------------------------
(* Threads are scheduled, and a channel serves those who wait for it in    *)
(* turn.  Nothing like that is known of a std::shared_mutex.               *)
Fairness == \A p \in Proc : WF_vars(Step(p)) /\ SF_vars(GoLock(p))

FairSpec == Spec /\ Fairness

(* Every call returns.  The readers of the Go map never stop coming: the   *)
(* turnstile keeps them back while a writer waits for the room (Set).      *)
CallsReturn ==
  \A p \in Proc : <>(todo[p] = <<>> \/ OpOf(p) = "poll")

=============================================================================
