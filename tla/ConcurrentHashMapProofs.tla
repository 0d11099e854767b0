----------------------- MODULE ConcurrentHashMapProofs -----------------------
(***************************************************************************)
(* The locks of both hash maps keep writers alone, for any number of       *)
(* goroutines or threads, any keys and any programs.  The room of the Go   *)
(* lock is full exactly while somebody is inside, which follows only       *)
(* together with what counter counts: the readers that are inside or wait  *)
(* for the room, and of the latter there is at most one, the first, with   *)
(* readSwitch taken.                                                       *)
(***************************************************************************)
EXTENDS ConcurrentHashMap, FiniteSetTheorems, TLAPS

Inside == {"walk", "leave"}

(* The readers that have counted themselves in. *)
Counted == {p \in Proc : pc[p] \in Inside \cup {"enter room"} /\ IsRead(p)}

(* Shape of the state, as far as the locks need it. *)
Shape ==
  /\ engine \in {"go", "cpp"}
  /\ DOMAIN pc = Proc /\ DOMAIN todo = Proc
  /\ \A p \in Proc : pc[p] \in {"count in", "enter room"} => IsRead(p)
  /\ \A p \in Proc : pc[p] = "take room" => ~IsRead(p)

CounterExact == IsFiniteSet(Counted) /\ counter = Cardinality(Counted)

(* Who waits for the room keeps the switch, and is the only one counted. *)
SwitchTaken ==
  \A p \in Proc : pc[p] = "enter room" => readSwitch /\ Counted = {p}

RoomTaken == room <=> Readers \cup Writers # {}

Alone == /\ \A p, q \in Writers : p = q
         /\ Writers # {} => Readers = {}

(* The std::shared_mutex knows its holders. *)
HoldersInside == Readers = shared /\ Writers = exclusive

GoInv == CounterExact /\ SwitchTaken /\ RoomTaken

CppInv ==
  /\ HoldersInside
  /\ \A p \in Proc : pc[p] \notin {"count in", "enter room", "take room"}

IInv == Shape /\ Alone /\ (engine = "go" => GoInv) /\ (engine = "cpp" => CppInv)

-----------------------------------------------------------------------------
(* A step of p that changes no process but p, and leaves its call alone.   *)
MovesTo(p, label) ==
  /\ pc' = [pc EXCEPT ![p] = label]
  /\ todo' = todo /\ engine' = engine

LEMMA InitHolds == Init => IInv
<1> SUFFICES ASSUME Init PROVE IInv
  OBVIOUS
<1>1. Counted = {} /\ Readers = {} /\ Writers = {}
  BY DEF Init, Counted, Readers, Writers, Inside
<1>2. DOMAIN todo = Proc
  BY MapAssumption DEF Init
<1>3. Shape
  BY <1>2 DEF Init, Shape
<1>4. GoInv
  BY <1>1, FS_EmptySet DEF Init, GoInv, CounterExact, SwitchTaken, RoomTaken
<1>5. CppInv
  BY <1>1 DEF Init, CppInv, HoldersInside
<1> QED
  BY <1>1, <1>3, <1>4, <1>5 DEF IInv, Alone

-----------------------------------------------------------------------------
(* Who is inside, and who is counted, after p has moved ...                *)
LEMMA SetsAfterMove ==
  ASSUME Shape, NEW p \in Proc, NEW label, MovesTo(p, label)
  PROVE  /\ DOMAIN pc' = Proc /\ DOMAIN todo' = Proc
         /\ \A q \in Proc : pc'[q] = IF q = p THEN label ELSE pc[q]
         /\ \A q \in Proc : IsRead(q)' <=> IsRead(q)
         /\ Readers' = IF label \in Inside /\ IsRead(p)
                       THEN Readers \cup {p} ELSE Readers \ {p}
         /\ Writers' = IF label \in Inside /\ ~IsRead(p)
                       THEN Writers \cup {p} ELSE Writers \ {p}
         /\ Counted' = IF label \in Inside \cup {"enter room"} /\ IsRead(p)
                       THEN Counted \cup {p} ELSE Counted \ {p}
<1>1. /\ DOMAIN pc' = Proc /\ DOMAIN todo' = Proc
      /\ \A q \in Proc : pc'[q] = IF q = p THEN label ELSE pc[q]
  BY DEF Shape, MovesTo
<1>2. \A q \in Proc : IsRead(q)' <=> IsRead(q)
  BY DEF MovesTo, IsRead, IsSet, IsRemove, OpOf
<1> QED
  BY <1>1, <1>2 DEF Readers, Writers, Counted, Inside

(* ... and after it has returned from its call.                            *)
LEMMA SetsAfterReturn ==
  ASSUME Shape, NEW p \in Proc, Return(p)
  PROVE  /\ DOMAIN pc' = Proc /\ DOMAIN todo' = Proc /\ engine' = engine
         /\ \A q \in Proc : pc'[q] = IF q = p THEN "idle" ELSE pc[q]
         /\ \A q \in Proc \ {p} : IsRead(q)' <=> IsRead(q)
         /\ Readers' = Readers \ {p}
         /\ Writers' = Writers \ {p}
         /\ Counted' = Counted \ {p}
<1>1. /\ DOMAIN pc' = Proc /\ DOMAIN todo' = Proc /\ engine' = engine
      /\ \A q \in Proc : pc'[q] = IF q = p THEN "idle" ELSE pc[q]
      /\ \A q \in Proc \ {p} : todo'[q] = todo[q]
  BY DEF Shape, Return, Goto
<1>2. \A q \in Proc \ {p} : IsRead(q)' <=> IsRead(q)
  BY <1>1 DEF IsRead, IsSet, IsRemove, OpOf
<1> QED
  BY <1>1, <1>2 DEF Readers, Writers, Counted, Inside

(* Shape asks little of a move. *)
LEMMA ShapeAfterMove ==
  ASSUME Shape, NEW p \in Proc, NEW label, MovesTo(p, label),
         label \in {"count in", "enter room"} => IsRead(p),
         label = "take room" => ~IsRead(p)
  PROVE  Shape'
BY SetsAfterMove DEF Shape, MovesTo

LEMMA ShapeAfterReturn ==
  ASSUME Shape, NEW p \in Proc, Return(p)
  PROVE  Shape'
BY SetsAfterReturn DEF Shape

-----------------------------------------------------------------------------
(* The Go lock, where nobody counts or enters: the turnstile.              *)
LEMMA PassTurnstileHolds ==
  ASSUME IInv, NEW p \in Proc, PassTurnstile(p)
  PROVE  IInv'
<1>1. MovesTo(p, "count in") /\ pc[p] = "idle" /\ IsRead(p) /\ engine = "go"
  BY DEF PassTurnstile, MovesTo, Goto, Idle, callVars
<1>2. UNCHANGED <<readSwitch, room, counter>>
  BY DEF PassTurnstile, rwLock
<1>3. p \notin Readers /\ p \notin Writers /\ p \notin Counted
  BY <1>1 DEF Readers, Writers, Counted, Inside
<1>4. /\ Readers' = Readers \ {p} /\ Writers' = Writers \ {p}
      /\ Counted' = Counted \ {p}
      /\ \A q \in Proc : pc'[q] = IF q = p THEN "count in" ELSE pc[q]
  BY <1>1, SetsAfterMove DEF IInv, Inside
<1> Readers' = Readers /\ Writers' = Writers /\ Counted' = Counted
  BY <1>3, <1>4
<1>5. Shape'
  BY <1>1, ShapeAfterMove DEF IInv
<1>6. CounterExact' /\ SwitchTaken' /\ RoomTaken'
  BY <1>1, <1>2, <1>4 DEF IInv, GoInv, CounterExact, SwitchTaken, RoomTaken
<1> QED
  BY <1>1, <1>4, <1>5, <1>6 DEF IInv, GoInv, Alone, MovesTo

LEMMA TakeTurnstileHolds ==
  ASSUME IInv, NEW p \in Proc, TakeTurnstile(p)
  PROVE  IInv'
<1>1. MovesTo(p, "take room") /\ pc[p] = "idle" /\ ~IsRead(p) /\ engine = "go"
  BY DEF TakeTurnstile, MovesTo, Goto, Idle, callVars
<1>2. UNCHANGED <<readSwitch, room, counter>>
  BY DEF TakeTurnstile
<1>3. p \notin Readers /\ p \notin Writers /\ p \notin Counted
  BY <1>1 DEF Readers, Writers, Counted, Inside
<1>4. /\ Readers' = Readers \ {p} /\ Writers' = Writers \ {p}
      /\ Counted' = Counted \ {p}
      /\ \A q \in Proc : pc'[q] = IF q = p THEN "take room" ELSE pc[q]
  BY <1>1, SetsAfterMove DEF IInv, Inside
<1> Readers' = Readers /\ Writers' = Writers /\ Counted' = Counted
  BY <1>3, <1>4
<1>5. Shape'
  BY <1>1, ShapeAfterMove DEF IInv
<1>6. CounterExact' /\ SwitchTaken' /\ RoomTaken'
  BY <1>1, <1>2, <1>4 DEF IInv, GoInv, CounterExact, SwitchTaken, RoomTaken
<1> QED
  BY <1>1, <1>4, <1>5, <1>6 DEF IInv, GoInv, Alone, MovesTo

(* One more is counted; the switch was free, so nobody waits for the room, *)
(* and all others that are counted are inside.                             *)
LEMMA CountInHolds ==
  ASSUME IInv, NEW p \in Proc, CountIn(p), engine = "go"
  PROVE  IInv'
<1>1. /\ pc[p] = "count in" /\ ~readSwitch /\ counter' = counter + 1 /\ room' = room
      /\ \/ counter' = 1 /\ readSwitch' /\ MovesTo(p, "enter room")
         \/ counter' # 1 /\ MovesTo(p, "walk")
  BY DEF CountIn, MovesTo, Goto, BeginWalk, callVars, OneMore, FirstIn
<1>2. IsRead(p) /\ p \notin Counted /\ p \notin Readers /\ p \notin Writers
  BY <1>1 DEF IInv, Shape, Counted, Readers, Writers, Inside
<1>3. \A q \in Proc : pc[q] # "enter room"
  BY <1>1 DEF IInv, GoInv, SwitchTaken
<1>4. Counted = Readers
  BY <1>3 DEF Counted, Readers, Inside
<1>5. IsFiniteSet(Counted) /\ counter = Cardinality(Counted) /\ counter \in Nat
  BY FS_CardinalityType DEF IInv, GoInv, CounterExact
<1>6. counter' = counter + 1
  BY <1>1
<1>7. counter' = 1 <=> Counted = {}
  BY <1>6, <1>5, FS_EmptySet
<1>8. Counted' = Counted \cup {p} => CounterExact'
  BY <1>6, <1>2, <1>5, FS_AddElement DEF CounterExact
<1>9. Writers \ {p} = Writers /\ Readers \ {p} = Readers
  BY <1>2
<1>10. CASE counter' = 1 /\ readSwitch' /\ MovesTo(p, "enter room")
  <2>1. /\ Counted' = Counted \cup {p} /\ Writers' = Writers /\ Readers' = Readers
        /\ \A q \in Proc : pc'[q] = IF q = p THEN "enter room" ELSE pc[q]
    BY <1>2, <1>9, <1>10, SetsAfterMove DEF IInv, Inside
  <2>2. Counted = {}
    BY <1>7, <1>10
  <2>3. SwitchTaken'
    BY <1>3, <1>10, <2>1, <2>2 DEF SwitchTaken
  <2>4. RoomTaken' /\ Alone'
    BY <1>1, <2>1 DEF IInv, GoInv, RoomTaken, Alone
  <2>5. Shape'
    BY <1>2, <1>10, ShapeAfterMove DEF IInv
  <2> QED
    BY <1>8, <1>10, <2>1, <2>3, <2>4, <2>5 DEF IInv, GoInv, MovesTo
<1>11. CASE counter' # 1 /\ MovesTo(p, "walk")
  <2>1. /\ Counted' = Counted \cup {p} /\ Writers' = Writers
        /\ Readers' = Readers \cup {p}
        /\ \A q \in Proc : pc'[q] = IF q = p THEN "walk" ELSE pc[q]
    BY <1>2, <1>9, <1>11, SetsAfterMove DEF IInv, Inside
  <2>2. Readers # {}
    BY <1>4, <1>7, <1>11
  <2>3. SwitchTaken'
    BY <1>3, <2>1 DEF SwitchTaken
  <2>4. RoomTaken' /\ Alone'
    BY <1>1, <2>1, <2>2 DEF IInv, GoInv, RoomTaken, Alone
  <2>5. Shape'
    BY <1>11, ShapeAfterMove DEF IInv
  <2> QED
    BY <1>8, <1>11, <2>1, <2>3, <2>4, <2>5 DEF IInv, GoInv, MovesTo
<1> QED
  BY <1>1, <1>10, <1>11

(* The first reader finds the room empty; no other is counted yet.         *)
LEMMA EnterRoomHolds ==
  ASSUME IInv, NEW p \in Proc, EnterRoom(p), engine = "go"
  PROVE  IInv'
<1>1. /\ MovesTo(p, "walk")
      /\ pc[p] = "enter room" /\ ~room /\ room' /\ ~readSwitch' /\ counter' = counter
  BY DEF EnterRoom, MovesTo, Goto, BeginWalk, callVars
<1>2. IsRead(p) /\ Readers = {} /\ Writers = {} /\ Counted = {p}
  BY <1>1 DEF IInv, Shape, GoInv, RoomTaken, SwitchTaken
<1>3. /\ Counted' = Counted /\ Readers' = {p} /\ Writers' = {}
      /\ \A q \in Proc : pc'[q] = IF q = p THEN "walk" ELSE pc[q]
  BY <1>1, <1>2, SetsAfterMove DEF IInv, Inside
<1>4. Shape'
  BY <1>1, ShapeAfterMove DEF IInv
<1>5. SwitchTaken'
  BY <1>2, <1>3 DEF IInv, GoInv, SwitchTaken
<1> QED
  BY <1>1, <1>3, <1>4, <1>5 DEF IInv, Alone, GoInv, CounterExact, RoomTaken, MovesTo

(* A writer finds it empty. *)
LEMMA TakeRoomHolds ==
  ASSUME IInv, NEW p \in Proc, TakeRoom(p), engine = "go"
  PROVE  IInv'
<1>1. /\ MovesTo(p, "walk")
      /\ pc[p] = "take room" /\ ~room /\ room'
      /\ UNCHANGED <<readSwitch, counter>>
  BY DEF TakeRoom, MovesTo, Goto, BeginWalk, callVars
<1>2. ~IsRead(p) /\ Readers = {} /\ Writers = {}
  BY <1>1 DEF IInv, Shape, GoInv, RoomTaken
<1>3. /\ Counted' = Counted /\ Readers' = {} /\ Writers' = {p}
      /\ \A q \in Proc : pc'[q] = IF q = p THEN "walk" ELSE pc[q]
  BY <1>1, <1>2, SetsAfterMove DEF IInv, Inside, Counted
<1>4. Shape'
  BY <1>1, ShapeAfterMove DEF IInv
<1>5. SwitchTaken' /\ CounterExact'
  BY <1>1, <1>3 DEF IInv, GoInv, SwitchTaken, CounterExact
<1> QED
  BY <1>1, <1>3, <1>4, <1>5 DEF IInv, Alone, GoInv, RoomTaken, MovesTo

(* The last reader empties the room: all that are counted are inside.      *)
LEMMA CountOutHolds ==
  ASSUME IInv, NEW p \in Proc, CountOut(p)
  PROVE  IInv'
<1>1. /\ Return(p) /\ pc[p] = "leave" /\ engine = "go" /\ IsRead(p)
      /\ ~readSwitch /\ readSwitch' = readSwitch
      /\ counter' = counter - 1 /\ room' = (room /\ counter' # 0)
  BY DEF CountOut, Leaves
<1>2. p \in Readers /\ p \in Counted
  BY <1>1 DEF Readers, Counted, Inside
<1>3. \A q \in Proc : pc[q] # "enter room"
  BY <1>1 DEF IInv, GoInv, SwitchTaken
<1>4. Counted = Readers
  BY <1>3 DEF Counted, Readers, Inside
<1>5. room /\ Writers = {}
  BY <1>1, <1>2 DEF IInv, GoInv, RoomTaken, Alone
<1>6. /\ Counted' = Counted \ {p} /\ Readers' = Readers \ {p} /\ Writers' = {}
      /\ engine' = engine
      /\ \A q \in Proc : pc'[q] = IF q = p THEN "idle" ELSE pc[q]
  BY <1>1, <1>5, SetsAfterReturn DEF IInv
<1>7. CounterExact'
  BY <1>1, <1>2, <1>6, FS_RemoveElement, FS_CardinalityType
  DEF IInv, GoInv, CounterExact
<1>8. counter' = 0 <=> Readers' = {}
  BY <1>4, <1>6, <1>7, FS_EmptySet DEF CounterExact
<1>9. Shape'
  BY <1>1, ShapeAfterReturn DEF IInv
<1>10. SwitchTaken' /\ RoomTaken' /\ Alone'
  BY <1>1, <1>3, <1>5, <1>6, <1>8 DEF SwitchTaken, RoomTaken, Alone
<1> QED
  BY <1>1, <1>6, <1>7, <1>9, <1>10 DEF IInv, GoInv

LEMMA ReleaseRoomHolds ==
  ASSUME IInv, NEW p \in Proc, ReleaseRoom(p)
  PROVE  IInv'
<1>1. /\ Return(p) /\ pc[p] = "leave" /\ engine = "go" /\ ~IsRead(p)
      /\ ~room' /\ UNCHANGED <<readSwitch, counter>>
  BY DEF ReleaseRoom, Leaves
<1>2. Writers = {p} /\ Readers = {} /\ p \notin Counted
  BY <1>1 DEF IInv, Alone, Writers, Counted, Inside
<1>3. /\ Counted' = Counted /\ Readers' = {} /\ Writers' = {}
      /\ engine' = engine
      /\ \A q \in Proc : pc'[q] = IF q = p THEN "idle" ELSE pc[q]
  BY <1>1, <1>2, SetsAfterReturn DEF IInv
<1>4. Shape'
  BY <1>1, ShapeAfterReturn DEF IInv
<1>5. CounterExact' /\ SwitchTaken'
  BY <1>1, <1>3 DEF IInv, GoInv, CounterExact, SwitchTaken
<1> QED
  BY <1>1, <1>3, <1>4, <1>5 DEF IInv, GoInv, RoomTaken, Alone

-----------------------------------------------------------------------------
(* The std::shared_mutex. *)
LEMMA LockSharedHolds ==
  ASSUME IInv, NEW p \in Proc, LockShared(p)
  PROVE  IInv'
<1>1. /\ MovesTo(p, "walk") /\ pc[p] = "idle" /\ engine = "cpp" /\ IsRead(p)
      /\ exclusive = {} /\ shared' = shared \cup {p} /\ exclusive' = exclusive
  BY DEF LockShared, MovesTo, Goto, BeginWalk, Idle, callVars
<1>2. Readers = shared /\ Writers = {} /\ p \notin Writers
  BY <1>1 DEF IInv, CppInv, HoldersInside
<1>3. /\ Readers' = Readers \cup {p} /\ Writers' = Writers \ {p}
      /\ \A q \in Proc : pc'[q] = IF q = p THEN "walk" ELSE pc[q]
  BY <1>1, SetsAfterMove DEF IInv, Inside
<1>4. Writers' = {}
  BY <1>2, <1>3
<1>5. Shape'
  BY <1>1, ShapeAfterMove DEF IInv
<1>6. CppInv' /\ Alone'
  BY <1>1, <1>2, <1>3, <1>4 DEF IInv, CppInv, HoldersInside, Alone
<1> QED
  BY <1>1, <1>5, <1>6 DEF IInv, MovesTo

LEMMA LockExclusiveHolds ==
  ASSUME IInv, NEW p \in Proc, LockExclusive(p)
  PROVE  IInv'
<1>1. /\ MovesTo(p, "walk") /\ pc[p] = "idle" /\ engine = "cpp" /\ ~IsRead(p)
      /\ exclusive = {} /\ shared = {} /\ shared' = {} /\ exclusive' = {p}
  BY DEF LockExclusive, MovesTo, Goto, BeginWalk, Idle, callVars
<1>2. Readers = {} /\ Writers = {}
  BY <1>1 DEF IInv, CppInv, HoldersInside
<1>3. /\ Readers' = Readers \ {p} /\ Writers' = Writers \cup {p}
      /\ \A q \in Proc : pc'[q] = IF q = p THEN "walk" ELSE pc[q]
  BY <1>1, SetsAfterMove DEF IInv, Inside
<1>4. Readers' = {} /\ Writers' = {p}
  BY <1>2, <1>3
<1>5. Shape'
  BY <1>1, ShapeAfterMove DEF IInv
<1>6. CppInv' /\ Alone'
  BY <1>1, <1>3, <1>4 DEF IInv, CppInv, HoldersInside, Alone
<1> QED
  BY <1>1, <1>5, <1>6 DEF IInv, MovesTo

LEMMA UnlockHolds ==
  ASSUME IInv, NEW p \in Proc, Unlock(p)
  PROVE  IInv'
<1>1. /\ Return(p) /\ engine = "cpp"
      /\ shared' = shared \ {p} /\ exclusive' = exclusive \ {p}
  BY DEF Unlock, Leaves
<1>2. /\ Readers' = Readers \ {p} /\ Writers' = Writers \ {p} /\ engine' = engine
      /\ \A q \in Proc : pc'[q] = IF q = p THEN "idle" ELSE pc[q]
  BY <1>1, SetsAfterReturn DEF IInv
<1>3. Shape'
  BY <1>1, ShapeAfterReturn DEF IInv
<1>4. CppInv'
  BY <1>1, <1>2 DEF IInv, CppInv, HoldersInside
<1>5. Alone'
  BY <1>2 DEF IInv, Alone
<1> QED
  BY <1>1, <1>2, <1>3, <1>4, <1>5 DEF IInv

-----------------------------------------------------------------------------
(* While it works on the chain a process stays inside. *)
LEMMA StaysInside ==
  ASSUME IInv, NEW p \in Proc, pc[p] = "walk",
         MovesTo(p, "leave") \/ UNCHANGED <<pc, todo, engine>>,
         UNCHANGED <<rwLock, mutex>>
  PROVE  IInv'
<1>1. UNCHANGED <<readSwitch, room, counter, shared, exclusive>>
  BY DEF rwLock, mutex
<1>2. CASE UNCHANGED <<pc, todo, engine>>
  <2>1. \A q \in Proc : IsRead(q)' <=> IsRead(q)
    BY <1>2 DEF IsRead, IsSet, IsRemove, OpOf
  <2>2. Readers' = Readers /\ Writers' = Writers /\ Counted' = Counted
    BY <1>2, <2>1 DEF Readers, Writers, Counted
  <2>3. Shape' /\ Alone'
    BY <1>2, <2>1, <2>2 DEF IInv, Shape, Alone
  <2> QED
    BY <1>1, <1>2, <2>2, <2>3
    DEF IInv, GoInv, CppInv, CounterExact, SwitchTaken, RoomTaken, HoldersInside
<1>3. CASE MovesTo(p, "leave")
  <2>1. /\ IsRead(p) => p \in Readers /\ p \in Counted /\ p \notin Writers
        /\ ~IsRead(p) => p \in Writers /\ p \notin Readers /\ p \notin Counted
    BY DEF Readers, Writers, Counted, Inside
  <2>2. /\ Readers' = IF IsRead(p) THEN Readers \cup {p} ELSE Readers \ {p}
        /\ Writers' = IF ~IsRead(p) THEN Writers \cup {p} ELSE Writers \ {p}
        /\ Counted' = IF IsRead(p) THEN Counted \cup {p} ELSE Counted \ {p}
        /\ \A q \in Proc : pc'[q] = IF q = p THEN "leave" ELSE pc[q]
    BY <1>3, SetsAfterMove DEF IInv, Inside
  <2>3. Readers' = Readers /\ Writers' = Writers /\ Counted' = Counted
    BY <2>1, <2>2
  <2>4. Shape' /\ Alone' /\ engine' = engine
    BY <1>3, <2>3, ShapeAfterMove DEF IInv, Alone, MovesTo
  <2>5. GoInv => GoInv'
    BY <1>1, <2>2, <2>3 DEF GoInv, CounterExact, SwitchTaken, RoomTaken
  <2>6. CppInv => CppInv'
    BY <1>1, <2>2, <2>3 DEF CppInv, HoldersInside
  <2> QED
    BY <2>4, <2>5, <2>6 DEF IInv
<1> QED
  BY <1>2, <1>3

LEMMA WalkHolds ==
  ASSUME IInv, NEW p \in Proc, Visit(p) \/ EndGet(p) \/ EndSet(p) \/ EndRemove(p)
  PROVE  IInv'
<1>1. CASE Visit(p)
  <2>1. pc[p] = "walk" /\ UNCHANGED <<pc, todo, engine>> /\ UNCHANGED <<rwLock, mutex>>
    BY <1>1 DEF Visit, callVars
  <2> QED
    BY <2>1, StaysInside
<1>2. CASE EndGet(p) \/ EndSet(p) \/ EndRemove(p)
  <2>1. pc[p] = "walk" /\ MovesTo(p, "leave") /\ UNCHANGED <<rwLock, mutex>>
    BY <1>2 DEF EndGet, EndSet, EndRemove, WalkEnds, EndWith, MovesTo, Goto
  <2> QED
    BY <2>1, StaysInside
<1> QED
  BY <1>1, <1>2

(* The steps inside the Go lock are those of Go calls only. *)
LEMMA WaitingIsGo ==
  ASSUME IInv, NEW p \in Proc, pc[p] \in {"count in", "enter room", "take room"}
  PROVE  engine = "go"
BY DEF IInv, Shape, CppInv

LEMMA StepHolds ==
  ASSUME IInv, NEW p \in Proc, Step(p)
  PROVE  IInv'
<1>1. CASE PassTurnstile(p)
  BY <1>1, PassTurnstileHolds
<1>2. CASE CountIn(p)
  BY <1>2, CountInHolds, WaitingIsGo DEF CountIn
<1>3. CASE EnterRoom(p)
  BY <1>3, EnterRoomHolds, WaitingIsGo DEF EnterRoom
<1>4. CASE TakeTurnstile(p)
  BY <1>4, TakeTurnstileHolds
<1>5. CASE TakeRoom(p)
  BY <1>5, TakeRoomHolds, WaitingIsGo DEF TakeRoom
<1>6. CASE CountOut(p)
  BY <1>6, CountOutHolds
<1>7. CASE ReleaseRoom(p)
  BY <1>7, ReleaseRoomHolds
<1>8. CASE LockShared(p)
  BY <1>8, LockSharedHolds
<1>9. CASE LockExclusive(p)
  BY <1>9, LockExclusiveHolds
<1>10. CASE Unlock(p)
  BY <1>10, UnlockHolds
<1>11. CASE Visit(p) \/ EndGet(p) \/ EndSet(p) \/ EndRemove(p)
  BY <1>11, WalkHolds
<1> QED
  BY <1>1, <1>2, <1>3, <1>4, <1>5, <1>6, <1>7, <1>8, <1>9, <1>10, <1>11
  DEF Step, GoLock

LEMMA StutterHolds == IInv /\ UNCHANGED vars => IInv'
<1> SUFFICES ASSUME IInv, UNCHANGED vars PROVE IInv'
  OBVIOUS
<1>1. UNCHANGED <<pc, todo, engine, readSwitch, room, counter, shared, exclusive>>
  BY DEF vars, callVars, rwLock, mutex
<1>2. \A q \in Proc : IsRead(q)' <=> IsRead(q)
  BY <1>1 DEF IsRead, IsSet, IsRemove, OpOf
<1>3. Readers' = Readers /\ Writers' = Writers /\ Counted' = Counted
  BY <1>1, <1>2 DEF Readers, Writers, Counted
<1>4. Shape' /\ Alone'
  BY <1>1, <1>2, <1>3 DEF IInv, Shape, Alone
<1> QED
  BY <1>1, <1>3, <1>4
  DEF IInv, GoInv, CppInv, CounterExact, SwitchTaken, RoomTaken, HoldersInside

LEMMA NextHolds == IInv /\ [Next]_vars => IInv'
BY StepHolds, StutterHolds DEF Next, Terminated

-----------------------------------------------------------------------------
(* Nobody reads or writes a bucket beside a writer, in either engine and   *)
(* for any number of processes (readSwitchLock, Set, Remove, std::         *)
(* shared_mutex).                                                          *)
THEOREM WritersExclude == Spec => []WritersAreAlone
<1>1. IInv => WritersAreAlone
  <2> SUFFICES ASSUME IInv PROVE WritersAreAlone
    OBVIOUS
  <2>1. CASE Writers = {}
    BY <2>1, FS_EmptySet DEF WritersAreAlone
  <2>2. CASE Writers # {}
    <3>1. PICK p \in Writers : Writers = {p}
      BY <2>2 DEF IInv, Alone
    <3> QED
      BY <3>1, FS_Singleton DEF WritersAreAlone, IInv, Alone
  <2> QED
    BY <2>1, <2>2
<1> QED
  BY <1>1, InitHolds, NextHolds, PTL DEF Spec

(* counter is what its name says, and the room is taken exactly while a    *)
(* goroutine is inside: no unlock finds its channel empty, and no writer   *)
(* waits for readers that have left (readSwitchLock, readSwitchUnlock).    *)
THEOREM RoomIsExact == Spec => [](engine = "go" => CounterExact /\ RoomTaken)
<1>1. IInv => (engine = "go" => CounterExact /\ RoomTaken)
  BY DEF IInv, GoInv
<1> QED
  BY <1>1, InitHolds, NextHolds, PTL DEF Spec

=============================================================================
