------------------------- MODULE HashMapRefinement -------------------------
(***************************************************************************)
(* Behind its locks the chain of a bucket is a map on which every call     *)
(* takes effect at one moment.  New nodes go to the end, so along the      *)
(* chain the nodes get younger: what a walk has passed is all that is      *)
(* linked and older than where it is, and what it has passed does not have *)
(* its key.  Writers being alone keeps that true for every walk.           *)
(***************************************************************************)
EXTENDS ConcurrentHashMapProofs, SequenceTheorems

PcLabel == {"idle", "count in", "enter room", "take room", "walk", "leave"}
AnyNode == [key : Key, value : Value, next : Nat]

CallTypes ==
  /\ todo \in [Proc -> Seq(Call)]
  /\ pc \in [Proc -> PcLabel]
  /\ \A p \in Proc : pc[p] # "idle" => todo[p] # <<>>

ResultTypes ==
  /\ DOMAIN result = Proc
  /\ \A p \in Proc : pc[p] # "leave" => result[p] = <<>>
  /\ \A p \in Proc : pc[p] = "leave" =>
       \E x \in IF IsRemove(p) THEN BOOLEAN ELSE Value \cup {Nil} : result[p] = <<x>>

ChainTypes ==
  /\ prev \in [Proc -> 0 .. Len(heap)] /\ curr \in [Proc -> 0 .. Len(heap)]
  /\ head \in 0 .. Len(heap)
  /\ heap \in Seq(AnyNode)
  /\ \A n \in DOMAIN heap : heap[n].next # 0 => heap[n].next \in n + 1 .. Len(heap)

LockTypes ==
  /\ engine \in {"go", "cpp"}
  /\ book \in [Proc -> {Nil} \cup Book]
  /\ {turnstile, readSwitch, room} \subseteq BOOLEAN
  /\ counter \in Nat
  /\ shared \subseteq Proc /\ exclusive \subseteq Proc

(* A call that misses adds two more, and is the only one that adds any.    *)
ProgramsFit ==
  \A p \in Proc :
    \/ Len(todo[p]) + 2 <= MaxCalls
    \/ Len(todo[p]) + 1 = MaxCalls /\ todo[p] # <<>> /\ OpOf(p) # "find"

Types == CallTypes /\ ResultTypes /\ ChainTypes /\ LockTypes /\ ProgramsFit

-----------------------------------------------------------------------------
(* A step of p as the chain and the calls see it: p gets nearer to the     *)
(* lock, has it, or gives it back.                                         *)
Approaches(p) ==
  /\ pc[p] \in {"idle", "count in"} /\ todo[p] # <<>>
  /\ \E label \in {"count in", "enter room", "take room"} : Goto(p, label)
  /\ UNCHANGED <<callVars, walkVars, chain>>

Begins(p) ==
  /\ pc[p] \in {"idle", "count in", "enter room", "take room"} /\ todo[p] # <<>>
  /\ BeginWalk(p)
  /\ UNCHANGED <<callVars, chain>>

Returns(p) == pc[p] = "leave" /\ Return(p)

LEMMA StepKinds ==
  ASSUME CallTypes, NEW p \in Proc, Step(p)
  PROVE  \/ Approaches(p) \/ Begins(p) \/ Visit(p)
         \/ EndGet(p) \/ EndSet(p) \/ EndRemove(p) \/ Returns(p)
<1> USE DEF Approaches, Begins, Returns, CallTypes
<1>1. CASE PassTurnstile(p)
  BY <1>1 DEF PassTurnstile, Idle
<1>2. CASE CountIn(p)
  BY <1>2 DEF CountIn
<1>3. CASE EnterRoom(p)
  BY <1>3 DEF EnterRoom
<1>4. CASE TakeTurnstile(p)
  BY <1>4 DEF TakeTurnstile, Idle
<1>5. CASE TakeRoom(p)
  BY <1>5 DEF TakeRoom
<1>6. CASE CountOut(p)
  BY <1>6 DEF CountOut, Leaves
<1>7. CASE ReleaseRoom(p)
  BY <1>7 DEF ReleaseRoom, Leaves
<1>8. CASE LockShared(p)
  BY <1>8 DEF LockShared, Idle
<1>9. CASE LockExclusive(p)
  BY <1>9 DEF LockExclusive, Idle
<1>10. CASE Unlock(p)
  BY <1>10 DEF Unlock, Leaves
<1> QED
  BY <1>1, <1>2, <1>3, <1>4, <1>5, <1>6, <1>7, <1>8, <1>9, <1>10
  DEF Step, GoLock

-----------------------------------------------------------------------------
(* Two calls before the others. *)
LEMMA TwoBefore ==
  ASSUME NEW S, NEW a \in S, NEW b \in S, NEW t \in Seq(S)
  PROVE  LET u == <<a, b>> \o t IN
           /\ u \in Seq(S) /\ Len(u) = Len(t) + 2
           /\ u[1] = a /\ u[2] = b
           /\ \A i \in 3 .. Len(u) : u[i] = t[i - 2]
OBVIOUS

(* What a process has still to call after it has returned from a call.     *)
LEMMA TodoAfterReturn ==
  ASSUME CallTypes, NEW p \in Proc, Returns(p)
  PROVE  \E t \in Seq(Call) :
           /\ todo' = [todo EXCEPT ![p] = t]
           /\ \/ /\ Missing(p) /\ Len(t) = Len(todo[p]) + 1
                 /\ t[1] = [op |-> "make", key |-> KeyOf(p)]
                 /\ t[2] = [op |-> "find again", key |-> KeyOf(p)]
                 /\ \A i \in 3 .. Len(t) : t[i] = todo[p][i - 1]
              \/ ~Missing(p) /\ t = todo[p]
              \/ /\ ~Missing(p) /\ Len(t) = Len(todo[p]) - 1
                 /\ \A i \in 1 .. Len(t) : t[i] = todo[p][i + 1]
<1> DEFINE s == todo[p]
           a == [op |-> "make", key |-> KeyOf(p)]
           b == [op |-> "find again", key |-> KeyOf(p)]
           u == <<a, b>> \o Tail(s)
<1>1. s \in Seq(Call) /\ s # <<>>
  BY DEF CallTypes, Returns
<1>2. /\ Tail(s) \in Seq(Call) /\ Len(s) \in Nat /\ Len(Tail(s)) = Len(s) - 1
      /\ \A i \in 1 .. Len(Tail(s)) : Tail(s)[i] = s[i + 1]
      /\ Head(s) \in Call
  BY <1>1, HeadTailProperties
<1>3. a \in Call /\ b \in Call
  BY <1>2 DEF Call, Op, KeyOf
<1>4. CASE Missing(p)
  <2>1. todo' = [todo EXCEPT ![p] = u]
    BY <1>4 DEF Returns, Return, Rest
  <2> HIDE DEF s, a, b
  <2>2. /\ u \in Seq(Call) /\ Len(u) = Len(Tail(s)) + 2
        /\ u[1] = a /\ u[2] = b
        /\ \A i \in 3 .. Len(u) : u[i] = Tail(s)[i - 2]
    BY <1>2, <1>3, TwoBefore
  <2> HIDE DEF u
  <2>3. \A i \in 3 .. Len(u) : u[i] = s[i - 1]
    BY <1>2, <2>2
  <2>4. Len(u) = Len(s) + 1
    BY <1>2, <2>2
  <2> QED
    BY <1>4, <2>1, <2>2, <2>3, <2>4 DEF s, a, b
<1>5. CASE ~Missing(p)
  <2>1. \/ todo' = [todo EXCEPT ![p] = s]
        \/ todo' = [todo EXCEPT ![p] = Tail(s)]
    BY <1>5 DEF Returns, Return, Rest
  <2> QED
    BY <1>1, <1>2, <1>5, <2>1
<1> QED
  BY <1>4, <1>5

LEMMA CallTypesHold ==
  ASSUME CallTypes, NEW p \in Proc, Step(p)
  PROVE  CallTypes'
<1>1. CASE Approaches(p)
  BY <1>1 DEF CallTypes, Approaches, Goto, callVars, PcLabel
<1>2. CASE Begins(p)
  BY <1>2 DEF CallTypes, Begins, BeginWalk, Goto, callVars, PcLabel
<1>3. CASE Visit(p)
  BY <1>3 DEF CallTypes, Visit, callVars
<1>4. CASE EndGet(p) \/ EndSet(p) \/ EndRemove(p)
  BY <1>4 DEF CallTypes, EndGet, EndSet, EndRemove, WalkEnds, EndWith, Goto, PcLabel
<1>5. CASE Returns(p)
  <2>1. PICK t \in Seq(Call) : todo' = [todo EXCEPT ![p] = t]
    BY <1>5, TodoAfterReturn
  <2>2. pc' = [pc EXCEPT ![p] = "idle"]
    BY <1>5 DEF Returns, Return, Goto
  <2> QED
    BY <2>1, <2>2 DEF CallTypes, PcLabel
<1> QED
  BY <1>1, <1>2, <1>3, <1>4, <1>5, StepKinds

(* Nobody else's call is disturbed. *)
LEMMA OthersCall ==
  ASSUME CallTypes, NEW p \in Proc, Step(p), NEW q \in Proc, q # p
  PROVE  /\ todo'[q] = todo[q] /\ pc'[q] = pc[q]
         /\ OpOf(q)' = OpOf(q) /\ KeyOf(q)' = KeyOf(q)
         /\ IsRead(q)' = IsRead(q) /\ IsSet(q)' = IsSet(q) /\ IsRemove(q)' = IsRemove(q)
<1>1. todo'[q] = todo[q] /\ pc'[q] = pc[q]
  <2>1. CASE Approaches(p) \/ Begins(p)
    BY <2>1 DEF CallTypes, Approaches, Begins, BeginWalk, Goto, callVars
  <2>2. CASE Visit(p) \/ EndGet(p) \/ EndSet(p) \/ EndRemove(p)
    BY <2>2 DEF CallTypes, Visit, EndGet, EndSet, EndRemove, EndWith, Goto, callVars
  <2>3. CASE Returns(p)
    BY <2>3 DEF CallTypes, Returns, Return, Goto
  <2> QED
    BY <2>1, <2>2, <2>3, StepKinds
<1> QED
  BY <1>1 DEF OpOf, KeyOf, IsRead, IsSet, IsRemove

(* Until it returns a call is what it was. *)
LEMMA SameCall ==
  ASSUME CallTypes, NEW p \in Proc, Step(p), ~Returns(p), NEW q \in Proc
  PROVE  /\ todo' = todo
         /\ OpOf(q)' = OpOf(q) /\ KeyOf(q)' = KeyOf(q)
         /\ IsRead(q)' = IsRead(q) /\ IsSet(q)' = IsSet(q) /\ IsRemove(q)' = IsRemove(q)
         /\ Mine(q)' = Mine(q)
<1>1. todo' = todo
  BY StepKinds DEF Approaches, Begins, Visit, EndGet, EndSet, EndRemove, EndWith, callVars
<1> QED
  BY <1>1 DEF OpOf, KeyOf, IsRead, IsSet, IsRemove, Mine

LEMMA ProgramsFitHolds ==
  ASSUME CallTypes, ProgramsFit, NEW p \in Proc, Step(p)
  PROVE  ProgramsFit'
<1>1. CASE ~Returns(p)
  BY <1>1, SameCall DEF ProgramsFit
<1>2. CASE Returns(p)
  <2>1. PICK t \in Seq(Call) :
           /\ todo' = [todo EXCEPT ![p] = t]
           /\ \/ /\ Missing(p) /\ Len(t) = Len(todo[p]) + 1
                 /\ t[1] = [op |-> "make", key |-> KeyOf(p)]
              \/ ~Missing(p) /\ t = todo[p]
              \/ ~Missing(p) /\ Len(t) = Len(todo[p]) - 1
    BY <1>2, TodoAfterReturn
  <2>2. /\ todo[p] \in Seq(Call) /\ todo'[p] = t
        /\ Len(todo[p]) \in Nat /\ Len(t) \in Nat /\ MaxCalls \in Nat
    BY <2>1, MapAssumption, LenProperties DEF CallTypes
  <2>3. \/ Len(t) + 2 <= MaxCalls
        \/ Len(t) + 1 = MaxCalls /\ t # <<>> /\ OpOf(p)' # "find"
    <3>1. CASE Missing(p)
      BY <2>1, <2>2, <3>1 DEF Missing, ProgramsFit, OpOf
    <3>2. CASE ~Missing(p) /\ t = todo[p]
      BY <2>1, <2>2, <3>2 DEF ProgramsFit, OpOf
    <3>3. CASE ~Missing(p) /\ Len(t) = Len(todo[p]) - 1
      BY <2>1, <2>2, <3>3 DEF ProgramsFit
    <3> QED
      BY <2>1, <3>1, <3>2, <3>3
  <2> QED
    BY <1>2, <2>2, <2>3, OthersCall DEF ProgramsFit
<1> QED
  BY <1>1, <1>2

-----------------------------------------------------------------------------
(* The chain is the least set that follows the links. *)
LEMMA LinkedIsLeast ==
  ChainTypes => /\ Linked \subseteq DOMAIN heap
                /\ FollowsLinks(Linked)
                /\ \A S \in SUBSET DOMAIN heap : FollowsLinks(S) => Linked \subseteq S
<1> SUFFICES ASSUME ChainTypes PROVE /\ FollowsLinks(Linked)
                                     /\ Linked \subseteq DOMAIN heap
  BY DEF Linked
<1>1. Linked \subseteq DOMAIN heap
  BY DEF Linked
<1>2. DOMAIN heap = 1 .. Len(heap) /\ Len(heap) \in Nat
  BY LenProperties DEF ChainTypes
<1>3. head # 0 => head \in DOMAIN heap
  BY <1>2 DEF ChainTypes
<1>4. \A n \in DOMAIN heap : heap[n].next # 0 => heap[n].next \in DOMAIN heap
  BY <1>2 DEF ChainTypes
<1> QED
  BY <1>1, <1>3, <1>4 DEF Linked, FollowsLinks

LEMMA LinkedIsLeastNext ==
  ASSUME ChainTypes'
  PROVE  /\ Linked' \subseteq DOMAIN heap'
         /\ FollowsLinks(Linked)'
         /\ \A S \in SUBSET DOMAIN heap' : FollowsLinks(S)' => Linked' \subseteq S
<1>1. (ChainTypes => /\ Linked \subseteq DOMAIN heap
                /\ FollowsLinks(Linked)
                /\ \A S \in SUBSET DOMAIN heap : FollowsLinks(S) => Linked \subseteq S)'
  BY LinkedIsLeast, PTL
<1> QED
  BY <1>1 DEF FollowsLinks

(* Along the chain the nodes get younger, and no two have one key. *)
ChainOrdered ==
  /\ \A m, n \in Linked : m < n => heap[m].next # 0 /\ heap[m].next <= n
  /\ \A m, n \in Linked : heap[m].key = heap[n].key => m = n

(* What a walk has passed is not its key, and all that is linked and older *)
(* than where it is.                                                       *)
WalkKnows ==
  \A p \in Proc : pc[p] = "walk" =>
    /\ prev[p] = 0 => curr[p] = head
    /\ prev[p] # 0 => prev[p] \in Linked /\ heap[prev[p]].next = curr[p]
    /\ \A n \in Linked : curr[p] = 0 \/ n < curr[p] => heap[n].key # KeyOf(p)

(* The first node is the oldest. *)
LEMMA HeadIsOldest ==
  ChainTypes => \A n \in Linked : head # 0 /\ head <= n
<1> SUFFICES ASSUME ChainTypes PROVE \A n \in Linked : head # 0 /\ head <= n
  OBVIOUS
<1> DEFINE S == {n \in DOMAIN heap : head # 0 /\ head <= n}
<1>1. DOMAIN heap = 1 .. Len(heap) /\ Len(heap) \in Nat
  BY LenProperties DEF ChainTypes
<1>2. FollowsLinks(S)
  BY <1>1 DEF ChainTypes, FollowsLinks
<1> QED
  BY <1>2, LinkedIsLeast

(* Where a walk is, and where it was, is in the chain. *)
LEMMA WalkIsOnChain ==
  ASSUME ChainTypes, WalkKnows, NEW p \in Proc, pc[p] = "walk"
  PROVE  curr[p] \in Linked \cup {0} /\ prev[p] \in Linked \cup {0}
BY LinkedIsLeast DEF WalkKnows, FollowsLinks

-----------------------------------------------------------------------------
(* A new node goes behind all others.                                      *)
Puts(p) == EndSet(p) /\ curr[p] = 0

LEMMA PutNodes ==
  ASSUME CallTypes, ChainTypes, ProgramsFit, NEW p \in Proc, Puts(p)
  PROVE  /\ Len(heap') = Len(heap) + 1
         /\ heap' \in Seq(AnyNode)
         /\ \A n \in DOMAIN heap :
              /\ heap'[n].key = heap[n].key /\ heap'[n].value = heap[n].value
              /\ heap'[n].next = IF n = prev[p] THEN Len(heap) + 1 ELSE heap[n].next
         /\ heap'[Len(heap) + 1].key = KeyOf(p)
         /\ heap'[Len(heap) + 1].value = Mine(p)
         /\ heap'[Len(heap) + 1].next = 0
         /\ head' = IF prev[p] = 0 THEN Len(heap) + 1 ELSE head
         /\ Mine(p) \in Value /\ KeyOf(p) \in Key
<1> DEFINE new == [key |-> KeyOf(p), value |-> Mine(p), next |-> 0]
           m == Len(heap) + 1
           linked == [heap EXCEPT ![prev[p]].next = m]
           base == IF prev[p] = 0 THEN heap ELSE linked
<1>1. head' = IF prev[p] = 0 THEN m ELSE head
  BY DEF Puts, EndSet, Put
<1>2. heap' = Append(base, new)
  BY DEF Puts, EndSet, Put
<1>3. heap \in Seq(AnyNode) /\ Len(heap) \in Nat /\ DOMAIN heap = 1 .. Len(heap)
      /\ \A n \in DOMAIN heap : heap[n] \in AnyNode
  BY LenProperties, ElementOfSeq DEF ChainTypes
<1>4. todo[p] \in Seq(Call) /\ todo[p] # <<>>
  BY DEF CallTypes, Puts, EndSet, WalkEnds
<1>5. /\ Head(todo[p]) \in Call /\ Len(todo[p]) \in Nat /\ Len(todo[p]) > 0
      /\ MaxCalls \in Nat
  BY <1>4, HeadTailProperties, EmptySeq, LenProperties, MapAssumption
<1>6. Mine(p) \in Value /\ KeyOf(p) \in Key
  BY <1>5 DEF Mine, Value, KeyOf, Call, ProgramsFit
<1>7. new \in AnyNode
  BY <1>6 DEF AnyNode
<1>8. base \in Seq(AnyNode) /\ Len(base) = Len(heap)
      /\ \A n \in DOMAIN heap :
              /\ base[n].key = heap[n].key /\ base[n].value = heap[n].value
              /\ base[n].next = IF n = prev[p] THEN m ELSE heap[n].next
  <2>1. CASE prev[p] = 0
    BY <1>3, <2>1
  <2>2. CASE prev[p] # 0
    <3>1. prev[p] \in DOMAIN heap
      BY <1>3, <2>2 DEF ChainTypes
    <3>2. base = [heap EXCEPT ![prev[p]] = [heap[prev[p]] EXCEPT !.next = m]]
      BY <2>2
    <3>3. [heap[prev[p]] EXCEPT !.next = m] \in AnyNode
      BY SMTT(30), <1>3, <3>1 DEF AnyNode
    <3> HIDE DEF base, m
    <3>4. base \in Seq(AnyNode) /\ Len(base) = Len(heap)
      BY <1>3, <3>1, <3>2, <3>3, ExceptSeq
    <3>5. \A n \in DOMAIN heap : base[n] =
            IF n = prev[p] THEN [heap[n] EXCEPT !.next = m] ELSE heap[n]
      BY <3>1, <3>2
    <3> QED
      BY <1>3, <3>4, <3>5 DEF AnyNode
  <2> QED
    BY <2>1, <2>2
<1> HIDE DEF base, new
<1>9. /\ heap' \in Seq(AnyNode) /\ Len(heap') = Len(base) + 1
      /\ \A n \in 1 .. Len(base) : heap'[n] = base[n]
      /\ heap'[Len(base) + 1] = new
  BY <1>2, <1>7, <1>8, AppendProperties
<1> QED
  BY <1>1, <1>3, <1>6, <1>8, <1>9 DEF new

LEMMA PutTypes ==
  ASSUME CallTypes, ChainTypes, ProgramsFit, NEW p \in Proc, Puts(p)
  PROVE  ChainTypes'
<1>1. /\ Len(heap) \in Nat /\ DOMAIN heap = 1 .. Len(heap)
      /\ DOMAIN heap' = 1 .. Len(heap) + 1 /\ Len(heap') = Len(heap) + 1
  BY LenProperties, PutNodes DEF ChainTypes
<1>2. prev' = prev /\ curr' = curr
  BY DEF Puts, EndSet, EndWith, walkVars
<1>3. \A n \in DOMAIN heap' : heap'[n].next # 0 => heap'[n].next \in n + 1 .. Len(heap')
  <2> SUFFICES ASSUME NEW n \in DOMAIN heap', heap'[n].next # 0
               PROVE  heap'[n].next \in n + 1 .. Len(heap')
    OBVIOUS
  <2>1. heap'[Len(heap) + 1].next = 0
    BY PutNodes
  <2>2. n \in 1 .. Len(heap)
    BY <1>1, <2>1
  <2>3. \/ heap'[n].next = Len(heap) + 1
        \/ heap'[n].next = heap[n].next
    BY <1>1, <2>2, PutNodes
  <2> QED
    BY <1>1, <2>2, <2>3 DEF ChainTypes
<1>4. prev' \in [Proc -> 0 .. Len(heap')] /\ curr' \in [Proc -> 0 .. Len(heap')]
  <2>1. 0 .. Len(heap) \subseteq 0 .. Len(heap')
    BY <1>1
  <2> QED
    BY <1>2, <2>1 DEF ChainTypes
<1>6. head' \in 0 .. Len(heap')
  <2>1. head' = Len(heap) + 1 \/ head' = head
    BY PutNodes
  <2> QED
    BY <1>1, <2>1 DEF ChainTypes
<1>5. heap' \in Seq(AnyNode)
  BY PutNodes
<1> QED
  BY <1>3, <1>4, <1>5, <1>6 DEF ChainTypes

LEMMA PutLinks ==
  ASSUME CallTypes, ChainTypes, ProgramsFit, ChainOrdered, WalkKnows,
         NEW p \in Proc, Puts(p)
  PROVE  Linked' = Linked \cup {Len(heap) + 1}
<1> DEFINE m == Len(heap) + 1
<1>1. ChainTypes'
  BY PutTypes
<1>2. /\ Len(heap) \in Nat /\ DOMAIN heap = 1 .. Len(heap)
      /\ DOMAIN heap' = 1 .. m
  BY LenProperties, PutNodes DEF ChainTypes
<1>3. pc[p] = "walk" /\ curr[p] = 0 /\ prev[p] \in 0 .. Len(heap)
  BY DEF Puts, EndSet, WalkEnds, ChainTypes
<1>4. prev[p] = 0 => Linked = {}
  BY <1>3, HeadIsOldest DEF WalkKnows
<1>5. prev[p] # 0 => prev[p] \in Linked /\ heap[prev[p]].next = 0 /\ head # 0
  BY <1>3, HeadIsOldest DEF WalkKnows
<1>6. Linked \subseteq DOMAIN heap /\ FollowsLinks(Linked)
  BY LinkedIsLeast
<1>7. /\ \A n \in DOMAIN heap :
           heap'[n].next = IF n = prev[p] THEN m ELSE heap[n].next
      /\ heap'[m].next = 0
      /\ head' = IF prev[p] = 0 THEN m ELSE head
  BY PutNodes
<1>8. Linked' \subseteq Linked \cup {m}
  <2>1. PICK S : S = Linked \cup {m}
    OBVIOUS
  <2>2. head' # 0 => head' \in S
    BY <1>6, <1>7, <2>1 DEF FollowsLinks
  <2>3. \A n \in S : heap'[n].next # 0 => heap'[n].next \in S
    BY <1>6, <1>7, <2>1 DEF FollowsLinks
  <2>4. FollowsLinks(S)'
    BY <2>2, <2>3 DEF FollowsLinks
  <2>5. S \subseteq DOMAIN heap'
    BY <1>2, <1>6, <2>1
  <2> QED
    BY <1>1, <2>1, <2>4, <2>5, LinkedIsLeastNext
<1>9. FollowsLinks(Linked)' /\ Linked' \subseteq 1 .. m
  BY <1>1, <1>2, LinkedIsLeastNext
<1>10. FollowsLinks(Linked' \ {m})
  <2>1. head # 0 => head \in Linked' \ {m}
    <3> SUFFICES ASSUME head # 0 PROVE head \in Linked' \ {m}
      OBVIOUS
    <3>1. head \in Linked /\ head # m
      BY <1>2, <1>6 DEF FollowsLinks, ChainTypes
    <3>2. head' = head
      BY <1>4, <1>7, <3>1
    <3> QED
      BY <1>9, <3>1, <3>2 DEF FollowsLinks
  <2>2. \A n \in Linked' \ {m} : heap[n].next # 0 => heap[n].next \in Linked' \ {m}
    <3> SUFFICES ASSUME NEW n \in Linked' \ {m}, heap[n].next # 0
                 PROVE  heap[n].next \in Linked' \ {m}
      OBVIOUS
    <3>1. n \in DOMAIN heap /\ n # prev[p]
      BY <1>2, <1>3, <1>5, <1>9
    <3>2. heap'[n].next = heap[n].next /\ heap[n].next \in n + 1 .. Len(heap)
      BY <1>7, <3>1 DEF ChainTypes
    <3> QED
      BY <1>2, <1>9, <3>2 DEF FollowsLinks
  <2> QED
    BY <2>1, <2>2 DEF FollowsLinks
<1>11. Linked \subseteq Linked' \ {m}
  <2>1. \A n \in Linked' \ {m} : n \in DOMAIN heap
    BY <1>2, <1>9
  <2> QED
    BY <1>10, <2>1, LinkedIsLeast
<1>12. m \in Linked'
  <2>1. CASE prev[p] = 0
    BY <1>2, <1>7, <1>9, <2>1 DEF FollowsLinks
  <2>2. CASE prev[p] # 0
    <3>1. prev[p] \in Linked' /\ prev[p] \in DOMAIN heap
      BY <1>5, <1>6, <1>11, <2>2
    <3>2. heap'[prev[p]].next = m
      BY <1>7, <3>1
    <3> QED
      BY <1>2, <1>9, <3>1, <3>2 DEF FollowsLinks
  <2> QED
    BY <2>1, <2>2
<1> QED
  BY <1>8, <1>11, <1>12

LEMMA PutOrder ==
  ASSUME CallTypes, ChainTypes, ProgramsFit, ChainOrdered, WalkKnows,
         NEW p \in Proc, Puts(p)
  PROVE  ChainOrdered'
<1> DEFINE m == Len(heap) + 1
<1>1. /\ \A n \in DOMAIN heap : heap'[n].key = heap[n].key
      /\ \A n \in DOMAIN heap :
           heap'[n].next = IF n = prev[p] THEN m ELSE heap[n].next
      /\ heap'[m].key = KeyOf(p)
  BY PutNodes
<1>2. /\ Linked' = Linked \cup {m} /\ Linked \subseteq DOMAIN heap
      /\ DOMAIN heap = 1 .. Len(heap) /\ Len(heap) \in Nat
  BY PutLinks, LinkedIsLeast, LenProperties DEF ChainTypes
<1>3. pc[p] = "walk" /\ curr[p] = 0 /\ prev[p] \in 0 .. Len(heap)
  BY DEF Puts, EndSet, WalkEnds, ChainTypes
<1>4. \A n \in Linked : heap[n].key # KeyOf(p) /\ prev[p] # 0
  BY <1>3, HeadIsOldest DEF WalkKnows
<1>5. prev[p] # 0 => prev[p] \in Linked /\ heap[prev[p]].next = 0
  BY <1>3 DEF WalkKnows
<1>6. \A i, n \in Linked : i < n => heap[i].next # 0 /\ heap[i].next <= n
  BY DEF ChainOrdered
<1>7. \A i, n \in Linked' : i < n => heap'[i].next # 0 /\ heap'[i].next <= n
  <2> SUFFICES ASSUME NEW i \in Linked', NEW n \in Linked', i < n
               PROVE  heap'[i].next # 0 /\ heap'[i].next <= n
    OBVIOUS
  <2>1. i \in Linked /\ i \in DOMAIN heap
    BY <1>2
  <2>2. CASE i = prev[p]
    <3>1. n = m
      BY <1>2, <1>4, <1>5, <1>6, <2>1, <2>2
    <3> QED
      BY <1>1, <1>2, <2>1, <2>2, <3>1
  <2>3. CASE i # prev[p] /\ n \in Linked
    BY <1>1, <1>6, <2>1, <2>3
  <2>4. CASE i # prev[p] /\ n = m
    <3>1. i < prev[p] /\ prev[p] \in Linked
      BY <1>2, <1>3, <1>4, <1>5, <1>6, <2>1, <2>4
    <3>2. heap[i].next # 0 /\ heap[i].next <= prev[p] /\ heap[i].next \in Nat
      BY <1>2, <1>6, <2>1, <3>1 DEF ChainTypes
    <3> QED
      BY <1>1, <1>2, <2>1, <2>4, <3>2, <1>3
  <2> QED
    BY <1>2, <2>2, <2>3, <2>4
<1>8. \A i, n \in Linked' : heap'[i].key = heap'[n].key => i = n
  BY <1>1, <1>2, <1>4 DEF ChainOrdered
<1> QED
  BY <1>7, <1>8 DEF ChainOrdered

-----------------------------------------------------------------------------
(* A node is taken out of the chain.                                       *)
Takes(p) == EndRemove(p) /\ curr[p] # 0

LEMMA TakeNodes ==
  ASSUME ChainTypes, WalkKnows, NEW p \in Proc, Takes(p)
  PROVE  /\ pc[p] = "walk" /\ curr[p] \in Linked /\ heap[curr[p]].key = KeyOf(p)
         /\ DOMAIN heap' = DOMAIN heap /\ Len(heap') = Len(heap)
         /\ heap' \in Seq(AnyNode)
         /\ \A n \in DOMAIN heap :
              /\ heap'[n].key = heap[n].key /\ heap'[n].value = heap[n].value
              /\ heap'[n].next = IF n = prev[p] THEN heap[curr[p]].next ELSE heap[n].next
         /\ head' = IF prev[p] = 0 THEN heap[curr[p]].next ELSE head
<1> DEFINE m == heap[curr[p]].next
<1>1. pc[p] = "walk" /\ curr[p] # 0 /\ heap[curr[p]].key = KeyOf(p)
  BY DEF Takes, EndRemove, WalkEnds, AtKey
<1>2. curr[p] \in Linked /\ curr[p] \in DOMAIN heap
  BY <1>1, WalkIsOnChain, LinkedIsLeast
<1>3. /\ heap \in Seq(AnyNode) /\ Len(heap) \in Nat /\ DOMAIN heap = 1 .. Len(heap)
      /\ \A n \in DOMAIN heap : heap[n] \in AnyNode
  BY LenProperties, ElementOfSeq DEF ChainTypes
<1>4. CASE prev[p] = 0
  BY <1>1, <1>2, <1>3, <1>4 DEF Takes, EndRemove, Unlink
<1>5. CASE prev[p] # 0
  <2>1. prev[p] \in DOMAIN heap
    BY <1>3, <1>5 DEF ChainTypes
  <2>2. /\ heap' = [heap EXCEPT ![prev[p]] = [heap[prev[p]] EXCEPT !.next = m]]
        /\ head' = head
    BY <1>1, <1>5 DEF Takes, EndRemove, Unlink
  <2>3. [heap[prev[p]] EXCEPT !.next = m] \in AnyNode
    BY <1>2, <1>3, <2>1 DEF AnyNode
  <2> HIDE DEF m
  <2>4. heap' \in Seq(AnyNode) /\ Len(heap') = Len(heap)
    BY <1>3, <2>1, <2>2, <2>3, ExceptSeq
  <2>5. DOMAIN heap' = DOMAIN heap
    BY <2>2
  <2>6. \A n \in DOMAIN heap : heap'[n] =
            IF n = prev[p] THEN [heap[n] EXCEPT !.next = m] ELSE heap[n]
      BY <2>1, <2>2
  <2> QED
    BY <1>1, <1>2, <1>3, <1>5, <2>2, <2>4, <2>5, <2>6 DEF AnyNode, m
<1> QED
  BY <1>4, <1>5

LEMMA TakeTypes ==
  ASSUME ChainTypes, WalkKnows, NEW p \in Proc, Takes(p)
  PROVE  ChainTypes'
<1>1. /\ Len(heap) \in Nat /\ DOMAIN heap = 1 .. Len(heap)
      /\ DOMAIN heap' = 1 .. Len(heap) /\ Len(heap') = Len(heap)
      /\ Linked \subseteq DOMAIN heap
  BY LenProperties, TakeNodes, LinkedIsLeast DEF ChainTypes
<1>2. prev' = prev /\ curr' = curr
  BY DEF Takes, EndRemove, EndWith, walkVars
<1>3. /\ \A n \in DOMAIN heap :
           heap'[n].next = IF n = prev[p] THEN heap[curr[p]].next ELSE heap[n].next
      /\ head' = IF prev[p] = 0 THEN heap[curr[p]].next ELSE head
      /\ curr[p] \in Linked /\ pc[p] = "walk"
      /\ heap' \in Seq(AnyNode)
  BY TakeNodes
<1>4. heap[curr[p]].next # 0 => heap[curr[p]].next \in curr[p] + 1 .. Len(heap)
  BY <1>1, <1>3 DEF ChainTypes
<1>5. curr[p] \in 1 .. Len(heap)
  BY <1>1, <1>3
<1>6. prev[p] # 0 => prev[p] \in DOMAIN heap /\ heap[prev[p]].next = curr[p]
  BY <1>1, <1>3 DEF WalkKnows
<1>7. prev[p] # 0 => prev[p] < curr[p]
  BY <1>1, <1>5, <1>6 DEF ChainTypes
<1>8. \A n \in DOMAIN heap' : heap'[n].next # 0 => heap'[n].next \in n + 1 .. Len(heap')
  <2> SUFFICES ASSUME NEW n \in 1 .. Len(heap), heap'[n].next # 0
               PROVE  heap'[n].next \in n + 1 .. Len(heap)
    BY <1>1
  <2>1. CASE n = prev[p]
    <3>1. heap'[n].next = heap[curr[p]].next
      BY <1>1, <1>3, <2>1
    <3>2. n < curr[p]
      BY <1>7, <2>1
    <3> QED
      BY <1>1, <1>4, <1>5, <3>1, <3>2
  <2>2. CASE n # prev[p]
    BY <1>1, <1>3, <2>2 DEF ChainTypes
  <2> QED
    BY <2>1, <2>2
<1>9. head' \in 0 .. Len(heap')
  BY <1>1, <1>3, <1>4, <1>5 DEF ChainTypes
<1> QED
  BY <1>1, <1>2, <1>3, <1>8, <1>9 DEF ChainTypes

LEMMA TakeLinks ==
  ASSUME ChainTypes, ChainOrdered, WalkKnows, NEW p \in Proc, Takes(p)
  PROVE  Linked' = Linked \ {curr[p]}
<1> DEFINE c == curr[p]
<1>1. ChainTypes'
  BY TakeTypes
<1>2. /\ Len(heap) \in Nat /\ DOMAIN heap = 1 .. Len(heap)
      /\ DOMAIN heap' = DOMAIN heap
      /\ Linked \subseteq DOMAIN heap /\ FollowsLinks(Linked)
  BY LenProperties, TakeNodes, LinkedIsLeast DEF ChainTypes
<1>3. /\ \A n \in DOMAIN heap :
           heap'[n].next = IF n = prev[p] THEN heap[c].next ELSE heap[n].next
      /\ head' = IF prev[p] = 0 THEN heap[c].next ELSE head
      /\ c \in Linked /\ pc[p] = "walk"
  BY TakeNodes
<1>4. /\ prev[p] = 0 => c = head
      /\ prev[p] # 0 => prev[p] \in Linked /\ heap[prev[p]].next = c
  BY <1>3 DEF WalkKnows
<1>5. head # 0 /\ \A n \in Linked : head <= n
  BY <1>3, HeadIsOldest
<1>6. heap[c].next # 0 => heap[c].next \in Linked /\ heap[c].next > c
  BY <1>2, <1>3 DEF FollowsLinks, ChainTypes
<1>7. \A n \in Linked : heap[n].next = c => n < c /\ n = prev[p]
  <2> SUFFICES ASSUME NEW n \in Linked, heap[n].next = c PROVE n < c /\ n = prev[p]
    OBVIOUS
  <2>1. n < c /\ c \in Nat /\ n \in Nat /\ c # 0
    BY <1>2, <1>3 DEF ChainTypes
  <2>2. head < c
    BY <1>2, <1>3, <1>5, <2>1 DEF ChainTypes
  <2>3. prev[p] \in Linked /\ heap[prev[p]].next = c /\ prev[p] \in Nat
    <3>1. prev[p] # 0
      BY <1>4, <2>1, <2>2
    <3> QED
      BY <1>2, <1>4, <3>1
  <2>4. ~(n < prev[p]) /\ ~(prev[p] < n)
    BY <1>2, <2>1, <2>3 DEF ChainOrdered, ChainTypes
  <2> QED
    BY <2>1, <2>3, <2>4
<1>8. prev[p] # 0 => head # c /\ prev[p] # c /\ prev[p] < c
  BY <1>2, <1>3, <1>4, <1>5, <1>7 DEF ChainTypes
<1>9. Linked' \subseteq Linked \ {c}
  <2>1. PICK S : S = Linked \ {c}
    OBVIOUS
  <2>2. head' # 0 => head' \in S
    <3>1. CASE prev[p] = 0
      BY <1>2, <1>3, <1>6, <2>1, <3>1
    <3>2. CASE prev[p] # 0
      BY <1>2, <1>3, <1>5, <1>8, <2>1, <3>2 DEF FollowsLinks
    <3> QED
      BY <3>1, <3>2
  <2>3. \A n \in S : heap'[n].next # 0 => heap'[n].next \in S
    <3> SUFFICES ASSUME NEW n \in S, heap'[n].next # 0 PROVE heap'[n].next \in S
      OBVIOUS
    <3>1. n \in Linked /\ n # c /\ n \in DOMAIN heap
      BY <1>2, <2>1
    <3>2. CASE n = prev[p]
      BY <1>2, <1>3, <1>6, <2>1, <3>1, <3>2
    <3>3. CASE n # prev[p]
      BY <1>2, <1>3, <1>7, <2>1, <3>1, <3>3 DEF FollowsLinks
    <3> QED
      BY <3>2, <3>3
  <2>4. FollowsLinks(S)'
    BY <2>2, <2>3 DEF FollowsLinks
  <2>5. S \subseteq DOMAIN heap'
    BY <1>2, <2>1
  <2> QED
    BY <1>1, <2>1, <2>4, <2>5, LinkedIsLeastNext
<1>10. FollowsLinks(Linked)' /\ Linked' \subseteq DOMAIN heap
  BY <1>1, <1>2, LinkedIsLeastNext
<1>11. prev[p] # 0 => prev[p] \in Linked'
  <2> SUFFICES ASSUME prev[p] # 0, prev[p] \notin Linked' PROVE FALSE
    OBVIOUS
  <2>1. FollowsLinks(Linked')
    BY <1>2, <1>3, <1>10 DEF FollowsLinks
  <2> QED
    BY <1>4, <1>10, <2>1, LinkedIsLeast
<1>12. FollowsLinks(Linked' \cup {c})
  <2>1. head \in Linked' \cup {c}
    BY <1>3, <1>4, <1>5, <1>10 DEF FollowsLinks
  <2>2. \A n \in Linked' : heap[n].next # 0 => heap[n].next \in Linked' \cup {c}
    BY <1>2, <1>3, <1>4, <1>10 DEF FollowsLinks
  <2>3. heap[c].next # 0 => heap[c].next \in Linked'
    <3>1. CASE prev[p] = 0
      BY <1>3, <1>10, <3>1 DEF FollowsLinks
    <3>2. CASE prev[p] # 0
      BY <1>2, <1>3, <1>4, <1>10, <1>11, <3>2 DEF FollowsLinks
    <3> QED
      BY <3>1, <3>2
  <2> QED
    BY <2>1, <2>2, <2>3 DEF FollowsLinks
<1>13. Linked \subseteq Linked' \cup {c}
  BY <1>2, <1>3, <1>10, <1>12, LinkedIsLeast
<1> QED
  BY <1>9, <1>13

LEMMA TakeOrder ==
  ASSUME ChainTypes, ChainOrdered, WalkKnows, NEW p \in Proc, Takes(p)
  PROVE  ChainOrdered'
<1> DEFINE c == curr[p]
<1>1. /\ \A n \in DOMAIN heap :
           /\ heap'[n].key = heap[n].key
           /\ heap'[n].next = IF n = prev[p] THEN heap[c].next ELSE heap[n].next
      /\ c \in Linked /\ pc[p] = "walk"
  BY TakeNodes
<1>2. /\ Linked' = Linked \ {c} /\ Linked \subseteq DOMAIN heap
      /\ DOMAIN heap = 1 .. Len(heap) /\ Len(heap) \in Nat
  BY TakeLinks, LinkedIsLeast, LenProperties DEF ChainTypes
<1>3. prev[p] # 0 => prev[p] \in Linked /\ heap[prev[p]].next = c
  BY <1>1 DEF WalkKnows
<1>4. \A i, n \in Linked' : i < n => heap'[i].next # 0 /\ heap'[i].next <= n
  <2> SUFFICES ASSUME NEW i \in Linked', NEW n \in Linked', i < n
               PROVE  heap'[i].next # 0 /\ heap'[i].next <= n
    OBVIOUS
  <2>1. i \in Linked /\ n \in Linked /\ n # c /\ i \in DOMAIN heap
    BY <1>2
  <2>2. heap[i].next # 0 /\ heap[i].next <= n
    BY <2>1 DEF ChainOrdered
  <2>3. CASE i # prev[p]
    BY <1>1, <2>1, <2>2, <2>3
  <2>4. CASE i = prev[p]
    <3>1. c < n
      BY <1>2, <1>3, <2>1, <2>2, <2>4, <1>1
    <3>2. heap[c].next # 0 /\ heap[c].next <= n
      BY <1>1, <2>1, <3>1 DEF ChainOrdered
    <3> QED
      BY <1>1, <2>1, <2>4, <3>2
  <2> QED
    BY <2>3, <2>4
<1>5. \A i, n \in Linked' : heap'[i].key = heap'[n].key => i = n
  BY <1>1, <1>2 DEF ChainOrdered
<1> QED
  BY <1>4, <1>5 DEF ChainOrdered

-----------------------------------------------------------------------------
(* The chain changes only where a call puts a node or takes one out, and   *)
(* then nobody else is inside.                                             *)
LEMMA ChainSteps ==
  ASSUME CallTypes, NEW p \in Proc, Step(p)
  PROVE  UNCHANGED chain \/ Puts(p) \/ Takes(p)
<1>1. CASE Approaches(p) \/ Begins(p) \/ Visit(p) \/ EndGet(p) \/ Returns(p)
  BY <1>1 DEF Approaches, Begins, Visit, EndGet, Returns, Return, chain
<1>2. CASE EndSet(p)
  BY <1>2 DEF EndSet, Keep, Puts
<1>3. CASE EndRemove(p)
  BY <1>3 DEF EndRemove, Takes
<1> QED
  BY <1>1, <1>2, <1>3, StepKinds

LEMMA SameChain == UNCHANGED chain => Linked' = Linked /\ heap' = heap /\ head' = head
BY DEF chain, Linked, FollowsLinks

LEMMA NobodyElseInside ==
  ASSUME IInv, NEW p \in Proc, EndSet(p) \/ EndRemove(p), NEW q \in Proc, q # p
  PROVE  pc[q] # "walk" /\ pc[q] # "leave"
<1>1. pc[p] = "walk" /\ ~IsRead(p)
  BY DEF EndSet, EndRemove, WalkEnds, IsRead
<1>2. p \in Writers
  BY <1>1 DEF Writers
<1>3. q \notin Readers /\ q \notin Writers
  BY <1>2 DEF IInv, Alone
<1> QED
  BY <1>3 DEF Readers, Writers

LEMMA ChainTypesHold ==
  ASSUME CallTypes, ChainTypes, ProgramsFit, WalkKnows, NEW p \in Proc, Step(p)
  PROVE  ChainTypes'
<1>1. Len(heap) \in Nat /\ DOMAIN heap = 1 .. Len(heap)
  BY LenProperties DEF ChainTypes
<1>2. CASE Puts(p)
  BY <1>2, PutTypes
<1>3. CASE Takes(p)
  BY <1>3, TakeTypes
<1>4. CASE UNCHANGED chain
  <2>1. prev' \in [Proc -> 0 .. Len(heap)] /\ curr' \in [Proc -> 0 .. Len(heap)]
    <3>1. CASE Approaches(p)
      BY <3>1 DEF ChainTypes, Approaches, walkVars
    <3>2. CASE Begins(p)
      <4>1. prev' = [prev EXCEPT ![p] = 0] /\ curr' = [curr EXCEPT ![p] = head]
        BY <3>2 DEF Begins, BeginWalk
      <4> QED
        BY <1>1, <4>1 DEF ChainTypes
    <3>3. CASE Visit(p)
      <4>1. curr[p] \in DOMAIN heap
        BY <1>1, <3>3 DEF Visit, ChainTypes
      <4>2. heap[curr[p]].next \in 0 .. Len(heap)
        <5>1. CASE heap[curr[p]].next = 0
          BY <1>1, <5>1
        <5>2. CASE heap[curr[p]].next # 0
          BY <1>1, <4>1, <5>2 DEF ChainTypes
        <5> QED
          BY <5>1, <5>2
      <4> QED
        BY <3>3, <4>2 DEF Visit, ChainTypes
    <3>4. CASE EndGet(p) \/ EndSet(p) \/ EndRemove(p)
      BY <3>4 DEF ChainTypes, EndGet, EndSet, EndRemove, EndWith, walkVars
    <3>5. CASE Returns(p)
      <4>1. prev' = [prev EXCEPT ![p] = 0] /\ curr' = [curr EXCEPT ![p] = 0]
        BY <3>5 DEF Returns, Return
      <4> QED
        BY <1>1, <4>1 DEF ChainTypes
    <3> QED
      BY <3>1, <3>2, <3>3, <3>4, <3>5, StepKinds
  <2> QED
    BY <1>4, <2>1 DEF ChainTypes, chain
<1> QED
  BY <1>2, <1>3, <1>4, ChainSteps

LEMMA ChainOrderedHolds ==
  ASSUME CallTypes, ChainTypes, ProgramsFit, ChainOrdered, WalkKnows,
         NEW p \in Proc, Step(p)
  PROVE  ChainOrdered'
<1>1. CASE UNCHANGED chain
  BY <1>1, SameChain DEF ChainOrdered
<1> QED
  BY <1>1, ChainSteps, PutOrder, TakeOrder

LEMMA WalkKnowsHolds ==
  ASSUME IInv, CallTypes, ChainTypes, ChainOrdered, WalkKnows, NEW p \in Proc, Step(p)
  PROVE  WalkKnows'
<1>1. CASE Puts(p) \/ Takes(p)
  <2>1. \A q \in Proc : pc'[q] # "walk"
    <3> SUFFICES ASSUME NEW q \in Proc PROVE pc'[q] # "walk"
      OBVIOUS
    <3>1. CASE q = p
      BY <1>1, <3>1 DEF Puts, Takes, EndSet, EndRemove, EndWith, Goto, CallTypes
    <3>2. CASE q # p
      BY <1>1, <3>2, NobodyElseInside, OthersCall DEF Puts, Takes
    <3> QED
      BY <3>1, <3>2
  <2> QED
    BY <2>1 DEF WalkKnows
<1>2. CASE UNCHANGED chain
  <2> SUFFICES ASSUME NEW q \in Proc, pc'[q] = "walk"
               PROVE  /\ prev'[q] = 0 => curr'[q] = head
                      /\ prev'[q] # 0 => prev'[q] \in Linked /\ heap[prev'[q]].next = curr'[q]
                      /\ \A n \in Linked : curr'[q] = 0 \/ n < curr'[q]
                           => heap[n].key # KeyOf(q)'
    BY <1>2, SameChain DEF WalkKnows
  <2>1. CASE q # p
    <3>1. prev'[q] = prev[q] /\ curr'[q] = curr[q]
      <4>1. CASE Approaches(p) \/ Begins(p) \/ Visit(p)
        BY <2>1, <4>1 DEF Approaches, Begins, BeginWalk, Visit, walkVars, ChainTypes
      <4>2. CASE EndGet(p) \/ EndSet(p) \/ EndRemove(p) \/ Returns(p)
        BY <2>1, <4>2
        DEF EndGet, EndSet, EndRemove, EndWith, Returns, Return, walkVars, ChainTypes
      <4> QED
        BY <4>1, <4>2, StepKinds
    <3> QED
      BY <2>1, <3>1, OthersCall DEF WalkKnows
  <2>2. CASE q = p /\ Begins(p)
    <3>1. prev'[q] = 0 /\ curr'[q] = head
      BY <2>2 DEF Begins, BeginWalk, ChainTypes
    <3>2. \A n \in Linked : head # 0 /\ ~(n < head)
      BY HeadIsOldest, LinkedIsLeast, LenProperties DEF ChainTypes
    <3> QED
      BY <3>1, <3>2
  <2>3. CASE q = p /\ Visit(p)
    <3>1. /\ prev'[q] = curr[p] /\ curr'[q] = heap[curr[p]].next
          /\ curr[p] # 0 /\ heap[curr[p]].key # KeyOf(p) /\ pc[p] = "walk"
      BY <2>3 DEF Visit, AtKey, ChainTypes
    <3>2. KeyOf(q)' = KeyOf(p)
      BY <2>3 DEF Visit, callVars, KeyOf
    <3>3. /\ curr[p] \in Linked /\ Linked \subseteq DOMAIN heap
          /\ DOMAIN heap = 1 .. Len(heap) /\ Len(heap) \in Nat
      BY <3>1, WalkIsOnChain, LinkedIsLeast, LenProperties DEF ChainTypes
    <3>4. \A n \in Linked : heap[curr[p]].next = 0 \/ n < heap[curr[p]].next
                              => heap[n].key # KeyOf(p)
      <4> SUFFICES ASSUME NEW n \in Linked,
                          heap[curr[p]].next = 0 \/ n < heap[curr[p]].next
                   PROVE  heap[n].key # KeyOf(p)
        OBVIOUS
      <4>1. ~(curr[p] < n)
        <5>1. CASE heap[curr[p]].next = 0
          BY <3>3, <5>1 DEF ChainOrdered
        <5>2. CASE heap[curr[p]].next # 0
          <6>1. heap[curr[p]].next \in Nat
            BY <3>3, <5>2 DEF ChainTypes
          <6> QED
            BY <3>3, <5>2, <6>1 DEF ChainOrdered
        <5> QED
          BY <5>1, <5>2
      <4>2. n = curr[p] \/ n < curr[p]
        BY <3>3, <4>1
      <4> QED
        BY <3>1, <4>2 DEF WalkKnows
    <3> QED
      BY <3>1, <3>2, <3>3, <3>4
  <2>4. CASE q = p /\ ~Begins(p) /\ ~Visit(p)
    BY <2>4, StepKinds
    DEF Approaches, EndGet, EndSet, EndRemove, EndWith, Returns, Return, Goto, CallTypes
  <2> QED
    BY <2>1, <2>2, <2>3, <2>4
<1> QED
  BY <1>1, <1>2, ChainSteps

-----------------------------------------------------------------------------
(* The answers. *)
LEMMA EndAnswers ==
  ASSUME CallTypes, ChainTypes, WalkKnows, NEW p \in Proc,
         EndGet(p) \/ EndSet(p) \/ EndRemove(p)
  PROVE  \E x \in IF IsRemove(p) THEN BOOLEAN ELSE Value \cup {Nil} :
           /\ EndWith(p, x)
           /\ EndSet(p) => x = Nil
           /\ EndRemove(p) => x = (curr[p] # 0)
           /\ EndGet(p) => x = IF curr[p] = 0 THEN Nil ELSE heap[curr[p]].value
<1>1. pc[p] = "walk"
  BY DEF EndGet, EndSet, EndRemove, WalkEnds
<1>2. curr[p] # 0 => heap[curr[p]].value \in Value
  <2> SUFFICES ASSUME curr[p] # 0 PROVE heap[curr[p]].value \in Value
    OBVIOUS
  <2>1. curr[p] \in DOMAIN heap
    BY <1>1, WalkIsOnChain, LinkedIsLeast
  <2>2. heap[curr[p]] \in AnyNode
    BY <2>1, LenProperties, ElementOfSeq DEF ChainTypes
  <2> QED
    BY <2>2 DEF AnyNode
<1>3. CASE EndGet(p)
  BY <1>2, <1>3 DEF EndGet, EndSet, EndRemove, IsRead
<1>4. CASE EndSet(p)
  <2>1. EndWith(p, Nil) /\ ~IsRemove(p) /\ ~EndGet(p) /\ ~EndRemove(p)
    BY <1>4 DEF EndGet, EndSet, EndRemove, IsRead, IsSet, IsRemove
  <2> QED
    BY <2>1
<1>5. CASE EndRemove(p)
  <2>1. /\ EndWith(p, curr[p] # 0) /\ IsRemove(p) /\ ~EndGet(p) /\ ~EndSet(p)
        /\ (curr[p] # 0) \in BOOLEAN
    BY <1>5 DEF EndGet, EndSet, EndRemove, IsRead, IsSet, IsRemove
  <2> QED
    BY <2>1
<1> QED
  BY <1>3, <1>4, <1>5

LEMMA ResultTypesHold ==
  ASSUME CallTypes, ChainTypes, WalkKnows, ResultTypes, NEW p \in Proc, Step(p)
  PROVE  ResultTypes'
<1>1. CASE Approaches(p) \/ Begins(p) \/ Visit(p)
  <2>1. result' = result /\ \A q \in Proc : IsRemove(q)' = IsRemove(q)
    BY <1>1 DEF Approaches, Begins, Visit, callVars, IsRemove, OpOf
  <2>2. \A q \in Proc : pc'[q] = "leave" <=> pc[q] = "leave"
    BY <1>1 DEF Approaches, Begins, BeginWalk, Visit, Goto, CallTypes
  <2> QED
    BY <2>1, <2>2 DEF ResultTypes
<1>2. CASE EndGet(p) \/ EndSet(p) \/ EndRemove(p)
  <2>1. PICK x \in IF IsRemove(p) THEN BOOLEAN ELSE Value \cup {Nil} : EndWith(p, x)
    BY <1>2, EndAnswers
  <2>2. /\ result' = [result EXCEPT ![p] = <<x>>] /\ pc' = [pc EXCEPT ![p] = "leave"]
        /\ \A q \in Proc : IsRemove(q)' = IsRemove(q)
    BY <2>1 DEF EndWith, Goto, IsRemove, OpOf
  <2> QED
    BY <2>1, <2>2 DEF ResultTypes, CallTypes
<1>3. CASE Returns(p)
  <2>1. result' = [result EXCEPT ![p] = <<>>] /\ pc' = [pc EXCEPT ![p] = "idle"]
    BY <1>3 DEF Returns, Return, Goto
  <2>2. DOMAIN result' = Proc /\ \A q \in Proc : pc'[q] # "leave" => result'[q] = <<>>
    BY <2>1 DEF ResultTypes, CallTypes
  <2>3. \A q \in Proc : pc'[q] = "leave" => q # p
    BY <2>1 DEF CallTypes
  <2>4. \A q \in Proc : q # p => result'[q] = result[q] /\ pc'[q] = pc[q]
    BY <2>1 DEF ResultTypes, CallTypes
  <2> QED
    BY <2>2, <2>3, <2>4, OthersCall DEF ResultTypes
<1> QED
  BY <1>1, <1>2, <1>3, StepKinds

LEMMA BookAfterReturn ==
  ASSUME CallTypes, ResultTypes, LockTypes, NEW p \in Proc, Returns(p)
  PROVE  \/ book' = book
         \/ /\ OpOf(p) \in {"find", "find again"} /\ ~Missing(p)
            /\ book' = [book EXCEPT ![p] = [key |-> KeyOf(p), value |-> result[p][1]]]
            /\ [key |-> KeyOf(p), value |-> result[p][1]] \in Book
<1>1. CASE ~(OpOf(p) \in {"find", "find again"} /\ ~Missing(p))
  BY <1>1 DEF Returns, Return
<1>2. CASE OpOf(p) \in {"find", "find again"} /\ ~Missing(p)
  <2>1. Head(todo[p]) \in Call
    BY HeadTailProperties DEF CallTypes, Returns
  <2>2. ~IsRemove(p)
    BY <1>2 DEF IsRemove
  <2>3. result[p][1] \in Value \cup {Nil}
    BY <2>2 DEF ResultTypes, Returns
  <2> QED
    BY <1>2, <2>1, <2>3 DEF Returns, Return, Book, KeyOf, Call
<1> QED
  BY <1>1, <1>2

LEMMA LockTypesHold ==
  ASSUME IInv, IInv', CallTypes, ResultTypes, LockTypes, NEW p \in Proc, Step(p)
  PROVE  LockTypes'
<1>1. engine' = engine
  BY StepKinds DEF Approaches, Begins, Visit, EndGet, EndSet, EndRemove, EndWith,
                   Returns, Return, callVars
<1>2. book' \in [Proc -> {Nil} \cup Book]
  <2>1. CASE Returns(p)
    BY <2>1, BookAfterReturn DEF LockTypes
  <2>2. CASE ~Returns(p)
    BY <2>2, StepKinds DEF LockTypes, Approaches, Begins, Visit, EndGet, EndSet,
                           EndRemove, EndWith, callVars
  <2> QED
    BY <2>1, <2>2
<1>3. counter' \in Nat
  <2>1. CASE engine = "go"
    BY <1>1, <2>1, FS_CardinalityType DEF IInv, GoInv, CounterExact
  <2>2. CASE engine = "cpp"
    <3>1. counter' = counter
      BY <2>2, WaitingIsGo
      DEF Step, GoLock, PassTurnstile, CountIn, EnterRoom, TakeTurnstile, TakeRoom,
          CountOut, LockShared, LockExclusive, Visit, EndGet, EndSet, EndRemove,
          EndWith, ReleaseRoom, Unlock, Leaves, rwLock
    <3> QED
      BY <3>1 DEF LockTypes
  <2> QED
    BY <2>1, <2>2 DEF LockTypes
<1>4. turnstile' \in BOOLEAN /\ readSwitch' \in BOOLEAN /\ room' \in BOOLEAN
  <2>1. CASE GoLock(p)
    <3>1. CASE CountIn(p)
      BY <3>1 DEF CountIn, LockTypes
    <3>2. CASE CountOut(p)
      BY <3>2 DEF CountOut, LockTypes
    <3>3. CASE PassTurnstile(p) \/ EnterRoom(p) \/ TakeTurnstile(p) \/ TakeRoom(p)
      BY <3>3 DEF PassTurnstile, EnterRoom, TakeTurnstile, TakeRoom, rwLock, LockTypes
    <3> QED
      BY <2>1, <3>1, <3>2, <3>3 DEF GoLock
  <2>2. CASE ~GoLock(p)
    BY <2>2 DEF Step, LockShared, LockExclusive, Visit, EndGet, EndSet, EndRemove,
                EndWith, ReleaseRoom, Unlock, rwLock, LockTypes
  <2> QED
    BY <2>1, <2>2
<1>5. shared' \subseteq Proc /\ exclusive' \subseteq Proc
  <2>1. CASE LockShared(p) \/ LockExclusive(p) \/ Unlock(p)
    BY <2>1 DEF LockShared, LockExclusive, Unlock, LockTypes
  <2>2. CASE ~(LockShared(p) \/ LockExclusive(p) \/ Unlock(p))
    BY <2>2
    DEF Step, GoLock, PassTurnstile, CountIn, EnterRoom, TakeTurnstile, TakeRoom,
        CountOut, Visit, EndGet, EndSet, EndRemove, EndWith, ReleaseRoom, mutex,
        LockTypes
  <2> QED
    BY <2>1, <2>2
<1> QED
  BY <1>1, <1>2, <1>3, <1>4, <1>5 DEF LockTypes

-----------------------------------------------------------------------------
MapInv == IInv /\ Types /\ ChainOrdered /\ WalkKnows

LEMMA MapInvInit == Init => MapInv
<1> SUFFICES ASSUME Init PROVE MapInv
  OBVIOUS
<1>1. todo \in [Proc -> Seq(Call)] /\ \A p \in Proc : Len(todo[p]) + 2 <= MaxCalls
  BY MapAssumption DEF Init
<1>2. CallTypes /\ ProgramsFit
  BY <1>1 DEF Init, CallTypes, ProgramsFit, PcLabel
<1>3. ResultTypes
  BY DEF Init, ResultTypes
<1>4. heap = <<>> /\ Len(heap) = 0 /\ heap \in Seq(AnyNode) /\ DOMAIN heap = {}
  BY EmptySeq DEF Init
<1>5. ChainTypes
  BY <1>4 DEF Init, ChainTypes
<1>6. LockTypes
  BY DEF Init, LockTypes
<1>7. Linked = {}
  BY <1>4 DEF Linked
<1> QED
  BY <1>2, <1>3, <1>5, <1>6, <1>7, InitHolds
  DEF Init, MapInv, Types, ChainOrdered, WalkKnows

LEMMA MapInvStep ==
  ASSUME MapInv, NEW p \in Proc, Step(p)
  PROVE  MapInv'
<1>1. /\ CallTypes /\ ResultTypes /\ ChainTypes /\ LockTypes /\ ProgramsFit
      /\ IInv /\ ChainOrdered /\ WalkKnows
  BY DEF MapInv, Types
<1>2. IInv'
  BY <1>1, StepHolds
<1>3. CallTypes' /\ ProgramsFit'
  BY <1>1, CallTypesHold, ProgramsFitHolds
<1>4. ResultTypes' /\ LockTypes'
  BY <1>1, <1>2, ResultTypesHold, LockTypesHold
<1>5. ChainTypes' /\ ChainOrdered'
  BY <1>1, ChainTypesHold, ChainOrderedHolds
<1>6. WalkKnows'
  BY <1>1, WalkKnowsHolds
<1> QED
  BY <1>2, <1>3, <1>4, <1>5, <1>6 DEF MapInv, Types

LEMMA MapInvStutter == MapInv /\ UNCHANGED vars => MapInv'
<1> SUFFICES ASSUME MapInv, UNCHANGED vars PROVE MapInv'
  OBVIOUS
<1>1. /\ UNCHANGED <<engine, todo, pc, result, prev, curr, book, head, heap>>
      /\ UNCHANGED <<turnstile, readSwitch, room, counter, shared, exclusive>>
      /\ UNCHANGED chain
  BY DEF vars, callVars, walkVars, chain, rwLock, mutex
<1>2. IInv'
  BY StutterHolds DEF MapInv
<1>3. \A q \in Proc : /\ OpOf(q)' = OpOf(q) /\ KeyOf(q)' = KeyOf(q)
                      /\ IsRemove(q)' = IsRemove(q)
  BY <1>1 DEF OpOf, KeyOf, IsRemove
<1>4. Linked' = Linked
  BY <1>1, SameChain
<1>5. CallTypes' /\ ProgramsFit' /\ ResultTypes'
  BY <1>1, <1>3 DEF MapInv, Types, CallTypes, ProgramsFit, ResultTypes
<1>6. ChainTypes' /\ LockTypes'
  BY <1>1 DEF MapInv, Types, ChainTypes, LockTypes
<1>7. ChainOrdered' /\ WalkKnows'
  BY <1>1, <1>3, <1>4 DEF MapInv, ChainOrdered, WalkKnows
<1> QED
  BY <1>2, <1>5, <1>6, <1>7 DEF MapInv, Types

LEMMA MapInvNext == MapInv /\ [Next]_vars => MapInv'
BY MapInvStep, MapInvStutter DEF Next, Terminated

(* The types of everything in a bucket, for any keys and any programs.     *)
THEOREM BucketTypes == Spec => []TypeOK
<1>1. MapInv => TypeOK
  <2> SUFFICES ASSUME MapInv PROVE TypeOK
    OBVIOUS
  <2> USE DEF MapInv, Types
  <2>1. \A p \in Proc : result[p] # <<>> =>
          result[p] \in Seq(IF IsRemove(p) THEN BOOLEAN ELSE Value \cup {Nil})
    <3> SUFFICES ASSUME NEW p \in Proc, result[p] # <<>>, NEW S,
                        S = IF IsRemove(p) THEN BOOLEAN ELSE Value \cup {Nil}
                 PROVE  result[p] \in Seq(S)
      OBVIOUS
    <3>1. PICK x \in S : result[p] = <<x>>
      BY DEF ResultTypes
    <3>2. \A T : \A y \in T : <<y>> \in Seq(T)
      OBVIOUS
    <3>3. <<x>> \in Seq(S)
      BY <3>2, Zenon
    <3> QED
      BY <3>1, <3>3, Zenon
  <2>2. heap \in Seq(Node)
    <3>1. /\ heap \in Seq(AnyNode) /\ Len(heap) \in Nat
          /\ DOMAIN heap = 1 .. Len(heap)
          /\ \A n \in DOMAIN heap : heap[n] \in AnyNode
      BY LenProperties, ElementOfSeq DEF ChainTypes
    <3>2. \A n \in 1 .. Len(heap) : heap[n] \in Node
      <4> SUFFICES ASSUME NEW n \in 1 .. Len(heap) PROVE heap[n] \in Node
        OBVIOUS
      <4>1. heap[n] \in AnyNode /\ heap[n].next \in 0 .. Len(heap)
        <5>1. heap[n] \in AnyNode /\ n \in DOMAIN heap
          BY <3>1
        <5>2. heap[n].next # 0 => heap[n].next \in n + 1 .. Len(heap)
          BY <5>1 DEF ChainTypes
        <5> QED
          BY <3>1, <5>1, <5>2
      <4> QED
        BY <4>1 DEF AnyNode, Node
    <3> QED
      BY <3>1, <3>2
  <2> QED
    BY <2>1, <2>2 DEF TypeOK, CallTypes, ChainTypes, LockTypes, PcLabel
<1> QED
  BY <1>1, MapInvInit, MapInvNext, PTL DEF Spec

(* No walk is on a node that a remove has taken out and deleted, nor on    *)
(* its neighbour (HashMap::remove, HashMap::get).                          *)
THEOREM WalksStayLinked == Spec => []NobodyOnRemovedNode
<1>1. MapInv => NobodyOnRemovedNode
  BY WalkIsOnChain DEF MapInv, Types, NobodyOnRemovedNode
<1> QED
  BY <1>1, MapInvInit, MapInvNext, PTL DEF Spec

-----------------------------------------------------------------------------
(* What the chain says of a key is the value of the only node that has it. *)
LEMMA ContentsAre ==
  MapInv => /\ \A n \in Linked : /\ heap[n].key \in Key /\ heap[n].value \in Value
                                 /\ Contents[heap[n].key] = heap[n].value
            /\ \A k \in Key : (\A n \in Linked : heap[n].key # k) => Contents[k] = Nil
<1> SUFFICES ASSUME MapInv
             PROVE  /\ \A n \in Linked : /\ heap[n].key \in Key /\ heap[n].value \in Value
                                         /\ Contents[heap[n].key] = heap[n].value
                    /\ \A k \in Key : (\A n \in Linked : heap[n].key # k)
                                         => Contents[k] = Nil
  OBVIOUS
<1>1. \A n \in Linked : heap[n] \in AnyNode
  BY LinkedIsLeast, LenProperties, ElementOfSeq DEF MapInv, Types, ChainTypes
<1>2. \A n \in Linked : Contents[heap[n].key] = heap[n].value
  <2> SUFFICES ASSUME NEW n \in Linked PROVE Contents[heap[n].key] = heap[n].value
    OBVIOUS
  <2>1. {i \in Linked : heap[i].key = heap[n].key} = {n}
    BY DEF MapInv, ChainOrdered
  <2>2. heap[n].key \in Key
    BY <1>1 DEF AnyNode
  <2>3. Contents[heap[n].key] =
          IF {i \in Linked : heap[i].key = heap[n].key} = {} THEN Nil
          ELSE heap[CHOOSE i \in {i \in Linked : heap[i].key = heap[n].key} : TRUE].value
    BY <2>2 DEF Contents
  <2>4. (CHOOSE i \in {n} : TRUE) = n
    OBVIOUS
  <2> QED
    BY <2>1, <2>3, <2>4
<1>3. \A k \in Key : (\A n \in Linked : heap[n].key # k) => Contents[k] = Nil
  BY DEF Contents
<1> QED
  BY <1>1, <1>2, <1>3 DEF AnyNode

LEMMA ContentsAreNext ==
  ASSUME MapInv'
  PROVE  /\ \A n \in Linked' : Contents'[heap'[n].key] = heap'[n].value
         /\ \A k \in Key : (\A n \in Linked' : heap'[n].key # k) => Contents'[k] = Nil
<1>1. (MapInv => /\ \A n \in Linked : /\ heap[n].key \in Key /\ heap[n].value \in Value
                                      /\ Contents[heap[n].key] = heap[n].value
                 /\ \A k \in Key : (\A n \in Linked : heap[n].key # k)
                                      => Contents[k] = Nil)'
  BY ContentsAre, PTL
<1> QED
  BY <1>1

LEMMA SameContents == UNCHANGED chain => Contents' = Contents
BY SameChain DEF Contents

LEMMA PutContents ==
  ASSUME MapInv, MapInv', NEW p \in Proc, Puts(p)
  PROVE  /\ Contents[KeyOf(p)] = Nil /\ KeyOf(p) \in Key /\ Mine(p) \in Value
         /\ Contents' = [Contents EXCEPT ![KeyOf(p)] = Mine(p)]
<1> DEFINE m == Len(heap) + 1
<1>1. /\ Linked' = Linked \cup {m} /\ Linked \subseteq DOMAIN heap
      /\ \A n \in DOMAIN heap : heap'[n].key = heap[n].key /\ heap'[n].value = heap[n].value
      /\ heap'[m].key = KeyOf(p) /\ heap'[m].value = Mine(p)
      /\ Mine(p) \in Value /\ KeyOf(p) \in Key
  BY PutLinks, PutNodes, LinkedIsLeast DEF MapInv, Types
<1>2. \A n \in Linked : heap[n].key # KeyOf(p)
  BY DEF MapInv, WalkKnows, Puts, EndSet, WalkEnds
<1>3. Contents[KeyOf(p)] = Nil
  BY <1>1, <1>2, ContentsAre
<1>4. \A k \in Key : Contents'[k] = IF k = KeyOf(p) THEN Mine(p) ELSE Contents[k]
  <2> SUFFICES ASSUME NEW k \in Key
               PROVE  Contents'[k] = IF k = KeyOf(p) THEN Mine(p) ELSE Contents[k]
    OBVIOUS
  <2>1. CASE k = KeyOf(p)
    BY <1>1, <2>1, ContentsAreNext
  <2>2. CASE k # KeyOf(p) /\ \E n \in Linked : heap[n].key = k
    BY <1>1, <2>2, ContentsAre, ContentsAreNext
  <2>3. CASE k # KeyOf(p) /\ \A n \in Linked : heap[n].key # k
    BY <1>1, <2>3, ContentsAre, ContentsAreNext
  <2> QED
    BY <2>1, <2>2, <2>3
<1>5. /\ Contents = [k \in Key |-> Contents[k]]
      /\ Contents' = [k \in Key |-> Contents'[k]]
  BY DEF Contents
<1> QED
  BY <1>1, <1>3, <1>4, <1>5

LEMMA TakeContents ==
  ASSUME MapInv, MapInv', NEW p \in Proc, Takes(p)
  PROVE  /\ Contents[KeyOf(p)] # Nil /\ KeyOf(p) \in Key
         /\ Contents' = [Contents EXCEPT ![KeyOf(p)] = Nil]
<1>1. /\ Linked' = Linked \ {curr[p]} /\ Linked \subseteq DOMAIN heap
      /\ \A n \in DOMAIN heap : heap'[n].key = heap[n].key /\ heap'[n].value = heap[n].value
      /\ curr[p] \in Linked /\ heap[curr[p]].key = KeyOf(p)
  BY TakeLinks, TakeNodes, LinkedIsLeast DEF MapInv, Types
<1>2. \A n \in Linked : heap[n].key = KeyOf(p) => n = curr[p]
  BY <1>1 DEF MapInv, ChainOrdered
<1>3. Contents[KeyOf(p)] # Nil /\ KeyOf(p) \in Key
  BY <1>1, ContentsAre, MapAssumption
<1>4. \A k \in Key : Contents'[k] = IF k = KeyOf(p) THEN Nil ELSE Contents[k]
  <2> SUFFICES ASSUME NEW k \in Key
               PROVE  Contents'[k] = IF k = KeyOf(p) THEN Nil ELSE Contents[k]
    OBVIOUS
  <2>1. CASE k = KeyOf(p)
    BY <1>1, <1>2, <2>1, ContentsAreNext
  <2>2. CASE k # KeyOf(p) /\ \E n \in Linked : heap[n].key = k
    BY <1>1, <2>2, ContentsAre, ContentsAreNext
  <2>3. CASE k # KeyOf(p) /\ \A n \in Linked : heap[n].key # k
    BY <1>1, <2>3, ContentsAre, ContentsAreNext
  <2> QED
    BY <2>1, <2>2, <2>3
<1>5. /\ Contents = [k \in Key |-> Contents[k]]
      /\ Contents' = [k \in Key |-> Contents'[k]]
  BY DEF Contents
<1> QED
  BY <1>3, <1>4, <1>5

(* What a walk has found when it ends. *)
LEMMA WalkFinds ==
  ASSUME MapInv, NEW p \in Proc, WalkEnds(p)
  PROVE  /\ KeyOf(p) \in Key
         /\ Contents[KeyOf(p)] = IF curr[p] = 0 THEN Nil ELSE heap[curr[p]].value
         /\ curr[p] # 0 => Contents[KeyOf(p)] # Nil
<1>1. Head(todo[p]) \in Call /\ pc[p] = "walk"
  BY HeadTailProperties DEF WalkEnds, MapInv, Types, CallTypes
<1>2. KeyOf(p) \in Key
  BY <1>1 DEF KeyOf, Call
<1>3. CASE curr[p] = 0
  <2>1. \A n \in Linked : heap[n].key # KeyOf(p)
    BY <1>1, <1>3 DEF MapInv, WalkKnows
  <2> QED
    BY <1>2, <1>3, <2>1, ContentsAre
<1>4. CASE curr[p] # 0
  <2>1. heap[curr[p]].key = KeyOf(p) /\ curr[p] \in Linked
    BY <1>1, <1>4, WalkIsOnChain DEF WalkEnds, AtKey, MapInv, Types
  <2> QED
    BY <1>2, <1>4, <2>1, ContentsAre, MapAssumption
<1> QED
  BY <1>2, <1>3, <1>4

-----------------------------------------------------------------------------
(* The refinement: a call is invoked by its first step and has responded   *)
(* when it has returned; it takes effect where its walk ends.              *)
LEMMA RequestsOfOthers ==
  ASSUME MapInv, NEW p \in Proc, Step(p), NEW q \in Proc, q # p
  PROVE  AbstractCall(q)' = AbstractCall(q)
<1>1. todo'[q] = todo[q] /\ pc'[q] = pc[q]
  BY OthersCall DEF MapInv, Types
<1> QED
  BY <1>1 DEF AbstractCall, OpOf, KeyOf, IsRead, IsSet, IsRemove, Mine

LEMMA SameRequests ==
  ASSUME MapInv, NEW p \in Proc, Step(p), ~Returns(p), pc[p] # "idle"
  PROVE  [q \in Proc |-> AbstractCall(q)'] = [q \in Proc |-> AbstractCall(q)]
<1>1. pc'[p] # "idle"
  BY StepKinds DEF MapInv, Types, CallTypes, Approaches, Begins, BeginWalk, Visit,
                   EndGet, EndSet, EndRemove, EndWith, Goto
<1>2. AbstractCall(p)' = AbstractCall(p)
  BY <1>1, SameCall DEF AbstractCall, MapInv, Types
<1> QED
  BY <1>2, RequestsOfOthers

LEMMA SimulatesInvoke ==
  ASSUME MapInv, NEW p \in Proc, Step(p), pc[p] = "idle", ~Returns(p)
  PROVE  A!Invoke(p)
<1>1. /\ todo' = todo /\ result' = result /\ UNCHANGED chain /\ pc'[p] # "idle"
      /\ todo[p] # <<>>
  BY StepKinds DEF MapInv, Types, CallTypes, Approaches, Begins, BeginWalk, Visit,
                   EndGet, EndSet, EndRemove, WalkEnds, Goto, callVars
<1>2. Head(todo[p]) \in Call /\ todo[p] \in Seq(Call) /\ Len(todo[p]) \in Nat
      /\ Len(todo[p]) > 0 /\ MaxCalls \in Nat
  BY <1>1, HeadTailProperties, LenProperties, EmptySeq, MapAssumption
  DEF MapInv, Types, CallTypes
<1>3. Mine(p) \in Value /\ KeyOf(p) \in Key
  BY <1>1, <1>2 DEF Mine, Value, KeyOf, Call, MapInv, Types, ProgramsFit
<1>4. AbstractCall(p)' =
        [op |-> IF IsRead(p) THEN "get" ELSE IF IsSet(p) THEN "set" ELSE "remove",
         key |-> KeyOf(p),
         value |-> IF IsSet(p) THEN Mine(p) ELSE Nil]
  BY <1>1, SameCall DEF AbstractCall, MapInv, Types
<1>5. AbstractCall(p)' \in A!Request
  BY <1>3, <1>4 DEF A!Request
<1>6. [q \in Proc |-> AbstractCall(q)'] =
        [[q \in Proc |-> AbstractCall(q)] EXCEPT ![p] = AbstractCall(p)']
  BY RequestsOfOthers
<1>7. AbstractCall(p) = Nil
  BY DEF AbstractCall
<1> QED
  BY <1>1, <1>5, <1>6, <1>7, SameContents DEF A!Invoke

LEMMA SimulatesStutter ==
  ASSUME MapInv, NEW p \in Proc, Step(p), pc[p] # "idle",
         Approaches(p) \/ Begins(p) \/ Visit(p)
  PROVE  UNCHANGED A!vars
<1>1. ~Returns(p) /\ result' = result /\ UNCHANGED chain
  BY DEF Approaches, Begins, Visit, Returns, callVars
<1> QED
  BY <1>1, SameRequests, SameContents DEF A!vars

(* The request of a call whose walk ends, and that it has no answer yet.   *)
LEMMA PendingAtEnd ==
  ASSUME MapInv, NEW p \in Proc, WalkEnds(p)
  PROVE  /\ AbstractCall(p) # Nil /\ result[p] = <<>>
         /\ AbstractCall(p).key = KeyOf(p)
         /\ AbstractCall(p).op = IF IsRead(p) THEN "get"
                                 ELSE IF IsSet(p) THEN "set" ELSE "remove"
         /\ IsSet(p) => AbstractCall(p).value = Mine(p)
<1>1. pc[p] = "walk" /\ result[p] = <<>>
  BY DEF WalkEnds, MapInv, Types, ResultTypes
<1>2. AbstractCall(p) =
        [op |-> IF IsRead(p) THEN "get" ELSE IF IsSet(p) THEN "set" ELSE "remove",
         key |-> KeyOf(p),
         value |-> IF IsSet(p) THEN Mine(p) ELSE Nil]
  BY <1>1 DEF AbstractCall
<1>3. /\ Head(todo[p]) \in Call /\ todo[p] \in Seq(Call) /\ Len(todo[p]) \in Nat
      /\ Len(todo[p]) > 0 /\ MaxCalls \in Nat
  BY <1>1, HeadTailProperties, LenProperties, EmptySeq, MapAssumption
  DEF MapInv, Types, CallTypes
<1>4. Mine(p) \in Value /\ KeyOf(p) \in Key
  BY <1>3 DEF Mine, Value, KeyOf, Call, MapInv, Types, ProgramsFit
<1>5. AbstractCall(p) \in A!Request
  BY <1>2, <1>4 DEF A!Request
<1> QED
  BY <1>1, <1>2, <1>5, NilIsNoRequest

LEMMA SimulatesEnd ==
  ASSUME MapInv, MapInv', NEW p \in Proc, Step(p),
         EndGet(p) \/ EndSet(p) \/ EndRemove(p)
  PROVE  A!Get(p) \/ A!Set(p) \/ A!Remove(p)
<1> DEFINE req == [q \in Proc |-> AbstractCall(q)]
<1>1. WalkEnds(p) /\ pc[p] # "idle" /\ ~Returns(p)
  BY DEF EndGet, EndSet, EndRemove, WalkEnds, Returns
<1>2. [q \in Proc |-> AbstractCall(q)'] = req
  BY <1>1, SameRequests
<1>3. /\ req[p] # Nil /\ result[p] = <<>>
      /\ req[p].key = KeyOf(p)
      /\ req[p].op = IF IsRead(p) THEN "get" ELSE IF IsSet(p) THEN "set" ELSE "remove"
      /\ IsSet(p) => req[p].value = Mine(p)
  BY <1>1, PendingAtEnd
<1>4. CASE EndGet(p)
  <2>1. /\ result' = [result EXCEPT ![p] = <<Contents[req[p].key]>>]
        /\ UNCHANGED chain /\ IsRead(p)
    BY <1>1, <1>3, <1>4, WalkFinds DEF EndGet, EndWith
  <2> HIDE DEF req
  <2>2. req[p].op = "get"
    BY <1>3, <2>1
  <2> QED
    BY <1>2, <1>3, <2>1, <2>2, SameContents DEF A!Get, A!Pending, A!Answer, req
<1>5. CASE EndSet(p)
  <2>1. /\ result' = [result EXCEPT ![p] = <<Nil>>] /\ IsSet(p) /\ req[p].op = "set"
    BY <1>3, <1>5 DEF EndSet, EndWith, IsRead
  <2>2. Contents' = [Contents EXCEPT ![req[p].key] =
                       IF Contents[req[p].key] = Nil THEN req[p].value
                       ELSE Contents[req[p].key]]
    <3>1. CASE curr[p] = 0
      BY <1>3, <1>5, <2>1, <3>1, PutContents DEF Puts
    <3>2. CASE curr[p] # 0
      <4>1. UNCHANGED chain
        BY <1>5, <3>2 DEF EndSet, Keep
      <4>2. Contents = [k \in Key |-> Contents[k]]
        BY DEF Contents
      <4> QED
        BY <1>1, <1>3, <3>2, <4>1, <4>2, SameContents, WalkFinds
    <3> QED
      BY <3>1, <3>2
  <2> HIDE DEF req
  <2> QED
    BY <1>2, <1>3, <2>1, <2>2 DEF A!Set, A!Pending, A!Answer, req
<1>6. CASE EndRemove(p)
  <2>1. /\ result' = [result EXCEPT ![p] = <<curr[p] # 0>>] /\ IsRemove(p)
        /\ ~IsSet(p) /\ ~IsRead(p) /\ req[p].op = "remove"
    BY <1>3, <1>6 DEF EndRemove, EndWith, IsRead, IsSet, IsRemove
  <2>2. Contents' = [Contents EXCEPT ![req[p].key] = Nil]
    <3>1. CASE curr[p] # 0
      BY <1>3, <1>6, <3>1, TakeContents DEF Takes
    <3>2. CASE curr[p] = 0
      <4>1. UNCHANGED chain
        BY <1>6, <3>2 DEF EndRemove
      <4>2. Contents = [k \in Key |-> Contents[k]]
        BY DEF Contents
      <4> QED
        BY <1>1, <1>3, <3>2, <4>1, <4>2, SameContents, WalkFinds
    <3> QED
      BY <3>1, <3>2
  <2>3. (curr[p] # 0) = (Contents[req[p].key] # Nil)
    BY <1>1, <1>3, WalkFinds
  <2> HIDE DEF req
  <2> QED
    BY <1>2, <1>3, <2>1, <2>2, <2>3 DEF A!Remove, A!Pending, A!Answer, req
<1> QED
  BY <1>4, <1>5, <1>6

LEMMA SimulatesRespond ==
  ASSUME MapInv, NEW p \in Proc, Step(p), Returns(p)
  PROVE  A!Respond(p)
<1>1. /\ result' = [result EXCEPT ![p] = <<>>] /\ UNCHANGED chain
      /\ pc' = [pc EXCEPT ![p] = "idle"] /\ pc[p] = "leave"
  BY DEF Returns, Return, Goto, chain
<1>2. result[p] # <<>>
  BY <1>1 DEF MapInv, Types, ResultTypes
<1>3. AbstractCall(p)' = Nil
  BY <1>1 DEF AbstractCall, MapInv, Types, CallTypes
<1>4. [q \in Proc |-> AbstractCall(q)'] =
        [[q \in Proc |-> AbstractCall(q)] EXCEPT ![p] = Nil]
  BY <1>3, RequestsOfOthers
<1> QED
  BY <1>1, <1>2, <1>4, SameContents DEF A!Respond

LEMMA StepSimulates ==
  ASSUME MapInv, MapInv', NEW p \in Proc, Step(p)
  PROVE  A!Next \/ UNCHANGED A!vars
<1>1. CASE Returns(p)
  BY <1>1, SimulatesRespond DEF A!Next
<1>2. CASE EndGet(p) \/ EndSet(p) \/ EndRemove(p)
  BY <1>2, SimulatesEnd DEF A!Next
<1>3. CASE pc[p] = "idle" /\ ~Returns(p)
  BY <1>3, SimulatesInvoke DEF A!Next
<1>4. CASE pc[p] # "idle" /\ (Approaches(p) \/ Begins(p) \/ Visit(p))
  BY <1>4, SimulatesStutter
<1> QED
  BY <1>1, <1>2, <1>3, <1>4, StepKinds DEF MapInv, Types

LEMMA StutterSimulates == UNCHANGED vars => UNCHANGED A!vars
<1> SUFFICES ASSUME UNCHANGED vars PROVE UNCHANGED A!vars
  OBVIOUS
<1>1. UNCHANGED <<todo, pc, result>> /\ UNCHANGED chain
  BY DEF vars, callVars, chain
<1>2. \A q \in Proc : AbstractCall(q)' = AbstractCall(q)
  BY <1>1 DEF AbstractCall, OpOf, KeyOf, IsRead, IsSet, IsRemove, Mine
<1> QED
  BY <1>1, <1>2, SameContents DEF A!vars

(* Every get, set and remove of either map answers as if it had taken      *)
(* effect at one moment between its first step and its last, for any       *)
(* number of processes, any keys and any programs (HashMap::get, put,      *)
(* remove; Get, Set, Remove).                                              *)
THEOREM BucketIsAtomic == Spec => ImplementsAtomicMap
<1>1. Init => A!Init
  <2> SUFFICES ASSUME Init PROVE A!Init
    OBVIOUS
  <2>1. Linked = {}
    BY DEF Init, Linked
  <2>2. Contents = [k \in Key |-> Nil]
    BY <2>1 DEF Contents
  <2>3. \A q \in Proc : AbstractCall(q) = Nil
    BY DEF Init, AbstractCall
  <2> QED
    BY <2>2, <2>3 DEF A!Init, Init
<1>2. MapInv /\ MapInv' /\ [Next]_vars => [A!Next]_(A!vars)
  BY StepSimulates, StutterSimulates DEF Next, Terminated
<1> QED
  BY <1>1, <1>2, MapInvInit, MapInvNext, PTL DEF Spec, ImplementsAtomicMap, A!Spec

-----------------------------------------------------------------------------
(* Books: what a connection has found is in the chain, and stays there,    *)
(* since no book is ever removed.                                          *)
BookOps == {"find", "make", "find again"}
HasKey(k) == \E n \in Linked : heap[n].key = k
Known(k, v) == \E n \in Linked : heap[n].key = k /\ heap[n].value = v

(* Only a look-up that misses makes a book, and looks for it again.        *)
OpAt(s, i) == s[i].op
KeyAt(s, i) == s[i].key

InOrder(s) ==
  \A i \in DOMAIN s :
    /\ OpAt(s, i) = "make" => i = 1
    /\ OpAt(s, i) = "find again" /\ i # 1 =>
         i = 2 /\ OpAt(s, 1) = "make" /\ KeyAt(s, 1) = KeyAt(s, 2)

CallsInOrder == \A p \in Proc : InOrder(todo[p])

BooksStay ==
  \A p, q \in Proc : \A i \in DOMAIN todo[p] : OpAt(todo[p], i) = "remove" =>
    /\ \A j \in DOMAIN todo[q] :
         OpAt(todo[q], j) \in BookOps => KeyAt(todo[p], i) # KeyAt(todo[q], j)
    /\ book[q] # Nil => KeyAt(todo[p], i) # book[q].key

BooksKnown ==
  \A p \in Proc :
    /\ book[p] # Nil => Known(book[p].key, book[p].value)
    /\ todo[p] # <<>> /\ OpOf(p) = "find again" => HasKey(KeyOf(p))
    /\ pc[p] = "leave" /\ OpOf(p) = "make" => HasKey(KeyOf(p))
    /\ pc[p] = "leave" /\ OpOf(p) = "find again" => result[p] # <<Nil>>
    /\ pc[p] = "leave" /\ OpOf(p) \in BookOps /\ OpOf(p) # "make"
         /\ result[p] # <<Nil>> => Known(KeyOf(p), result[p][1])

BookInv == CallsInOrder /\ BooksStay /\ BooksKnown

(* Whatever is still to be called came from what was to be called: s       *)
(* before a call has returned, t afterwards.                               *)
ComesFrom(t, s) ==
  \A i \in DOMAIN t :
    /\ OpAt(t, i) = "remove" => \E j \in DOMAIN s : s[j] = t[i]
    /\ OpAt(t, i) \in BookOps =>
         \E j \in DOMAIN s : OpAt(s, j) \in BookOps /\ KeyAt(s, j) = KeyAt(t, i)

LEMMA AfterMiss ==
  ASSUME NEW s, NEW t, InOrder(s), 1 \in DOMAIN s, OpAt(s, 1) = "find",
         OpAt(t, 1) = "make", KeyAt(t, 1) = KeyAt(s, 1),
         OpAt(t, 2) = "find again", KeyAt(t, 2) = KeyAt(s, 1),
         \A i \in DOMAIN t \ {1, 2} : \E j \in DOMAIN s \ {1} : t[i] = s[j]
  PROVE  InOrder(t) /\ ComesFrom(t, s)
<1>1. \A i \in DOMAIN t \ {1, 2} : OpAt(t, i) # "make" /\ OpAt(t, i) # "find again"
  BY Zenon DEF InOrder, OpAt
<1>2. InOrder(t)
  <2>1. \A i \in DOMAIN t : OpAt(t, i) = "make" => i = 1
    BY <1>1
  <2>2. \A i \in DOMAIN t : OpAt(t, i) = "find again" => i = 2
    BY <1>1
  <2> QED
    BY <2>1, <2>2 DEF InOrder
<1>3. ASSUME NEW i \in DOMAIN t
      PROVE  /\ OpAt(t, i) = "remove" => \E j \in DOMAIN s : s[j] = t[i]
             /\ OpAt(t, i) \in BookOps =>
                  \E j \in DOMAIN s : OpAt(s, j) \in BookOps /\ KeyAt(s, j) = KeyAt(t, i)
  <2>1. CASE i \in {1, 2}
    <3>1. OpAt(t, i) # "remove" /\ KeyAt(t, i) = KeyAt(s, 1)
      BY <2>1
    <3> QED
      BY <3>1 DEF BookOps
  <2>2. CASE i \notin {1, 2}
    <3>1. PICK j \in DOMAIN s : t[i] = s[j]
      BY <2>2
    <3> QED
      BY <3>1 DEF OpAt, KeyAt
  <2> QED
    BY <2>1, <2>2
<1> QED
  BY <1>2, <1>3 DEF ComesFrom

LEMMA AfterHit ==
  ASSUME NEW s, NEW t, InOrder(s),
         \A i \in DOMAIN t : \E j \in DOMAIN s \ {1} : t[i] = s[j] /\ (j = 2 => i = 1)
  PROVE  /\ InOrder(t) /\ ComesFrom(t, s)
         /\ \A i \in DOMAIN t : OpAt(t, i) = "find again" =>
              OpAt(s, 1) = "make" /\ KeyAt(s, 1) = KeyAt(t, i)
<1>1. ASSUME NEW i \in DOMAIN t
      PROVE  /\ OpAt(t, i) # "make"
             /\ OpAt(t, i) = "find again" =>
                  i = 1 /\ OpAt(s, 1) = "make" /\ KeyAt(s, 1) = KeyAt(t, i)
             /\ \E j \in DOMAIN s : s[j] = t[i]
             /\ \E j \in DOMAIN s : OpAt(s, j) = OpAt(t, i) /\ KeyAt(s, j) = KeyAt(t, i)
  <2>1. PICK j \in DOMAIN s \ {1} : t[i] = s[j] /\ (j = 2 => i = 1)
    OBVIOUS
  <2>2. OpAt(t, i) = OpAt(s, j) /\ KeyAt(t, i) = KeyAt(s, j)
    BY <2>1 DEF OpAt, KeyAt
  <2>3. /\ OpAt(s, j) # "make"
        /\ OpAt(s, j) = "find again" =>
             j = 2 /\ OpAt(s, 1) = "make" /\ KeyAt(s, 1) = KeyAt(s, 2)
    BY DEF InOrder
  <2> QED
    BY <2>1, <2>2, <2>3
<1> QED
  BY <1>1 DEF InOrder, ComesFrom

LEMMA CallAt ==
  ASSUME NEW t, NEW i, NEW o, NEW k, t[i] = [op |-> o, key |-> k]
  PROVE  OpAt(t, i) = o /\ KeyAt(t, i) = k
BY DEF OpAt, KeyAt

LEMMA CallsComeFrom ==
  ASSUME CallTypes, CallsInOrder, NEW p \in Proc, Returns(p)
  PROVE  /\ InOrder(todo'[p]) /\ ComesFrom(todo'[p], todo[p])
         /\ todo'[p] # <<>> /\ OpAt(todo'[p], 1) = "find again"
              => /\ OpAt(todo[p], 1) \in {"make", "find again"}
                 /\ KeyAt(todo[p], 1) = KeyAt(todo'[p], 1)
<1>1. PICK s \in Seq(Call) : s = todo[p] /\ s # <<>>
  BY DEF CallTypes, Returns
<1>2. InOrder(s)
  BY <1>1 DEF CallsInOrder
<1>3. PICK t \in Seq(Call) :
           /\ todo' = [todo EXCEPT ![p] = t]
           /\ \/ /\ Missing(p) /\ Len(t) = Len(s) + 1
                 /\ t[1] = [op |-> "make", key |-> KeyOf(p)]
                 /\ t[2] = [op |-> "find again", key |-> KeyOf(p)]
                 /\ \A i \in 3 .. Len(t) : t[i] = s[i - 1]
              \/ ~Missing(p) /\ t = s
              \/ /\ ~Missing(p) /\ Len(t) = Len(s) - 1
                 /\ \A i \in 1 .. Len(t) : t[i] = s[i + 1]
  BY ZenonT(30), <1>1, TodoAfterReturn
<1>4. todo'[p] = t
  BY <1>3 DEF CallTypes
<1>5. OpOf(p) = OpAt(s, 1) /\ KeyOf(p) = KeyAt(s, 1)
  BY <1>1 DEF OpOf, KeyOf, OpAt, KeyAt
<1>6. /\ Len(s) \in Nat /\ Len(t) \in Nat /\ Len(s) > 0
      /\ DOMAIN s = 1 .. Len(s) /\ DOMAIN t = 1 .. Len(t)
  BY <1>1, LenProperties, EmptySeq
<1>7. 1 \in DOMAIN s
  BY <1>6
<1>8. t # <<>> => 1 \in DOMAIN t
  BY <1>6, EmptySeq
<1>9. CASE Missing(p)
  <2>1. OpAt(s, 1) = "find"
    BY <1>5, <1>9 DEF Missing
  <2>2. /\ t[1] = [op |-> "make", key |-> KeyOf(p)]
        /\ t[2] = [op |-> "find again", key |-> KeyOf(p)]
    BY <1>3, <1>9
  <2>3. OpAt(t, 1) = "make" /\ KeyAt(t, 1) = KeyOf(p)
    BY <2>2, CallAt
  <2>4. OpAt(t, 2) = "find again" /\ KeyAt(t, 2) = KeyOf(p)
    BY ZenonT(30), <2>2, CallAt
  <2>5. ASSUME NEW i \in DOMAIN t \ {1, 2} PROVE \E j \in DOMAIN s \ {1} : t[i] = s[j]
    <3>1. Len(t) = Len(s) + 1
      BY <1>3, <1>9
    <3>2. i \in 1 .. Len(t) /\ i # 1 /\ i # 2
      BY <1>6
    <3>3. i \in 3 .. Len(t)
      BY <1>6, <3>2
    <3>4. i - 1 \in DOMAIN s \ {1}
      BY <1>6, <3>1, <3>3
    <3> QED
      BY <1>3, <1>9, <3>3, <3>4
  <2>6. InOrder(t) /\ ComesFrom(t, s)
    BY <1>2, <1>5, <1>7, <2>1, <2>3, <2>4, <2>5, AfterMiss
  <2> QED
    BY <1>1, <1>4, <2>3, <2>6
<1>10. CASE ~Missing(p) /\ t = s
  <2>1. ComesFrom(s, s)
    BY DEF ComesFrom
  <2> QED
    BY <1>1, <1>2, <1>4, <1>10, <2>1
<1>11. CASE Len(t) = Len(s) - 1 /\ \A i \in 1 .. Len(t) : t[i] = s[i + 1]
  <2>1. ASSUME NEW i \in DOMAIN t
        PROVE  \E j \in DOMAIN s \ {1} : t[i] = s[j] /\ (j = 2 => i = 1)
    <3>1. /\ i \in 1 .. Len(t) /\ i + 1 \in DOMAIN s \ {1}
          /\ (i + 1 = 2 => i = 1)
      BY <1>6, <1>11
    <3> QED
      BY <1>11, <3>1
  <2>2. /\ InOrder(t) /\ ComesFrom(t, s)
        /\ \A i \in DOMAIN t : OpAt(t, i) = "find again" =>
              OpAt(s, 1) = "make" /\ KeyAt(s, 1) = KeyAt(t, i)
    BY <1>2, <2>1, AfterHit
  <2> QED
    BY <1>1, <1>4, <1>8, <2>2
<1> QED
  BY <1>3, <1>9, <1>10, <1>11

-----------------------------------------------------------------------------
LEMMA FirstCall ==
  ASSUME CallTypes, NEW p \in Proc, todo[p] # <<>>
  PROVE  /\ 1 \in DOMAIN todo[p]
         /\ OpAt(todo[p], 1) = OpOf(p) /\ KeyAt(todo[p], 1) = KeyOf(p)
<1>1. todo[p] \in Seq(Call)
  BY DEF CallTypes
<1> QED
  BY <1>1, LenProperties, EmptySeq DEF OpAt, KeyAt, OpOf, KeyOf

LEMMA FirstCallNext ==
  ASSUME CallTypes', NEW p \in Proc, todo'[p] # <<>>
  PROVE  /\ 1 \in DOMAIN todo'[p]
         /\ OpAt(todo'[p], 1) = OpOf(p)' /\ KeyAt(todo'[p], 1) = KeyOf(p)'
<1>1. todo'[p] \in Seq(Call)
  BY DEF CallTypes
<1> QED
  BY <1>1, LenProperties, EmptySeq DEF OpAt, KeyAt, OpOf, KeyOf

(* Books are read by those who have found them only after a call returns.  *)
LEMMA SameBooks ==
  ASSUME CallTypes, NEW p \in Proc, Step(p), ~Returns(p)
  PROVE  book' = book
BY StepKinds DEF Approaches, Begins, Visit, EndGet, EndSet, EndRemove, EndWith, callVars

LEMMA CallsInOrderHolds ==
  ASSUME CallTypes, CallsInOrder, NEW p \in Proc, Step(p)
  PROVE  CallsInOrder'
<1>1. CASE ~Returns(p)
  BY <1>1, SameCall DEF CallsInOrder
<1>2. CASE Returns(p)
  <2>1. InOrder(todo'[p])
    BY <1>2, CallsComeFrom
  <2>2. \A q \in Proc : q # p => todo'[q] = todo[q]
    BY OthersCall
  <2> QED
    BY <2>1, <2>2 DEF CallsInOrder
<1> QED
  BY <1>1, <1>2

LEMMA BooksStayHolds ==
  ASSUME CallTypes, ResultTypes, LockTypes, CallsInOrder, BooksStay,
         NEW p \in Proc, Step(p)
  PROVE  BooksStay'
<1>1. CASE ~Returns(p)
  <2>1. todo' = todo /\ book' = book
    BY <1>1, SameCall, SameBooks
  <2> QED
    BY <2>1 DEF BooksStay
<1>2. CASE Returns(p)
  <2>1. \A q \in Proc : ComesFrom(todo'[q], todo[q])
    <3>1. ComesFrom(todo'[p], todo[p])
      BY <1>2, CallsComeFrom
    <3>2. \A q \in Proc : q # p => todo'[q] = todo[q]
      BY OthersCall
    <3>3. \A s : ComesFrom(s, s)
      BY DEF ComesFrom
    <3> QED
      BY <3>1, <3>2, <3>3
  <2>2. \A q \in Proc : book'[q] # Nil =>
          \/ book[q] # Nil /\ book'[q].key = book[q].key
          \/ \E j \in DOMAIN todo[q] :
               OpAt(todo[q], j) \in BookOps /\ KeyAt(todo[q], j) = book'[q].key
    <3>1. CASE book' = book
      BY <3>1
    <3>2. CASE /\ OpOf(p) \in {"find", "find again"}
               /\ book' = [book EXCEPT ![p] = [key |-> KeyOf(p), value |-> result[p][1]]]
      <4>1. book'[p].key = KeyOf(p)
        BY <3>2 DEF LockTypes
      <4>2. \A q \in Proc : q # p => book'[q] = book[q]
        BY <3>2 DEF LockTypes
      <4>3. /\ 1 \in DOMAIN todo[p]
            /\ OpAt(todo[p], 1) \in BookOps /\ KeyAt(todo[p], 1) = KeyOf(p)
        BY <1>2, <3>2, FirstCall DEF BookOps, Returns, CallTypes
      <4> QED
        BY <4>1, <4>2, <4>3
    <3> QED
      BY <1>2, <3>1, <3>2, BookAfterReturn
  <2>3. ASSUME NEW r \in Proc, NEW i \in DOMAIN todo'[r], OpAt(todo'[r], i) = "remove"
        PROVE  \E j \in DOMAIN todo[r] : /\ OpAt(todo[r], j) = "remove"
                                         /\ KeyAt(todo[r], j) = KeyAt(todo'[r], i)
    <3>1. PICK j \in DOMAIN todo[r] : todo[r][j] = todo'[r][i]
      BY <2>1, <2>3 DEF ComesFrom
    <3> QED
      BY <2>3, <3>1 DEF OpAt, KeyAt
  <2>4. ASSUME NEW q \in Proc, NEW i \in DOMAIN todo'[q], OpAt(todo'[q], i) \in BookOps
        PROVE  \E j \in DOMAIN todo[q] : /\ OpAt(todo[q], j) \in BookOps
                                         /\ KeyAt(todo[q], j) = KeyAt(todo'[q], i)
    BY <2>1, <2>4 DEF ComesFrom
  <2>5. ASSUME NEW r \in Proc, NEW q \in Proc, NEW i \in DOMAIN todo'[r],
               OpAt(todo'[r], i) = "remove"
        PROVE  /\ \A j \in DOMAIN todo'[q] : OpAt(todo'[q], j) \in BookOps =>
                    KeyAt(todo'[r], i) # KeyAt(todo'[q], j)
               /\ book'[q] # Nil => KeyAt(todo'[r], i) # book'[q].key
    <3>1. PICK n \in DOMAIN todo[r] : /\ OpAt(todo[r], n) = "remove"
                                      /\ KeyAt(todo[r], n) = KeyAt(todo'[r], i)
      BY <2>3, <2>5
    <3>2. /\ \A j \in DOMAIN todo[q] :
               OpAt(todo[q], j) \in BookOps => KeyAt(todo[r], n) # KeyAt(todo[q], j)
          /\ book[q] # Nil => KeyAt(todo[r], n) # book[q].key
      BY <3>1 DEF BooksStay
    <3>3. ASSUME NEW j \in DOMAIN todo'[q], OpAt(todo'[q], j) \in BookOps
          PROVE  KeyAt(todo'[r], i) # KeyAt(todo'[q], j)
      BY <2>4, <3>1, <3>2, <3>3
    <3>4. book'[q] # Nil => KeyAt(todo'[r], i) # book'[q].key
      BY <2>2, <3>1, <3>2
    <3> QED
      BY <3>3, <3>4
  <2> QED
    BY <2>5 DEF BooksStay
<1> QED
  BY <1>1, <1>2

(* What is taken from the chain is no book. *)
LEMMA NoBookIsTaken ==
  ASSUME CallTypes, BooksStay, NEW p \in Proc, Takes(p), NEW q \in Proc
  PROVE  /\ todo[q] # <<>> /\ OpOf(q) \in BookOps => KeyOf(q) # KeyOf(p)
         /\ book[q] # Nil => book[q].key # KeyOf(p)
<1>1. todo[p] # <<>> /\ OpOf(p) = "remove"
  BY DEF Takes, EndRemove, WalkEnds, IsRemove, CallTypes
<1>2. /\ 1 \in DOMAIN todo[p]
      /\ OpAt(todo[p], 1) = "remove" /\ KeyAt(todo[p], 1) = KeyOf(p)
  BY <1>1, FirstCall
<1>3. todo[q] # <<>> => /\ 1 \in DOMAIN todo[q]
                        /\ OpAt(todo[q], 1) = OpOf(q) /\ KeyAt(todo[q], 1) = KeyOf(q)
  BY FirstCall
<1> QED
  BY <1>2, <1>3 DEF BooksStay

LEMMA KnownStays ==
  ASSUME MapInv, NEW p \in Proc, Step(p), NEW k, Takes(p) => k # KeyOf(p)
  PROVE  /\ HasKey(k) => HasKey(k)'
         /\ \A v : Known(k, v) => Known(k, v)'
<1>1. /\ CallTypes /\ ChainTypes /\ ProgramsFit /\ ChainOrdered /\ WalkKnows
      /\ Linked \subseteq DOMAIN heap
  BY LinkedIsLeast DEF MapInv, Types
<1>2. ASSUME NEW n \in Linked, heap[n].key = k
      PROVE  /\ n \in Linked'
             /\ heap'[n].key = heap[n].key /\ heap'[n].value = heap[n].value
  <2>1. CASE UNCHANGED chain
    BY <2>1, SameChain
  <2>2. CASE Puts(p)
    BY <1>1, <2>2, PutNodes, PutLinks
  <2>3. CASE Takes(p)
    <3>1. heap[curr[p]].key = KeyOf(p)
      BY <1>1, <2>3, TakeNodes
    <3>2. n # curr[p]
      BY <1>2, <2>3, <3>1
    <3> QED
      BY <1>1, <2>3, <3>2, TakeNodes, TakeLinks
  <2> QED
    BY <1>1, <2>1, <2>2, <2>3, ChainSteps
<1> QED
  BY <1>2 DEF HasKey, Known


(* What p finds at the end of its walk. *)
LEMMA EndFinds ==
  ASSUME MapInv, NEW p \in Proc, EndGet(p), NEW x,
         x = IF curr[p] = 0 THEN Nil ELSE heap[curr[p]].value
  PROVE  /\ x # Nil => Known(KeyOf(p), x)
         /\ HasKey(KeyOf(p)) => x # Nil
<1>1. /\ CallTypes /\ ChainTypes /\ WalkKnows /\ heap \in Seq(AnyNode)
      /\ Linked \subseteq DOMAIN heap
      /\ pc[p] = "walk" /\ (curr[p] = 0 \/ heap[curr[p]].key = KeyOf(p))
  BY LinkedIsLeast DEF MapInv, Types, ChainTypes, EndGet, WalkEnds, AtKey
<1>2. curr[p] \in Linked \cup {0}
  BY <1>1, WalkIsOnChain
<1>3. CASE curr[p] = 0
  BY <1>1, <1>3 DEF WalkKnows, HasKey
<1>4. CASE curr[p] # 0
  <2>1. curr[p] \in Linked /\ heap[curr[p]].key = KeyOf(p) /\ x = heap[curr[p]].value
    BY <1>1, <1>2, <1>4
  <2>2. heap[curr[p]] \in AnyNode
    BY <1>1, <2>1, LenProperties, ElementOfSeq
  <2>3. x # Nil
    BY <2>1, <2>2, MapAssumption DEF AnyNode
  <2> QED
    BY <2>1, <2>3 DEF Known
<1> QED
  BY <1>3, <1>4

(* A key that has been set is in the chain. *)
LEMMA EndSets ==
  ASSUME MapInv, NEW p \in Proc, EndSet(p)
  PROVE  HasKey(KeyOf(p))'
<1>1. /\ CallTypes /\ ChainTypes /\ ProgramsFit /\ ChainOrdered /\ WalkKnows
      /\ pc[p] = "walk" /\ (curr[p] = 0 \/ heap[curr[p]].key = KeyOf(p))
  BY DEF MapInv, Types, EndSet, WalkEnds, AtKey
<1>2. KeyOf(p)' = KeyOf(p)
  BY DEF EndSet, EndWith, KeyOf
<1>3. CASE curr[p] = 0
  <2>1. Puts(p)
    BY <1>3 DEF Puts
  <2>2. Len(heap) + 1 \in Linked' /\ heap'[Len(heap) + 1].key = KeyOf(p)
    BY <1>1, <2>1, PutNodes, PutLinks
  <2> QED
    BY <1>2, <2>2 DEF HasKey
<1>4. CASE curr[p] # 0
  <2>1. Linked' = Linked /\ heap' = heap
    BY <1>4, SameChain DEF EndSet, Keep
  <2>2. curr[p] \in Linked
    BY <1>1, <1>4, WalkIsOnChain
  <2> QED
    BY <1>1, <1>2, <1>4, <2>1, <2>2 DEF HasKey
<1> QED
  BY <1>3, <1>4

(* What one call knows, and what it leaves to the next.                    *)
CallKnows(q) ==
  /\ todo[q] # <<>> /\ OpOf(q) = "find again" => HasKey(KeyOf(q))
  /\ pc[q] = "leave" /\ OpOf(q) = "make" => HasKey(KeyOf(q))
  /\ pc[q] = "leave" /\ OpOf(q) = "find again" => result[q] # <<Nil>>
  /\ pc[q] = "leave" /\ OpOf(q) \in {"find", "find again"}
       /\ result[q] # <<Nil>> => Known(KeyOf(q), result[q][1])

LEMMA OthersKnow ==
  ASSUME MapInv, BookInv, NEW p \in Proc, Step(p), NEW q \in Proc, q # p
  PROVE  CallKnows(q)'
<1>1. CallTypes /\ ResultTypes /\ BooksStay /\ CallKnows(q)
  BY DEF MapInv, Types, BookInv, BooksKnown, CallKnows, BookOps
<1>2. /\ todo'[q] = todo[q] /\ pc'[q] = pc[q]
      /\ OpOf(q)' = OpOf(q) /\ KeyOf(q)' = KeyOf(q)
  BY <1>1, OthersCall
<1>3. result'[q] = result[q]
  BY <1>1, StepKinds DEF Approaches, Begins, Visit, EndGet, EndSet, EndRemove, EndWith,
     Returns, Return, callVars, ResultTypes
<1>4. pc[q] = "leave" => todo[q] # <<>>
  BY <1>1 DEF CallTypes
<1>5. ASSUME todo[q] # <<>>, OpOf(q) \in {"find", "make", "find again"}
      PROVE  /\ HasKey(KeyOf(q)) => HasKey(KeyOf(q))'
             /\ \A v : Known(KeyOf(q), v) => Known(KeyOf(q), v)'
  <2>1. PICK k : k = KeyOf(q)
    OBVIOUS
  <2>2. Takes(p) => k # KeyOf(p)
    BY <1>1, <1>5, <2>1, NoBookIsTaken DEF BookOps
  <2>3. /\ HasKey(k) => HasKey(k)'
        /\ \A v : Known(k, v) => Known(k, v)'
    BY <2>2, KnownStays
  <2> QED
    BY <1>2, <2>1, <2>3 DEF HasKey, Known
<1> QED
  BY <1>1, <1>2, <1>3, <1>4, <1>5 DEF CallKnows, Known

LEMMA OneKnows ==
  ASSUME MapInv, BookInv, NEW p \in Proc, Step(p)
  PROVE  CallKnows(p)'
<1>1. /\ CallTypes /\ ResultTypes /\ ChainTypes /\ WalkKnows
      /\ BooksStay /\ CallsInOrder /\ CallKnows(p)
  BY DEF MapInv, Types, BookInv, BooksKnown, CallKnows, BookOps
<1>2. CASE Returns(p)
  <2>1. pc'[p] = "idle" /\ Linked' = Linked /\ heap' = heap
    BY <1>1, <1>2, SameChain DEF Returns, Return, Goto, CallTypes, chain
  <2>2. todo[p] # <<>> /\ pc[p] = "leave"
    BY <1>1, <1>2 DEF Returns, CallTypes
  <2>3. ASSUME todo'[p] # <<>>, OpOf(p)' = "find again" PROVE HasKey(KeyOf(p))'
    <3>1. CallTypes'
      BY <1>1, CallTypesHold
    <3>2. OpAt(todo'[p], 1) = "find again" /\ KeyAt(todo'[p], 1) = KeyOf(p)'
      BY <2>3, <3>1, FirstCallNext
    <3>3. OpOf(p) \in {"make", "find again"} /\ KeyOf(p) = KeyOf(p)'
      BY <1>1, <1>2, <2>2, <2>3, <3>2, FirstCall, CallsComeFrom
    <3>4. HasKey(KeyOf(p))
      BY <1>1, <2>2, <3>3 DEF CallKnows
    <3> QED
      BY <2>1, <3>3, <3>4 DEF HasKey
  <2> QED
    BY <2>1, <2>3 DEF CallKnows
<1>3. CASE EndGet(p)
  <2>1. PICK x : /\ EndWith(p, x)
                 /\ x = IF curr[p] = 0 THEN Nil ELSE heap[curr[p]].value
    BY <1>3 DEF EndGet
  <2>2. /\ x # Nil => Known(KeyOf(p), x)
        /\ HasKey(KeyOf(p)) => x # Nil
    BY <1>3, <2>1, EndFinds
  <2>3. result'[p] = <<x>> /\ result'[p][1] = x
    BY <1>1, <2>1 DEF EndWith, ResultTypes
  <2>4. /\ Linked' = Linked /\ heap' = heap
        /\ todo' = todo /\ OpOf(p)' = OpOf(p) /\ KeyOf(p)' = KeyOf(p)
        /\ OpOf(p) # "make" /\ todo[p] # <<>>
    BY <1>1, <1>3, SameChain
    DEF EndGet, EndWith, WalkEnds, OpOf, KeyOf, IsRead, IsSet, CallTypes
  <2>5. HasKey(KeyOf(p)) => HasKey(KeyOf(p))'
    BY <2>4 DEF HasKey
  <2>6. x # Nil => Known(KeyOf(p), result[p][1])'
    BY <2>2, <2>3, <2>4 DEF Known
  <2>7. result'[p] # <<Nil>> => x # Nil
    BY <2>3
  <2>8. x # Nil => result'[p] # <<Nil>>
    BY <2>3
  <2>9. OpOf(p) = "find again" => HasKey(KeyOf(p))
    BY <1>1, <2>4 DEF CallKnows
  <2> QED
    BY <2>2, <2>4, <2>5, <2>6, <2>7, <2>8, <2>9 DEF CallKnows
<1>4. CASE EndSet(p)
  <2>1. OpOf(p)' = OpOf(p) /\ OpOf(p) \in {"set", "make"}
    BY <1>4 DEF EndSet, EndWith, OpOf, IsSet
  <2>2. HasKey(KeyOf(p))'
    BY <1>4, EndSets
  <2> QED
    BY <2>1, <2>2 DEF CallKnows
<1>5. CASE EndRemove(p)
  <2>1. OpOf(p)' = OpOf(p) /\ OpOf(p) = "remove"
    BY <1>5 DEF EndRemove, EndWith, OpOf, IsRemove
  <2> QED
    BY <2>1 DEF CallKnows
<1>6. CASE Approaches(p) \/ Begins(p) \/ Visit(p)
  <2>1. /\ todo' = todo /\ OpOf(p)' = OpOf(p) /\ KeyOf(p)' = KeyOf(p)
        /\ Linked' = Linked /\ heap' = heap /\ pc'[p] # "leave"
    BY <1>1, <1>6, SameChain
    DEF Approaches, Begins, BeginWalk, Visit, callVars, chain, Goto, OpOf, KeyOf, CallTypes
  <2> QED
    BY <1>1, <2>1 DEF CallKnows, HasKey
<1> QED
  BY <1>1, <1>2, <1>3, <1>4, <1>5, <1>6, StepKinds

LEMMA FoundBooksKnown ==
  ASSUME MapInv, BookInv, NEW p \in Proc, Step(p), NEW q \in Proc, book'[q] # Nil
  PROVE  Known(book[q].key, book[q].value)'
<1>1. /\ CallTypes /\ ResultTypes /\ LockTypes /\ ChainTypes
      /\ BooksStay /\ BooksKnown
  BY DEF MapInv, Types, BookInv
<1>2. CASE book[q] # Nil /\ book'[q] = book[q]
  <2>1. PICK k, v : k = book[q].key /\ v = book[q].value
    OBVIOUS
  <2>2. Known(k, v)
    BY <1>1, <1>2, <2>1 DEF BooksKnown
  <2>3. Takes(p) => k # KeyOf(p)
    BY <1>1, <1>2, <2>1, NoBookIsTaken
  <2>4. Known(k, v)'
    BY <2>2, <2>3, KnownStays
  <2> QED
    BY <1>2, <2>1, <2>4 DEF Known
<1>3. CASE /\ Returns(p) /\ q = p
           /\ OpOf(p) \in {"find", "find again"} /\ ~Missing(p)
           /\ book' = [book EXCEPT ![p] = [key |-> KeyOf(p), value |-> result[p][1]]]
  <2>1. book'[q].key = KeyOf(p) /\ book'[q].value = result[p][1]
    BY <1>1, <1>3 DEF LockTypes
  <2>2. pc[p] = "leave" /\ result[p] # <<Nil>>
    BY <1>1, <1>3 DEF Returns, Missing, BooksKnown
  <2>3. Known(KeyOf(p), result[p][1])
    BY <1>1, <1>3, <2>2 DEF BooksKnown, BookOps
  <2>4. Linked' = Linked /\ heap' = heap
    BY <1>3, SameChain DEF Returns, Return
  <2> QED
    BY <2>1, <2>3, <2>4 DEF Known
<1>4. \/ book' = book
      \/ /\ Returns(p) /\ OpOf(p) \in {"find", "find again"} /\ ~Missing(p)
         /\ book' = [book EXCEPT ![p] = [key |-> KeyOf(p), value |-> result[p][1]]]
  BY <1>1, SameBooks, BookAfterReturn
<1> QED
  BY <1>1, <1>2, <1>3, <1>4 DEF LockTypes

LEMMA BookInvInit == Init => BookInv
<1> SUFFICES ASSUME Init PROVE BookInv
  OBVIOUS
<1>1. todo \in GoPrograms \cup CppPrograms /\ CallTypes
  BY MapInvInit DEF Init, MapInv, Types
<1>2. \A p \in Proc : \A i \in DOMAIN todo[p] :
         OpAt(todo[p], i) # "make" /\ OpAt(todo[p], i) # "find again"
  BY <1>1, BooksAreKept DEF OpAt
<1>3. CallsInOrder
  BY <1>2 DEF CallsInOrder, InOrder
<1>4. \A p, q \in Proc : \A i \in DOMAIN todo[p], j \in DOMAIN todo[q] :
        OpAt(todo[p], i) = "remove" /\ OpAt(todo[q], j) = "find" =>
          KeyAt(todo[p], i) # KeyAt(todo[q], j)
  <2> SUFFICES ASSUME NEW p \in Proc, NEW q \in Proc,
                      NEW i \in DOMAIN todo[p], NEW j \in DOMAIN todo[q],
                      OpAt(todo[p], i) = "remove", OpAt(todo[q], j) = "find"
               PROVE  KeyAt(todo[p], i) # KeyAt(todo[q], j)
    OBVIOUS
  <2>1. todo[q][j].op = "find" /\ todo[p][i].op = "remove"
    BY DEF OpAt
  <2>2. todo[q][j].key # todo[p][i].key
    BY <1>1, <2>1, BooksAreKept
  <2> QED
    BY <2>2 DEF KeyAt
<1>5. \A q \in Proc : book[q] = Nil /\ pc[q] = "idle"
  BY DEF Init
<1>6. BooksStay
  BY ZenonT(30), <1>2, <1>4, <1>5 DEF BooksStay, BookOps
<1>7. \A q \in Proc : todo[q] # <<>> => OpOf(q) # "find again"
  BY <1>1, <1>2, FirstCall
<1>8. BooksKnown
  BY <1>5, <1>7 DEF BooksKnown
<1> QED
  BY <1>3, <1>6, <1>8 DEF BookInv

LEMMA BookInvNext == MapInv /\ BookInv /\ [Next]_vars => BookInv'
<1> SUFFICES ASSUME MapInv, BookInv, [Next]_vars PROVE BookInv'
  OBVIOUS
<1>1. CASE \E p \in Proc : Step(p)
  <2>1. PICK p \in Proc : Step(p)
    BY <1>1
  <2>2. CallTypes /\ ResultTypes /\ LockTypes /\ CallsInOrder /\ BooksStay
    BY DEF MapInv, Types, BookInv
  <2>3. CallsInOrder' /\ BooksStay'
    BY <2>1, <2>2, CallsInOrderHolds, BooksStayHolds
  <2>4. \A q \in Proc : CallKnows(q)'
    BY <2>1, OthersKnow, OneKnows
  <2>5. \A q \in Proc : book'[q] # Nil => Known(book[q].key, book[q].value)'
    BY <2>1, FoundBooksKnown
  <2> QED
    BY <2>3, <2>4, <2>5 DEF BookInv, BooksKnown, CallKnows, BookOps
<1>2. CASE UNCHANGED vars
  <2>1. /\ UNCHANGED <<todo, pc, result, book, head, heap>> /\ UNCHANGED chain
    BY <1>2 DEF vars, callVars, chain
  <2>2. Linked' = Linked
    BY <2>1, SameChain
  <2>3. CallsInOrder' /\ BooksStay'
    BY <2>1 DEF BookInv, CallsInOrder, BooksStay
  <2>4. BooksKnown'
    BY <2>1, <2>2 DEF BookInv, BooksKnown, OpOf, KeyOf, HasKey, Known
  <2> QED
    BY <2>3, <2>4 DEF BookInv
<1> QED
  BY <1>1, <1>2 DEF Next, Terminated

(* Whoever looked for the book of an instrument has the one all others     *)
(* have, whether they were the one to make it or lost the race for it.     *)
THEOREM OneBook == Spec => []OneBookPerInstrument
<1>1. MapInv /\ BookInv => OneBookPerInstrument
  <2> SUFFICES ASSUME MapInv, BookInv, NEW p \in Proc, NEW q \in Proc,
                      book[p] # Nil, book[q] # Nil, book[p].key = book[q].key
               PROVE  book[p].value = book[q].value /\ book[p].value # Nil
    BY DEF OneBookPerInstrument
  <2>1. PICK m \in Linked :
          heap[m].key = book[p].key /\ heap[m].value = book[p].value
    BY DEF BookInv, BooksKnown, Known
  <2>2. PICK n \in Linked :
          heap[n].key = book[q].key /\ heap[n].value = book[q].value
    BY DEF BookInv, BooksKnown, Known
  <2>3. m = n
    BY <2>1, <2>2 DEF MapInv, ChainOrdered
  <2>4. heap[m] \in AnyNode
    BY LinkedIsLeast, LenProperties, ElementOfSeq DEF MapInv, Types, ChainTypes
  <2> QED
    BY <2>1, <2>2, <2>3, <2>4, MapAssumption DEF AnyNode
<1> QED
  BY <1>1, MapInvInit, MapInvNext, BookInvInit, BookInvNext, PTL DEF Spec

=============================================================================
