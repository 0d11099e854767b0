------------------------------ MODULE GoBookProofs ------------------------------
(***************************************************************************)
(* The safety of the Go engine's book for any connections and commands:    *)
(* locks that change goroutines have one user at a time, nobody works on a *)
(* level that has left its list, volume is the sum of the sizes in the     *)
(* level up to where it wraps, no order is lost with a level, the lists    *)
(* are sorted and never crossed, and the quiet book is whole.              *)
(*                                                                         *)
(*   LockInv    one user of a level; also types, labels and who stands     *)
(*              where.                                                     *)
(*   ListInv    MatchOrder keeps the head, so at most one level that it    *)
(*              used up is still linked, and nobody can get to that level  *)
(*              but past the head.                                         *)
(*   VolumeInv  an order that rests is in one place and has no goroutine   *)
(*              at work.                                                   *)
(*   LossInv    what is unlinked is empty, or its executor takes all.      *)
(*   SortInv    who walks stands in front of his place.                    *)
(*   CrossInv   orders that have been matched cannot trade with another.   *)
(*   NoneEmpty, Registered    every linked level has orders or somebody at *)
(*              work on it, and the map orders has those on their way.     *)
(*                                                                         *)
(* Where the volumes must not wrap the theorem says FewAndSmall, and where *)
(* a head must not look like a level of price 0, PricesAboveZero.          *)
(***************************************************************************)
EXTENDS GoBook, SequenceTheorems, FiniteSetTheorems, WellFoundedInduction, TLAPS

-----------------------------------------------------------------------------
(* The channels of messages and what goes through them. *)
Line ==
  [kind : {"added"}, id : OrderId, side : Side, price : 0 .. Modulus - 1,
   count : 0 .. Modulus - 1]
  \cup [kind : {"executed"}, id : OrderId, resting : OrderId, exec : Nat,
        price : 0 .. Modulus - 1, count : 0 .. Modulus - 1]
  \cup [kind : {"deleted"}, id : OrderId, accepted : BOOLEAN, cancel : CancelId]

Output == [lines : Seq(Line), closed : BOOLEAN]

Writes(k) == pc[k] \in {"add", "new level", "append", "cancel"}

(* Whoever is about to write has a channel that was queued. *)
Channels ==
  /\ outputs \in Seq(Output)
  /\ \A k \in Command : Writes(k) => mine[k] \in DOMAIN outputs
  /\ \A e \in executors : e.channel \in DOMAIN outputs

(* A goroutine is at a step of its own kind of command, a command that is  *)
(* still to be read has none, and a connection rejects the next cancel.    *)
Labels ==
  /\ \A o \in OrderId : pc[o] \in {"unread", "done"} \cup OrderPc
  /\ \A x \in CancelId : pc[x] \in {"unread", "done"} \cup CancelPc
  /\ input \in [Client -> Seq(Command)]
  /\ \A c \in Client : \A i \in DOMAIN input[c] : pc[input[c][i]] = "unread"
  /\ \A c, d \in Client : \A i \in DOMAIN input[c], j \in DOMAIN input[d] :
       input[c][i] = input[d][j] => c = d /\ i = j
  /\ \A c \in Client :
       conn[c] # "read" => input[c] # <<>> /\ Head(input[c]) \in CancelId

(* Nobody follows a null pointer, and CancelOrder stands on two levels.    *)
StandsWell(k) ==
  /\ pc[k] \in {"lock level", "execute", "advance"} => curr[k] \in OrderId
  /\ pc[k] \in {"add", "new level", "append", "cancel"} => curr[k] \in Node
  /\ k \in CancelId => IF pc[k] = "cancel" THEN prev[k] # curr[k] ELSE prev[k] = Nil

Standing == \A k \in Command : StandsWell(k)

Types == TypeOK /\ Channels /\ Labels /\ Standing

LockInv == Types /\ LocksHaveOneUser

-----------------------------------------------------------------------------
(* A message in a channel leaves the channels where they are. *)
LEMMA SendKeeps ==
  ASSUME outputs \in Seq(Output), NEW ch \in DOMAIN outputs, NEW line \in Line,
         Send(ch, line) \/ SendLast(ch, line)
  PROVE  /\ outputs' \in Seq(Output)
         /\ Len(outputs') = Len(outputs) /\ DOMAIN outputs' = DOMAIN outputs
<1>1. outputs[ch] \in Output
  OBVIOUS
<1>2. Append(outputs[ch].lines, line) \in Seq(Line)
  BY <1>1 DEF Output
<1>3. PICK out \in Output : outputs' = [outputs EXCEPT ![ch] = out]
  <2>1. CASE Send(ch, line)
    <3> DEFINE out == [outputs[ch] EXCEPT !.lines = Append(@, line)]
    <3>1. out \in Output
      BY <1>1, <1>2 DEF Output
    <3>2. outputs' = [outputs EXCEPT ![ch] = out]
      BY <2>1 DEF Send
    <3> QED BY <3>1, <3>2
  <2>2. CASE SendLast(ch, line)
    <3> DEFINE out == [lines |-> Append(outputs[ch].lines, line), closed |-> TRUE]
    <3>1. out \in Output
      BY <1>2 DEF Output
    <3>2. outputs' = [outputs EXCEPT ![ch] = out]
      BY <2>2 DEF SendLast
    <3> QED BY <3>1, <3>2
  <2> QED BY <2>1, <2>2
<1>4. ch \in 1 .. Len(outputs)
  OBVIOUS
<1>5. /\ [outputs EXCEPT ![ch] = out] \in Seq(Output)
      /\ Len([outputs EXCEPT ![ch] = out]) = Len(outputs)
  BY <1>4, ExceptSeq
<1> QED BY <1>3, <1>5

(* Closing a channel leaves it in its place, too. *)
LEMMA CloseKeeps ==
  ASSUME outputs \in Seq(Output), NEW ch \in DOMAIN outputs,
         outputs' = [outputs EXCEPT ![ch].closed = TRUE]
  PROVE  /\ outputs' \in Seq(Output)
         /\ Len(outputs') = Len(outputs) /\ DOMAIN outputs' = DOMAIN outputs
<1>1. PICK out \in Output : outputs' = [outputs EXCEPT ![ch] = out]
  <2> DEFINE out == [outputs[ch] EXCEPT !.closed = TRUE]
  <2>1. outputs[ch] \in Output
    OBVIOUS
  <2>2. out \in Output
    BY <2>1 DEF Output
  <2>3. outputs' = [outputs EXCEPT ![ch] = out]
    OBVIOUS
  <2> QED BY <2>2, <2>3
<1>2. ch \in 1 .. Len(outputs)
  OBVIOUS
<1>3. /\ [outputs EXCEPT ![ch] = out] \in Seq(Output)
      /\ Len([outputs EXCEPT ![ch] = out]) = Len(outputs)
  BY <1>2, ExceptSeq
<1> QED BY <1>1, <1>3

(* A new channel is behind all others. *)
LEMMA QueueAdds ==
  ASSUME outputs \in Seq(Output), NEW lines \in Seq(Line), NEW closed \in BOOLEAN,
         Queue(lines, closed)
  PROVE  /\ outputs' \in Seq(Output)
         /\ Len(outputs') = Len(outputs) + 1 /\ Len(outputs) \in Nat
         /\ DOMAIN outputs \subseteq DOMAIN outputs'
         /\ Len(outputs') \in DOMAIN outputs'
         /\ Len(outputs) - taken < Capacity
<1> DEFINE out == [lines |-> lines, closed |-> closed]
<1>1. out \in Output
  BY DEF Output
<1>2. outputs' = Append(outputs, out) /\ Len(outputs) - taken < Capacity
  BY DEF Queue, Room
<1> HIDE DEF out
<1> QED BY <1>1, <1>2

(* So is one that begins with no message in it. *)
LEMMA QueueEmptyAdds ==
  ASSUME Channels, Queue(<<>>, FALSE)
  PROVE  /\ outputs' \in Seq(Output)
         /\ Len(outputs') = Len(outputs) + 1 /\ Len(outputs) \in Nat
         /\ DOMAIN outputs \subseteq DOMAIN outputs'
         /\ Len(outputs') \in DOMAIN outputs'
         /\ Len(outputs) - taken < Capacity
<1>1. <<>> \in Seq(Line) /\ FALSE \in BOOLEAN /\ outputs \in Seq(Output)
  BY DEF Channels
<1> QED BY <1>1, QueueAdds

(* What is left of a queue is a queue. *)
LEMMA RemoveAtKeeps ==
  ASSUME NEW S, NEW s \in Seq(S), NEW i \in DOMAIN s
  PROVE  RemoveAt(s, i) \in Seq(S)
<1>1. i \in 1 .. Len(s) /\ Len(s) \in Nat
  OBVIOUS
<1>2. SubSeq(s, 1, i - 1) \in Seq(S) /\ SubSeq(s, i + 1, Len(s)) \in Seq(S)
  BY <1>1, SubSeqProperties
<1> QED BY <1>2, ConcatProperties DEF RemoveAt

(* Reading takes the first command off. *)
LEMMA TailFacts ==
  ASSUME NEW S, NEW s \in Seq(S), s # <<>>
  PROVE  /\ Head(s) = s[1] /\ 1 \in DOMAIN s /\ s[1] \in S
         /\ Tail(s) \in Seq(S)
         /\ \A i \in DOMAIN Tail(s) : i + 1 \in DOMAIN s /\ Tail(s)[i] = s[i + 1]
  OBVIOUS


-----------------------------------------------------------------------------
(* A level at which something can be done is an order's, or a head. *)
LEMMA HeadsAreNodes ==
  /\ \A o \in OrderId :
       /\ MatchHead(o) \in Heads /\ OwnHead(o) \in Heads
       /\ MatchHead(o) # OwnHead(o)
  /\ \A x \in CancelId : OwnHead(About[x]) \in Heads /\ About[x] \in OrderId
  /\ Heads \subseteq Node /\ OrderId \subseteq Node /\ Heads \cap OrderId = {}
  /\ Nil \notin Node /\ "sgl" \notin Node /\ "ordersLock" \notin Node
  /\ OrderId \subseteq Command /\ CancelId \subseteq Command
  /\ OrderId \cap CancelId = {}
BY GoBookAssumption
DEF MatchHead, OwnHead, HeadOf, Opposite, Heads, Node, Side, Command

(* The terms of an order are numbers of the width of uint32. *)
LEMMA TermsInRange ==
  /\ Modulus \in Nat /\ Modulus > 0
  /\ \A o \in OrderId :
       /\ Terms[o].side \in Side /\ Terms[o].price \in 0 .. Modulus - 1
       /\ Terms[o].count \in 0 .. Modulus - 1
BY GoBookAssumption

(* uint32 arithmetic stays in range. *)
LEMMA ToUIntInRange == ASSUME NEW x \in Int PROVE ToUInt(x) \in 0 .. Modulus - 1
BY GoBookAssumption DEF ToUInt

(* Who goes on to a step of its kind, and was not waiting to be read, leaves *)
(* the labels and the commands that are still to come as they should be.     *)
LEMMA GoingOn ==
  ASSUME TypeOK, Labels, NEW k \in Command, NEW l, pc[k] # "unread",
         l \in {"done"} \cup (IF k \in OrderId THEN OrderPc ELSE CancelPc),
         Goto(k, l), UNCHANGED connVars
  PROVE  Labels'
<1>1. pc' = [pc EXCEPT ![k] = l] /\ input' = input /\ conn' = conn
  BY DEF Goto, connVars
<1>2. pc \in [Command -> {"unread", "done"} \cup OrderPc \cup CancelPc]
  BY DEF TypeOK
<1>3. \A c \in Client : \A i \in DOMAIN input[c] : input[c][i] \in Command
  BY DEF Labels
<1> QED BY <1>1, <1>2, <1>3, HeadsAreNodes DEF Labels

(* A command that is read is read once. *)
LEMMA Reading ==
  ASSUME TypeOK, Labels, NEW c \in Client, NEW k \in Command,
         input[c] # <<>>, k = Head(input[c]), Sent(c)
  PROVE  /\ pc[k] = "unread" /\ input' \in [Client -> Seq(Command)]
         /\ \A d \in Client : \A i \in DOMAIN input'[d] :
              \E j \in DOMAIN input[d] : /\ input'[d][i] = input[d][j]
                                         /\ d = c => j = i + 1
                                         /\ d # c => j = i
         /\ \A d \in Client : \A i \in DOMAIN input'[d] : input'[d][i] # k
<1> DEFINE s == input[c]
<1>1. s \in Seq(Command) /\ s # <<>> /\ k = Head(s)
  BY DEF Labels
<1>2. /\ Head(s) = s[1] /\ 1 \in DOMAIN s /\ Tail(s) \in Seq(Command)
      /\ \A i \in DOMAIN Tail(s) : i + 1 \in DOMAIN s /\ Tail(s)[i] = s[i + 1]
  <2> HIDE DEF s
  <2> QED BY <1>1, TailFacts
<1>3. input' = [input EXCEPT ![c] = Tail(s)]
  BY DEF Sent
<1>4. \A d \in Client : input'[d] = IF d = c THEN Tail(s) ELSE input[d]
  BY <1>3 DEF Labels
<1>5. pc[k] = "unread"
  BY <1>1, <1>2 DEF Labels
<1>6. input' \in [Client -> Seq(Command)]
  BY <1>2, <1>3 DEF Labels
<1>7. ASSUME NEW d \in Client, NEW i \in DOMAIN input'[d]
      PROVE  \E j \in DOMAIN input[d] : /\ input'[d][i] = input[d][j]
                                        /\ d = c => j = i + 1
                                        /\ d # c => j = i
  <2>1. CASE d = c
    <3>1. i \in DOMAIN Tail(s)
      BY <1>4, <1>7, <2>1
    <3> QED BY <3>1, <1>2, <1>4, <2>1
  <2>2. CASE d # c
    BY <1>4, <1>7, <2>2
  <2> QED BY <2>1, <2>2
<1>8. ASSUME NEW d \in Client, NEW i \in DOMAIN input'[d] PROVE input'[d][i] # k
  <2>1. PICK j \in DOMAIN input[d] : /\ input'[d][i] = input[d][j]
                                     /\ d = c => j = i + 1
    BY <1>7, <1>8
  <2>2. SUFFICES ASSUME input[d][j] = input[c][1] PROVE FALSE
    BY <2>1, <1>1, <1>2
  <2>3. d = c /\ j = 1
    BY <2>2, <1>2 DEF Labels
  <2>4. i \in Nat \ {0}
    <3>1. input'[d] \in Seq(Command)
      BY <1>6
    <3> QED BY <3>1, <1>8
  <2> QED BY <2>1, <2>3, <2>4
<1> QED BY <1>5, <1>6, <1>7, <1>8


(* What was read leaves the others as they were. *)
LEMMA ReadingKeepsLabels ==
  ASSUME TypeOK, Labels, NEW c \in Client, NEW k \in Command,
         input[c] # <<>>, k = Head(input[c]), Sent(c),
         conn' = [conn EXCEPT ![c] = "read"],
         NEW l, l \in {"unread"} \cup (IF k \in OrderId THEN OrderPc ELSE CancelPc),
         Goto(k, l)
  PROVE  Labels'
<1>1. pc' = [pc EXCEPT ![k] = l]
  BY DEF Goto
<1>2. pc \in [Command -> {"unread", "done"} \cup OrderPc \cup CancelPc]
  BY DEF TypeOK
<1>3. /\ input' \in [Client -> Seq(Command)]
      /\ \A d \in Client : \A i \in DOMAIN input'[d] :
           \E j \in DOMAIN input[d] : /\ input'[d][i] = input[d][j]
                                      /\ d = c => j = i + 1
                                      /\ d # c => j = i
      /\ \A d \in Client : \A i \in DOMAIN input'[d] : input'[d][i] # k
  BY Reading
<1>4. ASSUME NEW d \in Client, NEW i \in DOMAIN input'[d]
      PROVE  pc'[input'[d][i]] = "unread"
  <2>1. PICK j \in DOMAIN input[d] : input'[d][i] = input[d][j]
    BY <1>3, <1>4
  <2>2. input[d][j] \in Command /\ pc[input[d][j]] = "unread"
    BY DEF Labels
  <2> QED BY <2>1, <2>2, <1>1, <1>2, <1>3, <1>4
<1>5. ASSUME NEW d \in Client, NEW e \in Client, NEW i \in DOMAIN input'[d],
             NEW j \in DOMAIN input'[e], input'[d][i] = input'[e][j]
      PROVE  d = e /\ i = j
  <2>1. PICK m \in DOMAIN input[d] : /\ input'[d][i] = input[d][m]
                                     /\ d = c => m = i + 1
                                     /\ d # c => m = i
    BY <1>3, <1>5
  <2>2. PICK n \in DOMAIN input[e] : /\ input'[e][j] = input[e][n]
                                     /\ e = c => n = j + 1
                                     /\ e # c => n = j
    BY <1>3, <1>5
  <2>3. input[d][m] = input[e][n]
    BY <2>1, <2>2, <1>5
  <2>5. d = e /\ m = n
    BY <2>3 DEF Labels
  <2>4. i \in Nat /\ j \in Nat
    <3>1. input'[d] \in Seq(Command) /\ input'[e] \in Seq(Command)
      BY <1>3
    <3> QED BY <3>1, <1>5
  <2> QED BY <2>1, <2>2, <2>4, <2>5
<1>6. /\ \A o \in OrderId : pc'[o] \in {"unread", "done"} \cup OrderPc
      /\ \A x \in CancelId : pc'[x] \in {"unread", "done"} \cup CancelPc
  BY <1>1, <1>2, HeadsAreNodes DEF Labels
<1>7. ASSUME NEW d \in Client, conn'[d] # "read"
      PROVE  input'[d] # <<>> /\ Head(input'[d]) \in CancelId
  <2>1. d # c /\ conn[d] # "read"
    BY <1>7 DEF TypeOK
  <2>2. input'[d] = input[d]
    BY <2>1 DEF Sent, Labels
  <2> QED BY <2>1, <2>2 DEF Labels
<1> QED BY <1>3, <1>4, <1>5, <1>6, <1>7 DEF Labels


(* Every step keeps the labels and the commands to come. *)
LEMMA LabelsStep == ASSUME Types, Next PROVE Labels'
<1> USE HeadsAreNodes DEF Types
<1>1. ASSUME NEW c \in Client, HandleConn(c) PROVE Labels'
  <2>1. ASSUME NEW o \in OrderId, ReadOrder(c, o) PROVE Labels'
    <3>1. /\ input[c] # <<>> /\ o = Head(input[c]) /\ Sent(c) /\ Goto(o, "lock sgl")
          /\ conn[c] = "read" /\ conn' = conn
      BY <2>1 DEF ReadOrder, Reads
    <3>2. conn' = [conn EXCEPT ![c] = "read"]
      BY <3>1 DEF TypeOK
    <3>3. "lock sgl" \in {"unread"} \cup (IF o \in OrderId THEN OrderPc ELSE CancelPc)
      BY DEF OrderPc
    <3> QED BY <3>1, <3>2, <3>3, ReadingKeepsLabels
  <2>2. ASSUME NEW x \in CancelId, Dispatch(c, x) PROVE Labels'
    <3>1. /\ input[c] # <<>> /\ x = Head(input[c]) /\ Sent(c) /\ Goto(x, "lock head")
          /\ conn[c] = "read" /\ conn' = conn
      BY <2>2 DEF Dispatch, LooksUp, Reads
    <3>2. conn' = [conn EXCEPT ![c] = "read"]
      BY <3>1 DEF TypeOK
    <3>3. "lock head" \in {"unread"} \cup (IF x \in OrderId THEN OrderPc ELSE CancelPc)
      BY DEF CancelPc
    <3> QED BY <3>1, <3>2, <3>3, ReadingKeepsLabels
  <2>3. ASSUME NEW x \in CancelId, Unknown(c, x) \/ Foreign(c, x) PROVE Labels'
    <3>1. /\ input[c] # <<>> /\ x = Head(input[c]) /\ input' = input /\ pc' = pc
          /\ \E l : conn' = [conn EXCEPT ![c] = l]
      BY <2>3 DEF Unknown, Foreign, LooksUp, Reads, locals
    <3>2. \A d \in Client : d # c => conn'[d] = conn[d]
      BY <3>1 DEF TypeOK
    <3> QED BY <3>1, <3>2 DEF Labels
  <2>4. CASE Reject(c)
    <3> DEFINE k == Head(input[c])
    <3>1. /\ conn[c] # "read" /\ Sent(c) /\ conn' = [conn EXCEPT ![c] = "read"]
          /\ pc' = pc
      BY <2>4 DEF Reject, locals
    <3>2. input[c] # <<>> /\ k \in CancelId
      BY <3>1 DEF Labels
    <3>3. pc[k] = "unread"
      BY <3>2, <3>1, Reading
    <3>4. Goto(k, "unread")
      BY <3>1, <3>3 DEF Goto, TypeOK
    <3> QED BY <3>1, <3>2, <3>4, ReadingKeepsLabels
  <2> QED BY <1>1, <2>1, <2>2, <2>3, <2>4 DEF HandleConn
<1>2. ASSUME NEW o \in OrderId, ProcessActiveOrder(o) \/ AddOrder(o) PROVE Labels'
  <2>1. \E l \in OrderPc \cup {"done"} :
          pc[o] # "unread" /\ Goto(o, l) /\ UNCHANGED connVars
    BY <1>2 DEF ProcessActiveOrder, AddOrder, LockSgl, LockMatchHead, LockLevel,
         StartExecutor, Advance, EndMatch, LockOwnHead, SetOrder, StartAdd, PlaceFound,
         AddStep, NewLevel, AppendOrder, OrderPc, LevelPc, PlacePc
  <2> QED BY <2>1, GoingOn
<1>3. ASSUME NEW x \in CancelId, ProcessCancelOrder(x) PROVE Labels'
  <2>1. \E l \in CancelPc \cup {"done"} :
          pc[x] # "unread" /\ Goto(x, l) /\ UNCHANGED connVars
    BY <1>3 DEF ProcessCancelOrder, LockCancelHead, QueueCancel, CancelStep,
         CancelFails, CancelSucceeds, Answer, CancelPc
  <2> QED BY <2>1, GoingOn
<1>4. ASSUME UNCHANGED <<connVars, pc>> PROVE Labels'
  BY <1>4 DEF connVars, Labels
<1>5. ASSUME NEW o \in OrderId, ExecuteOrder(o) PROVE UNCHANGED <<connVars, pc>>
  BY <1>5 DEF ExecuteOrder, Trade, EndExecutor, locals
<1>6. Printer \/ Terminated => UNCHANGED <<connVars, pc>>
  BY DEF Printer, NextChannel, PrintLine, Terminated, vars, locals
<1> QED BY <1>1, <1>2, <1>3, <1>4, <1>5, <1>6 DEF Next, Goroutines


-----------------------------------------------------------------------------
(* Channels: what is queued stays, and who starts to write has queued.      *)
LEMMA ChannelsStep == ASSUME Types, Next PROVE Channels'
<1> USE HeadsAreNodes DEF Types
<1>0. Labels'
  BY LabelsStep
<1>1. ASSUME UNCHANGED <<outputs, mine, executors>>,
             \A k \in Command : Writes(k)' => Writes(k)
      PROVE  Channels'
  BY <1>1 DEF Channels
<1>2. ASSUME NEW c \in Client, HandleConn(c) PROVE Channels'
  <2>1. ASSUME Reject(c) PROVE Channels'
    <3> DEFINE line == Deleted(Head(input[c]), FALSE)
    <3>1. Head(input[c]) \in CancelId
      BY <2>1 DEF Reject, Labels
    <3>2. line \in Line
      BY <3>1, HeadsAreNodes DEF Line, Deleted
    <3>3. Queue(<<line>>, TRUE)
      BY <2>1 DEF Reject
    <3>4. outputs' \in Seq(Output) /\ DOMAIN outputs \subseteq DOMAIN outputs'
      <4> HIDE DEF line
      <4>1. <<line>> \in Seq(Line) /\ TRUE \in BOOLEAN
        BY <3>2
      <4> QED BY <3>3, <4>1, QueueAdds DEF Channels
    <3>5. UNCHANGED <<pc, mine, executors>>
      BY <2>1 DEF Reject, locals
    <3> QED BY <3>4, <3>5 DEF Channels, Writes
  <2>2. ASSUME NEW k \in Command,
               ReadOrder(c, k) \/ Unknown(c, k) \/ Foreign(c, k) \/ Dispatch(c, k)
        PROVE  Channels'
    <3>1. UNCHANGED <<outputs, mine, executors>>
      BY <2>2 DEF ReadOrder, Unknown, Foreign, Dispatch, outVars
    <3>2. UNCHANGED pc \/ Goto(k, "lock sgl") \/ Goto(k, "lock head")
      BY <2>2 DEF ReadOrder, Unknown, Foreign, Dispatch, locals
    <3>3. \A l \in Command : Writes(l)' => Writes(l)
      BY <3>2 DEF TypeOK, Goto, Writes
    <3> QED BY <3>1, <3>3, <1>1
  <2> QED BY <1>2, <2>1, <2>2 DEF HandleConn
<1>3. ASSUME NEW o \in OrderId, ProcessActiveOrder(o) PROVE Channels'
  <2>1. CASE StartExecutor(o)
    <3>0. PICK e : e.channel = Len(outputs') /\ executors' = executors \cup {e}
      BY <2>1 DEF StartExecutor
    <3>1. /\ Queue(<<>>, FALSE) /\ Goto(o, "advance") /\ mine' = mine
          /\ \A d \in executors' : d \in executors \/ d.channel = Len(outputs')
      BY <2>1, <3>0 DEF StartExecutor
    <3>2. /\ outputs' \in Seq(Output) /\ DOMAIN outputs \subseteq DOMAIN outputs'
          /\ Len(outputs') \in DOMAIN outputs'
      BY <3>1, QueueEmptyAdds
    <3>3. \A k \in Command : Writes(k)' => Writes(k)
      BY <3>1 DEF TypeOK, Goto, Writes
    <3> QED BY <3>1, <3>2, <3>3 DEF Channels
  <2>2. CASE StartAdd(o)
    <3>1. /\ Queue(<<>>, FALSE) /\ Goto(o, "add") /\ executors' = executors
          /\ mine' = [mine EXCEPT ![o] = Len(outputs')]
      BY <2>2 DEF StartAdd, QueueMine
    <3>2. /\ outputs' \in Seq(Output) /\ DOMAIN outputs \subseteq DOMAIN outputs'
          /\ Len(outputs') \in DOMAIN outputs'
      BY <3>1, QueueEmptyAdds
    <3>3. \A k \in Command : k # o => mine'[k] = mine[k] /\ (Writes(k)' => Writes(k))
      BY <3>1 DEF TypeOK, Goto, Writes
    <3>4. mine'[o] = Len(outputs')
      BY <3>1 DEF TypeOK
    <3> QED BY <3>1, <3>2, <3>3, <3>4 DEF Channels
  <2>3. CASE ~StartExecutor(o) /\ ~StartAdd(o)
    <3>1. UNCHANGED <<outputs, mine, executors>>
      BY <1>3, <2>3 DEF ProcessActiveOrder, LockSgl, LockMatchHead, LockLevel, Advance,
           EndMatch, LockOwnHead, SetOrder, outVars
    <3>2. ~Writes(o)' /\ \E l : Goto(o, l)
      <4>1. CASE LockSgl(o) \/ LockMatchHead(o) \/ LockLevel(o)
        BY <4>1 DEF LockSgl, LockMatchHead, LockLevel, LevelPc, Goto, Writes, TypeOK
      <4>2. CASE Advance(o) \/ EndMatch(o) \/ LockOwnHead(o) \/ SetOrder(o)
        BY <4>2 DEF Advance, EndMatch, LockOwnHead, SetOrder, LevelPc, Goto, Writes, TypeOK
      <4> QED BY <1>3, <2>3, <4>1, <4>2 DEF ProcessActiveOrder
    <3>3. \A l \in Command : Writes(l)' => Writes(l)
      BY <3>2 DEF TypeOK, Goto, Writes
    <3> QED BY <3>1, <3>3, <1>1
  <2> QED BY <2>1, <2>2, <2>3
<1>4. ASSUME NEW o \in OrderId, AddOrder(o) PROVE Channels'
  <2>1. CASE AppendOrder(o)
    <3>1. /\ SendLast(mine[o], Added(o)) /\ mine[o] \in DOMAIN outputs
          /\ mine' = mine /\ executors' = executors /\ Goto(o, "done")
      BY <2>1 DEF AppendOrder, Channels, Writes
    <3>2. Added(o) \in Line
      BY TermsInRange DEF Line, Added, TypeOK
    <3>3. outputs' \in Seq(Output) /\ DOMAIN outputs' = DOMAIN outputs
      BY <3>1, <3>2, SendKeeps DEF Channels
    <3>4. \A l \in Command : Writes(l)' => Writes(l)
      BY <3>1 DEF TypeOK, Goto, Writes
    <3> QED BY <3>1, <3>3, <3>4 DEF Channels
  <2>2. CASE PlaceFound(o) \/ AddStep(o) \/ NewLevel(o)
    <3>1. UNCHANGED <<outputs, mine, executors>> /\ Writes(o) /\ \E l : Goto(o, l)
      BY <2>2 DEF PlaceFound, AddStep, NewLevel, outVars, Writes
    <3>2. \A l \in Command : Writes(l)' => Writes(l)
      BY <3>1 DEF TypeOK, Goto, Writes
    <3> QED BY <3>1, <3>2, <1>1
  <2> QED BY <1>4, <2>1, <2>2 DEF AddOrder
<1>5. ASSUME NEW x \in CancelId, ProcessCancelOrder(x) PROVE Channels'
  <2>1. CASE QueueCancel(x)
    <3>1. /\ Queue(<<>>, FALSE) /\ Goto(x, "cancel") /\ executors' = executors
          /\ mine' = [mine EXCEPT ![x] = Len(outputs')]
      BY <2>1 DEF QueueCancel, QueueMine
    <3>2. /\ outputs' \in Seq(Output) /\ DOMAIN outputs \subseteq DOMAIN outputs'
          /\ Len(outputs') \in DOMAIN outputs'
      BY <3>1, QueueEmptyAdds
    <3>3. \A k \in Command : k # x => mine'[k] = mine[k] /\ (Writes(k)' => Writes(k))
      BY <3>1 DEF TypeOK, Goto, Writes
    <3>4. mine'[x] = Len(outputs')
      BY <3>1 DEF TypeOK
    <3> QED BY <3>1, <3>2, <3>3, <3>4 DEF Channels
  <2>2. CASE CancelFails(x) \/ CancelSucceeds(x)
    <3>1. PICK accepted \in BOOLEAN : SendLast(mine[x], Deleted(x, accepted))
      BY <2>2 DEF CancelFails, CancelSucceeds, Answer
    <3>2. /\ mine[x] \in DOMAIN outputs /\ Goto(x, "done")
          /\ mine' = mine /\ executors' = executors
      BY <2>2 DEF CancelFails, CancelSucceeds, Answer, Channels, Writes
    <3>3. Deleted(x, accepted) \in Line
      BY DEF Line, Deleted
    <3>4. outputs' \in Seq(Output) /\ DOMAIN outputs' = DOMAIN outputs
      BY <3>1, <3>2, <3>3, SendKeeps DEF Channels
    <3>5. \A l \in Command : Writes(l)' => Writes(l)
      BY <3>2 DEF TypeOK, Goto, Writes
    <3> QED BY <3>2, <3>4, <3>5 DEF Channels
  <2>3. CASE LockCancelHead(x) \/ CancelStep(x)
    <3>1. /\ UNCHANGED <<outputs, mine, executors>>
          /\ \/ Goto(x, "queue cancel")
             \/ Writes(x) /\ Goto(x, "cancel")
      BY <2>3 DEF LockCancelHead, CancelStep, outVars, Writes
    <3>2. \A l \in Command : Writes(l)' => Writes(l)
      BY <3>1 DEF TypeOK, Goto, Writes
    <3> QED BY <3>1, <3>2, <1>1
  <2> QED BY <1>5, <2>1, <2>2, <2>3 DEF ProcessCancelOrder
<1>6. ASSUME NEW o \in OrderId, ExecuteOrder(o) PROVE Channels'
  <2>0. PICK e \in executors : Trade(e) \/ EndExecutor(e)
    BY <1>6 DEF ExecuteOrder
  <2>1. e \in Executor /\ e.channel \in DOMAIN outputs
    BY DEF TypeOK, Channels
  <2>2. UNCHANGED <<pc, mine>>
    BY <2>0 DEF Trade, EndExecutor, locals
  <2>3. /\ outputs' \in Seq(Output) /\ DOMAIN outputs' = DOMAIN outputs
        /\ \A d \in executors' : d \in executors \/ d.channel = e.channel
    <3>1. CASE Trade(e)
      <4> DEFINE n == e.level
                 r == Head(queue[n])
                 size == IF e.left >= count[r] THEN count[r] ELSE e.left
      <4>1. /\ queue[n] # <<>> /\ Send(e.channel, Executed(e.order, r, size))
            /\ executors' = (executors \ {e}) \cup {[e EXCEPT !.left = @ - size]}
        BY <3>1 DEF Trade
      <4>2. n \in Node /\ r \in OrderId /\ e.left \in 0 .. Modulus - 1
        <5>1. n \in Node
          BY <2>1 DEF Executor
        <5>2. queue[n] \in Seq(OrderId)
          BY <5>1 DEF TypeOK
        <5> QED BY <5>1, <5>2, <4>1, <2>1 DEF Executor
      <4>3. size \in 0 .. Modulus - 1
        BY <4>2 DEF TypeOK
      <4>4. Executed(e.order, r, size) \in Line
        <5>1. executionId[r] \in Nat /\ e.order \in OrderId
          BY <4>2, <2>1 DEF TypeOK, Executor
        <5> HIDE DEF size, r
        <5> QED BY <4>2, <4>3, <5>1, TermsInRange DEF Line, Executed
      <4>5. outputs' \in Seq(Output) /\ DOMAIN outputs' = DOMAIN outputs
        BY <4>1, <4>4, <2>1, SendKeeps DEF Channels
      <4>6. [e EXCEPT !.left = @ - size].channel = e.channel
        BY <2>1 DEF Executor
      <4> QED BY <4>1, <4>5, <4>6
    <3>2. CASE EndExecutor(e)
      BY <3>2, <2>1, CloseKeeps DEF EndExecutor, Channels
    <3> QED BY <2>0, <3>1, <3>2
  <2> QED BY <2>1, <2>2, <2>3 DEF Channels, Writes
<1>7. ASSUME Printer \/ Terminated PROVE Channels'
  <2>1. UNCHANGED <<outputs, mine, executors, pc>>
    BY <1>7 DEF Printer, NextChannel, PrintLine, Terminated, vars, locals, outVars
  <2> QED BY <2>1 DEF Channels, Writes
<1> QED BY <1>2, <1>3, <1>4, <1>5, <1>6, <1>7 DEF Next, Goroutines


-----------------------------------------------------------------------------
(* A step is a step of one goroutine: it leaves the locals of the others.   *)
OnlyMoves(k) ==
  \A l \in Command \ {k} :
    /\ pc'[l] = pc[l] /\ curr'[l] = curr[l]
    /\ l \in CancelId => prev'[l] = prev[l]
    /\ l \in OrderId => v'[l] = v[l] /\ popPrev'[l] = popPrev[l]

(* Whose step it is, for each of the handlers. *)
LEMMA WhoMoves ==
  ASSUME TypeOK
  PROVE  /\ \A o \in OrderId : ProcessActiveOrder(o) \/ AddOrder(o) => OnlyMoves(o)
         /\ \A x \in CancelId : ProcessCancelOrder(x) => OnlyMoves(x)
         /\ \A c \in Client, o \in OrderId : ReadOrder(c, o) => OnlyMoves(o)
         /\ \A c \in Client, x \in CancelId : Dispatch(c, x) => OnlyMoves(x)
         /\ \A c \in Client : Reject(c) => UNCHANGED locals
         /\ \A c \in Client, x \in CancelId :
              Unknown(c, x) \/ Foreign(c, x) => UNCHANGED locals
         /\ \A o \in OrderId : ExecuteOrder(o) => UNCHANGED locals
         /\ Printer \/ Terminated => UNCHANGED locals
<1> USE HeadsAreNodes
<1>1. ASSUME NEW k \in Command,
             \E l : Goto(k, l),
             \/ curr' = curr
             \/ \E n : curr' = [curr EXCEPT ![k] = n],
             \/ prev' = prev
             \/ k \in CancelId /\ \E n : prev' = [prev EXCEPT ![k] = n],
             \/ v' = v
             \/ k \in OrderId /\ \E n : v' = [v EXCEPT ![k] = n],
             \/ popPrev' = popPrev
             \/ k \in OrderId /\ \E b : popPrev' = [popPrev EXCEPT ![k] = b]
      PROVE  OnlyMoves(k)
  BY ZenonT(30), <1>1 DEF OnlyMoves, TypeOK, Goto
<1>2. ASSUME NEW o \in OrderId, ProcessActiveOrder(o) PROVE OnlyMoves(o)
  <2>1. CASE LockSgl(o)
    BY <2>1, <1>1 DEF LockSgl
  <2>2. CASE LockMatchHead(o)
    BY <2>2, <1>1 DEF LockMatchHead
  <2>3. CASE LockLevel(o)
    BY <2>3, <1>1 DEF LockLevel
  <2>4. CASE StartExecutor(o)
    BY <2>4, <1>1 DEF StartExecutor
  <2>5. CASE Advance(o)
    BY <2>5, <1>1 DEF Advance
  <2>6. CASE EndMatch(o)
    BY <2>6, <1>1 DEF EndMatch
  <2>7. CASE LockOwnHead(o)
    BY <2>7, <1>1 DEF LockOwnHead
  <2>8. CASE SetOrder(o)
    BY <2>8, <1>1 DEF SetOrder
  <2>9. CASE StartAdd(o)
    BY <2>9, <1>1 DEF StartAdd
  <2> QED BY <1>2, <2>1, <2>2, <2>3, <2>4, <2>5, <2>6, <2>7, <2>8, <2>9
          DEF ProcessActiveOrder
<1>3. ASSUME NEW o \in OrderId, AddOrder(o) PROVE OnlyMoves(o)
  BY <1>3, <1>1 DEF AddOrder, PlaceFound, AddStep, NewLevel, AppendOrder
<1>4. ASSUME NEW x \in CancelId, ProcessCancelOrder(x) PROVE OnlyMoves(x)
  <2>1. CASE LockCancelHead(x) \/ QueueCancel(x)
    BY <2>1, <1>1 DEF LockCancelHead, QueueCancel
  <2>2. CASE CancelStep(x)
    BY <2>2, <1>1 DEF CancelStep
  <2>3. CASE CancelFails(x) \/ CancelSucceeds(x)
    BY <2>3, <1>1 DEF CancelFails, CancelSucceeds, Answer
  <2> QED BY <1>4, <2>1, <2>2, <2>3 DEF ProcessCancelOrder
<1>5. ASSUME NEW c \in Client, NEW o \in OrderId, ReadOrder(c, o) PROVE OnlyMoves(o)
  BY <1>5, <1>1 DEF ReadOrder
<1>6. ASSUME NEW c \in Client, NEW x \in CancelId, Dispatch(c, x) PROVE OnlyMoves(x)
  BY <1>6, <1>1 DEF Dispatch
<1>7. /\ \A c \in Client : Reject(c) => UNCHANGED locals
      /\ \A c \in Client, x \in CancelId :
           Unknown(c, x) \/ Foreign(c, x) => UNCHANGED locals
  BY DEF Unknown, Foreign, Reject
<1>8. ASSUME NEW o \in OrderId, ExecuteOrder(o) PROVE UNCHANGED locals
  BY <1>8 DEF ExecuteOrder, Trade, EndExecutor
<1>9. Printer \/ Terminated => UNCHANGED locals
  BY DEF Printer, NextChannel, PrintLine, Terminated, vars, locals
<1> QED BY <1>2, <1>3, <1>4, <1>5, <1>6, <1>7, <1>8, <1>9

(* What each kind of goroutine uses. *)
LEMMA UsesAt ==
  ASSUME NEW k \in Command
  PROVE  /\ pc[k] \in {"lock level", "advance", "matched"} => Uses(k) = {MatchHead(k)}
         /\ pc[k] = "execute" => Uses(k) = {MatchHead(k), curr[k]}
         /\ pc[k] \in {"set", "queue add"} => Uses(k) = {OwnHead(k)}
         /\ pc[k] \in {"add", "new level", "append"} => Uses(k) = {curr[k]}
         /\ pc[k] = "queue cancel" => Uses(k) = {OwnHead(About[k])}
         /\ pc[k] = "cancel" => Uses(k) = {curr[k], prev[k]} \ {Nil}
         /\ pc[k] \in {"unread", "done", "lock sgl", "lock match head",
                       "lock own head", "lock head"} => Uses(k) = {}
BY DEF Uses, Held

(* The same of the state after a step. *)
LEMMA UsesNext ==
  ASSUME NEW k \in Command
  PROVE  /\ pc'[k] \in {"lock level", "advance", "matched"} => Uses(k)' = {MatchHead(k)}
         /\ pc'[k] = "execute" => Uses(k)' = {MatchHead(k), curr'[k]}
         /\ pc'[k] \in {"set", "queue add"} => Uses(k)' = {OwnHead(k)}
         /\ pc'[k] \in {"add", "new level", "append"} => Uses(k)' = {curr'[k]}
         /\ pc'[k] = "queue cancel" => Uses(k)' = {OwnHead(About[k])}
         /\ pc'[k] = "cancel" => Uses(k)' = {curr'[k], prev'[k]} \ {Nil}
         /\ pc'[k] \in {"unread", "done", "lock sgl", "lock match head",
                        "lock own head", "lock head"} => Uses(k)' = {}
BY DEF Uses, Held

(* What somebody uses is locked. *)
LEMMA UsedIsLocked ==
  ASSUME LocksHaveOneUser
  PROVE  /\ \A k \in Command : Uses(k) \subseteq locked \cap Node
         /\ \A e \in executors : e.level \in locked \cap Node
BY DEF LocksHaveOneUser

(* Only the one that moves can come to stand badly. *)
LEMMA OthersStand ==
  ASSUME Types, NEW k \in Command, OnlyMoves(k), StandsWell(k)'
  PROVE  Standing'
<1> SUFFICES ASSUME NEW l \in Command, l # k PROVE StandsWell(l)'
  BY DEF Standing
<1> QED BY DEF Types, Standing, StandsWell, OnlyMoves

(* Every step keeps who stands where. *)
LEMMA StandingStep == ASSUME LockInv, Next PROVE Standing'
<1> USE HeadsAreNodes DEF Types, LockInv
<1>0. /\ \A n \in Node : next[n] # Nil => next[n] \in OrderId
      /\ \A k \in Command : StandsWell(k)
  BY DEF TypeOK, Standing
<1>1. ASSUME NEW o \in OrderId, ProcessActiveOrder(o) \/ AddOrder(o) PROVE StandsWell(o)'
  <2>1. CASE LockMatchHead(o)
    BY <2>1, <1>0 DEF LockMatchHead, LevelPc, Goto, StandsWell, TypeOK
  <2>2. CASE Advance(o)
    BY <2>2, <1>0 DEF Advance, LevelPc, Goto, StandsWell, TypeOK
  <2>3. CASE LockLevel(o) \/ StartExecutor(o) \/ EndMatch(o)
    BY <2>3, <1>0 DEF LockLevel, StartExecutor, EndMatch, Goto, StandsWell, TypeOK
  <2>4. CASE LockSgl(o) \/ LockOwnHead(o) \/ SetOrder(o) \/ StartAdd(o)
    BY ZenonT(30), <2>4, <1>0
    DEF LockSgl, LockOwnHead, SetOrder, StartAdd, Goto, StandsWell, TypeOK
  <2>5. CASE PlaceFound(o)
    BY <2>5, <1>0 DEF PlaceFound, PlacePc, Goto, StandsWell, TypeOK
  <2>6. CASE AddStep(o)
    BY <2>6, <1>0 DEF AddStep, Goto, StandsWell, TypeOK
  <2>7. CASE NewLevel(o)
    BY <2>7, <1>0 DEF NewLevel, Goto, StandsWell, TypeOK
  <2>8. CASE AppendOrder(o)
    BY <2>8, <1>0 DEF AppendOrder, Goto, StandsWell, TypeOK
  <2> QED BY <1>1, <2>1, <2>2, <2>3, <2>4, <2>5, <2>6, <2>7, <2>8
          DEF ProcessActiveOrder, AddOrder
<1>2. ASSUME NEW x \in CancelId, ProcessCancelOrder(x) PROVE StandsWell(x)'
  <2>1. CASE LockCancelHead(x)
    BY <2>1, <1>0 DEF LockCancelHead, Goto, StandsWell, TypeOK
  <2>2. CASE QueueCancel(x)
    <3>1. /\ pc[x] = "queue cancel" /\ Goto(x, "cancel") /\ prev' = prev
          /\ curr' = [curr EXCEPT ![x] = OwnHead(About[x])]
      BY <2>2 DEF QueueCancel
    <3>2. prev[x] = Nil /\ OwnHead(About[x]) \in Node
      BY <3>1, <1>0 DEF StandsWell
    <3>3. pc'[x] = "cancel" /\ curr'[x] \in Node /\ prev'[x] = Nil
      BY <3>1, <3>2 DEF Goto, TypeOK
    <3> QED BY <3>3 DEF StandsWell
  <2>3. CASE CancelStep(x)
    <3> DEFINE n == next[curr[x]]
    <3>1. /\ pc[x] = "cancel" /\ n # Nil /\ Goto(x, "cancel") /\ n \notin locked
          /\ prev' = [prev EXCEPT ![x] = curr[x]] /\ curr' = [curr EXCEPT ![x] = n]
      BY <2>3 DEF CancelStep, Acquire, HandOver, Free
    <3>2. curr[x] \in Node /\ n \in OrderId
      BY <3>1, <1>0 DEF StandsWell
    <3>3. curr[x] \in locked
      BY <3>1, <3>2, UsesAt, UsedIsLocked
    <3>4. pc'[x] = "cancel" /\ curr'[x] = n /\ prev'[x] = curr[x]
      BY <3>1, <3>2 DEF Goto, TypeOK
    <3> QED BY <3>1, <3>2, <3>3, <3>4 DEF StandsWell
  <2>4. CASE CancelFails(x) \/ CancelSucceeds(x)
    BY <2>4, <1>0 DEF CancelFails, CancelSucceeds, Answer, Goto, StandsWell, TypeOK
  <2> QED BY <1>2, <2>1, <2>2, <2>3, <2>4 DEF ProcessCancelOrder
<1>3. /\ \A c \in Client, o \in OrderId : ReadOrder(c, o) => StandsWell(o)'
      /\ \A c \in Client, x \in CancelId : Dispatch(c, x) => StandsWell(x)'
  <2>1. ASSUME NEW c \in Client, NEW o \in OrderId, ReadOrder(c, o) PROVE StandsWell(o)'
    BY <2>1 DEF ReadOrder, Goto, StandsWell, TypeOK
  <2>2. ASSUME NEW c \in Client, NEW x \in CancelId, Dispatch(c, x) PROVE StandsWell(x)'
    <3>1. /\ x = Head(input[c]) /\ input[c] # <<>> /\ Sent(c) /\ Goto(x, "lock head")
          /\ prev' = prev
      BY <2>2 DEF Dispatch, LooksUp, Reads
    <3>2. pc[x] = "unread"
      BY <3>1, Reading
    <3>3. prev'[x] = Nil /\ pc'[x] = "lock head"
      BY <3>1, <3>2, <1>0 DEF StandsWell, Goto, TypeOK
    <3> QED BY <3>3 DEF StandsWell
  <2> QED BY <2>1, <2>2
<1>4. UNCHANGED locals => Standing'
  BY DEF locals, Standing, StandsWell
<1>5. ASSUME NEW k \in Command, OnlyMoves(k), StandsWell(k)' PROVE Standing'
  BY <1>5, OthersStand
<1>6. \A o \in OrderId : ProcessActiveOrder(o) \/ AddOrder(o) => Standing'
  BY <1>1, <1>5, WhoMoves
<1>7. \A x \in CancelId : ProcessCancelOrder(x) => Standing'
  BY <1>2, <1>5, WhoMoves
<1>8. \A c \in Client : HandleConn(c) => Standing'
  BY <1>3, <1>4, <1>5, WhoMoves DEF HandleConn
<1>9. (\E o \in OrderId : ExecuteOrder(o)) \/ Printer \/ Terminated => Standing'
  BY <1>4, WhoMoves
<1> QED BY <1>6, <1>7, <1>8, <1>9 DEF Next, Goroutines


-----------------------------------------------------------------------------
(* A goroutine that leaves some levels and goes to others, which were free, *)
(* is still the only one that uses what it uses.                           *)
LEMMA LevelsMove ==
  ASSUME Types, LocksHaveOneUser, NEW k \in Command, OnlyMoves(k),
         UNCHANGED executors,
         (Uses(k)' \ Uses(k)) \cap locked = {},
         locked' \cap Node = ((locked \cap Node) \ Uses(k)) \cup Uses(k)'
  PROVE  LocksHaveOneUser'
<1>1. \A l \in Command \ {k} : Uses(l)' = Uses(l)
  BY DEF OnlyMoves, Uses, Held, Types, Labels, OrderPc, Command
<1>2. /\ \A l \in Command : Uses(l) \subseteq locked
      /\ \A e \in executors : e.level \in locked
  BY UsedIsLocked
<1>3. \A l, m \in Command : l # m => Uses(l)' \cap Uses(m)' = {}
  BY <1>1, <1>2 DEF LocksHaveOneUser
<1>4. /\ \A d, e \in executors' : d # e => d.level # e.level
      /\ \A e \in executors', l \in Command : e.level \notin Uses(l)'
  BY <1>1, <1>2 DEF LocksHaveOneUser
<1>5. locked' \cap Node = (UNION {Uses(l)' : l \in Command})
                          \cup {e.level : e \in executors'}
  BY <1>1, <1>2 DEF LocksHaveOneUser
<1> QED BY <1>3, <1>4, <1>5 DEF LocksHaveOneUser

(* What does not move and does not lock a level changes nothing.           *)
LEMMA NobodyMoves ==
  ASSUME LocksHaveOneUser, UNCHANGED locals, UNCHANGED executors,
         locked' \cap Node = locked \cap Node
  PROVE  LocksHaveOneUser'
<1>1. \A l \in Command : Uses(l)' = Uses(l)
  BY DEF locals, Uses, Held
<1> QED BY <1>1 DEF LocksHaveOneUser


(* Every step keeps one user to each level. *)
LEMMA LocksStep == ASSUME LockInv, Next PROVE LocksHaveOneUser'
<1> USE HeadsAreNodes DEF Types, LockInv
<1>0. /\ \A n \in Node : next[n] # Nil => next[n] \in OrderId
      /\ \A k \in Command : StandsWell(k)
      /\ \A k \in Command : Uses(k) \subseteq locked \cap Node
  BY UsedIsLocked DEF TypeOK, Standing
<1>1. ASSUME NEW k \in Command, OnlyMoves(k), UNCHANGED executors,
             (Uses(k)' \ Uses(k)) \cap locked = {},
             locked' \cap Node = ((locked \cap Node) \ Uses(k)) \cup Uses(k)'
      PROVE  LocksHaveOneUser'
  BY <1>1, LevelsMove
<1>2. ASSUME NEW o \in OrderId, ProcessActiveOrder(o) PROVE LocksHaveOneUser'
  <2>0. OnlyMoves(o)
    BY <1>2, WhoMoves
  <2>1. CASE LockSgl(o)
    <3>1. Uses(o) = {} /\ Uses(o)' = {}
      BY <2>1, UsesAt, UsesNext DEF LockSgl, Goto, TypeOK
    <3> QED BY <2>0, <2>1, <3>1, <1>1 DEF LockSgl, Acquire
  <2>2. CASE LockMatchHead(o)
    <3>1. Uses(o) = {} /\ Uses(o)' = {MatchHead(o)}
      BY <2>2, UsesAt, UsesNext DEF LockMatchHead, LevelPc, Goto, TypeOK
    <3> QED BY <2>0, <2>2, <3>1, <1>1 DEF LockMatchHead, Acquire, Free
  <2>3. CASE LockLevel(o)
    <3> DEFINE n == curr[o]
    <3>1. /\ Uses(o) = {MatchHead(o)} /\ n \in OrderId /\ n \notin locked
          /\ executors' = executors
      BY <2>3, <1>0, UsesAt DEF LockLevel, StandsWell, Free
    <3>2. CASE Goto(o, "execute")
      <4>1. Uses(o)' = {MatchHead(o), n} /\ locked' = locked \cup {n}
        BY <2>3, <3>2, UsesNext DEF LockLevel, Goto, TypeOK
      <4> QED BY <2>0, <3>1, <4>1, <1>0, <1>1
    <3>3. CASE Goto(o, "matched")
      <4>1. Uses(o)' = {MatchHead(o)} /\ locked' = locked
        BY <2>3, <3>3, UsesNext DEF LockLevel, Goto, TypeOK
      <4> QED BY <2>0, <3>1, <4>1, <1>0, <1>1
    <3> QED BY <2>3, <3>2, <3>3 DEF LockLevel
  <2>4. CASE StartExecutor(o)
    <3> DEFINE n == curr[o]
    <3>1. /\ Uses(o) = {MatchHead(o), n} /\ Uses(o)' = {MatchHead(o)}
          /\ n \in OrderId /\ locked' = locked
      BY <2>4, <1>0, UsesAt, UsesNext DEF StartExecutor, StandsWell, Goto, TypeOK, bookVars
    <3>2. PICK e : e.level = n /\ executors' = executors \cup {e}
      BY <2>4 DEF StartExecutor
    <3>3. \A l \in Command \ {o} : Uses(l)' = Uses(l)
      BY <2>0 DEF OnlyMoves, Uses, Held, Labels, OrderPc, Command
    <3>4. \A k, l \in Command : k # l => Uses(k)' \cap Uses(l)' = {}
      BY <3>1, <3>3 DEF LocksHaveOneUser
    <3>5. \A d, f \in executors' : d # f => d.level # f.level
      BY <3>1, <3>2 DEF LocksHaveOneUser
    <3>6. \A d \in executors', k \in Command : d.level \notin Uses(k)'
      BY <3>1, <3>2, <3>3 DEF LocksHaveOneUser
    <3>7. locked' \cap Node = (UNION {Uses(k)' : k \in Command})
                              \cup {d.level : d \in executors'}
      BY <3>1, <3>2, <3>3 DEF LocksHaveOneUser
    <3> QED BY <3>4, <3>5, <3>6, <3>7 DEF LocksHaveOneUser
  <2>5. CASE Advance(o)
    <3>1. Uses(o) = {MatchHead(o)} /\ Uses(o)' = {MatchHead(o)}
      BY <2>5, UsesAt, UsesNext DEF Advance, LevelPc, Goto, TypeOK
    <3> QED BY <2>0, <2>5, <3>1, <1>0, <1>1 DEF Advance
  <2>6. CASE EndMatch(o)
    <3>1. Uses(o) = {MatchHead(o)} /\ Uses(o)' = {}
      BY <2>6, UsesAt, UsesNext DEF EndMatch, Goto, TypeOK
    <3> QED BY <2>0, <2>6, <3>1, <1>1 DEF EndMatch, Release
  <2>7. CASE LockOwnHead(o)
    <3>1. Uses(o) = {} /\ Uses(o)' = {OwnHead(o)}
      BY <2>7, UsesAt, UsesNext DEF LockOwnHead, Goto, TypeOK
    <3> QED BY <2>0, <2>7, <3>1, <1>1 DEF LockOwnHead, Acquire, Free
  <2>8. CASE SetOrder(o)
    <3>1. Uses(o) = {OwnHead(o)} /\ Uses(o)' = {OwnHead(o)}
      BY <2>8, UsesAt, UsesNext DEF SetOrder, Goto, TypeOK
    <3> QED BY <2>0, <2>8, <3>1, <1>0, <1>1 DEF SetOrder, bookVars
  <2>9. CASE StartAdd(o)
    <3>1. Uses(o) = {OwnHead(o)} /\ Uses(o)' = {OwnHead(o)}
      BY <2>9, UsesAt, UsesNext DEF StartAdd, Goto, TypeOK
    <3> QED BY <2>0, <2>9, <3>1, <1>0, <1>1 DEF StartAdd, Release
  <2> QED BY <1>2, <2>1, <2>2, <2>3, <2>4, <2>5, <2>6, <2>7, <2>8, <2>9
          DEF ProcessActiveOrder
<1>3. ASSUME NEW o \in OrderId, AddOrder(o) PROVE LocksHaveOneUser'
  <2>0. OnlyMoves(o) /\ executors' = executors
    BY <1>3, WhoMoves DEF AddOrder, PlaceFound, AddStep, NewLevel, AppendOrder
  <2>1. Uses(o) = {curr[o]} /\ curr[o] \in Node
    BY <1>3, <1>0, UsesAt
    DEF AddOrder, PlaceFound, AddStep, NewLevel, AppendOrder, StandsWell
  <2>2. CASE PlaceFound(o)
    <3>1. Uses(o)' = {curr[o]}
      BY <2>2, UsesNext DEF PlaceFound, PlacePc, Goto, TypeOK
    <3> QED BY <2>0, <2>1, <2>2, <3>1, <1>0, <1>1 DEF PlaceFound, bookVars
  <2>3. CASE AddStep(o)
    <3> DEFINE n == next[curr[o]]
    <3>1. n \in OrderId /\ n \notin locked /\ locked' = (locked \ {curr[o]}) \cup {n}
      BY <2>3, <2>1, <1>0 DEF AddStep, HandOver, Free
    <3>2. Uses(o)' = {n}
      BY <2>3, UsesNext DEF AddStep, Goto, TypeOK
    <3> QED BY <2>0, <2>1, <3>1, <3>2, <1>1
  <2>4. CASE NewLevel(o)
    <3>1. o \notin locked /\ locked' = (locked \ {curr[o]}) \cup {o}
      BY <2>4 DEF NewLevel, HandOver, Free
    <3>2. Uses(o)' = {o}
      BY <2>4, UsesNext DEF NewLevel, Goto, TypeOK
    <3> QED BY <2>0, <2>1, <3>1, <3>2, <1>1
  <2>5. CASE AppendOrder(o)
    <3>1. Uses(o)' = {} /\ locked' = locked \ {curr[o]}
      BY <2>5, UsesNext DEF AppendOrder, Goto, TypeOK, Release
    <3> QED BY <2>0, <2>1, <3>1, <1>1
  <2> QED BY <1>3, <2>2, <2>3, <2>4, <2>5 DEF AddOrder
<1>4. ASSUME NEW x \in CancelId, ProcessCancelOrder(x) PROVE LocksHaveOneUser'
  <2>0. OnlyMoves(x) /\ executors' = executors
    BY <1>4, WhoMoves DEF ProcessCancelOrder, LockCancelHead, QueueCancel, CancelStep,
         CancelFails, CancelSucceeds
  <2>1. CASE LockCancelHead(x)
    <3>1. Uses(x) = {} /\ Uses(x)' = {OwnHead(About[x])}
      BY <2>1, UsesAt, UsesNext DEF LockCancelHead, Goto, TypeOK
    <3> QED BY <2>0, <2>1, <3>1, <1>1 DEF LockCancelHead, Acquire, Free
  <2>2. CASE QueueCancel(x)
    <3>1. /\ Uses(x) = {OwnHead(About[x])} /\ pc'[x] = "cancel" /\ prev'[x] = Nil
          /\ curr'[x] = OwnHead(About[x])
      BY <2>2, <1>0, UsesAt DEF QueueCancel, Goto, TypeOK, StandsWell
    <3>2. Uses(x)' = {curr'[x], prev'[x]} \ {Nil}
      BY <3>1, UsesNext
    <3>3. Uses(x)' = {OwnHead(About[x])}
      BY <3>1, <3>2
    <3> QED BY <2>0, <2>2, <3>1, <3>3, <1>0, <1>1 DEF QueueCancel, bookVars
  <2>3. CASE CancelStep(x)
    <3> DEFINE n == next[curr[x]]
    <3>1. /\ Uses(x) = {curr[x], prev[x]} \ {Nil} /\ curr[x] \in Node
          /\ n \in OrderId /\ n \notin locked /\ prev[x] # curr[x]
          /\ prev[x] \in Node \cup {Nil}
      BY <2>3, <1>0, UsesAt
      DEF CancelStep, StandsWell, Acquire, HandOver, Free, TypeOK
    <3>2. pc'[x] = "cancel" /\ prev'[x] = curr[x] /\ curr'[x] = n
      BY <2>3 DEF CancelStep, Goto, TypeOK
    <3>8. Uses(x)' = {curr'[x], prev'[x]} \ {Nil}
      BY <3>2, UsesNext
    <3>3. Uses(x)' = {n, curr[x]}
      BY <3>1, <3>2, <3>8
    <3>4. locked' = (locked \ ({prev[x]} \ {Nil})) \cup {n}
      BY <2>3 DEF CancelStep, Acquire, HandOver
    <3>5. curr[x] \in locked /\ n # curr[x]
      BY <3>1, <1>0
    <3>6. locked' \cap Node = ((locked \cap Node) \ Uses(x)) \cup Uses(x)'
      BY <3>1, <3>3, <3>4, <3>5
    <3>7. (Uses(x)' \ Uses(x)) \cap locked = {}
      BY <3>1, <3>3
    <3> QED BY <2>0, <3>6, <3>7, <1>1
  <2>4. CASE CancelFails(x) \/ CancelSucceeds(x)
    <3>1. /\ Uses(x) = {curr[x], prev[x]} \ {Nil} /\ Uses(x)' = {}
          /\ locked' = locked \ ({curr[x], prev[x]} \ {Nil})
      BY <2>4, UsesAt, UsesNext
      DEF CancelFails, CancelSucceeds, Answer, Held, Release, Goto, TypeOK
    <3> QED BY <2>0, <3>1, <1>1
  <2> QED BY <1>4, <2>1, <2>2, <2>3, <2>4 DEF ProcessCancelOrder
<1>5. ASSUME NEW c \in Client, HandleConn(c) PROVE LocksHaveOneUser'
  <2>1. ASSUME NEW k \in Command, OnlyMoves(k), Goto(k, "lock sgl") \/ Goto(k, "lock head"),
               pc[k] = "unread", UNCHANGED <<locked, executors>>
        PROVE  LocksHaveOneUser'
    <3>0. pc[k] = "unread" /\ pc'[k] \in {"lock sgl", "lock head"}
      BY <2>1 DEF Goto, TypeOK
    <3>1. Uses(k) = {} /\ Uses(k)' = {}
      BY <3>0, UsesAt, UsesNext
    <3> QED BY <2>1, <3>1, <1>1
  <2>2. ASSUME NEW o \in OrderId, ReadOrder(c, o) PROVE LocksHaveOneUser'
    <3>1. /\ o = Head(input[c]) /\ input[c] # <<>> /\ Sent(c) /\ Goto(o, "lock sgl")
          /\ UNCHANGED <<locked, executors>>
      BY <2>2 DEF ReadOrder, Reads, bookVars
    <3>2. pc[o] = "unread" /\ OnlyMoves(o)
      BY <2>2, <3>1, Reading, WhoMoves
    <3> QED BY <3>1, <3>2, <2>1
  <2>3. ASSUME NEW x \in CancelId, Dispatch(c, x) PROVE LocksHaveOneUser'
    <3>1. /\ x = Head(input[c]) /\ input[c] # <<>> /\ Sent(c) /\ Goto(x, "lock head")
          /\ UNCHANGED <<locked, executors>>
      BY <2>3 DEF Dispatch, LooksUp, Reads, bookVars
    <3>2. pc[x] = "unread" /\ OnlyMoves(x)
      BY <2>3, <3>1, Reading, WhoMoves
    <3> QED BY <3>1, <3>2, <2>1
  <2>4. ASSUME NEW x \in CancelId, Unknown(c, x) \/ Foreign(c, x) PROVE LocksHaveOneUser'
    <3>1. UNCHANGED locals /\ UNCHANGED executors /\ locked' \cap Node = locked \cap Node
      BY <2>4 DEF Unknown, Foreign, Acquire, bookVars
    <3> QED BY <3>1, NobodyMoves
  <2>5. CASE Reject(c)
    <3>1. UNCHANGED locals /\ UNCHANGED executors /\ locked' \cap Node = locked \cap Node
      BY <2>5 DEF Reject, Release
    <3> QED BY <3>1, NobodyMoves
  <2> QED BY <1>5, <2>2, <2>3, <2>4, <2>5 DEF HandleConn
<1>6. ASSUME NEW o \in OrderId, ExecuteOrder(o) PROVE LocksHaveOneUser'
  <2>0. PICK e \in executors : Trade(e) \/ EndExecutor(e)
    BY <1>6 DEF ExecuteOrder
  <2>1. \A l \in Command : Uses(l)' = Uses(l)
    BY <1>6, WhoMoves DEF locals, Uses, Held
  <2>2. e \in Executor
    BY DEF TypeOK
  <2>3. CASE Trade(e)
    <3>1. PICK f : f.level = e.level /\ executors' = (executors \ {e}) \cup {f}
      <4> DEFINE size == IF e.left >= count[Head(queue[e.level])]
                         THEN count[Head(queue[e.level])] ELSE e.left
                 f == [e EXCEPT !.left = @ - size]
      <4>1. f.level = e.level
        BY <2>2 DEF Executor
      <4>2. executors' = (executors \ {e}) \cup {f}
        BY <2>3 DEF Trade
      <4> QED BY <4>1, <4>2
    <3>2. locked' = locked
      BY <2>3 DEF Trade
    <3>3. \A d, g \in executors' : d # g => d.level # g.level
      BY <3>1 DEF LocksHaveOneUser
    <3>4. {d.level : d \in executors'} = {d.level : d \in executors}
      BY <3>1
    <3>5. \A d \in executors', l \in Command : d.level \notin Uses(l)'
      BY <3>1, <2>1 DEF LocksHaveOneUser
    <3>6. \A k, l \in Command : k # l => Uses(k)' \cap Uses(l)' = {}
      BY <2>1 DEF LocksHaveOneUser
    <3>7. locked' \cap Node = (UNION {Uses(l)' : l \in Command})
                              \cup {d.level : d \in executors'}
      BY <2>1, <3>2, <3>4 DEF LocksHaveOneUser
    <3> QED BY <3>3, <3>5, <3>6, <3>7 DEF LocksHaveOneUser
  <2>4. CASE EndExecutor(e)
    <3>1. executors' = executors \ {e} /\ locked' = locked \ {e.level}
      BY <2>4 DEF EndExecutor, Release
    <3>2. {d.level : d \in executors'} = {d.level : d \in executors} \ {e.level}
      BY <3>1 DEF LocksHaveOneUser
    <3>3. \A l \in Command : e.level \notin Uses(l)
      BY DEF LocksHaveOneUser
    <3>4. locked' \cap Node = (UNION {Uses(l)' : l \in Command})
                              \cup {d.level : d \in executors'}
      BY <2>1, <3>1, <3>2, <3>3 DEF LocksHaveOneUser
    <3> QED BY <2>1, <3>1, <3>4 DEF LocksHaveOneUser
  <2> QED BY <2>0, <2>3, <2>4
<1>7. ASSUME Printer \/ Terminated PROVE LocksHaveOneUser'
  <2>1. UNCHANGED locals /\ UNCHANGED <<executors, locked>>
    BY <1>7, WhoMoves DEF Printer, NextChannel, PrintLine, Terminated, vars, bookVars
  <2> QED BY <2>1, NobodyMoves
<1> QED BY <1>2, <1>3, <1>4, <1>5, <1>6, <1>7 DEF Next, Goroutines


-----------------------------------------------------------------------------


(* A function that a step leaves alone or changes at one place. *)
Updated(f, g, S, T) == g = f \/ \E k \in S, t \in T : g = [f EXCEPT ![k] = t]

(* It stays a function of its type. *)
LEMMA UpdatedIsTyped ==
  ASSUME NEW S, NEW T, NEW f \in [S -> T], NEW g, Updated(f, g, S, T)
  PROVE  g \in [S -> T]
BY DEF Updated

(* outputs may become longer by one, when there is room; the printer takes  *)
(* only what was queued.                                                    *)
LEMMA ChannelsStayInBounds ==
  ASSUME TypeOK, outputs \in Seq(Output), Len(outputs') \in Nat,
         \/ Len(outputs') = Len(outputs) /\ taken' = taken
         \/ /\ Len(outputs') = Len(outputs) + 1 /\ taken' = taken
            /\ Len(outputs) - taken < Capacity
         \/ Len(outputs') = Len(outputs) /\ taken' = taken + 1 /\ taken < Len(outputs)
  PROVE  /\ taken' \in 0 .. Len(outputs') /\ Len(outputs') - taken' <= Capacity
         /\ mine \in [Command -> 0 .. Len(outputs')]
<1>1. Len(outputs) \in Nat /\ Capacity \in Nat
  BY GoBookAssumption
<1>2. taken \in 0 .. Len(outputs) /\ Len(outputs) - taken <= Capacity
  BY DEF TypeOK
<1>3. taken' \in 0 .. Len(outputs') /\ Len(outputs') - taken' <= Capacity
  BY <1>1, <1>2
<1>4. mine \in [Command -> 0 .. Len(outputs)]
  BY DEF TypeOK
<1>5. 0 .. Len(outputs) \subseteq 0 .. Len(outputs')
  BY <1>1
<1> QED BY <1>3, <1>4, <1>5

(* A step that changes every variable in one place, or not at all. *)
LEMMA TypesKept ==
  ASSUME TypeOK,
         taken' \in 0 .. Len(outputs') /\ Len(outputs') - taken' <= Capacity,
         mine \in [Command -> 0 .. Len(outputs')],
         Updated(mine, mine', Command, 0 .. Len(outputs')),
         \A c \in Client : input'[c] \in Seq(Command),
         Updated(conn, conn', Client, {"read", "reject unknown", "reject foreign"}),
         Updated(rId, rId', OrderId, Client \cup {Nil}),
         Updated(count, count', OrderId, 0 .. Modulus - 1),
         Updated(executionId, executionId', OrderId, Nat \ {0}),
         orders' \subseteq OrderId, locked' \subseteq Lock,
         next' \in [Node -> OrderId \cup {Nil}],
         Updated(volume, volume', Node, 0 .. Modulus - 1),
         Updated(queue, queue', Node, Seq(OrderId)),
         Updated(pc, pc', Command, {"unread", "done"} \cup OrderPc \cup CancelPc),
         Updated(curr, curr', Command, Node \cup {Nil}),
         Updated(prev, prev', CancelId, Node \cup {Nil}),
         Updated(v, v', OrderId, 0 .. Modulus - 1),
         Updated(popPrev, popPrev', OrderId, BOOLEAN),
         executors' \subseteq Executor
  PROVE  TypeOK'
<1>1. mine' \in [Command -> 0 .. Len(outputs')]
  BY UpdatedIsTyped
<1>2. conn' \in [Client -> {"read", "reject unknown", "reject foreign"}]
  BY UpdatedIsTyped DEF TypeOK
<1>3. rId' \in [OrderId -> Client \cup {Nil}] /\ count' \in [OrderId -> 0 .. Modulus - 1]
  BY UpdatedIsTyped DEF TypeOK
<1>4. executionId' \in [OrderId -> Nat \ {0}] /\ volume' \in [Node -> 0 .. Modulus - 1]
  BY UpdatedIsTyped DEF TypeOK
<1>5. queue' \in [Node -> Seq(OrderId)]
  BY UpdatedIsTyped DEF TypeOK
<1>6. pc' \in [Command -> {"unread", "done"} \cup OrderPc \cup CancelPc]
  BY UpdatedIsTyped DEF TypeOK
<1>7. curr' \in [Command -> Node \cup {Nil}] /\ prev' \in [CancelId -> Node \cup {Nil}]
  BY UpdatedIsTyped DEF TypeOK
<1>8. v' \in [OrderId -> 0 .. Modulus - 1] /\ popPrev' \in [OrderId -> BOOLEAN]
  BY UpdatedIsTyped DEF TypeOK
<1> QED BY <1>1, <1>2, <1>3, <1>4, <1>5, <1>6, <1>7, <1>8 DEF TypeOK

(* A step that queues nothing and that the printer has no part in. *)
LEMMA SameChannels ==
  ASSUME Types, Len(outputs') = Len(outputs), taken' = taken
  PROVE  /\ taken' \in 0 .. Len(outputs') /\ Len(outputs') - taken' <= Capacity
         /\ mine \in [Command -> 0 .. Len(outputs')]
<1>1. Len(outputs') \in Nat /\ outputs \in Seq(Output)
  BY DEF Types, Channels
<1> QED BY <1>1, ChannelsStayInBounds DEF Types

(* A step that queues a channel. *)
LEMMA OneMoreChannel ==
  ASSUME Types, Len(outputs') = Len(outputs) + 1, Len(outputs) - taken < Capacity,
         taken' = taken
  PROVE  /\ taken' \in 0 .. Len(outputs') /\ Len(outputs') - taken' <= Capacity
         /\ mine \in [Command -> 0 .. Len(outputs')] /\ Len(outputs') \in Nat \ {0}
<1>1. Len(outputs') \in Nat \ {0} /\ outputs \in Seq(Output)
  BY DEF Types, Channels
<1> QED BY <1>1, ChannelsStayInBounds DEF Types

(* What TypeOK says of the variables that are not functions. *)
LEMMA PlainTypes ==
  ASSUME TypeOK
  PROVE  /\ orders \subseteq OrderId /\ locked \subseteq Lock /\ executors \subseteq Executor
         /\ next \in [Node -> OrderId \cup {Nil}]
         /\ \A o \in OrderId : /\ count[o] \in 0 .. Modulus - 1 /\ v[o] \in 0 .. Modulus - 1
                               /\ executionId[o] \in Nat \ {0}
         /\ \A n \in Node : /\ next[n] # Nil => next[n] \in OrderId
                            /\ queue[n] \in Seq(OrderId) /\ volume[n] \in 0 .. Modulus - 1
BY DEF TypeOK

-----------------------------------------------------------------------------
(* handleConn keeps the types. *)
LEMMA HandleConnTypes ==
  ASSUME Types, Next, NEW c \in Client, HandleConn(c) PROVE TypeOK'
<1> USE HeadsAreNodes DEF Types
<1>1. \A d \in Client : input'[d] \in Seq(Command)
  BY LabelsStep DEF Labels
<1>2. /\ orders \subseteq OrderId /\ locked \subseteq Lock /\ executors \subseteq Executor
      /\ next \in [Node -> OrderId \cup {Nil}] /\ "ordersLock" \in Lock
  BY PlainTypes DEF Lock
<1>3. ASSUME NEW o \in OrderId, ReadOrder(c, o) PROVE TypeOK'
  <2>1. outputs' = outputs /\ taken' = taken
    BY <1>3 DEF ReadOrder, outVars
  <2>2. Terms[o].count \in 0 .. Modulus - 1 /\ "lock sgl" \in OrderPc
    BY TermsInRange DEF OrderPc
  <2> QED BY <1>1, <1>2, <1>3, <2>1, <2>2, SameChannels, TypesKept
          DEF ReadOrder, Goto, Updated, outVars, bookVars
<1>4. ASSUME NEW x \in CancelId, Dispatch(c, x) PROVE TypeOK'
  <2>1. outputs' = outputs /\ taken' = taken /\ "lock head" \in CancelPc
    BY <1>4 DEF Dispatch, outVars, CancelPc
  <2> QED BY <1>1, <1>2, <1>4, <2>1, SameChannels, TypesKept
          DEF Dispatch, Goto, Updated, outVars, bookVars, orderVars
<1>5. ASSUME NEW x \in CancelId, Unknown(c, x) \/ Foreign(c, x) PROVE TypeOK'
  <2>1. outputs' = outputs /\ taken' = taken
    BY <1>5 DEF Unknown, Foreign, outVars
  <2> QED BY <1>1, <1>2, <1>5, <2>1, SameChannels, TypesKept
          DEF Unknown, Foreign, Acquire, Updated, outVars, bookVars, orderVars, locals
<1>6. CASE Reject(c)
  <2> DEFINE line == Deleted(Head(input[c]), FALSE)
  <2>1. Queue(<<line>>, TRUE) /\ locked' \subseteq locked /\ taken' = taken
    BY <1>6 DEF Reject, Release
  <2>2. line \in Line
    BY <1>6 DEF Reject, Labels, Line, Deleted
  <2>3. Len(outputs') = Len(outputs) + 1 /\ Len(outputs) - taken < Capacity
    <3> HIDE DEF line
    <3>1. <<line>> \in Seq(Line) /\ TRUE \in BOOLEAN
      BY <2>2
    <3> QED BY <2>1, <3>1, QueueAdds DEF Channels
  <2>4. /\ conn' = [conn EXCEPT ![c] = "read"] /\ mine' = mine
        /\ UNCHANGED <<orderVars, orders, next, volume, queue, locals, executors>>
    BY <1>6 DEF Reject
  <2>5. /\ taken' \in 0 .. Len(outputs') /\ Len(outputs') - taken' <= Capacity
        /\ mine \in [Command -> 0 .. Len(outputs')]
    BY <2>1, <2>3, OneMoreChannel
  <2> HIDE DEF line
  <2> QED BY <1>1, <1>2, <2>1, <2>4, <2>5, TypesKept DEF Updated, orderVars, locals
<1> QED BY <1>3, <1>4, <1>5, <1>6 DEF HandleConn

(* So does the part of ProcessActiveOrder that matches. *)
LEMMA ProcessActiveTypes ==
  ASSUME Types, Next, NEW o \in OrderId, ProcessActiveOrder(o) PROVE TypeOK'
<1> USE HeadsAreNodes DEF Types
<1>1. \A d \in Client : input'[d] \in Seq(Command)
  BY LabelsStep DEF Labels
<1>2. /\ orders \subseteq OrderId /\ locked \subseteq Lock /\ executors \subseteq Executor
      /\ next \in [Node -> OrderId \cup {Nil}] /\ OrderPc \subseteq OrderPc \cup CancelPc
      /\ Node \cup {"sgl", "ordersLock"} = Lock
  BY PlainTypes DEF Lock
<1>3. /\ count[o] \in 0 .. Modulus - 1 /\ v[o] \in 0 .. Modulus - 1
      /\ \A n \in Node : next[n] # Nil => next[n] \in OrderId
      /\ StandsWell(o)
  BY PlainTypes DEF Standing
<1>4. {"lock match head", "lock level", "matched", "execute", "advance", "lock own head",
       "set", "queue add", "add"} \subseteq OrderPc
  BY DEF OrderPc
<1>5. Modulus \in Nat /\ 0 \in 0 .. Modulus - 1
  BY TermsInRange
<1>6. CASE LockSgl(o) \/ LockOwnHead(o)
  <2>1. outputs' = outputs /\ taken' = taken
    BY <1>6 DEF LockSgl, LockOwnHead, outVars
  <2> QED BY ZenonT(30), <1>1, <1>2, <1>4, <1>6, <2>1, SameChannels, TypesKept
          DEF LockSgl, LockOwnHead, Acquire, Goto, Updated, outVars, orderVars, connVars
<1>7. CASE LockMatchHead(o)
  <2>1. outputs' = outputs /\ taken' = taken
    BY <1>7 DEF LockMatchHead, outVars
  <2> QED BY <1>1, <1>2, <1>3, <1>4, <1>7, <2>1, SameChannels, TypesKept
          DEF LockMatchHead, LevelPc, Acquire, Goto, Updated, outVars, orderVars, connVars
<1>8. CASE LockLevel(o)
  <2>1. outputs' = outputs /\ taken' = taken /\ curr[o] \in OrderId
    BY <1>3, <1>8 DEF LockLevel, outVars, StandsWell
  <2>2. next' \in [Node -> OrderId \cup {Nil}]
    BY <1>2, <1>8, <2>1 DEF LockLevel, Unlink
  <2> QED BY <1>1, <1>2, <1>4, <1>8, <2>1, <2>2, SameChannels, TypesKept
          DEF LockLevel, Goto, Updated, outVars, orderVars, connVars
<1>9. CASE StartExecutor(o)
  <2> DEFINE n == curr[o]
             e == [order |-> o, level |-> n, left |-> v[o], channel |-> Len(outputs')]
  <2>1. /\ Queue(<<>>, FALSE) /\ executors' = executors \cup {e} /\ n \in OrderId
        /\ v' = [v EXCEPT ![o] = IF UsesUp(o, n) THEN v[o] - volume[n] ELSE 0]
        /\ popPrev' = [popPrev EXCEPT ![o] = UsesUp(o, n)]
        /\ Goto(o, "advance") /\ mine' = mine /\ taken' = taken
        /\ UNCHANGED <<connVars, orderVars, orders, bookVars, curr, prev>>
    BY <1>3, <1>9 DEF StartExecutor, StandsWell
  <2>2. Len(outputs') = Len(outputs) + 1 /\ Len(outputs) - taken < Capacity
    BY <2>1, QueueEmptyAdds
  <2>3. /\ taken' \in 0 .. Len(outputs') /\ Len(outputs') - taken' <= Capacity
        /\ mine \in [Command -> 0 .. Len(outputs')] /\ Len(outputs') \in Nat \ {0}
    BY <2>1, <2>2, OneMoreChannel
  <2>4. e \in Executor
    BY <1>3, <2>1, <2>3 DEF Executor
  <2>5. volume[n] \in 0 .. Modulus - 1
    BY <2>1, PlainTypes
  <2>6. (IF UsesUp(o, n) THEN v[o] - volume[n] ELSE 0) \in 0 .. Modulus - 1
    BY <1>3, <1>5, <2>5 DEF UsesUp
  <2>7. UsesUp(o, n) \in BOOLEAN
    BY DEF UsesUp
  <2> HIDE DEF e, n
  <2> QED BY <1>1, <1>2, <1>4, <2>1, <2>3, <2>4, <2>6, <2>7, TypesKept
          DEF Goto, Updated, orderVars, connVars, bookVars
<1>10. CASE Advance(o)
  <2>1. outputs' = outputs /\ taken' = taken /\ curr[o] \in OrderId
    BY <1>3, <1>10 DEF Advance, outVars, StandsWell
  <2>2. next' \in [Node -> OrderId \cup {Nil}]
    BY <1>2, <1>10, <2>1 DEF Advance, Unlink
  <2>3. next[curr[o]] \in Node \cup {Nil}
    BY <1>3, <2>1
  <2> QED BY <1>1, <1>2, <1>4, <1>10, <2>1, <2>2, <2>3, SameChannels, TypesKept
          DEF Advance, LevelPc, Goto, Updated, outVars, orderVars, connVars
<1>11. CASE EndMatch(o)
  <2>1. outputs' = outputs /\ taken' = taken
    BY <1>11 DEF EndMatch, outVars
  <2> QED BY <1>1, <1>2, <1>4, <1>11, <2>1, SameChannels, TypesKept
          DEF EndMatch, Release, Goto, Updated, outVars, orderVars, connVars
<1>12. CASE SetOrder(o)
  <2>1. outputs' = outputs /\ taken' = taken
    BY <1>12 DEF SetOrder, outVars
  <2> QED BY <1>1, <1>2, <1>3, <1>4, <1>5, <1>12, <2>1, SameChannels, TypesKept
          DEF SetOrder, Goto, Updated, outVars, bookVars, connVars
<1>13. CASE StartAdd(o)
  <2>1. /\ Queue(<<>>, FALSE) /\ mine' = [mine EXCEPT ![o] = Len(outputs')]
        /\ taken' = taken /\ locked' \subseteq locked
    BY <1>13 DEF StartAdd, QueueMine, Release
  <2>2. Len(outputs') = Len(outputs) + 1 /\ Len(outputs) - taken < Capacity
    BY <2>1, QueueEmptyAdds
  <2>3. /\ taken' \in 0 .. Len(outputs') /\ Len(outputs') - taken' <= Capacity
        /\ mine \in [Command -> 0 .. Len(outputs')] /\ Len(outputs') \in 0 .. Len(outputs')
    BY <2>1, <2>2, OneMoreChannel
  <2> QED BY <1>1, <1>2, <1>4, <1>13, <2>1, <2>3, TypesKept
          DEF StartAdd, Goto, Updated, orderVars, connVars
<1> QED BY <1>6, <1>7, <1>8, <1>9, <1>10, <1>11, <1>12, <1>13 DEF ProcessActiveOrder

(* So does AddOrder; the volume wraps. *)
LEMMA AddOrderTypes ==
  ASSUME Types, Next, NEW o \in OrderId, AddOrder(o) PROVE TypeOK'
<1> USE HeadsAreNodes DEF Types
<1>1. \A d \in Client : input'[d] \in Seq(Command)
  BY LabelsStep DEF Labels
<1>2. /\ orders \subseteq OrderId /\ locked \subseteq Lock /\ executors \subseteq Executor
      /\ next \in [Node -> OrderId \cup {Nil}]
      /\ Node \cup {"sgl", "ordersLock"} = Lock
  BY PlainTypes DEF Lock
<1>3. /\ curr[o] \in Node
      /\ \A n \in Node : next[n] # Nil => next[n] \in OrderId
  BY PlainTypes DEF Standing, StandsWell, AddOrder, PlaceFound, AddStep, NewLevel, AppendOrder
<1>4. {"append", "new level", "add"} \subseteq OrderPc
  BY DEF OrderPc
<1>5. CASE PlaceFound(o)
  <2>1. outputs' = outputs /\ taken' = taken
    BY <1>5 DEF PlaceFound, outVars
  <2> QED BY <1>1, <1>2, <1>4, <1>5, <2>1, SameChannels, TypesKept
          DEF PlaceFound, PlacePc, Goto, Updated, outVars, bookVars, orderVars, connVars
<1>6. CASE AddStep(o)
  <2>1. outputs' = outputs /\ taken' = taken /\ next[curr[o]] \in OrderId
    BY <1>3, <1>6 DEF AddStep, outVars
  <2>2. next[curr[o]] \in Lock /\ next[curr[o]] \in Node \cup {Nil}
    BY <1>2, <2>1
  <2>3. locked' \subseteq Lock
    BY <1>2, <1>6, <2>2 DEF AddStep, HandOver
  <2> QED BY <1>1, <1>2, <1>4, <1>6, <2>1, <2>2, <2>3, SameChannels, TypesKept
          DEF AddStep, Goto, Updated, outVars, orderVars, connVars
<1>7. CASE NewLevel(o)
  <2>1. outputs' = outputs /\ taken' = taken
    BY <1>7 DEF NewLevel, outVars
  <2>2. next' \in [Node -> OrderId \cup {Nil}]
    BY <1>2, <1>3, <1>7 DEF NewLevel
  <2>3. locked' \subseteq Lock /\ o \in Node \cup {Nil}
    BY <1>2, <1>7 DEF NewLevel, HandOver
  <2> QED BY <1>1, <1>2, <1>4, <1>7, <2>1, <2>2, <2>3, SameChannels, TypesKept
          DEF NewLevel, Goto, Updated, outVars, orderVars, connVars
<1>8. CASE AppendOrder(o)
  <2> DEFINE n == curr[o]
  <2>1. /\ SendLast(mine[o], Added(o)) /\ mine[o] \in DOMAIN outputs
        /\ queue' = [queue EXCEPT ![n] = Append(queue[n], o)] /\ locked' \subseteq locked
        /\ volume' = [volume EXCEPT ![n] = ToUInt(volume[n] + count[o])]
        /\ curr' = [curr EXCEPT ![o] = Nil] /\ Goto(o, "done")
        /\ mine' = mine /\ taken' = taken
        /\ UNCHANGED <<connVars, orderVars, orders, next, prev, v, popPrev, executors>>
    BY <1>8 DEF AppendOrder, Grow, Release, Channels, Writes
  <2>2. /\ count[o] \in 0 .. Modulus - 1 /\ volume[n] \in 0 .. Modulus - 1
        /\ queue[n] \in Seq(OrderId)
    BY <1>3, PlainTypes
  <2>3. Added(o) \in Line
    BY <2>2, TermsInRange DEF Line, Added
  <2>4. Len(outputs') = Len(outputs)
    BY <2>1, <2>3, SendKeeps DEF Channels
  <2>5. ToUInt(volume[n] + count[o]) \in 0 .. Modulus - 1
    <3>1. volume[n] + count[o] \in Int
      BY <2>2, TermsInRange
    <3> QED BY <3>1, ToUIntInRange
  <2>6. Append(queue[n], o) \in Seq(OrderId)
    BY <2>2
  <2>7. /\ taken' \in 0 .. Len(outputs') /\ Len(outputs') - taken' <= Capacity
        /\ mine \in [Command -> 0 .. Len(outputs')]
    BY <2>1, <2>4, SameChannels
  <2> QED BY <1>1, <1>2, <1>3, <1>4, <2>1, <2>5, <2>6, <2>7, TypesKept
          DEF Goto, Updated, orderVars, connVars
<1> QED BY <1>5, <1>6, <1>7, <1>8 DEF AddOrder

(* So does CancelOrder: an order leaves the queue it is found in. *)
LEMMA CancelTypes ==
  ASSUME Types, Next, NEW x \in CancelId, ProcessCancelOrder(x) PROVE TypeOK'
<1> USE HeadsAreNodes DEF Types
<1>1. \A d \in Client : input'[d] \in Seq(Command)
  BY LabelsStep DEF Labels
<1>2. /\ orders \subseteq OrderId /\ locked \subseteq Lock /\ executors \subseteq Executor
      /\ next \in [Node -> OrderId \cup {Nil}]
      /\ Node \cup {"sgl", "ordersLock"} = Lock
  BY PlainTypes DEF Lock
<1>3. /\ \A n \in Node : next[n] # Nil => next[n] \in OrderId
      /\ pc[x] = "cancel" => curr[x] \in Node
  BY PlainTypes DEF Standing, StandsWell
<1>4. {"queue cancel", "cancel"} \subseteq CancelPc
  BY DEF CancelPc
<1>5. CASE LockCancelHead(x)
  <2>1. outputs' = outputs /\ taken' = taken
    BY <1>5 DEF LockCancelHead, outVars
  <2> QED BY ZenonT(30), <1>1, <1>2, <1>4, <1>5, <2>1, SameChannels, TypesKept
          DEF LockCancelHead, Acquire, Goto, Updated, outVars, orderVars, connVars
<1>6. CASE QueueCancel(x)
  <2>1. /\ Queue(<<>>, FALSE) /\ mine' = [mine EXCEPT ![x] = Len(outputs')]
        /\ taken' = taken
    BY <1>6 DEF QueueCancel, QueueMine
  <2>2. Len(outputs') = Len(outputs) + 1 /\ Len(outputs) - taken < Capacity
    BY <2>1, QueueEmptyAdds
  <2>3. /\ taken' \in 0 .. Len(outputs') /\ Len(outputs') - taken' <= Capacity
        /\ mine \in [Command -> 0 .. Len(outputs')] /\ Len(outputs') \in 0 .. Len(outputs')
    BY <2>1, <2>2, OneMoreChannel
  <2> QED BY <1>1, <1>2, <1>4, <1>6, <2>1, <2>3, TypesKept
          DEF QueueCancel, Goto, Updated, orderVars, connVars, bookVars
<1>7. CASE CancelStep(x)
  <2> DEFINE n == next[curr[x]]
  <2>1. /\ outputs' = outputs /\ taken' = taken /\ n \in OrderId /\ curr[x] \in Node
        /\ n \in Lock /\ n \in Node \cup {Nil}
    BY <1>2, <1>3, <1>7 DEF CancelStep, outVars
  <2>2. locked' \subseteq Lock
    BY <1>2, <1>7, <2>1 DEF CancelStep, Acquire, HandOver
  <2> QED BY <1>1, <1>2, <1>4, <1>7, <2>1, <2>2, SameChannels, TypesKept
          DEF CancelStep, Goto, Updated, outVars, orderVars, connVars
<1>8. ASSUME NEW accepted \in BOOLEAN, pc[x] = "cancel", Answer(x, accepted),
             taken' = taken, mine' = mine
      PROVE  /\ taken' \in 0 .. Len(outputs') /\ Len(outputs') - taken' <= Capacity
             /\ mine \in [Command -> 0 .. Len(outputs')] /\ locked' \subseteq Lock
  <2>1. Deleted(x, accepted) \in Line
    BY DEF Deleted, Line
  <2>2. mine[x] \in DOMAIN outputs
    BY <1>8 DEF Channels, Writes
  <2>3. Len(outputs') = Len(outputs)
    BY <1>8, <2>1, <2>2, SendKeeps DEF Answer, Channels
  <2>4. /\ taken' \in 0 .. Len(outputs') /\ Len(outputs') - taken' <= Capacity
        /\ mine \in [Command -> 0 .. Len(outputs')]
    BY <1>8, <2>3, SameChannels
  <2> QED BY <1>2, <1>8, <2>4 DEF Answer, Release
<1>9. CASE CancelFails(x)
  <2>1. pc[x] = "cancel" /\ Answer(x, FALSE) /\ taken' = taken /\ mine' = mine
    BY <1>9 DEF CancelFails
  <2>2. /\ taken' \in 0 .. Len(outputs') /\ Len(outputs') - taken' <= Capacity
        /\ mine \in [Command -> 0 .. Len(outputs')] /\ locked' \subseteq Lock
    BY <1>8, <2>1
  <2> QED BY <1>1, <1>2, <1>9, <2>1, <2>2, TypesKept
          DEF CancelFails, Answer, Goto, Updated, orderVars, connVars
<1>10. CASE CancelSucceeds(x)
  <2> DEFINE o == About[x]
             n == curr[x]
  <2>1. /\ pc[x] = "cancel" /\ Answer(x, TRUE) /\ taken' = taken /\ mine' = mine
        /\ volume' = [volume EXCEPT ![n] = ToUInt(volume[n] - count[o])]
        /\ orders' \subseteq orders /\ DropLevel(n, prev[x]) /\ n \in Node /\ o \in OrderId
        /\ UNCHANGED <<connVars, orderVars, v, popPrev, executors>>
    BY <1>3, <1>10 DEF CancelSucceeds, Shrink
  <2>2. /\ taken' \in 0 .. Len(outputs') /\ Len(outputs') - taken' <= Capacity
        /\ mine \in [Command -> 0 .. Len(outputs')] /\ locked' \subseteq Lock
    BY <1>8, <2>1
  <2>3. /\ count[o] \in 0 .. Modulus - 1 /\ volume[n] \in 0 .. Modulus - 1
        /\ queue[n] \in Seq(OrderId)
    BY <2>1, PlainTypes
  <2>4. ToUInt(volume[n] - count[o]) \in 0 .. Modulus - 1
    <3>1. volume[n] - count[o] \in Int
      BY <2>3, TermsInRange
    <3> QED BY <3>1, ToUIntInRange
  <2>5. PICK i \in DOMAIN queue[n] : queue' = [queue EXCEPT ![n] = RemoveAt(queue[n], i)]
    BY <1>10 DEF CancelSucceeds
  <2>6. RemoveAt(queue[n], i) \in Seq(OrderId)
    BY <2>3, <2>5, RemoveAtKeeps
  <2>7. next' \in [Node -> OrderId \cup {Nil}]
    <3>1. next[n] \in OrderId \cup {Nil}
      BY <1>2, <2>1
    <3> QED BY <1>2, <2>1, <3>1 DEF DropLevel
  <2> HIDE DEF o, n
  <2> QED BY <1>1, <1>2, <2>1, <2>2, <2>4, <2>5, <2>6, <2>7, TypesKept
          DEF Answer, Goto, Updated, orderVars, connVars
<1> QED BY <1>5, <1>6, <1>7, <1>9, <1>10 DEF ProcessCancelOrder

(* So does executeOrder, which trades what is left or what the order has.   *)
LEMMA ExecuteTypes ==
  ASSUME Types, Next, NEW o \in OrderId, ExecuteOrder(o) PROVE TypeOK'
<1> USE HeadsAreNodes DEF Types
<1>1. \A d \in Client : input'[d] \in Seq(Command)
  BY LabelsStep DEF Labels
<1>2. /\ orders \subseteq OrderId /\ locked \subseteq Lock /\ executors \subseteq Executor
      /\ next \in [Node -> OrderId \cup {Nil}]
  BY PlainTypes
<1>3. PICK e \in executors : Trade(e) \/ EndExecutor(e)
  BY DEF ExecuteOrder
<1>4. /\ e.order \in OrderId /\ e.level \in OrderId /\ e.left \in 0 .. Modulus - 1
      /\ e.channel \in DOMAIN outputs /\ e.channel \in Nat \ {0} /\ outputs \in Seq(Output)
  BY <1>2 DEF Executor, Channels
<1>5. CASE Trade(e)
  <2> DEFINE n == e.level
             r == Head(queue[n])
             whole == e.left >= count[r]
             size == IF whole THEN count[r] ELSE e.left
             f == [e EXCEPT !.left = @ - size]
             line == Executed(e.order, r, size)
  <2>1. /\ queue[n] # <<>> /\ executors' = (executors \ {e}) \cup {f}
        /\ volume' = [volume EXCEPT ![n] = ToUInt(volume[n] - size)]
        /\ Send(e.channel, line) /\ taken' = taken /\ mine' = mine
        /\ UNCHANGED <<connVars, rId, locked, next, locals>>
    BY <1>5 DEF Trade, Shrink
  <2>2. \/ /\ whole /\ queue' = [queue EXCEPT ![n] = Tail(queue[n])]
           /\ orders' = orders \ {r} /\ UNCHANGED <<count, executionId>>
        \/ /\ ~whole /\ count' = [count EXCEPT ![r] = count[r] - size]
           /\ executionId' = [executionId EXCEPT ![r] = executionId[r] + 1]
           /\ UNCHANGED <<queue, orders>>
    BY <1>5 DEF Trade
  <2>3. queue[n] \in Seq(OrderId) /\ volume[n] \in 0 .. Modulus - 1
    BY <1>4, PlainTypes
  <2>4. r \in OrderId /\ Tail(queue[n]) \in Seq(OrderId)
    BY <2>1, <2>3
  <2> HIDE DEF n, r
  <2>5. count[r] \in 0 .. Modulus - 1 /\ executionId[r] \in Nat \ {0}
    BY <2>4, PlainTypes
  <2>6. /\ size \in 0 .. Modulus - 1 /\ size <= e.left
        /\ ~whole => count[r] - size \in 0 .. Modulus - 1
    BY <1>4, <2>5, TermsInRange
  <2> HIDE DEF size, whole
  <2>7. f \in Executor
    <3>1. e.left - size \in 0 .. Modulus - 1
      BY <1>4, <2>6, TermsInRange
    <3> QED BY <1>2, <3>1 DEF Executor
  <2>8. line \in Line
    BY <1>4, <2>4, <2>5, <2>6, TermsInRange DEF Line, Executed
  <2> HIDE DEF f, line
  <2>9. Len(outputs') = Len(outputs)
    BY <1>4, <2>1, <2>8, SendKeeps
  <2>10. /\ taken' \in 0 .. Len(outputs') /\ Len(outputs') - taken' <= Capacity
         /\ mine \in [Command -> 0 .. Len(outputs')]
    BY <2>1, <2>9, SameChannels
  <2>11. ToUInt(volume[n] - size) \in 0 .. Modulus - 1
    <3>1. volume[n] - size \in Int
      BY <2>3, <2>6, TermsInRange
    <3> QED BY <3>1, ToUIntInRange
  <2>12. executionId[r] + 1 \in Nat \ {0} /\ n \in Node
    BY <1>4, <2>5 DEF n
  <2>13. /\ Updated(count, count', OrderId, 0 .. Modulus - 1)
         /\ Updated(executionId, executionId', OrderId, Nat \ {0})
         /\ Updated(queue, queue', Node, Seq(OrderId)) /\ orders' \subseteq OrderId
    BY <1>2, <2>2, <2>4, <2>6, <2>12 DEF Updated
  <2> QED BY <1>1, <1>2, <2>1, <2>7, <2>10, <2>11, <2>12, <2>13, TypesKept
          DEF Updated, locals, connVars
<1>6. CASE EndExecutor(e)
  <2>1. /\ outputs' = [outputs EXCEPT ![e.channel].closed = TRUE]
        /\ taken' = taken /\ locked' \subseteq locked /\ executors' \subseteq executors
    BY <1>6 DEF EndExecutor, Release
  <2>2. Len(outputs') = Len(outputs)
    BY <1>4, <2>1, CloseKeeps
  <2>3. /\ taken' \in 0 .. Len(outputs') /\ Len(outputs') - taken' <= Capacity
        /\ mine \in [Command -> 0 .. Len(outputs')]
    BY <2>1, <2>2, SameChannels
  <2> QED BY <1>1, <1>2, <1>6, <2>1, <2>3, TypesKept
          DEF EndExecutor, Updated, locals, connVars, orderVars
<1> QED BY <1>3, <1>5, <1>6

(* Every step keeps the types. *)
LEMMA TypesStep == ASSUME Types, Next PROVE TypeOK'
<1>1. CASE Printer \/ Terminated
  <2>1. \A d \in Client : input'[d] \in Seq(Command)
    BY LabelsStep DEF Labels
  <2>2. /\ UNCHANGED <<connVars, orderVars, orders, bookVars, locals, executors, outVars>>
        /\ taken' = taken \/ (taken' = taken + 1 /\ taken < Len(outputs))
    BY <1>1 DEF Printer, NextChannel, PrintLine, Terminated, vars
  <2>3. outputs' = outputs /\ outputs \in Seq(Output) /\ Len(outputs) \in Nat /\ TypeOK
    BY <2>2 DEF outVars, Types, Channels
  <2>4. /\ taken' \in 0 .. Len(outputs') /\ Len(outputs') - taken' <= Capacity
        /\ mine \in [Command -> 0 .. Len(outputs')]
    BY <2>2, <2>3, ChannelsStayInBounds
  <2>5. /\ orders \subseteq OrderId /\ locked \subseteq Lock /\ executors \subseteq Executor
        /\ next \in [Node -> OrderId \cup {Nil}]
    BY <2>3, PlainTypes
  <2> QED BY <2>1, <2>2, <2>3, <2>4, <2>5, TypesKept
          DEF Updated, connVars, orderVars, bookVars, locals, outVars
<1> QED BY <1>1, HandleConnTypes, ProcessActiveTypes, AddOrderTypes, CancelTypes,
           ExecuteTypes DEF Next, Goroutines


-----------------------------------------------------------------------------
(* The engine begins with nobody at work. *)
LEMMA InitLock == Init => LockInv
<1> SUFFICES ASSUME Init PROVE LockInv
  OBVIOUS
<1> USE HeadsAreNodes
<1>1. /\ \A k \in Command : pc[k] = "unread" /\ curr[k] = Nil
      /\ \A x \in CancelId : prev[x] = Nil
      /\ outputs = <<>> /\ taken = 0 /\ executors = {} /\ locked = {}
  BY DEF Init
<1>2. input \in [Client -> Seq(Command)] /\ input \in Scripts
  BY GoBookAssumption DEF Init
<1>3. TypeOK
  <2>1. Modulus \in Nat /\ Modulus > 0 /\ Capacity \in Nat
    BY GoBookAssumption
  <2>2. 0 \in 0 .. Modulus - 1
    BY <2>1
  <2>3. /\ taken \in 0 .. Len(outputs) /\ Len(outputs) - taken <= Capacity
        /\ mine \in [Command -> 0 .. Len(outputs)]
    BY <1>1, <2>1 DEF Init
  <2>4. /\ conn \in [Client -> {"read", "reject unknown", "reject foreign"}]
        /\ rId \in [OrderId -> Client \cup {Nil}] /\ count \in [OrderId -> 0 .. Modulus - 1]
        /\ executionId \in [OrderId -> Nat \ {0}] /\ orders \subseteq OrderId
    BY <2>2 DEF Init
  <2>5. /\ next \in [Node -> OrderId \cup {Nil}] /\ volume \in [Node -> 0 .. Modulus - 1]
        /\ queue \in [Node -> Seq(OrderId)] /\ locked \subseteq Lock
    <3>1. <<>> \in Seq(OrderId)
      OBVIOUS
    <3> QED BY <2>2, <3>1 DEF Init
  <2>6. /\ pc \in [Command -> {"unread", "done"} \cup OrderPc \cup CancelPc]
        /\ curr \in [Command -> Node \cup {Nil}] /\ prev \in [CancelId -> Node \cup {Nil}]
        /\ v \in [OrderId -> 0 .. Modulus - 1] /\ popPrev \in [OrderId -> BOOLEAN]
        /\ executors \subseteq Executor
    BY <2>2 DEF Init
  <2> QED BY <1>2, <2>3, <2>4, <2>5, <2>6 DEF TypeOK
<1>4. Channels
  <2>1. outputs \in Seq(Output)
    BY <1>1
  <2> QED BY <1>1, <2>1 DEF Channels, Writes
<1>5. Labels
  <2>1. \A c, d \in Client : \A i \in DOMAIN input[c], j \in DOMAIN input[d] :
          input[c][i] = input[d][j] => c = d /\ i = j
    BY <1>2, GoBookAssumption
  <2>2. \A c \in Client : \A i \in DOMAIN input[c] : input[c][i] \in Command
    BY <1>2
  <2> QED BY <1>1, <1>2, <2>1, <2>2 DEF Labels, Init
<1>6. Standing
  BY <1>1 DEF Standing, StandsWell
<1>7. LocksHaveOneUser
  <2>1. \A k \in Command : Uses(k) = {}
    BY <1>1, UsesAt
  <2> QED BY <1>1, <2>1 DEF LocksHaveOneUser
<1> QED BY <1>3, <1>4, <1>5, <1>6, <1>7 DEF LockInv, Types

(* One step keeps the first invariant. *)
LEMMA LockInvStep == LockInv /\ [Next]_vars => LockInv'
<1>1. CASE LockInv /\ Next
  BY <1>1, TypesStep, ChannelsStep, LabelsStep, StandingStep, LocksStep DEF LockInv, Types
<1>2. CASE LockInv /\ UNCHANGED vars
  <2>1. TypeOK'
    BY <1>2 DEF LockInv, Types, vars, connVars, orderVars, bookVars, locals, outVars, TypeOK
  <2>2. UNCHANGED <<input, conn, executors, outputs, mine, locked>> /\ UNCHANGED locals
    BY <1>2 DEF vars, connVars, outVars, bookVars
  <2>3. Channels'
    BY <1>2, <2>2 DEF LockInv, Types, Channels, Writes, locals
  <2>4. Labels'
    BY <1>2, <2>2 DEF LockInv, Types, Labels, locals
  <2>5. Standing'
    BY <1>2, <2>2 DEF LockInv, Types, Standing, StandsWell, locals
  <2>6. LocksHaveOneUser'
    BY <1>2, <2>2, NobodyMoves DEF LockInv
  <2> QED BY <2>1, <2>3, <2>4, <2>5, <2>6 DEF LockInv, Types
<1> QED BY <1>1, <1>2

(* What the next argument builds on. *)
LEMMA LockInvHolds == Spec => []LockInv
<1> QED BY InitLock, LockInvStep, PTL DEF Spec

(* Every variable of the engine keeps its type: counts, volumes and what is *)
(* left to match stay within uint32 although they are subtracted from, and  *)
(* outputChannels never holds more than its capacity.                       *)
THEOREM GoTypes == Spec => []TypeOK
<1>1. LockInv => TypeOK
  BY DEF LockInv, Types
<1> QED BY <1>1, LockInvHolds, PTL

(* A level that is locked is used by one goroutine: locks that MatchOrder   *)
(* takes and executeOrder gives back, or that ProcessActiveOrder takes and  *)
(* AddOrder gives back, are never given back twice or by another, and a     *)
(* level that nobody uses is not locked, for any orders of any connections. *)
THEOREM OneUserOfALevel == Spec => []LocksHaveOneUser
<1>1. LockInv => LocksHaveOneUser
  BY DEF LockInv
<1> QED BY <1>1, LockInvHolds, PTL


-----------------------------------------------------------------------------
(* The lists.  Two linked levels never have the same next level, a new      *)
(* level is linked by nobody before it is made, and every goroutine stands  *)
(* where it thinks.                                                         *)
OneBehind == \A n, m \in Linked : next[n] = next[m] /\ next[n] # Nil => n = m

MadeBeforeLinked ==
  \A n \in Node : next[n] # Nil => pc[next[n]] \in {"append", "done"}

(* AddOrder and CancelOrder stand on linked levels, the two of CancelOrder  *)
(* behind each other.                                                       *)
WalksOnList(k) ==
  /\ pc[k] \in {"add", "new level", "append", "cancel"} => curr[k] \in Linked
  /\ pc[k] = "cancel" =>
       IF prev[k] = Nil THEN curr[k] \in Heads
                        ELSE prev[k] \in Linked /\ next[prev[k]] = curr[k]

(* MatchOrder is at the first level of the list, or, when it has handed     *)
(* that one to an executor and has not unlinked it yet, behind it.  Nobody  *)
(* gets to a level that was handed over, and if it stays in the list there  *)
(* is nothing left to match.                                                *)
HandedOver(o, n) ==
  /\ \A k \in Command : n \notin Uses(k)
  /\ popPrev[o] \/ v[o] = 0

MatchesOnList(o) ==
  LET first == next[MatchHead(o)] IN
  /\ pc[o] \in {"execute", "advance"} => first = curr[o]
  /\ pc[o] = "advance" => HandedOver(o, curr[o])
  /\ pc[o] = "lock level" =>
       \/ ~popPrev[o] /\ first = curr[o]
       \/ first # Nil /\ next[first] = curr[o] /\ HandedOver(o, first)
  /\ pc[o] \notin {"lock level", "execute", "advance", "matched"} => ~popPrev[o]

OnList(k) == WalksOnList(k) /\ (k \in OrderId => MatchesOnList(k))

ListInv == OneBehind /\ MadeBeforeLinked /\ \A k \in Command : OnList(k)


-----------------------------------------------------------------------------
(* The lists by themselves.  Behind a linked level is a linked level. *)
LEMMA LinkedIsClosed ==
  ASSUME TypeOK
  PROVE  /\ Heads \subseteq Linked /\ Linked \subseteq Node
         /\ \A n \in Linked : next[n] # Nil => next[n] \in Linked
<1> USE HeadsAreNodes
<1>1. Heads \subseteq Linked /\ Linked \subseteq Node
  BY DEF Linked
<1>2. ASSUME NEW n \in Linked, next[n] # Nil PROVE next[n] \in Linked
  <2>1. next[n] \in OrderId
    BY <1>1, <1>2, PlainTypes
  <2>2. ASSUME NEW L \in SUBSET OrderId, FollowsLinks(L) PROVE next[n] \in L
    <3>1. n \in Heads \cup L
      BY <2>2 DEF Linked
    <3> QED BY <3>1, <2>2, <1>2 DEF FollowsLinks
  <2> QED BY <2>1, <2>2 DEF Linked
<1> QED BY <1>1, <1>2

(* The same after a step. *)
LEMMA LinkedStaysClosed ==
  TypeOK' => \A n \in Linked' : next'[n] # Nil => next'[n] \in Linked'
<1>1. TypeOK => \A n \in Linked : next[n] # Nil => next[n] \in Linked
  BY LinkedIsClosed
<1>2. (TypeOK => \A n \in Linked : next[n] # Nil => next[n] \in Linked)'
  BY <1>1, PTL
<1> QED BY <1>2

(* And nothing more: what follows the links from the heads has them all. *)
LEMMA LinkedIsLeast ==
  ASSUME NEW L \in SUBSET OrderId, FollowsLinks(L) PROVE Linked \subseteq Heads \cup L
BY DEF Linked

(* A level that leaves a list is all that leaves it. *)
LEMMA Shortcut ==
  ASSUME TypeOK, TypeOK', OneBehind, NEW p \in Linked, NEW m \in OrderId,
         next[p] = m, p # m, next' = [next EXCEPT ![p] = next[m]]
  PROVE  Linked' = Linked \ {m} /\ OneBehind'
<1> USE HeadsAreNodes
<1>0. /\ Heads \subseteq Linked /\ Linked \subseteq Node
      /\ \A n \in Linked : next[n] # Nil => next[n] \in Linked
      /\ m \in Linked /\ m # Nil
  BY LinkedIsClosed
<1>1. \A n \in Node : next'[n] = IF n = p THEN next[m] ELSE next[n]
  BY <1>0 DEF TypeOK
<1>2. Linked' \subseteq Linked \ {m}
  <2> PICK L \in SUBSET OrderId : L = (Linked \cap OrderId) \ {m}
    OBVIOUS
  <2>1. ASSUME NEW n \in Heads \cup L, next'[n] # Nil PROVE next'[n] \in L
    <3>1. n \in Linked /\ n # m /\ n \in Node
      BY <1>0
    <3>2. next'[n] \in Linked /\ next'[n] \in OrderId
      <4>1. CASE n = p
        BY <4>1, <3>1, <2>1, <1>0, <1>1, PlainTypes
      <4>2. CASE n # p
        BY <4>2, <3>1, <2>1, <1>0, <1>1, PlainTypes
      <4> QED BY <4>1, <4>2
    <3>3. next'[n] # m
      <4>1. CASE n = p
        BY <4>1, <1>0, <1>1 DEF OneBehind
      <4>2. CASE n # p
        BY <4>2, <3>1, <1>0, <1>1 DEF OneBehind
      <4> QED BY <4>1, <4>2
    <3> QED BY <3>2, <3>3
  <2>2. FollowsLinks(L)'
    BY <2>1 DEF FollowsLinks
  <2>3. Linked' \subseteq Heads \cup L
    BY <2>2 DEF Linked
  <2> QED BY <2>3, <1>0
<1>3. Linked \ {m} \subseteq Linked'
  <2> SUFFICES ASSUME NEW n \in Linked \ {m}, n \in OrderId,
                      NEW L \in SUBSET OrderId, FollowsLinks(L)'
               PROVE  n \in L
    BY <1>0 DEF Linked
  <2> DEFINE M == L \cup (IF p \in Heads \cup L THEN {m} ELSE {})
  <2>1. ASSUME NEW q \in Heads \cup M, next[q] # Nil PROVE next[q] \in M
    <3>1. q \in Node /\ \A k \in Heads \cup L : next'[k] # Nil => next'[k] \in L
      BY DEF FollowsLinks
    <3>2. CASE q = p
      BY <3>2
    <3>3. CASE q # p /\ q \in Heads \cup L
      BY <3>1, <3>3, <2>1, <1>1
    <3>4. CASE q # p /\ q = m /\ p \in Heads \cup L
      BY <3>1, <3>4, <2>1, <1>0, <1>1
    <3> QED BY <3>2, <3>3, <3>4
  <2>2. FollowsLinks(M) /\ M \in SUBSET OrderId
    BY <2>1 DEF FollowsLinks
  <2>3. n \in Heads \cup M
    BY <2>2, LinkedIsLeast
  <2> QED BY <2>3
<1>4. OneBehind'
  <2> SUFFICES ASSUME NEW n \in Linked \ {m}, NEW k \in Linked \ {m},
                      next'[n] = next'[k], next'[n] # Nil
               PROVE  n = k
    BY <1>2, <1>3 DEF OneBehind
  <2>1. /\ next'[n] = (IF n = p THEN next[m] ELSE next[n])
        /\ next'[k] = (IF k = p THEN next[m] ELSE next[k])
    BY <1>0, <1>1
  <2> QED BY <2>1, <1>0 DEF OneBehind
<1> QED BY <1>2, <1>3, <1>4

(* A level that nobody links comes behind a linked one. *)
LEMMA Insert ==
  ASSUME TypeOK, TypeOK', OneBehind, NEW p \in Linked, NEW o \in OrderId,
         \A n \in Node : next[n] # o, p # o,
         next' = [next EXCEPT ![o] = next[p], ![p] = o]
  PROVE  Linked' = Linked \cup {o} /\ OneBehind'
<1> USE HeadsAreNodes
<1>0. /\ Heads \subseteq Linked /\ Linked \subseteq Node
      /\ \A n \in Linked : next[n] # Nil => next[n] \in Linked
  BY LinkedIsClosed
<1>1. \A n \in Node : next'[n] = IF n = p THEN o ELSE IF n = o THEN next[p] ELSE next[n]
  BY <1>0 DEF TypeOK
<1>2. Linked' \subseteq Linked \cup {o}
  <2> PICK L \in SUBSET OrderId : L = (Linked \cap OrderId) \cup {o}
    OBVIOUS
  <2>1. ASSUME NEW n \in Heads \cup L, next'[n] # Nil PROVE next'[n] \in L
    <3>1. n \in Node /\ (n # o => n \in Linked)
      BY <1>0
    <3>2. CASE n = p
      <4>1. next'[n] = o /\ o \in L
        BY <3>1, <3>2, <1>1
      <4> QED BY <4>1
    <3>3. CASE n = o
      BY <3>1, <3>3, <2>1, <1>0, <1>1, PlainTypes
    <3>4. CASE n # p /\ n # o
      BY <3>1, <3>4, <2>1, <1>0, <1>1, PlainTypes
    <3> QED BY <3>2, <3>3, <3>4
  <2>2. FollowsLinks(L)'
    BY <2>1 DEF FollowsLinks
  <2>3. Linked' \subseteq Heads \cup L
    BY <2>2 DEF Linked
  <2> QED BY <2>3, <1>0
<1>3. Linked \subseteq Linked'
  <2> SUFFICES ASSUME NEW n \in Linked, n \in OrderId,
                      NEW L \in SUBSET OrderId, FollowsLinks(L)'
               PROVE  n \in L
    BY <1>0 DEF Linked
  <2> DEFINE M == L \ {o}
  <2>1. ASSUME NEW q \in Heads \cup M, next[q] # Nil PROVE next[q] \in M
    <3>1. q \in Node /\ \A k \in Heads \cup L : next'[k] # Nil => next'[k] \in L
      BY DEF FollowsLinks
    <3>2. next[q] # o /\ q # o
      BY <3>1
    <3>3. CASE q = p
      <4>3. p \in Heads \cup L /\ next'[p] = o /\ o # Nil
        BY <3>3, <1>0, <1>1
      <4>1. o \in L
        BY <3>1, <4>3
      <4>2. next'[o] = next[p]
        BY <1>1
      <4> QED BY <4>1, <4>2, <3>1, <3>2, <3>3, <2>1
    <3>4. CASE q # p
      BY <3>1, <3>2, <3>4, <2>1, <1>1
    <3> QED BY <3>3, <3>4
  <2>2. FollowsLinks(M) /\ M \in SUBSET OrderId
    BY <2>1 DEF FollowsLinks
  <2>3. n \in Heads \cup M
    BY <2>2, LinkedIsLeast
  <2> QED BY <2>3
<1>4. o \in Linked'
  <2>1. \A n \in Linked' : next'[n] # Nil => next'[n] \in Linked'
    BY LinkedStaysClosed
  <2>2. p \in Linked' /\ next'[p] = o /\ o # Nil
    BY <1>0, <1>1, <1>3
  <2> QED BY <2>1, <2>2
<1>5. OneBehind'
  <2> SUFFICES ASSUME NEW n \in Linked \cup {o}, NEW k \in Linked \cup {o},
                      next'[n] = next'[k], next'[n] # Nil
               PROVE  n = k
    BY <1>2, <1>3, <1>4 DEF OneBehind
  <2>1. n \in Node /\ k \in Node /\ p \in Node /\ next[p] # o
    BY <1>0
  <2>2. \A q \in Node : q # p => next'[q] # o
    BY <2>1, <1>1
  <2>4. CASE n = p \/ k = p
    <3>1. next'[p] = o
      BY <2>1, <1>1
    <3>2. next'[n] = o /\ next'[k] = o
      BY <2>4, <3>1
    <3> QED BY <2>1, <2>2, <3>2
  <2>3. CASE n # p /\ k # p
    <3> DEFINE From(q) == IF q = o THEN p ELSE q
    <3>1. next[From(n)] = next[From(k)] /\ next[From(n)] # Nil
      BY <2>1, <2>3, <1>1
    <3>2. From(n) = From(k)
      BY <3>1 DEF OneBehind
    <3> QED BY <2>3, <3>2
  <2> QED BY <2>3, <2>4
<1> QED BY <1>2, <1>3, <1>4, <1>5


-----------------------------------------------------------------------------
(* A step of one goroutine leaves what the others use, ... *)
LEMMA OthersUse ==
  ASSUME Types, NEW k \in Command, OnlyMoves(k)
  PROVE  \A l \in Command \ {k} : Uses(l)' = Uses(l)
BY DEF OnlyMoves, Uses, Held, Types, Labels, OrderPc, Command

(* ... and so where they stand, as long as it links and unlinks only at the *)
(* levels it uses, and takes no level that is the first of another's list.  *)
LEMMA OthersOnList ==
  ASSUME LockInv, ListInv, NEW k \in Command, OnlyMoves(k),
         \A n \in Linked \ Uses(k) : next'[n] = next[n],
         \A l \in Command \ {k} : \A n \in Linked \cap Uses(l) : n \in Linked',
         \A h \in Heads \ Uses(k) : next[h] \notin Uses(k)' \ Uses(k)
  PROVE  \A l \in Command \ {k} : OnList(l)'
<1> USE HeadsAreNodes
<1> SUFFICES ASSUME NEW l \in Command, l # k PROVE OnList(l)'
  OBVIOUS
<1>1. /\ \A j \in Command \ {k} : Uses(j)' = Uses(j)
      /\ TypeOK
  BY OthersUse DEF LockInv, Types
<1>2. /\ pc'[l] = pc[l] /\ curr'[l] = curr[l]
      /\ l \in CancelId => prev'[l] = prev[l]
      /\ l \in OrderId => v'[l] = v[l] /\ popPrev'[l] = popPrev[l]
  BY DEF OnlyMoves
<1>3. Uses(l) \cap Uses(k) = {} /\ OnList(l)
  BY DEF LockInv, LocksHaveOneUser, ListInv
<1>4. /\ Heads \subseteq Linked
      /\ \A n \in Linked : next[n] # Nil => next[n] \in Linked
  BY <1>1, LinkedIsClosed
<1>5. WalksOnList(l)'
  <2>1. pc[l] \in {"add", "new level", "append"} => curr[l] \in Uses(l)
    BY ZenonT(30), UsesAt
  <2>2. pc[l] = "cancel" => l \in CancelId /\ {curr[l], prev[l]} \ {Nil} = Uses(l)
    BY UsesAt DEF LockInv, Types, Labels, OrderPc, Command
  <2>3. pc[l] = "cancel" => curr[l] # Nil
    BY DEF LockInv, Types, Standing, StandsWell
  <2>4. pc[l] \in {"add", "new level", "append", "cancel"} => curr[l] \in Linked'
    BY <1>3, <2>1, <2>2, <2>3 DEF OnList, WalksOnList
  <2>5. CASE pc[l] = "cancel" /\ prev[l] # Nil
    <3>1. prev[l] \in Uses(l) /\ prev[l] \in Linked /\ next[prev[l]] = curr[l]
      BY <1>3, <2>2, <2>5 DEF OnList, WalksOnList
    <3>2. prev[l] \in Linked' /\ next'[prev[l]] = next[prev[l]]
      BY <1>3, <3>1
    <3> QED BY <1>2, <2>2, <2>4, <2>5, <3>1, <3>2 DEF WalksOnList
  <2>6. CASE ~(pc[l] = "cancel" /\ prev[l] # Nil)
    BY <1>2, <1>3, <2>2, <2>4, <2>6 DEF OnList, WalksOnList
  <2> QED BY <2>5, <2>6
<1>6. ASSUME l \in OrderId PROVE MatchesOnList(l)'
  <2> DEFINE h == MatchHead(l)
             first == next[h]
  <2>1. MatchesOnList(l) /\ h \in Heads
    BY <1>3, <1>6 DEF OnList
  <2>2. ASSUME pc[l] \in {"lock level", "execute", "advance"}
        PROVE  h \notin Uses(k) /\ next'[h] = first
    <3>1. h \in Uses(l)
      BY <2>2, UsesAt
    <3> QED BY <1>3, <1>4, <2>1, <3>1
  <2>3. ASSUME NEW n, n = first, HandedOver(l, n), h \notin Uses(k)
        PROVE  HandedOver(l, n)'
    <3>1. n \notin Uses(k)'
      BY <2>1, <2>3 DEF HandedOver
    <3> QED BY <1>1, <1>2, <1>6, <2>3, <3>1 DEF HandedOver
  <2>4. CASE pc[l] = "lock level"
    <3>1. CASE ~popPrev[l] /\ first = curr[l]
      BY <1>2, <1>6, <2>2, <2>4, <3>1 DEF MatchesOnList
    <3>2. CASE first # Nil /\ next[first] = curr[l] /\ HandedOver(l, first)
      <4>1. first \in Linked /\ first \notin Uses(k)
        BY <1>4, <2>1, <3>2 DEF HandedOver
      <4>2. next'[first] = next[first]
        BY <4>1
      <4>3. HandedOver(l, first)'
        <5>1. PICK n : n = first
          OBVIOUS
        <5>2. HandedOver(l, n)'
          BY <2>2, <2>3, <2>4, <3>2, <5>1
        <5>3. next'[h] = n
          BY <2>2, <2>4, <5>1
        <5> QED BY <5>2, <5>3, <2>2, <2>4 DEF HandedOver
      <4> QED BY <1>2, <2>2, <2>4, <3>2, <4>2, <4>3 DEF MatchesOnList, HandedOver
    <3> QED BY <2>1, <2>4, <3>1, <3>2 DEF MatchesOnList
  <2>5. CASE pc[l] = "advance"
    <3>1. curr[l] = first /\ HandedOver(l, curr[l])
      BY <2>1, <2>5 DEF MatchesOnList
    <3>2. HandedOver(l, curr[l])'
      <4>1. PICK n : n = curr[l]
        OBVIOUS
      <4>2. HandedOver(l, n)'
        BY <2>2, <2>3, <2>5, <3>1, <4>1
      <4>3. curr'[l] = n
        BY <1>2, <4>1
      <4> QED BY <4>2, <4>3 DEF HandedOver
    <3> QED BY <1>2, <2>2, <2>5, <3>1, <3>2 DEF MatchesOnList
  <2>6. CASE pc[l] = "execute"
    BY <1>2, <2>1, <2>2, <2>6 DEF MatchesOnList
  <2>7. CASE pc[l] \notin {"lock level", "execute", "advance"}
    BY <1>2, <1>6, <2>1, <2>7 DEF MatchesOnList
  <2> QED BY <2>4, <2>5, <2>6, <2>7
<1> QED BY <1>5, <1>6 DEF OnList


(* Nobody's level is linked again by such a step, or before it is made. *)
LEMMA StillMade ==
  ASSUME LockInv, ListInv, NEW k \in Command, OnlyMoves(k),
         pc[k] \in {"append", "done"} => pc'[k] \in {"append", "done"},
         \A n \in Node : \/ next'[n] = Nil
                         \/ \E m \in Node : next'[n] = next[m]
                         \/ next'[n] = k /\ pc'[k] = "append"
  PROVE  MadeBeforeLinked'
<1> USE HeadsAreNodes
<1>1. ASSUME NEW n \in Node, next'[n] # Nil PROVE pc'[next'[n]] \in {"append", "done"}
  <2>1. CASE next'[n] = k /\ pc'[k] = "append"
    BY <2>1
  <2>2. CASE \E m \in Node : next'[n] = next[m]
    <3>1. PICK m \in Node : next'[n] = next[m]
      BY <2>2
    <3>2. next[m] \in OrderId
      BY <1>1, <3>1, PlainTypes DEF LockInv, Types
    <3>3. pc[next[m]] \in {"append", "done"}
      BY <1>1, <3>1 DEF ListInv, MadeBeforeLinked
    <3> QED BY <3>1, <3>2, <3>3 DEF OnlyMoves
  <2> QED BY <1>1, <2>1, <2>2
<1> QED BY <1>1 DEF MadeBeforeLinked

(* The lists are what their links are. *)
LEMMA SameLinks ==
  ASSUME next' = next
  PROVE  Linked' = Linked /\ (OneBehind => OneBehind')
<1>1. Linked' = Linked
  BY DEF Linked, FollowsLinks
<1> QED BY <1>1 DEF OneBehind

(* A step that links nothing has to care for its own goroutine only. *)
LEMMA SameLinksStep ==
  ASSUME LockInv, ListInv, NEW k \in Command, OnlyMoves(k), next' = next,
         pc[k] \in {"append", "done"} => pc'[k] \in {"append", "done"},
         \A h \in Heads \ Uses(k) : next[h] \notin Uses(k)' \ Uses(k),
         OnList(k)'
  PROVE  ListInv'
<1>1. Linked' = Linked /\ OneBehind'
  BY SameLinks DEF ListInv
<1>2. MadeBeforeLinked'
  BY StillMade
<1>3. \A l \in Command \ {k} : OnList(l)'
  <2>1. \A l \in Command \ {k} : \A n \in Linked \cap Uses(l) : n \in Linked'
    BY <1>1
  <2> QED BY <2>1, OthersOnList
<1> QED BY <1>1, <1>2, <1>3 DEF ListInv

(* Nor does a step that moves nobody change anything. *)
LEMMA NobodyMovesOnList ==
  ASSUME ListInv, next' = next, UNCHANGED locals PROVE ListInv'
<1>1. Linked' = Linked /\ OneBehind'
  BY SameLinks DEF ListInv
<1>2. \A k \in Command : Uses(k)' = Uses(k)
  BY DEF locals, Uses, Held
<1>3. MadeBeforeLinked'
  BY DEF ListInv, MadeBeforeLinked, locals
<1>4. ASSUME NEW k \in Command PROVE OnList(k)'
  <2>1. OnList(k)
    BY DEF ListInv
  <2>2. WalksOnList(k)'
    BY <1>1, <2>1 DEF OnList, WalksOnList, locals
  <2>3. k \in OrderId => MatchesOnList(k)'
    BY <1>2, <2>1 DEF OnList, MatchesOnList, HandedOver, locals
  <2> QED BY <2>2, <2>3 DEF OnList
<1> QED BY <1>1, <1>3, <1>4 DEF ListInv

(* A step that unlinks the level behind one it uses. *)
LEMMA UnlinkStep ==
  ASSUME LockInv, LockInv', ListInv, NEW k \in Command, OnlyMoves(k),
         NEW p \in Linked \cap Uses(k), NEW m \in OrderId, next[p] = m,
         \A l \in Command \ {k} : m \notin Uses(l),
         next' = [next EXCEPT ![p] = next[m]],
         pc[k] \in {"append", "done"} => pc'[k] \in {"append", "done"},
         \A h \in Heads \ Uses(k) : next[h] \notin Uses(k)' \ Uses(k),
         p # m,
         Linked' = Linked \ {m} => OnList(k)'
  PROVE  ListInv'
<1> USE HeadsAreNodes
<1>1. TypeOK /\ TypeOK' /\ OneBehind /\ Linked \subseteq Node
  BY LinkedIsClosed DEF LockInv, Types, ListInv
<1>2. Linked' = Linked \ {m} /\ OneBehind'
  BY <1>1, Shortcut
<1>3. \A n \in Node : next'[n] = IF n = p THEN next[m] ELSE next[n]
  BY <1>1 DEF TypeOK
<1>4. MadeBeforeLinked'
  BY <1>3, StillMade
<1>5. \A l \in Command \ {k} : OnList(l)'
  <2>1. \A n \in Linked \ Uses(k) : next'[n] = next[n]
    BY <1>1, <1>3
  <2>2. \A l \in Command \ {k} : \A n \in Linked \cap Uses(l) : n \in Linked'
    BY <1>2
  <2> QED BY <2>1, <2>2, OthersOnList
<1> QED BY <1>2, <1>4, <1>5 DEF ListInv


(* MatchOrder and the rest of ProcessActiveOrder keep the lists. *)
LEMMA ActiveOnList ==
  ASSUME LockInv, LockInv', ListInv, NEW o \in OrderId, ProcessActiveOrder(o)
  PROVE  ListInv'
<1> USE HeadsAreNodes
<1> DEFINE h == MatchHead(o)
<1>0. /\ TypeOK /\ OnlyMoves(o) /\ OnList(o) /\ MatchesOnList(o) /\ WalksOnList(o)
      /\ h \in Heads /\ h \in Linked /\ OwnHead(o) \in Linked /\ h \in Node
      /\ \A n \in Linked : next[n] # Nil => next[n] \in Linked
  BY WhoMoves, LinkedIsClosed DEF LockInv, Types, ListInv, OnList
<1>1. \A n \in Node : next[n] \in OrderId \cup {Nil}
  BY <1>0 DEF TypeOK
<1>2. ASSUME Uses(o)' \ Uses(o) \subseteq Heads, next' = next,
             pc[o] \notin {"append", "done"}, WalksOnList(o)', MatchesOnList(o)'
      PROVE  ListInv'
  <2>1. \A g \in Heads \ Uses(o) : next[g] \notin Uses(o)' \ Uses(o)
    BY <1>1, <1>2
  <2> QED BY <1>0, <1>2, <2>1, SameLinksStep DEF OnList
<1>3. /\ popPrev[o] \in BOOLEAN
      /\ \A l, n : /\ Goto(o, l) => pc'[o] = l
                   /\ curr' = [curr EXCEPT ![o] = n] => curr'[o] = n
                   /\ v' = [v EXCEPT ![o] = n] => v'[o] = n
                   /\ popPrev' = [popPrev EXCEPT ![o] = n] => popPrev'[o] = n
  BY <1>0 DEF TypeOK, Goto
<1>4. CASE LockSgl(o)
  <2>1. pc[o] = "lock sgl" /\ pc'[o] = "lock match head" /\ UNCHANGED <<next, popPrev>>
    BY <1>3, <1>4 DEF LockSgl
  <2>2. Uses(o)' = {}
    BY <2>1, UsesNext
  <2> QED BY <1>0, <1>2, <2>1, <2>2 DEF WalksOnList, MatchesOnList
<1>5. CASE LockMatchHead(o)
  <2>1. /\ pc[o] = "lock match head" /\ pc'[o] = LevelPc(next[h])
        /\ curr'[o] = next[h] /\ UNCHANGED <<next, popPrev>>
    BY <1>3, <1>5 DEF LockMatchHead
  <2>2. pc'[o] \in {"lock level", "matched"}
    BY <2>1 DEF LevelPc
  <2>3. Uses(o)' \subseteq Heads
    BY <1>0, <2>2, UsesNext
  <2> QED BY <1>0, <1>2, <2>1, <2>2, <2>3 DEF WalksOnList, MatchesOnList
<1>6. CASE LockLevel(o)
  <2> DEFINE n == curr[o]
             first == next[h]
  <2>1. /\ pc[o] = "lock level" /\ n \notin locked /\ Unlink(o, n) /\ n \in OrderId
        /\ pc'[o] = IF v[o] # 0 /\ Matches(o, n) THEN "execute" ELSE "matched"
        /\ UNCHANGED <<curr, v, popPrev>>
    BY <1>3, <1>6 DEF LockLevel, Free, LockInv, Types, Standing, StandsWell
  <2>2. /\ Uses(o) = {h}
        /\ pc'[o] = "execute" => Uses(o)' = {h, n}
        /\ pc'[o] = "matched" => Uses(o)' = {h}
    BY <2>1, UsesAt, UsesNext
  <2>3. Uses(o)' \ Uses(o) \subseteq {n} /\ (pc'[o] = "matched" => Uses(o)' = Uses(o))
    BY <2>1, <2>2
  <2>4. \/ ~popPrev[o] /\ first = n
        \/ first # Nil /\ next[first] = n /\ HandedOver(o, first)
    BY <1>0, <2>1 DEF MatchesOnList
  <2>5. ASSUME NEW g \in Heads \ Uses(o) PROVE next[g] \notin Uses(o)' \ Uses(o)
    <3>1. SUFFICES ASSUME next[g] = n PROVE FALSE
      BY <2>3
    <3>2. n # Nil /\ g \in Linked /\ g # h
      BY <1>0, <2>1, <2>2, LinkedIsClosed
    <3>3. CASE first = n
      BY <1>0, <3>1, <3>2, <3>3 DEF ListInv, OneBehind
    <3>4. CASE first # Nil /\ next[first] = n
      <4>1. first \in Linked /\ first \in OrderId
        BY <1>0, <1>1, <3>4
      <4>2. first = g
        BY <3>1, <3>2, <3>4, <4>1 DEF ListInv, OneBehind
      <4> QED BY <4>1, <4>2
    <3> QED BY <2>4, <3>3, <3>4
  <2>6. WalksOnList(o)'
    BY <2>1 DEF WalksOnList
  <2>7. next'[h] = n \/ pc'[o] = "matched" => MatchesOnList(o)'
    BY <2>1 DEF MatchesOnList
  <2>8. CASE ~popPrev[o]
    <3>1. next' = next
      BY <2>1, <2>8 DEF Unlink
    <3>2. first = n \/ pc'[o] = "matched"
      BY <2>1, <2>4, <2>8 DEF HandedOver
    <3>3. MatchesOnList(o)'
      BY <2>7, <3>1, <3>2
    <3> QED BY <1>0, <2>1, <2>5, <2>6, <3>1, <3>3, SameLinksStep DEF OnList
  <2>9. CASE popPrev[o]
    <3>1. first # Nil /\ next[first] = n /\ HandedOver(o, first)
      BY <2>4, <2>9
    <3>2. next' = [next EXCEPT ![h] = next[first]] /\ first \in OrderId /\ h # first
      BY <1>0, <1>1, <2>1, <2>9, <3>1 DEF Unlink
    <3>3. next'[h] = n
      BY <1>0, <3>1, <3>2 DEF TypeOK
    <3>4. OnList(o)'
      BY <2>6, <2>7, <3>3 DEF OnList
    <3>5. (\A l \in Command \ {o} : first \notin Uses(l)) /\ h \in Linked \cap Uses(o)
      BY <1>0, <2>2, <3>1 DEF HandedOver
    <3>6. pc[o] \notin {"append", "done"}
      BY <2>1
    <3> HIDE DEF first, n, h
    <3>7. next[h] = first
      BY DEF first
    <3> QED BY <1>0, <2>5, <3>2, <3>4, <3>5, <3>6, <3>7, UnlinkStep
  <2> QED BY <1>3, <2>8, <2>9
<1>7. CASE StartExecutor(o)
  <2> DEFINE n == curr[o]
  <2>1. /\ pc[o] = "execute" /\ pc'[o] = "advance" /\ UNCHANGED <<next, curr>>
        /\ v'[o] = (IF UsesUp(o, n) THEN v[o] - volume[n] ELSE 0)
        /\ popPrev'[o] = UsesUp(o, n)
    BY <1>3, <1>7 DEF StartExecutor, bookVars
  <2>2. Uses(o)' = {h} /\ next[h] = n
    BY <1>0, <2>1, UsesNext DEF MatchesOnList
  <2>3. popPrev'[o] \/ v'[o] = 0
    BY <2>1
  <2>4. \A k \in Command : n \notin Uses(k)'
    <3>1. PICK e \in executors' : e.level = n
      <4> DEFINE e == [order |-> o, level |-> n, left |-> v[o],
                       channel |-> Len(outputs')]
      <4>1. e \in executors' /\ e.level = n
        BY <1>7 DEF StartExecutor
      <4> QED BY <4>1
    <3> QED BY <3>1 DEF LockInv, LocksHaveOneUser
  <2>5. MatchesOnList(o)'
    BY <2>1, <2>2, <2>3, <2>4 DEF MatchesOnList, HandedOver
  <2>6. WalksOnList(o)'
    BY <2>1 DEF WalksOnList
  <2> QED BY <1>0, <1>2, <2>1, <2>2, <2>5, <2>6
<1>8. CASE Advance(o)
  <2> DEFINE m == curr[o]
             n == next[m]
  <2>1. /\ pc[o] = "advance" /\ pc'[o] = LevelPc(n) /\ curr'[o] = n
        /\ IF n = Nil THEN Unlink(o, Nil) ELSE next' = next
        /\ UNCHANGED <<v, popPrev>> /\ m \in OrderId
    BY <1>3, <1>8 DEF Advance, LockInv, Types, Standing, StandsWell
  <2>2. next[h] = m /\ HandedOver(o, m)
    BY <1>0, <2>1 DEF MatchesOnList
  <2>3. pc'[o] \in {"lock level", "matched"}
    BY <2>1 DEF LevelPc
  <2>4. Uses(o) = {h} /\ Uses(o)' = {h}
    BY <2>1, <2>3, UsesAt, UsesNext
  <2>5. WalksOnList(o)'
    BY <2>3 DEF WalksOnList
  <2>6. CASE n # Nil
    <3>1. next' = next /\ pc'[o] = "lock level"
      BY <2>1, <2>6 DEF LevelPc
    <3>2. \A k \in Command : Uses(k)' = Uses(k)
      BY <1>0, <2>4, OthersUse DEF LockInv
    <3>3. PICK q : q = m
      OBVIOUS
    <3>4. \A k \in Command : q \notin Uses(k)'
      BY <2>2, <3>2, <3>3 DEF HandedOver
    <3>5. next'[h] = q /\ (popPrev'[o] \/ v'[o] = 0)
      BY <2>1, <2>2, <3>1, <3>3 DEF HandedOver
    <3>6. next'[q] = curr'[o] /\ q # Nil
      BY <2>1, <3>1, <3>3
    <3>7. MatchesOnList(o)'
      BY <3>1, <3>4, <3>5, <3>6 DEF MatchesOnList, HandedOver
    <3> QED BY <1>2, <2>1, <2>4, <2>5, <3>1, <3>7
  <2>7. CASE n = Nil
    <3>1. pc'[o] = "matched" /\ Unlink(o, Nil)
      BY <2>1, <2>7 DEF LevelPc
    <3>2. MatchesOnList(o)'
      BY <3>1 DEF MatchesOnList
    <3>3. CASE ~popPrev[o]
      BY <1>0, <1>2, <2>1, <2>4, <2>5, <3>1, <3>2, <3>3 DEF Unlink
    <3>4. CASE popPrev[o]
      <4>1. next' = [next EXCEPT ![h] = next[m]]
        BY <2>7, <3>1, <3>4 DEF Unlink
      <4>2. /\ \A l \in Command \ {o} : m \notin Uses(l)
            /\ h \in Linked \cap Uses(o) /\ h # m
        BY <1>0, <2>1, <2>2, <2>4 DEF HandedOver
      <4>3. \A g \in Heads \ Uses(o) : next[g] \notin Uses(o)' \ Uses(o)
        BY <2>4
      <4>4. OnList(o)' /\ pc[o] \notin {"append", "done"}
        BY <2>1, <2>5, <3>2 DEF OnList
      <4>5. next[h] = m /\ m \in OrderId
        BY <2>1, <2>2
      <4> HIDE DEF m, h
      <4> QED BY <1>0, <4>1, <4>2, <4>3, <4>4, <4>5, UnlinkStep
    <3> QED BY <1>3, <3>3, <3>4
  <2> QED BY <2>6, <2>7
<1>9. CASE EndMatch(o)
  <2>1. /\ pc[o] = "matched" /\ pc'[o] \in {"done", "lock own head"}
        /\ next' = next /\ popPrev'[o] = FALSE
    BY <1>3, <1>9 DEF EndMatch
  <2>2. Uses(o)' = {}
    BY <2>1, UsesNext
  <2>3. WalksOnList(o)' /\ MatchesOnList(o)'
    BY <2>1 DEF WalksOnList, MatchesOnList
  <2> QED BY <1>2, <2>1, <2>2, <2>3
<1>10. CASE LockOwnHead(o)
  <2>1. pc[o] = "lock own head" /\ pc'[o] = "set" /\ UNCHANGED <<next, popPrev>>
    BY <1>3, <1>10 DEF LockOwnHead
  <2>2. Uses(o)' = {OwnHead(o)}
    BY <2>1, UsesNext
  <2> QED BY <1>0, <1>2, <2>1, <2>2 DEF WalksOnList, MatchesOnList
<1>11. CASE SetOrder(o)
  <2>1. pc[o] = "set" /\ pc'[o] = "queue add" /\ UNCHANGED <<next, popPrev>>
    BY <1>3, <1>11 DEF SetOrder, bookVars
  <2>2. Uses(o)' = {OwnHead(o)}
    BY <2>1, UsesNext
  <2> QED BY <1>0, <1>2, <2>1, <2>2 DEF WalksOnList, MatchesOnList
<1>12. CASE StartAdd(o)
  <2>1. /\ pc[o] = "queue add" /\ pc'[o] = "add" /\ UNCHANGED <<next, popPrev>>
        /\ curr'[o] = OwnHead(o)
    BY <1>3, <1>12 DEF StartAdd
  <2>2. Uses(o)' = {OwnHead(o)} /\ Linked' = Linked
    BY <2>1, UsesNext, SameLinks
  <2> QED BY <1>0, <1>2, <2>1, <2>2 DEF WalksOnList, MatchesOnList
<1> QED BY <1>4, <1>5, <1>6, <1>7, <1>8, <1>9, <1>10, <1>11, <1>12 DEF ProcessActiveOrder


(* AddOrder keeps the lists: it links its new level behind the one it has   *)
(* locked.                                                                  *)
LEMMA AddOnList ==
  ASSUME LockInv, LockInv', ListInv, NEW o \in OrderId, AddOrder(o)
  PROVE  ListInv'
<1> USE HeadsAreNodes
<1> DEFINE p == curr[o]
<1>0. /\ TypeOK /\ TypeOK' /\ OneBehind /\ OnlyMoves(o) /\ MatchesOnList(o) /\ WalksOnList(o)
      /\ Heads \subseteq Linked /\ Linked \subseteq Node
      /\ \A n \in Linked : next[n] # Nil => next[n] \in Linked
  BY WhoMoves, LinkedIsClosed DEF LockInv, Types, ListInv, OnList
<1>1. \A n \in Node : next[n] \in OrderId \cup {Nil}
  BY <1>0 DEF TypeOK
<1>2. /\ popPrev[o] \in BOOLEAN
      /\ \A l, n : /\ Goto(o, l) => pc'[o] = l
                   /\ curr' = [curr EXCEPT ![o] = n] => curr'[o] = n
  BY <1>0 DEF TypeOK, Goto
<1>3. /\ pc[o] \in {"add", "new level", "append"} /\ p \in Linked /\ p \in Node
      /\ Uses(o) = {p} /\ ~popPrev[o]
  <2>1. pc[o] \in {"add", "new level", "append"}
    BY DEF AddOrder, PlaceFound, AddStep, NewLevel, AppendOrder
  <2> QED BY <1>0, <2>1, UsesAt DEF WalksOnList, MatchesOnList
<1>4. CASE PlaceFound(o)
  <2>1. /\ pc[o] = "add" /\ pc'[o] \in {"append", "new level"}
        /\ UNCHANGED <<next, curr, popPrev>>
    BY <1>2, <1>4 DEF PlaceFound, PlacePc, bookVars
  <2>2. Uses(o)' = {p} /\ Linked' = Linked
    BY <2>1, UsesNext, SameLinks
  <2>3. OnList(o)'
    BY <1>3, <2>1, <2>2 DEF OnList, WalksOnList, MatchesOnList
  <2> QED BY <1>0, <1>3, <2>1, <2>2, <2>3, SameLinksStep
<1>5. CASE AddStep(o)
  <2> DEFINE n == next[p]
  <2>1. /\ pc[o] = "add" /\ pc'[o] \in {"append", "add"} /\ curr'[o] = n
        /\ UNCHANGED <<next, popPrev>> /\ n # Nil
    BY <1>2, <1>5 DEF AddStep
  <2>2. Uses(o)' = {n} /\ Linked' = Linked /\ n \in Linked
    BY <1>0, <1>3, <2>1, UsesNext, SameLinks
  <2>3. OnList(o)'
    BY <1>3, <2>1, <2>2 DEF OnList, WalksOnList, MatchesOnList
  <2>4. \A g \in Heads \ Uses(o) : next[g] \notin Uses(o)' \ Uses(o)
    BY <1>0, <1>3, <2>1, <2>2 DEF OneBehind
  <2> QED BY <1>0, <2>1, <2>3, <2>4, SameLinksStep
<1>6. CASE NewLevel(o)
  <2>1. /\ pc[o] = "new level" /\ pc'[o] = "append" /\ curr'[o] = o
        /\ next' = [next EXCEPT ![o] = next[p], ![p] = o] /\ popPrev' = popPrev
    BY <1>2, <1>6 DEF NewLevel
  <2>2. (\A n \in Node : next[n] # o) /\ p # o
    <3>1. \A n \in Node : next[n] # o
      BY <2>1 DEF ListInv, MadeBeforeLinked
    <3>2. o \notin locked /\ p \in locked
      BY <1>6 DEF NewLevel, HandOver, Free
    <3> QED BY <3>1, <3>2
  <2> HIDE DEF p
  <2>3. Linked' = Linked \cup {o} /\ OneBehind'
    BY <1>0, <1>3, <2>1, <2>2, Insert
  <2>4. \A n \in Node : next'[n] = IF n = p THEN o ELSE IF n = o THEN next[p] ELSE next[n]
    BY <1>0, <1>3, <2>1 DEF TypeOK
  <2>5. o \notin Linked
    <3>1. PICK L \in SUBSET OrderId : L = OrderId \ {o}
      OBVIOUS
    <3>2. FollowsLinks(L)
      BY <1>1, <2>2, <3>1 DEF FollowsLinks
    <3> QED BY <3>1, <3>2, LinkedIsLeast
  <2>6. MadeBeforeLinked'
    BY <1>0, <1>3, <2>1, <2>4, StillMade
  <2>7. Uses(o)' = {o}
    BY <2>1, UsesNext
  <2>8. \A l \in Command \ {o} : OnList(l)'
    <3>1. \A n \in Linked \ Uses(o) : next'[n] = next[n]
      BY <1>0, <1>3, <2>4, <2>5
    <3>2. \A l \in Command \ {o} : \A n \in Linked \cap Uses(l) : n \in Linked'
      BY <2>3
    <3>3. \A g \in Heads \ Uses(o) : next[g] \notin Uses(o)' \ Uses(o)
      BY <2>2, <2>7
    <3> QED BY <1>0, <3>1, <3>2, <3>3, OthersOnList
  <2>9. OnList(o)'
    BY <1>3, <2>1, <2>3 DEF OnList, WalksOnList, MatchesOnList
  <2> QED BY <2>3, <2>6, <2>8, <2>9 DEF ListInv
<1>7. CASE AppendOrder(o)
  <2>1. pc[o] = "append" /\ pc'[o] = "done" /\ UNCHANGED <<next, popPrev>>
    BY <1>2, <1>7 DEF AppendOrder
  <2>2. Uses(o)' = {}
    BY <2>1, UsesNext
  <2>3. OnList(o)'
    BY <1>3, <2>1 DEF OnList, WalksOnList, MatchesOnList
  <2> QED BY <1>0, <2>1, <2>2, <2>3, SameLinksStep
<1> QED BY <1>4, <1>5, <1>6, <1>7 DEF AddOrder

(* CancelOrder keeps the lists: it unlinks the level it stands on from the  *)
(* one before, which it has locked as well.                                 *)
LEMMA CancelOnList ==
  ASSUME LockInv, LockInv', ListInv, NEW x \in CancelId, ProcessCancelOrder(x)
  PROVE  ListInv'
<1> USE HeadsAreNodes
<1> DEFINE m == curr[x]
           p == prev[x]
<1>0. /\ TypeOK /\ TypeOK' /\ OneBehind /\ OnlyMoves(x) /\ WalksOnList(x)
      /\ Heads \subseteq Linked /\ Linked \subseteq Node
      /\ \A n \in Linked : next[n] # Nil => next[n] \in Linked
  BY WhoMoves, LinkedIsClosed DEF LockInv, Types, ListInv, OnList
<1>1. \A n \in Node : next[n] \in OrderId \cup {Nil}
  BY <1>0 DEF TypeOK
<1>2. \A l, n : /\ Goto(x, l) => pc'[x] = l
                /\ curr' = [curr EXCEPT ![x] = n] => curr'[x] = n
                /\ prev' = [prev EXCEPT ![x] = n] => prev'[x] = n
  BY <1>0 DEF TypeOK, Goto
<1>3. OnList(x)' <=> WalksOnList(x)'
  BY DEF OnList
<1>4. pc[x] = "cancel" => /\ m \in Linked /\ Uses(x) = {m, p} \ {Nil} /\ m # Nil
                          /\ p = Nil => m \in Heads
                          /\ p # Nil => p \in Linked /\ next[p] = m /\ p # m
  BY <1>0, UsesAt DEF WalksOnList, LockInv, Types, Standing, StandsWell
<1>5. CASE LockCancelHead(x)
  <2>1. pc[x] = "lock head" /\ pc'[x] = "queue cancel" /\ next' = next
    BY <1>2, <1>5 DEF LockCancelHead
  <2>2. Uses(x)' \subseteq Heads
    <3>1. Uses(x)' = {OwnHead(About[x])}
      BY <2>1, UsesNext
    <3> QED BY <3>1
  <2>3. \A g \in Heads \ Uses(x) : next[g] \notin Uses(x)' \ Uses(x)
    BY <1>1, <2>2
  <2>4. WalksOnList(x)'
    BY <2>1 DEF WalksOnList
  <2> QED BY <1>0, <1>3, <2>1, <2>3, <2>4, SameLinksStep
<1>6. CASE QueueCancel(x)
  <2>1. /\ pc[x] = "queue cancel" /\ pc'[x] = "cancel" /\ UNCHANGED <<next, prev>>
        /\ curr'[x] = OwnHead(About[x])
    BY <1>2, <1>6 DEF QueueCancel, bookVars
  <2>2. p = Nil
    BY <2>1 DEF LockInv, Types, Standing, StandsWell
  <2>3. Uses(x)' \subseteq Heads /\ Linked' = Linked
    <3>1. Uses(x)' = {curr'[x], prev'[x]} \ {Nil}
      BY <2>1, UsesNext
    <3>2. curr'[x] \in Heads /\ prev'[x] = Nil
      BY <2>1, <2>2
    <3> QED BY <2>1, <3>1, <3>2, SameLinks
  <2>4. \A g \in Heads \ Uses(x) : next[g] \notin Uses(x)' \ Uses(x)
    BY <1>1, <2>3
  <2>5. WalksOnList(x)'
    BY <1>0, <2>1, <2>2, <2>3 DEF WalksOnList
  <2> QED BY <1>0, <1>3, <2>1, <2>4, <2>5, SameLinksStep
<1>7. CASE CancelStep(x)
  <2> DEFINE n == next[m]
  <2>1. /\ pc[x] = "cancel" /\ pc'[x] = "cancel" /\ next' = next /\ n # Nil
        /\ prev'[x] = m /\ curr'[x] = n
    BY <1>2, <1>7 DEF CancelStep
  <2>2. Uses(x)' = {n, m} \ {Nil} /\ Linked' = Linked /\ n \in Linked
    BY <1>0, <1>4, <2>1, UsesNext, SameLinks
  <2>3. \A g \in Heads \ Uses(x) : next[g] \notin Uses(x)' \ Uses(x)
    BY <1>0, <1>4, <2>1, <2>2 DEF OneBehind
  <2>4. WalksOnList(x)'
    <3>1. next'[prev'[x]] = curr'[x]
      BY <2>1
    <3> QED BY <1>4, <2>1, <2>2, <3>1 DEF WalksOnList
  <2> QED BY <1>0, <1>3, <2>1, <2>3, <2>4, SameLinksStep
<1>8. ASSUME CancelFails(x) \/ CancelSucceeds(x)
      PROVE  /\ pc[x] = "cancel" /\ pc'[x] = "done" /\ WalksOnList(x)'
             /\ Uses(x)' = {}
  <2>1. pc[x] = "cancel" /\ pc'[x] = "done"
    BY <1>2, <1>8 DEF CancelFails, CancelSucceeds, Answer
  <2> QED BY <2>1, UsesNext DEF WalksOnList
<1>9. CASE CancelFails(x)
  <2>1. next' = next
    BY <1>9 DEF CancelFails
  <2> QED BY <1>0, <1>3, <1>8, <1>9, <2>1, SameLinksStep
<1>10. CASE CancelSucceeds(x)
  <2>1. m \notin Heads /\ DropLevel(m, p)
    BY <1>10 DEF CancelSucceeds, AtLevel
  <2>2. /\ p \in Linked \cap Uses(x) /\ next[p] = m /\ p # m /\ m \in OrderId
        /\ m \in Uses(x)
    BY <1>0, <1>4, <1>8, <1>10, <2>1 DEF Node
  <2>3. CASE next' = next
    BY <1>0, <1>3, <1>8, <1>10, <2>3, SameLinksStep
  <2>4. CASE next' = [next EXCEPT ![p] = next[m]]
    <3>1. \A l \in Command \ {x} : m \notin Uses(l)
      BY <2>2 DEF LockInv, LocksHaveOneUser
    <3>2. pc[x] = "cancel" /\ OnList(x)' /\ Uses(x)' = {}
      BY <1>3, <1>8, <1>10
    <3> HIDE DEF m, p
    <3> QED BY <1>0, <2>2, <2>4, <3>1, <3>2, UnlinkStep
  <2> QED BY <2>1, <2>3, <2>4 DEF DropLevel
<1> QED BY <1>5, <1>6, <1>7, <1>9, <1>10 DEF ProcessCancelOrder

(* Reading a command moves its goroutine to its first step. *)
LEMMA HandleConnOnList ==
  ASSUME LockInv, LockInv', ListInv, NEW c \in Client, HandleConn(c)
  PROVE  ListInv'
<1> USE HeadsAreNodes
<1>1. ASSUME NEW k \in Command, OnlyMoves(k), input[c] # <<>>, k = Head(input[c]), Sent(c),
             Goto(k, "lock sgl") \/ Goto(k, "lock head"), next' = next,
             k \in OrderId => popPrev'[k] = popPrev[k]
      PROVE  ListInv'
  <2>1. pc[k] = "unread" /\ pc'[k] \in {"lock sgl", "lock head"}
    <3>1. TypeOK /\ Labels
      BY DEF LockInv, Types
    <3>2. pc[k] = "unread"
      BY <1>1, <3>1, Reading
    <3> QED BY <1>1, <3>1, <3>2 DEF TypeOK, Goto
  <2>2. Uses(k)' = {}
    BY <2>1, UsesNext
  <2>3. WalksOnList(k)'
    BY <2>1 DEF WalksOnList
  <2>4. k \in OrderId => MatchesOnList(k)'
    BY <1>1, <2>1 DEF ListInv, OnList, MatchesOnList
  <2> QED BY <1>1, <2>1, <2>2, <2>3, <2>4, SameLinksStep DEF OnList
<1>2. ASSUME NEW o \in OrderId, ReadOrder(c, o) PROVE ListInv'
  BY <1>1, <1>2, WhoMoves DEF ReadOrder, Reads, bookVars, LockInv, Types
<1>3. ASSUME NEW x \in CancelId, Dispatch(c, x) PROVE ListInv'
  BY <1>1, <1>3, WhoMoves DEF Dispatch, LooksUp, Reads, bookVars, LockInv, Types
<1>4. ASSUME NEW x \in CancelId, Unknown(c, x) \/ Foreign(c, x) PROVE ListInv'
  BY <1>4, NobodyMovesOnList DEF Unknown, Foreign, bookVars
<1>5. CASE Reject(c)
  BY <1>5, NobodyMovesOnList DEF Reject
<1> QED BY <1>2, <1>3, <1>4, <1>5 DEF HandleConn

(* One step keeps the lists. *)
LEMMA ListStep ==
  LockInv /\ LockInv' /\ ListInv /\ [Next]_vars => ListInv'
<1> SUFFICES ASSUME LockInv, LockInv', ListInv, [Next]_vars PROVE ListInv'
  OBVIOUS
<1>1. CASE \E o \in OrderId : ExecuteOrder(o)
  BY <1>1, NobodyMovesOnList DEF ExecuteOrder, Trade, EndExecutor
<1>2. CASE Printer
  BY <1>2, NobodyMovesOnList DEF Printer, NextChannel, PrintLine, bookVars
<1>3. CASE UNCHANGED vars
  BY <1>3, NobodyMovesOnList DEF vars, bookVars
<1> QED BY <1>1, <1>2, <1>3, HandleConnOnList, ActiveOnList, AddOnList, CancelOnList
        DEF Next, Goroutines, Terminated

(* There are no levels yet but the heads. *)
LEMMA InitList == Init => ListInv
<1> SUFFICES ASSUME Init PROVE ListInv
  OBVIOUS
<1> USE HeadsAreNodes
<1>1. /\ \A k \in Command : pc[k] = "unread"
      /\ \A n \in Node : next[n] = Nil
      /\ \A o \in OrderId : popPrev[o] = FALSE
  BY DEF Init
<1>2. Linked \subseteq Node
  BY DEF Linked
<1> QED BY <1>1, <1>2 DEF ListInv, OneBehind, MadeBeforeLinked, OnList, WalksOnList,
                            MatchesOnList

(* The lists are always so. *)
LEMMA ListInvHolds == Spec => []ListInv
BY InitList, ListStep, LockInvHolds, PTL DEF Spec

(* An order is never added to, or cancelled in, a level that has left its   *)
(* list, and MatchOrder waits for no such level: while some goroutines use  *)
(* up levels and unlink them, others wait for locks with pointers they read *)
(* before.  It holds for any orders, prices and number of connections.      *)
THEOREM NobodyUnlinked == Spec => []NobodyOnUnlinkedLevel
<1>1. LockInv /\ ListInv => NobodyOnUnlinkedLevel
  <2> SUFFICES ASSUME LockInv, ListInv, NEW k \in Command,
                      pc[k] \in {"add", "new level", "append", "cancel", "lock level"}
               PROVE  curr[k] \in Linked
    BY DEF NobodyOnUnlinkedLevel
  <2>1. CASE pc[k] # "lock level"
    BY <2>1 DEF ListInv, OnList, WalksOnList
  <2>2. CASE pc[k] = "lock level"
    <3>1. k \in OrderId
      BY <2>2 DEF LockInv, Types, Labels, CancelPc, Command
    <3>3. curr[k] # Nil
      BY <2>2, HeadsAreNodes DEF LockInv, Types, Standing, StandsWell
    <3>2. MatchHead(k) \in Linked /\ \A n \in Linked : next[n] # Nil => next[n] \in Linked
      BY <3>1, HeadsAreNodes, LinkedIsClosed DEF LockInv, Types
    <3> QED BY <2>2, <3>1, <3>2, <3>3 DEF ListInv, OnList, MatchesOnList
  <2> QED BY <2>1, <2>2
<1> QED BY <1>1, ListInvHolds, LockInvHolds, PTL

-----------------------------------------------------------------------------
(* The volumes.  sum[i] is the sum of the sizes of the first i orders of a  *)
(* level, as numbers that do not wrap.                                      *)
Sums(q, sum) ==
  sum[0] = 0 /\ \A i \in 1 .. Len(q) : sum[i] = sum[i - 1] + count[q[i]]

HasSum(q, x) == \E sum \in [Nat -> Int] : Sums(q, sum) /\ x = sum[Len(q)]

(* An order that rests has no goroutine at work, and it is in one place.    *)
RestsDone == \A n \in Node : \A i \in DOMAIN queue[n] : pc[queue[n][i]] = "done"

RestsOnce ==
  \A n, m \in Node : \A i \in DOMAIN queue[n], j \in DOMAIN queue[m] :
    queue[n][i] = queue[m][j] => n = m /\ i = j

(* A volume is the sum of the sizes in the level, modulo 2^32.              *)
SumsModulo == \A n \in Node : \E x \in Int : HasSum(queue[n], x) /\ volume[n] = ToUInt(x)

VolumeInv == RestsDone /\ RestsOnce /\ SumsModulo

(* There is one way to divide by the modulus. *)
LEMMA Quotient ==
  ASSUME NEW k \in Int, NEW r \in 0 .. Modulus - 1
  PROVE  ToUInt(k * Modulus + r) = r
<1>1. PICK m \in Nat : m = Modulus /\ m > 0
  BY GoBookAssumption
<1>2. PICK z \in Int : z = k * m + r
  OBVIOUS
<1>3. PICK j \in Int, s \in Int : z = j * m + s /\ s = z % m /\ 0 <= s /\ s < m
  <2>1. /\ z \div m \in Int /\ z % m \in Int /\ 0 <= z % m /\ z % m < m
        /\ z = (z \div m) * m + (z % m)
    BY <1>1
  <2> QED
    BY <2>1
<1>4. PICK d \in Int : d = k - j
  OBVIOUS
<1>5. d * m = s - r
  <2>1. k * m + r = j * m + s
    BY <1>2, <1>3
  <2>2. (k - j) * m = k * m - j * m
    OBVIOUS
  <2>3. PICK a \in Int, b \in Int : a = k * m /\ b = j * m
    OBVIOUS
  <2> QED
    BY <1>4, <2>1, <2>2, <2>3
<1>6. -m < s - r /\ s - r < m
  BY <1>1, <1>3
<1>7. d = 0
  <2>1. ASSUME d >= 1 PROVE FALSE
    <3>1. (d - 1) * m >= 0 /\ d * m = (d - 1) * m + m
      BY <1>1, <2>1
    <3> QED
      BY <1>5, <1>6, <3>1
  <2>2. ASSUME d <= -1 PROVE FALSE
    <3>1. (-1 - d) * m >= 0 /\ d * m = -((-1 - d) * m) - m
      BY <1>1, <2>2
    <3> QED
      BY <1>5, <1>6, <3>1
  <2> QED
    BY <2>1, <2>2
<1>8. s = r
  <2>1. d * m = 0
    BY <1>7
  <2> QED
    BY <1>3, <1>5, <2>1
<1> QED
  BY <1>1, <1>2, <1>3, <1>8 DEF ToUInt

(* Taking the remainder once more, after adding, makes no difference.       *)
LEMMA ModuloOnce ==
  ASSUME NEW x \in Int, NEW y \in Int
  PROVE  ToUInt(ToUInt(x) + y) = ToUInt(x + y)
<1>1. PICK m \in Nat : m = Modulus /\ m > 0
  BY GoBookAssumption
<1>2. \A z \in Int : \E k \in Int, r \in 0 .. m - 1 : z = k * m + r /\ r = ToUInt(z)
  <2>1. ASSUME NEW z \in Int
        PROVE  /\ z \div m \in Int /\ z % m \in 0 .. m - 1
               /\ z = (z \div m) * m + (z % m)
    BY <1>1
  <2> QED
    BY <1>1, <2>1 DEF ToUInt
<1>3. PICK k \in Int, r \in 0 .. m - 1 : x = k * m + r /\ r = ToUInt(x)
  BY <1>2
<1>4. PICK j \in Int, s \in 0 .. m - 1 : r + y = j * m + s /\ s = ToUInt(r + y)
  <2>1. r + y \in Int
    OBVIOUS
  <2> QED
    BY <1>2, <2>1
<1>5. x + y = (k + j) * m + s
  <2>1. (k + j) * m = k * m + j * m
    OBVIOUS
  <2>2. PICK a \in Int, b \in Int : a = k * m /\ b = j * m
    OBVIOUS
  <2> QED
    BY <1>3, <1>4, <2>1, <2>2
<1>6. ToUInt((k + j) * m + s) = s
  <2>1. k + j \in Int /\ s \in 0 .. Modulus - 1
    BY <1>1
  <2>2. ToUInt((k + j) * Modulus + s) = s
    BY <2>1, Quotient
  <2> QED
    BY <1>1, <2>2
<1> QED
  BY <1>3, <1>4, <1>5, <1>6

(* A number below the modulus is its own remainder. *)
LEMMA SmallIsItself ==
  ASSUME NEW x \in Int, 0 <= x, x < Modulus
  PROVE  ToUInt(x) = x
<1>1. x \in 0 .. Modulus - 1 /\ x = 0 * Modulus + x
  BY GoBookAssumption
<1> QED
  BY <1>1, Quotient

(* A set of numbers has a least one: of the intervals that end in it, one  *)
(* includes no other.                                                      *)
LEMMA Least ==
  ASSUME NEW S \in SUBSET Nat, S # {}
  PROVE  \E n \in S : \A m \in S : n <= m
<1> DEFINE T == {0 .. n : n \in S}
<1>1. T # {}
  OBVIOUS
<1>2. T \subseteq FiniteSubsetsOf(Nat)
  <2>1. ASSUME NEW n \in S PROVE 0 .. n \in FiniteSubsetsOf(Nat)
    <3>1. 0 \in Int /\ n \in Int
      OBVIOUS
    <3>2. IsFiniteSet(0 .. n)
      BY <3>1, FS_Interval
    <3>3. 0 .. n \subseteq Nat
      OBVIOUS
    <3> QED
      BY <3>2, <3>3 DEF FiniteSubsetsOf
  <2> QED
    BY <2>1
<1>3. \E x \in T : \A y \in T : ~(<<y, x>> \in StrictSubsetOrdering(Nat))
  <2> HIDE DEF T
  <2> QED
    BY <1>1, <1>2, FS_StrictSubsetOrderingWellFounded, WFMin
<1>4. PICK n \in S : \A m \in S : ~(<<0 .. m, 0 .. n>> \in StrictSubsetOrdering(Nat))
  BY <1>3
<1>5. ASSUME NEW m \in S, ~(n <= m) PROVE FALSE
  <2>1. 0 .. m \subseteq 0 .. n /\ 0 .. m # 0 .. n
    <3>1. n \in 0 .. n /\ n \notin 0 .. m
      BY <1>5
    <3>2. \A i \in 0 .. m : i \in 0 .. n
      BY <1>5
    <3> QED
      BY <3>1, <3>2
  <2>2. 0 .. m \in SUBSET Nat /\ 0 .. n \in SUBSET Nat
    OBVIOUS
  <2>3. <<0 .. m, 0 .. n>> \in StrictSubsetOrdering(Nat)
    BY <2>1, <2>2 DEF StrictSubsetOrdering
  <2> QED
    BY <1>4, <2>3
<1> QED
  BY <1>5

(* A part of a sequence, two in a row, and one without its k-th element.    *)
LEMMA Part ==
  ASSUME NEW S, NEW q \in Seq(S), NEW a \in Nat, NEW b \in Nat,
         1 <= a, a <= b + 1, b <= Len(q)
  PROVE  /\ SubSeq(q, a, b) \in Seq(S)
         /\ Len(SubSeq(q, a, b)) = b - a + 1
         /\ \A i \in 1 .. b - a + 1 : SubSeq(q, a, b)[i] = q[a + i - 1]
<1>1. SubSeq(q, a, b) \in Seq(S)
  OBVIOUS
<1>2. Len(SubSeq(q, a, b)) = b - a + 1
  OBVIOUS
<1> QED
  BY <1>1, <1>2

LEMMA Joined ==
  ASSUME NEW S, NEW q \in Seq(S), NEW r \in Seq(S),
         NEW m, m = Len(q), NEW n, n = Len(r)
  PROVE  /\ q \o r \in Seq(S)
         /\ Len(q \o r) = m + n
         /\ \A i \in 1 .. m + n :
              (q \o r)[i] = IF i <= m THEN q[i] ELSE r[i - m]
OBVIOUS

LEMMA Removed ==
  ASSUME NEW S, NEW q \in Seq(S), NEW k \in 1 .. Len(q)
  PROVE  /\ RemoveAt(q, k) \in Seq(S)
         /\ Len(RemoveAt(q, k)) = Len(q) - 1
         /\ DOMAIN RemoveAt(q, k) = 1 .. Len(q) - 1
         /\ \A i \in 1 .. Len(q) - 1 :
              /\ i \in DOMAIN q /\ i + 1 \in DOMAIN q
              /\ RemoveAt(q, k)[i] = IF i < k THEN q[i] ELSE q[i + 1]
<1>1. PICK l \in Nat : l = Len(q)
  OBVIOUS
<1>2. k \in Nat /\ 1 <= k /\ k <= l /\ DOMAIN q = 1 .. l
  BY <1>1
<1>3. PICK x : x = SubSeq(q, 1, k - 1)
  OBVIOUS
<1>4. PICK y : y = SubSeq(q, k + 1, l)
  OBVIOUS
<1>5. /\ x \in Seq(S) /\ Len(x) = k - 1
      /\ \A i \in 1 .. k - 1 : x[i] = q[i]
  <2>1. 1 \in Nat /\ k - 1 \in Nat /\ 1 <= (k - 1) + 1 /\ k - 1 <= l
    BY <1>2
  <2>2. /\ x \in Seq(S) /\ Len(x) = (k - 1) - 1 + 1
        /\ \A i \in 1 .. (k - 1) - 1 + 1 : x[i] = q[1 + i - 1]
    BY <1>1, <1>3, <2>1, Part
  <2>3. \A i \in Nat : 1 + i - 1 = i
    OBVIOUS
  <2>4. (k - 1) - 1 + 1 = k - 1
    BY <1>2
  <2> QED
    BY <2>2, <2>3, <2>4
<1>6. /\ y \in Seq(S) /\ Len(y) = l - k
      /\ \A i \in 1 .. l - k : y[i] = q[k + i]
  <2>1. k + 1 \in Nat /\ 1 <= k + 1 /\ k + 1 <= l + 1 /\ l <= l
    BY <1>2
  <2>2. /\ y \in Seq(S) /\ Len(y) = l - (k + 1) + 1
        /\ \A i \in 1 .. l - (k + 1) + 1 : y[i] = q[(k + 1) + i - 1]
    BY <1>1, <1>4, <2>1, Part
  <2>3. \A i \in Nat : (k + 1) + i - 1 = k + i
    BY <1>2
  <2>4. l - (k + 1) + 1 = l - k
    BY <1>2
  <2> QED
    <3>1. ASSUME NEW i \in 1 .. l - k PROVE y[i] = q[k + i]
      <4>1. i \in Nat /\ i \in 1 .. l - (k + 1) + 1
        BY <2>4
      <4>2. y[i] = q[(k + 1) + i - 1]
        BY <2>2, <4>1
      <4> QED
        BY <2>3, <4>1, <4>2
    <3> QED
      BY <2>2, <2>4, <3>1
<1>7. RemoveAt(q, k) = x \o y
  BY <1>1, <1>3, <1>4 DEF RemoveAt
<1>8. /\ x \o y \in Seq(S) /\ Len(x \o y) = (k - 1) + (l - k)
      /\ \A i \in 1 .. (k - 1) + (l - k) :
           (x \o y)[i] = IF i <= k - 1 THEN x[i] ELSE y[i - (k - 1)]
  <2>1. PICK m, n : m = k - 1 /\ n = l - k
    OBVIOUS
  <2>2. x \in Seq(S) /\ y \in Seq(S) /\ m = Len(x) /\ n = Len(y)
    BY <1>5, <1>6, <2>1
  <2>3. /\ x \o y \in Seq(S) /\ Len(x \o y) = m + n
        /\ \A i \in 1 .. m + n : (x \o y)[i] = IF i <= m THEN x[i] ELSE y[i - m]
    BY <2>2, Joined
  <2> QED
    BY <2>1, <2>3
<1>9. (k - 1) + (l - k) = l - 1
  BY <1>2
<1>10. ASSUME NEW i \in 1 .. l - 1
       PROVE  (x \o y)[i] = IF i < k THEN q[i] ELSE q[i + 1]
  <2>1. CASE i < k
    <3>1. i <= k - 1 /\ i \in 1 .. k - 1
      BY <1>2, <2>1
    <3> QED
      BY <1>5, <1>8, <1>9, <2>1, <3>1
  <2>2. CASE ~(i < k)
    <3>1. ~(i <= k - 1) /\ i - (k - 1) \in 1 .. l - k /\ k + (i - (k - 1)) = i + 1
      BY <1>2, <2>2
    <3> QED
      BY <1>6, <1>8, <1>9, <2>2, <3>1
  <2> QED
    BY <2>1, <2>2
<1>11. DOMAIN (x \o y) = 1 .. l - 1
  BY <1>8, <1>9
<1>12. \A i \in 1 .. l - 1 : i \in 1 .. l /\ i + 1 \in 1 .. l
  BY <1>2
<1> QED
  BY <1>1, <1>2, <1>7, <1>8, <1>9, <1>10, <1>11, <1>12

(* FoldLeft goes through a sequence from its end: a function of the sets   *)
(* of indices, which is what is left of the sequence.                      *)
LEMMA MaxOf ==
  ASSUME NEW s \in SUBSET Nat, NEW n \in s, \A i \in s : i <= n
  PROVE  Max(s) = n
<1>1. \A i \in s : i \in Nat
  OBVIOUS
<1>2. \A i \in s : n >= i
  BY <1>1
<1>3. \A x \in s : (\A i \in s : x >= i) => x = n
  BY <1>1, <1>2
<1> QED
  BY <1>2, <1>3 DEF Max

Recursion(f, S, q) ==
  f = [s \in SUBSET S |-> IF s = {} THEN 0
                          ELSE f[s \ {Max(s)}] + count[q[Max(s)]]]

LEMMA FoldUnfold ==
  ASSUME NEW q
  PROVE  FoldLeft(LAMBDA sum, o : sum + count[o], 0, q)
         = (CHOOSE f : Recursion(f, DOMAIN q, q))[DOMAIN q]
BY DEF FoldLeft, MapThenFoldSet, Recursion

LEMMA RecursionLonger ==
  ASSUME NEW q, NEW j \in Nat, NEW f, Recursion(f, 1 .. j, q)
  PROVE  \E g : Recursion(g, 1 .. j + 1, q)
<1>1. PICK i \in Nat : i = j + 1
  OBVIOUS
<1>2. PICK g : g = [s \in SUBSET (1 .. i) |-> IF i \in s THEN f[s \ {i}] + count[q[i]]
                                            ELSE f[s]]
  OBVIOUS
<1>3. \A s \in SUBSET (1 .. i) :
        /\ s \ {i} \in SUBSET (1 .. j)
        /\ i \notin s => s \in SUBSET (1 .. j)
  <2>1. \A x \in 1 .. i : x # i => x \in 1 .. j
    BY <1>1
  <2> QED
    BY <2>1
<1>4. ASSUME NEW s \in SUBSET (1 .. i)
      PROVE  g[s] = IF s = {} THEN 0 ELSE g[s \ {Max(s)}] + count[q[Max(s)]]
  <2>1. CASE i \in s
    <3>1. Max(s) = i
      <4>1. s \in SUBSET Nat /\ \A x \in s : x <= i
        OBVIOUS
      <4> QED
        BY <2>1, <4>1, MaxOf
    <3>2. g[s] = f[s \ {i}] + count[q[i]]
      BY <1>2, <2>1
    <3>3. g[s \ {i}] = f[s \ {i}]
      BY <1>2
    <3> QED
      BY <2>1, <3>1, <3>2, <3>3
  <2>2. CASE i \notin s
    <3>1. g[s] = f[s] /\ s \in SUBSET (1 .. j)
      BY <1>2, <1>3, <2>2
    <3>2. f[s] = IF s = {} THEN 0 ELSE f[s \ {Max(s)}] + count[q[Max(s)]]
      BY <3>1 DEF Recursion
    <3>3. g[s \ {Max(s)}] = f[s \ {Max(s)}]
      <4>1. PICK r : r = s \ {Max(s)}
        OBVIOUS
      <4>2. r \in SUBSET (1 .. i) /\ i \notin r
        BY <2>2, <4>1
      <4> QED
        BY <1>2, <4>1, <4>2
    <3> QED
      BY <3>1, <3>2, <3>3
  <2> QED
    BY <2>1, <2>2
<1>5. g = [s \in SUBSET (1 .. i) |-> IF s = {} THEN 0
                                  ELSE g[s \ {Max(s)}] + count[q[Max(s)]]]
  BY <1>2, <1>4
<1> QED
  BY <1>1, <1>5 DEF Recursion

LEMMA RecursionExists ==
  ASSUME NEW q, NEW k \in Nat
  PROVE  \E f : Recursion(f, 1 .. k, q)
<1> DEFINE S == {i \in Nat : ~\E f : Recursion(f, 1 .. i, q)}
<1>1. ASSUME S # {} PROVE FALSE
  <2>1. S \in SUBSET Nat
    OBVIOUS
  <2>2. PICK i \in S : \A j \in S : i <= j
    <3> HIDE DEF S
    <3> QED
      BY <1>1, <2>1, Least
  <2>3. i # 0
    <3>1. PICK f : f = [s \in SUBSET (1 .. 0) |-> 0]
      OBVIOUS
    <3>2. \A s \in SUBSET (1 .. 0) : s = {}
      OBVIOUS
    <3>3. Recursion(f, 1 .. 0, q)
      BY <3>1, <3>2 DEF Recursion
    <3> QED
      BY <3>3
  <2>4. PICK j \in Nat : i = j + 1 /\ ~(i <= j)
    <3>1. i - 1 \in Nat /\ i = (i - 1) + 1 /\ ~(i <= i - 1)
      BY <2>3
    <3> QED
      BY <3>1
  <2>5. PICK f : Recursion(f, 1 .. j, q)
    BY <2>2, <2>4
  <2>6. \E g : Recursion(g, 1 .. i, q)
    BY <2>4, <2>5, RecursionLonger
  <2> QED
    BY <2>6
<1> QED
  BY <1>1

(* What it computes for all indices is the last partial sum. *)
LEMMA FoldIsSum ==
  ASSUME NEW q, NEW k \in Nat, DOMAIN q = 1 .. k,
         NEW sum \in [Nat -> Int], k = Len(q), Sums(q, sum)
  PROVE  FoldLeft(LAMBDA s, o : s + count[o], 0, q) = sum[k]
<1>1. PICK f : f = CHOOSE g : Recursion(g, DOMAIN q, q)
  OBVIOUS
<1>2. Recursion(f, 1 .. k, q)
  BY <1>1, RecursionExists
<1> DEFINE S == {i \in 0 .. k : f[1 .. i] # sum[i]}
<1>3. ASSUME S # {} PROVE FALSE
  <2>1. S \in SUBSET Nat
    OBVIOUS
  <2>2. PICK i \in S : \A j \in S : i <= j
    <3> HIDE DEF S
    <3> QED
      BY <1>3, <2>1, Least
  <2>3. i \in Nat /\ i <= k /\ f[1 .. i] # sum[i]
    OBVIOUS
  <2>4. \A s \in SUBSET (1 .. k) :
          f[s] = IF s = {} THEN 0 ELSE f[s \ {Max(s)}] + count[q[Max(s)]]
    BY <1>2 DEF Recursion
  <2>5. 1 .. i \in SUBSET (1 .. k)
    <3>1. \A x \in 1 .. i : x \in 1 .. k
      BY <2>3
    <3> QED
      BY <3>1
  <2>6. CASE i = 0
    <3>1. 1 .. i = {}
      BY <2>6
    <3>2. f[1 .. i] = 0
      BY <2>4, <2>5, <3>1
    <3> QED
      BY <2>3, <2>6, <3>2 DEF Sums
  <2>7. CASE i # 0
    <3>1. PICK j \in Nat : j = i - 1 /\ ~(i <= j) /\ j \in 0 .. k /\ i \in 1 .. k
      BY <2>3, <2>7
    <3>2. f[1 .. j] = sum[j]
      BY <2>2, <3>1
    <3>3. i \in 1 .. i /\ 1 .. i # {} /\ (1 .. i) \ {i} = 1 .. j
      <4>1. i \in 1 .. i
        BY <3>1
      <4>2. \A x \in 1 .. i : x # i => x \in 1 .. j
        BY <2>3, <3>1
      <4>3. \A x \in 1 .. j : x \in 1 .. i /\ x # i
        BY <2>3, <3>1
      <4> QED
        BY <4>1, <4>2, <4>3
    <3>4. Max(1 .. i) = i
      <4>1. 1 .. i \in SUBSET Nat /\ \A x \in 1 .. i : x <= i
        BY <2>3
      <4> QED
        BY <3>3, <4>1, MaxOf
    <3>5. f[1 .. i] = f[1 .. j] + count[q[i]]
      BY <2>4, <2>5, <3>3, <3>4
    <3>6. sum[i] = sum[j] + count[q[i]]
      BY <3>1 DEF Sums
    <3> QED
      BY <2>3, <3>2, <3>5, <3>6
  <2> QED
    BY <2>6, <2>7
<1>4. f[1 .. k] = sum[k]
  BY <1>3
<1> QED
  BY <1>1, <1>4, FoldUnfold

-----------------------------------------------------------------------------
(* What the steps do to a level: an order less, an order more, and less of  *)
(* the first.                                                               *)
SizesAreInt == \A o \in OrderId : count[o] \in Int

Without(q, k, r) ==
  /\ Len(r) = Len(q) - 1
  /\ \A i \in 1 .. Len(q) - 1 : r[i] = IF i < k THEN q[i] ELSE q[i + 1]

LEMMA SumWithout ==
  ASSUME SizesAreInt, NEW q \in Seq(OrderId), NEW r \in Seq(OrderId), NEW k \in 1 .. Len(q),
         Without(q, k, r), NEW x \in Int, HasSum(q, x)
  PROVE  HasSum(r, x - count[q[k]])
<1>1. PICK m \in Nat : m = Len(q) /\ m >= 1 /\ Len(r) = m - 1 /\ k \in 1 .. m
  BY DEF Without
<1>2. PICK sum \in [Nat -> Int] : Sums(q, sum) /\ x = sum[m]
  BY <1>1 DEF HasSum
<1>3. PICK c \in Int : c = count[q[k]]
  BY <1>1 DEF SizesAreInt
<1>4. sum[0] = 0 /\ \A i \in 1 .. m : sum[i] = sum[i - 1] + count[q[i]]
  BY <1>1, <1>2 DEF Sums
<1>5. PICK sum2 \in [Nat -> Int] :
        \A i \in Nat : sum2[i] = IF i < k THEN sum[i] ELSE sum[i + 1] - c
  <2> DEFINE g == [i \in Nat |-> IF i < k THEN sum[i] ELSE sum[i + 1] - c]
  <2>1. g \in [Nat -> Int]
    OBVIOUS
  <2> QED
    BY <2>1
<1>6. sum2[0] = 0
  BY <1>1, <1>4, <1>5
<1>7. ASSUME NEW i \in 1 .. m - 1 PROVE sum2[i] = sum2[i - 1] + count[r[i]]
  <2>1. i \in 1 .. m /\ i + 1 \in 1 .. m /\ i - 1 \in Nat /\ i \in Nat
    BY <1>1
  <2>2. count[q[i]] \in Int /\ count[q[i + 1]] \in Int
    <3>1. \A j \in 1 .. m : q[j] \in OrderId
      BY <1>1
    <3>2. q[i] \in OrderId /\ q[i + 1] \in OrderId
      BY <2>1, <3>1
    <3> QED
      BY <3>2 DEF SizesAreInt
  <2>3. r[i] = IF i < k THEN q[i] ELSE q[i + 1]
    BY <1>1 DEF Without
  <2>4. sum[i] = sum[i - 1] + count[q[i]] /\ sum[i + 1] = sum[i] + count[q[i + 1]]
    <3>1. PICK j \in 1 .. m : j = i + 1 /\ j - 1 = i
      BY <2>1
    <3>2. sum[j] = sum[j - 1] + count[q[j]]
      BY <1>4
    <3> QED
      BY <1>4, <2>1, <3>1, <3>2
  <2>5. CASE i < k
    BY <1>1, <1>5, <2>1, <2>3, <2>4, <2>5
  <2>6. CASE i = k
    <3>1. sum2[i] = sum[i + 1] - c /\ sum2[i - 1] = sum[i - 1]
      BY <1>5, <2>1, <2>6
    <3>2. r[i] = q[i + 1] /\ count[q[i]] = c
      BY <1>3, <2>3, <2>6
    <3>3. PICK a \in Int, b \in Int, e \in Int :
            a = sum[i - 1] /\ b = count[q[i + 1]] /\ e = sum[i]
      BY <2>1, <2>2
    <3>4. sum2[i] = (e + b) - c /\ e = a + c /\ sum2[i - 1] = a
      BY <2>4, <3>1, <3>2, <3>3
    <3>5. sum2[i] = sum2[i - 1] + b
      BY <3>4
    <3> QED
      BY <3>2, <3>3, <3>5
  <2>7. CASE i > k
    <3>1. ~(i < k) /\ ~(i - 1 < k) /\ (i - 1) + 1 = i
      BY <1>1, <2>1, <2>7
    <3>2. sum2[i] = sum[i + 1] - c /\ sum2[i - 1] = sum[i] - c
      BY <1>5, <2>1, <3>1
    <3>3. PICK b \in Int, e \in Int : b = count[q[i + 1]] /\ e = sum[i]
      BY <2>1, <2>2
    <3>4. sum2[i] = (e + b) - c /\ sum2[i - 1] = e - c
      BY <2>4, <3>2, <3>3
    <3>5. sum2[i] = sum2[i - 1] + b
      BY <3>4
    <3> QED
      BY <2>3, <3>1, <3>3, <3>5
  <2> QED
    BY <1>1, <2>5, <2>6, <2>7
<1>8. sum2[m - 1] = x - c
  <2>1. m - 1 \in Nat /\ m \in 1 .. m /\ (m - 1) + 1 = m
    BY <1>1
  <2>2. CASE k = m
    <3>1. sum2[m - 1] = sum[m - 1] /\ sum[m] = sum[m - 1] + c
      BY <1>3, <1>4, <1>5, <2>1, <2>2
    <3>2. sum[m] = x /\ sum[m - 1] \in Int
      BY <1>2, <2>1
    <3>3. PICK a \in Int : a = sum[m - 1]
      BY <3>2
    <3>4. x = a + c
      BY <3>1, <3>2, <3>3
    <3>5. a = x - c
      BY <3>4
    <3> QED
      BY <3>1, <3>3, <3>5
  <2>3. CASE k # m
    <3>1. ~(m - 1 < k)
      BY <1>1, <2>3
    <3> QED
      BY <1>2, <1>5, <2>1, <3>1
  <2> QED
    BY <2>2, <2>3
<1>9. Sums(r, sum2)
  BY <1>1, <1>6, <1>7 DEF Sums
<1> QED
  BY <1>1, <1>3, <1>8, <1>9 DEF HasSum

LEMMA SumAppended ==
  ASSUME SizesAreInt, NEW q \in Seq(OrderId), NEW o \in OrderId, NEW x \in Int, HasSum(q, x)
  PROVE  HasSum(Append(q, o), x + count[o])
<1>1. PICK m \in Nat : m = Len(q)
  OBVIOUS
<1>2. PICK sum \in [Nat -> Int] : Sums(q, sum) /\ x = sum[m]
  BY <1>1 DEF HasSum
<1>3. PICK r : r = Append(q, o) /\ Len(r) = m + 1 /\ r[m + 1] = o
               /\ \A i \in 1 .. m : r[i] = q[i]
  <2>1. /\ Len(Append(q, o)) = m + 1 /\ Append(q, o)[m + 1] = o
        /\ \A i \in 1 .. m : Append(q, o)[i] = q[i]
    BY <1>1, AppendProperties
  <2> QED
    BY <2>1
<1>4. PICK y \in Int : y = x + count[o]
  BY DEF SizesAreInt
<1>5. PICK sum2 \in [Nat -> Int] :
        \A i \in Nat : sum2[i] = IF i = m + 1 THEN y ELSE sum[i]
  <2> DEFINE g == [i \in Nat |-> IF i = m + 1 THEN y ELSE sum[i]]
  <2>1. g \in [Nat -> Int]
    OBVIOUS
  <2> QED
    BY <2>1
<1>6. ASSUME NEW i \in 1 .. m + 1 PROVE sum2[i] = sum2[i - 1] + count[r[i]]
  <2>1. CASE i = m + 1
    <3>1. sum2[i] = y /\ sum2[i - 1] = sum[m] /\ r[i] = o
      BY <1>3, <1>5, <2>1
    <3> QED
      BY <1>2, <1>4, <3>1
  <2>2. CASE i # m + 1
    <3>1. i \in 1 .. m /\ i \in Nat /\ i - 1 \in Nat /\ i - 1 # m + 1
      BY <2>2
    <3>2. sum2[i] = sum[i] /\ sum2[i - 1] = sum[i - 1] /\ r[i] = q[i]
      BY <1>3, <1>5, <2>2, <3>1
    <3> QED
      BY <1>1, <1>2, <3>1, <3>2 DEF Sums
  <2> QED
    BY <2>1, <2>2
<1>7. sum2[0] = 0 /\ sum2[m + 1] = y
  <2>1. 0 \in Nat /\ 0 # m + 1 /\ m + 1 \in Nat
    OBVIOUS
  <2> QED
    BY <1>2, <1>5, <2>1 DEF Sums
<1>8. Sums(r, sum2)
  BY <1>3, <1>6, <1>7 DEF Sums
<1> QED
  BY <1>3, <1>4, <1>7, <1>8 DEF HasSum

LEMMA SumOfLess ==
  ASSUME SizesAreInt, NEW q \in Seq(OrderId), Len(q) >= 1, NEW s \in Int,
         count'[q[1]] = count[q[1]] - s,
         \A i \in 2 .. Len(q) : count'[q[i]] = count[q[i]],
         NEW x \in Int, HasSum(q, x)
  PROVE  HasSum(q, x - s)'
<1>1. PICK m \in Nat : m = Len(q) /\ m >= 1
  OBVIOUS
<1>2. PICK sum \in [Nat -> Int] : Sums(q, sum) /\ x = sum[m]
  BY <1>1 DEF HasSum
<1>3. PICK sum2 \in [Nat -> Int] :
        \A i \in Nat : sum2[i] = IF i = 0 THEN 0 ELSE sum[i] - s
  <2> DEFINE g == [i \in Nat |-> IF i = 0 THEN 0 ELSE sum[i] - s]
  <2>1. g \in [Nat -> Int]
    OBVIOUS
  <2> QED
    BY <2>1
<1>4. ASSUME NEW i \in 1 .. m PROVE sum2[i] = sum2[i - 1] + count'[q[i]]
  <2>1. i \in Nat /\ i # 0 /\ i - 1 \in Nat
    OBVIOUS
  <2>2. sum[i] = sum[i - 1] + count[q[i]] /\ count[q[i]] \in Int /\ sum[0] = 0
    <3>1. q[i] \in OrderId
      BY <1>1
    <3> QED
      BY <1>1, <1>2, <3>1 DEF Sums, SizesAreInt
  <2>3. CASE i = 1
    <3>1. sum2[i] = sum[i] - s /\ sum2[i - 1] = 0 /\ sum[i - 1] = 0
      BY <1>3, <2>1, <2>2, <2>3
    <3>2. count'[q[i]] = count[q[i]] - s
      BY <2>3
    <3> QED
      BY <2>2, <3>1, <3>2
  <2>4. CASE i # 1
    <3>1. sum2[i] = sum[i] - s /\ sum2[i - 1] = sum[i - 1] - s
      BY <1>3, <2>1, <2>4
    <3>2. count'[q[i]] = count[q[i]]
      BY <1>1, <2>4
    <3>3. PICK a \in Int, b \in Int : a = sum[i - 1] /\ b = count[q[i]]
      BY <2>1, <2>2
    <3>4. sum2[i] = (a + b) - s /\ sum2[i - 1] = a - s
      BY <2>2, <3>1, <3>3
    <3>5. (a + b) - s = (a - s) + b
      OBVIOUS
    <3> QED
      BY <3>2, <3>3, <3>4, <3>5
  <2> QED
    BY <2>3, <2>4
<1>5. sum2[0] = 0 /\ sum2[m] = x - s
  BY <1>1, <1>2, <1>3
<1>6. Sums(q, sum2)'
  BY <1>1, <1>4, <1>5 DEF Sums
<1> QED
  BY <1>1, <1>5, <1>6 DEF HasSum

LEMMA SumStays ==
  ASSUME NEW q, \A i \in 1 .. Len(q) : count'[q[i]] = count[q[i]], NEW x, HasSum(q, x)
  PROVE  HasSum(q, x)'
<1>1. PICK sum \in [Nat -> Int] : Sums(q, sum) /\ x = sum[Len(q)]
  BY DEF HasSum
<1>2. Sums(q, sum)'
  BY <1>1 DEF Sums
<1> QED
  BY <1>1, <1>2 DEF HasSum

-----------------------------------------------------------------------------
(* What rests is an order, and its size is a number. *)
LEMMA WhatRests ==
  ASSUME TypeOK
  PROVE  /\ queue \in [Node -> Seq(OrderId)]
         /\ \A n \in Node : \A i \in DOMAIN queue[n] : queue[n][i] \in OrderId
         /\ \A o \in OrderId : count[o] \in Nat
         /\ SizesAreInt
<1>1. queue \in [Node -> Seq(OrderId)] /\ count \in [OrderId -> 0 .. Modulus - 1]
  BY DEF TypeOK
<1>2. ASSUME NEW n \in Node, NEW i \in DOMAIN queue[n] PROVE queue[n][i] \in OrderId
  <2>1. PICK q \in Seq(OrderId) : q = queue[n]
    BY <1>1
  <2> QED
    BY <1>2, <2>1
<1>3. \A o \in OrderId : count[o] \in Nat
  <2>1. \A o \in OrderId : count[o] \in 0 .. Modulus - 1
    BY <1>1
  <2>2. Modulus - 1 \in Int
    BY GoBookAssumption
  <2> QED
    BY <2>1, <2>2
<1> QED
  BY <1>1, <1>2, <1>3 DEF SizesAreInt

(* A step that leaves the levels and the sizes of what rests alone.         *)
LEMMA VolumesStay ==
  ASSUME TypeOK, VolumeInv, UNCHANGED <<queue, volume>>,
         \A o \in OrderId : pc[o] = "done" => pc'[o] = "done" /\ count'[o] = count[o]
  PROVE  VolumeInv'
<1>1. \A n \in Node : \A i \in DOMAIN queue[n] : queue[n][i] \in OrderId /\ pc[queue[n][i]] = "done"
  BY WhatRests DEF VolumeInv, RestsDone
<1>2. RestsDone'
  BY <1>1 DEF RestsDone
<1>3. RestsOnce'
  BY DEF VolumeInv, RestsOnce
<1>4. ASSUME NEW n \in Node
      PROVE  \E x \in Int : HasSum(queue[n], x)' /\ volume'[n] = ToUInt(x)
  <2>1. PICK x \in Int : HasSum(queue[n], x) /\ volume[n] = ToUInt(x)
    BY DEF VolumeInv, SumsModulo
  <2>2. PICK q : q = queue[n] /\ q = queue'[n]
    OBVIOUS
  <2>3. \A i \in 1 .. Len(q) : count'[q[i]] = count[q[i]]
    <3>1. q \in Seq(OrderId)
      BY <2>2, WhatRests
    <3>2. \A i \in 1 .. Len(q) : i \in DOMAIN q
      BY <3>1
    <3> QED
      BY <1>1, <2>2, <3>2
  <2>4. HasSum(q, x)'
    BY <2>1, <2>2, <2>3, SumStays
  <2> QED
    BY <2>1, <2>2, <2>4
<1>5. SumsModulo'
  BY <1>4 DEF SumsModulo
<1> QED
  BY <1>2, <1>3, <1>5 DEF VolumeInv

(* A step that changes one level. *)
LEMMA OneVolume ==
  ASSUME TypeOK, SumsModulo, NEW n \in Node, NEW r \in Seq(OrderId), NEW y \in Int,
         queue' = [queue EXCEPT ![n] = r], volume' = [volume EXCEPT ![n] = ToUInt(y)],
         HasSum(r, y)',
         \A m \in Node \ {n} : \A i \in DOMAIN queue[m] :
           count'[queue[m][i]] = count[queue[m][i]]
  PROVE  SumsModulo'
<1>1. queue \in [Node -> Seq(OrderId)] /\ volume \in [Node -> 0 .. Modulus - 1]
  BY DEF TypeOK
<1>2. ASSUME NEW m \in Node, m # n
      PROVE  \E x \in Int : HasSum(queue[m], x)' /\ volume'[m] = ToUInt(x)
  <2>1. PICK x \in Int : HasSum(queue[m], x) /\ volume[m] = ToUInt(x)
    BY DEF SumsModulo
  <2>2. PICK q \in Seq(OrderId) : q = queue[m] /\ q = queue'[m]
    BY <1>1, <1>2
  <2>3. \A i \in 1 .. Len(q) : count'[q[i]] = count[q[i]]
    <3>1. \A i \in 1 .. Len(q) : i \in DOMAIN q
      OBVIOUS
    <3> QED
      BY <1>2, <2>2, <3>1
  <2>4. HasSum(q, x)'
    BY <2>1, <2>2, <2>3, SumStays
  <2> QED
    BY <1>1, <1>2, <2>1, <2>2, <2>4
<1>3. \E x \in Int : HasSum(queue[n], x)' /\ volume'[n] = ToUInt(x)
  BY <1>1
<1> QED
  BY <1>2, <1>3 DEF SumsModulo

(* One order less in a level leaves every order in its place. *)
LEMMA PlacesWithout ==
  ASSUME TypeOK, RestsDone, RestsOnce, NEW n \in Node, NEW k \in DOMAIN queue[n],
         NEW r \in Seq(OrderId), Without(queue[n], k, r),
         queue' = [queue EXCEPT ![n] = r],
         \A o \in OrderId : pc[o] = "done" => pc'[o] = "done"
  PROVE  RestsDone' /\ RestsOnce'
<1>1. queue \in [Node -> Seq(OrderId)]
  BY DEF TypeOK
<1>2. PICK q \in Seq(OrderId) : q = queue[n]
  BY <1>1
<1>3. PICK m \in Nat : m = Len(q) /\ DOMAIN q = 1 .. m /\ DOMAIN r = 1 .. m - 1 /\ k \in 1 .. m
  <2>1. Len(q) \in Nat /\ DOMAIN q = 1 .. Len(q) /\ DOMAIN r = 1 .. Len(r)
    OBVIOUS
  <2>2. Len(r) = Len(q) - 1 /\ k \in DOMAIN q
    BY <1>2 DEF Without
  <2> QED
    BY <2>1, <2>2
<1>4. \A i \in DOMAIN r : /\ (IF i < k THEN i ELSE i + 1) \in DOMAIN q
                         /\ r[i] = q[IF i < k THEN i ELSE i + 1]
  <2>1. ASSUME NEW i \in 1 .. m - 1
        PROVE  i \in 1 .. m /\ i + 1 \in 1 .. m /\ r[i] = IF i < k THEN q[i] ELSE q[i + 1]
    BY <1>2, <1>3 DEF Without
  <2> QED
    BY <1>3, <2>1
<1>5. \A i, j \in DOMAIN r :
        (IF i < k THEN i ELSE i + 1) = (IF j < k THEN j ELSE j + 1) => i = j
  BY <1>3
<1>6. queue'[n] = r /\ \A l \in Node : l # n => queue'[l] = queue[l]
  BY <1>1
<1>7. \A l \in Node : \A i \in DOMAIN queue[l] :
        queue[l][i] \in OrderId /\ pc[queue[l][i]] = "done"
  BY WhatRests DEF RestsDone
<1>8. RestsDone'
  BY <1>2, <1>4, <1>6, <1>7 DEF RestsDone
<1>9. RestsOnce'
  <2> SUFFICES ASSUME NEW a \in Node, NEW b \in Node,
                      NEW i \in DOMAIN queue'[a], NEW j \in DOMAIN queue'[b],
                      queue'[a][i] = queue'[b][j]
               PROVE  a = b /\ i = j
    BY DEF RestsOnce
  <2>1. PICK x \in DOMAIN queue[a] :
          /\ queue'[a][i] = queue[a][x]
          /\ x = IF a = n /\ ~(i < k) THEN i + 1 ELSE i
    BY <1>2, <1>4, <1>6
  <2>2. PICK y \in DOMAIN queue[b] :
          /\ queue'[b][j] = queue[b][y]
          /\ y = IF b = n /\ ~(j < k) THEN j + 1 ELSE j
    BY <1>2, <1>4, <1>6
  <2>3. a = b /\ x = y
    BY <2>1, <2>2 DEF RestsOnce
  <2>4. CASE a = n
    <3>1. i \in DOMAIN r /\ j \in DOMAIN r
      BY <1>6, <2>3, <2>4
    <3> QED
      BY <1>5, <2>1, <2>2, <2>3, <2>4, <3>1
  <2> QED
    BY <2>1, <2>2, <2>3, <2>4
<1> QED
  BY <1>8, <1>9

(* Add: the order comes last, and rests now. *)
LEMMA AppendVolume ==
  ASSUME TypeOK, Standing, VolumeInv, NEW o \in OrderId, AppendOrder(o)
  PROVE  VolumeInv'
<1>1. PICK n \in Node : n = curr[o] /\ pc[o] = "append"
  BY HeadsAreNodes DEF AppendOrder, Standing, StandsWell
<1>2. PICK q \in Seq(OrderId) : q = queue[n]
  BY DEF TypeOK
<1>3. PICK s \in Int : s = count[o]
  BY WhatRests
<1>4. PICK x \in Int : HasSum(q, x) /\ volume[n] = ToUInt(x)
  BY <1>2 DEF VolumeInv, SumsModulo
<1>5. PICK r \in Seq(OrderId) : r = Append(q, o)
  BY AppendProperties
<1>6. queue' = [queue EXCEPT ![n] = r] /\ count' = count /\ pc' = [pc EXCEPT ![o] = "done"]
  BY <1>1, <1>2, <1>5 DEF AppendOrder, Goto, orderVars
<1>7. volume' = [volume EXCEPT ![n] = ToUInt(x + s)]
  <2>1. ToUInt(volume[n] + s) = ToUInt(x + s)
    BY <1>4, ModuloOnce
  <2> QED
    BY <1>1, <1>3, <2>1 DEF AppendOrder, Grow
<1>8. HasSum(r, x + s)'
  <2>1. SizesAreInt
    BY WhatRests
  <2>2. HasSum(r, x + s)
    BY <1>3, <1>4, <1>5, <2>1, SumAppended
  <2> QED
    BY <1>6, <2>2, SumStays
<1>9. SumsModulo'
  <2>1. x + s \in Int /\ SumsModulo
    BY DEF VolumeInv
  <2> QED
    BY <1>6, <1>7, <1>8, <2>1, OneVolume
<1>10. PICK m \in Nat : m = Len(q) /\ DOMAIN q = 1 .. m /\ DOMAIN r = 1 .. m + 1
                        /\ r[m + 1] = o /\ \A i \in 1 .. m : r[i] = q[i]
  <2>1. /\ Len(Append(q, o)) = Len(q) + 1 /\ Append(q, o)[Len(q) + 1] = o
        /\ \A i \in 1 .. Len(q) : Append(q, o)[i] = q[i]
    BY AppendProperties
  <2>2. Len(q) \in Nat /\ DOMAIN q = 1 .. Len(q) /\ DOMAIN r = 1 .. Len(r)
    OBVIOUS
  <2>3. Len(r) = Len(q) + 1 /\ r[Len(q) + 1] = o /\ \A i \in 1 .. Len(q) : r[i] = q[i]
    BY <1>5, <2>1
  <2> QED
    BY <2>2, <2>3
<1>11. /\ queue \in [Node -> Seq(OrderId)]
       /\ pc \in [Command -> {"unread", "done"} \cup OrderPc \cup CancelPc]
  BY DEF TypeOK
<1>12. \A l \in Node : \A i \in DOMAIN queue[l] :
         queue[l][i] \in OrderId /\ pc[queue[l][i]] = "done" /\ queue[l][i] # o
  BY <1>1, <1>11 DEF VolumeInv, RestsDone
<1>13. \A i \in DOMAIN r : (i \in DOMAIN q /\ r[i] = q[i]) \/ (i = m + 1 /\ r[i] = o)
  BY <1>10
<1>14. queue'[n] = r /\ \A l \in Node : l # n => queue'[l] = queue[l]
  BY <1>6, <1>11
<1>15. \A k \in OrderId : pc'[k] = IF k = o THEN "done" ELSE pc[k]
  BY <1>6, <1>11, HeadsAreNodes DEF Command
<1>16. RestsDone'
  BY <1>2, <1>12, <1>13, <1>14, <1>15 DEF RestsDone
<1>17. RestsOnce'
  <2> SUFFICES ASSUME NEW a \in Node, NEW b \in Node,
                      NEW i \in DOMAIN queue'[a], NEW j \in DOMAIN queue'[b],
                      queue'[a][i] = queue'[b][j]
               PROVE  a = b /\ i = j
    BY DEF RestsOnce
  <2>1. \/ i \in DOMAIN queue[a] /\ queue'[a][i] = queue[a][i]
        \/ a = n /\ i = m + 1 /\ queue'[a][i] = o
    BY <1>2, <1>13, <1>14
  <2>2. \/ j \in DOMAIN queue[b] /\ queue'[b][j] = queue[b][j]
        \/ b = n /\ j = m + 1 /\ queue'[b][j] = o
    BY <1>2, <1>13, <1>14
  <2> QED
    BY <1>12, <2>1, <2>2 DEF VolumeInv, RestsOnce
<1> QED
  BY <1>9, <1>16, <1>17 DEF VolumeInv

(* One order less in a level is its size less in its volume. *)
LEMMA VolumeWithout ==
  ASSUME TypeOK, VolumeInv, NEW n \in Node, NEW k \in DOMAIN queue[n],
         NEW r \in Seq(OrderId), Without(queue[n], k, r),
         queue' = [queue EXCEPT ![n] = r], count' = count,
         Shrink(n, count[queue[n][k]]),
         \A o \in OrderId : pc[o] = "done" => pc'[o] = "done"
  PROVE  VolumeInv'
<1>1. PICK q \in Seq(OrderId) : q = queue[n]
  BY WhatRests
<1>2. k \in 1 .. Len(q)
  <2>1. DOMAIN q = 1 .. Len(q)
    OBVIOUS
  <2> QED
    BY <1>1, <2>1
<1>3. PICK s \in Int : s = count[q[k]]
  BY <1>1, WhatRests DEF SizesAreInt
<1>4. PICK x \in Int : HasSum(q, x) /\ volume[n] = ToUInt(x)
  BY <1>1 DEF VolumeInv, SumsModulo
<1>5. HasSum(r, x - s)
  BY <1>1, <1>2, <1>3, <1>4, WhatRests, SumWithout
<1>6. HasSum(r, x - s)'
  BY <1>5, SumStays
<1>7. volume' = [volume EXCEPT ![n] = ToUInt(x - s)]
  <2>1. ToUInt(ToUInt(x) + (-s)) = ToUInt(x + (-s))
    BY ModuloOnce
  <2>2. ToUInt(x) \in Int
    <3>1. ToUInt(x) \in 0 .. Modulus - 1
      BY ToUIntInRange
    <3> QED
      BY <3>1, GoBookAssumption
  <2>3. ToUInt(x) + (-s) = ToUInt(x) - s /\ x + (-s) = x - s
    BY <2>2
  <2> QED
    BY <1>1, <1>3, <1>4, <2>1, <2>3 DEF Shrink
<1>8. SumsModulo'
  <2>1. x - s \in Int /\ SumsModulo
    BY DEF VolumeInv
  <2> QED
    BY <1>6, <1>7, <2>1, OneVolume
<1>9. RestsDone' /\ RestsOnce'
  BY PlacesWithout DEF VolumeInv
<1> QED
  BY <1>8, <1>9 DEF VolumeInv

(* executeOrder trades with the first order, all of it or a part. *)
LEMMA TradeVolume ==
  ASSUME TypeOK, VolumeInv, NEW e \in executors, Trade(e)
  PROVE  VolumeInv'
<1>1. PICK n \in Node : n = e.level
  BY HeadsAreNodes DEF TypeOK, Executor
<1>2. PICK q \in Seq(OrderId) : q = queue[n] /\ q # <<>>
  BY <1>1, WhatRests DEF Trade
<1>3. /\ Head(q) = q[1] /\ 1 \in DOMAIN q /\ q[1] \in OrderId /\ Tail(q) \in Seq(OrderId)
      /\ Len(q) >= 1 /\ Without(q, 1, Tail(q))
  <2>1. /\ Len(q) \in Nat /\ Len(q) >= 1
        /\ Len(Tail(q)) = Len(q) - 1 /\ DOMAIN Tail(q) = 1 .. Len(q) - 1
    BY <1>2
  <2>2. /\ Head(q) = q[1] /\ 1 \in DOMAIN q /\ q[1] \in OrderId /\ Tail(q) \in Seq(OrderId)
        /\ \A i \in DOMAIN Tail(q) : Tail(q)[i] = q[i + 1]
    BY <1>2, TailFacts
  <2> QED
    BY <2>1, <2>2 DEF Without
<1>4. PICK o \in OrderId : o = q[1]
  BY <1>3
<1>5. pc' = pc
  BY DEF Trade, locals
<1>6. CASE e.left >= count[o]
  <2>1. /\ queue' = [queue EXCEPT ![n] = Tail(q)] /\ count' = count /\ Shrink(n, count[o])
    BY <1>1, <1>2, <1>3, <1>4, <1>6 DEF Trade
  <2> QED
    BY <1>2, <1>3, <1>4, <1>5, <2>1, VolumeWithout
<1>7. CASE ~(e.left >= count[o])
  <2>1. PICK s \in Int : s = e.left
    <3>1. e.left \in 0 .. Modulus - 1
      BY DEF TypeOK, Executor
    <3>2. Modulus - 1 \in Int
      BY GoBookAssumption
    <3> QED
      BY <3>1, <3>2
  <2>2. /\ queue' = queue /\ count' = [count EXCEPT ![o] = @ - s] /\ Shrink(n, s)
    BY <1>1, <1>2, <1>3, <1>4, <1>7, <2>1 DEF Trade
  <2>3. count'[o] = count[o] - s /\ \A k \in OrderId : k # o => count'[k] = count[k]
    BY <2>2 DEF TypeOK
  <2>4. PICK x \in Int : HasSum(q, x) /\ volume[n] = ToUInt(x)
    BY <1>2 DEF VolumeInv, SumsModulo
  <2>5. \A i \in 2 .. Len(q) : q[i] \in OrderId /\ q[i] # o
    <3>1. \A i \in 2 .. Len(q) : i \in DOMAIN q /\ q[i] \in OrderId /\ i # 1
      OBVIOUS
    <3> QED
      BY <1>2, <1>3, <1>4, <3>1 DEF VolumeInv, RestsOnce
  <2>6. HasSum(q, x - s)'
    BY <1>3, <1>4, <2>3, <2>4, <2>5, WhatRests, SumOfLess
  <2>7. volume' = [volume EXCEPT ![n] = ToUInt(x - s)]
    <3>1. ToUInt(ToUInt(x) + (-s)) = ToUInt(x + (-s))
      BY ModuloOnce
    <3>2. ToUInt(x) \in Int
      <4>1. ToUInt(x) \in 0 .. Modulus - 1
        BY ToUIntInRange
      <4> QED
        BY <4>1, GoBookAssumption
    <3>3. ToUInt(x) + (-s) = ToUInt(x) - s /\ x + (-s) = x - s
      BY <3>2
    <3> QED
      BY <2>2, <2>4, <3>1, <3>3 DEF Shrink
  <2>8. \A m \in Node \ {n} : \A i \in DOMAIN queue[m] :
          count'[queue[m][i]] = count[queue[m][i]]
    BY <1>2, <1>3, <1>4, <2>3, WhatRests DEF VolumeInv, RestsOnce
  <2>9. SumsModulo'
    <3>1. x - s \in Int /\ SumsModulo /\ queue' = [queue EXCEPT ![n] = q]
      BY <1>2, <2>2, WhatRests DEF VolumeInv
    <3> QED
      BY <2>6, <2>7, <2>8, <3>1, OneVolume
  <2>10. RestsDone' /\ RestsOnce'
    BY <1>5, <2>2 DEF VolumeInv, RestsDone, RestsOnce
  <2> QED
    BY <2>9, <2>10 DEF VolumeInv
<1> QED
  BY <1>6, <1>7

(* A cancel takes one order out. *)
LEMMA CancelVolume ==
  ASSUME TypeOK, Standing, VolumeInv, NEW x \in CancelId, CancelSucceeds(x)
  PROVE  VolumeInv'
<1>1. PICK n \in Node : n = curr[x] /\ pc[x] = "cancel"
  BY HeadsAreNodes DEF CancelSucceeds, Standing, StandsWell
<1>2. PICK q \in Seq(OrderId) : q = queue[n]
  BY WhatRests
<1>3. PICK i \in DOMAIN q : q[i] = About[x] /\ queue' = [queue EXCEPT ![n] = RemoveAt(q, i)]
  BY <1>1, <1>2 DEF CancelSucceeds
<1>4. count' = count /\ Shrink(n, count[q[i]])
  BY <1>1, <1>3 DEF CancelSucceeds, orderVars
<1>5. RemoveAt(q, i) \in Seq(OrderId) /\ Without(q, i, RemoveAt(q, i))
  <2>1. i \in 1 .. Len(q)
    OBVIOUS
  <2> QED
    BY <2>1, Removed DEF Without
<1>6. \A o \in OrderId : pc[o] = "done" => pc'[o] = "done"
  BY HeadsAreNodes DEF CancelSucceeds, Answer, Goto, TypeOK
<1> QED
  BY <1>2, <1>3, <1>4, <1>5, <1>6, VolumeWithout

(* Nobody else changes a level, or the size of an order that rests. *)
LEMMA VolumeStep ==
  ASSUME LockInv, VolumeInv, Next
  PROVE  VolumeInv'
<1>1. TypeOK /\ Labels /\ Standing
  BY DEF LockInv, Types
<1>2. count \in [OrderId -> 0 .. Modulus - 1]
      /\ pc \in [Command -> {"unread", "done"} \cup OrderPc \cup CancelPc]
  BY <1>1 DEF TypeOK
<1>3. ASSUME NEW k \in Command, \E l : Goto(k, l), pc[k] # "done",
             UNCHANGED <<queue, volume>>,
             count' = count \/ (k \in OrderId /\ \E s : count' = [count EXCEPT ![k] = s])
      PROVE  VolumeInv'
  <2>1. \A o \in OrderId : pc[o] = "done" => o # k /\ pc'[o] = "done"
    BY <1>2, <1>3, HeadsAreNodes DEF Goto
  <2>2. \A o \in OrderId : o # k => count'[o] = count[o]
    BY <1>2, <1>3
  <2> QED
    BY <1>1, <1>3, <2>1, <2>2, VolumesStay
<1>4. ASSUME UNCHANGED <<queue, volume, count, pc>> PROVE VolumeInv'
  BY <1>1, <1>4, VolumesStay
<1>5. ASSUME NEW c \in Client, HandleConn(c) PROVE VolumeInv'
  <2>1. ASSUME NEW o \in OrderId, ReadOrder(c, o) PROVE VolumeInv'
    <3>1. pc[o] = "unread" /\ o \in Command
      BY <1>1, <2>1, HeadsAreNodes, Reading DEF ReadOrder, Reads
    <3> QED
      BY <1>3, <2>1, <3>1 DEF ReadOrder, bookVars
  <2>2. ASSUME NEW x \in CancelId, Dispatch(c, x) PROVE VolumeInv'
    <3>1. pc[x] = "unread" /\ x \in Command
      BY <1>1, <2>2, HeadsAreNodes, Reading DEF Dispatch, LooksUp, Reads
    <3> QED
      BY <1>3, <2>2, <3>1 DEF Dispatch, bookVars, orderVars
  <2>3. ASSUME NEW x \in CancelId, Unknown(c, x) \/ Foreign(c, x) PROVE VolumeInv'
    BY <1>4, <2>3 DEF Unknown, Foreign, bookVars, orderVars, locals
  <2>4. CASE Reject(c)
    BY <1>4, <2>4 DEF Reject, bookVars, orderVars, locals
  <2> QED
    BY <1>5, <2>1, <2>2, <2>3, <2>4 DEF HandleConn
<1>6. ASSUME NEW o \in OrderId, ProcessActiveOrder(o) PROVE VolumeInv'
  <2>1. o \in Command
    BY HeadsAreNodes
  <2>2. CASE LockSgl(o) \/ LockMatchHead(o)
    BY <1>3, <2>1, <2>2 DEF LockSgl, LockMatchHead, orderVars
  <2>3. CASE LockLevel(o)
    BY <1>3, <2>1, <2>3 DEF LockLevel, orderVars
  <2>4. CASE StartExecutor(o)
    BY <1>3, <2>1, <2>4 DEF StartExecutor, orderVars, bookVars
  <2>5. CASE Advance(o)
    BY <1>3, <2>1, <2>5 DEF Advance, orderVars
  <2>6. CASE EndMatch(o)
    BY <1>3, <2>1, <2>6 DEF EndMatch, orderVars
  <2>7. CASE LockOwnHead(o)
    BY <1>3, <2>1, <2>7 DEF LockOwnHead, orderVars
  <2>8. CASE SetOrder(o)
    BY <1>3, <2>1, <2>8 DEF SetOrder, bookVars
  <2>9. CASE StartAdd(o)
    BY <1>3, <2>1, <2>9 DEF StartAdd, orderVars
  <2> QED
    BY <1>6, <2>2, <2>3, <2>4, <2>5, <2>6, <2>7, <2>8, <2>9 DEF ProcessActiveOrder
<1>7. ASSUME NEW o \in OrderId, ExecuteOrder(o) PROVE VolumeInv'
  <2>1. PICK e \in executors : Trade(e) \/ EndExecutor(e)
    BY <1>7 DEF ExecuteOrder
  <2>2. CASE EndExecutor(e)
    BY <1>4, <2>2 DEF EndExecutor, orderVars, locals
  <2> QED
    BY <1>1, <2>1, <2>2, TradeVolume
<1>8. ASSUME NEW o \in OrderId, AddOrder(o) PROVE VolumeInv'
  <2>1. o \in Command
    BY HeadsAreNodes
  <2>2. CASE PlaceFound(o)
    BY <1>3, <2>1, <2>2 DEF PlaceFound, orderVars, bookVars
  <2>3. CASE AddStep(o)
    BY <1>3, <2>1, <2>3 DEF AddStep, orderVars
  <2>4. CASE NewLevel(o)
    BY <1>3, <2>1, <2>4 DEF NewLevel, orderVars
  <2> QED
    BY <1>1, <1>8, <2>2, <2>3, <2>4, AppendVolume DEF AddOrder
<1>9. ASSUME NEW x \in CancelId, ProcessCancelOrder(x) PROVE VolumeInv'
  <2>1. x \in Command
    BY HeadsAreNodes
  <2>2. CASE LockCancelHead(x)
    BY <1>3, <2>1, <2>2 DEF LockCancelHead, orderVars
  <2>3. CASE QueueCancel(x)
    BY <1>3, <2>1, <2>3 DEF QueueCancel, orderVars, bookVars
  <2>4. CASE CancelStep(x)
    BY <1>3, <2>1, <2>4 DEF CancelStep, orderVars
  <2>5. CASE CancelFails(x)
    BY <1>3, <2>1, <2>5 DEF CancelFails, Answer, orderVars
  <2> QED
    BY <1>1, <1>9, <2>2, <2>3, <2>4, <2>5, CancelVolume DEF ProcessCancelOrder
<1>10. CASE Printer \/ Terminated
  BY <1>4, <1>10 DEF Printer, NextChannel, PrintLine, Terminated, vars, orderVars,
     bookVars, locals
<1> QED
  BY <1>5, <1>6, <1>7, <1>8, <1>9, <1>10 DEF Next, Goroutines

LEMMA InitVolume == Init => VolumeInv
<1> SUFFICES ASSUME Init PROVE VolumeInv
  OBVIOUS
<1>1. \A n \in Node : queue[n] = <<>> /\ volume[n] = 0
  BY DEF Init
<1>2. HasSum(<<>>, 0)
  <2>1. PICK sum \in [Nat -> Int] : sum = [i \in Nat |-> 0]
    <3>1. [i \in Nat |-> 0] \in [Nat -> Int]
      OBVIOUS
    <3> QED
      BY <3>1
  <2>2. Len(<<>>) = 0 /\ 1 .. 0 = {} /\ 0 \in Nat
    OBVIOUS
  <2>3. Sums(<<>>, sum)
    BY <2>1, <2>2 DEF Sums
  <2> QED
    BY <2>1, <2>2, <2>3 DEF HasSum
<1>3. ToUInt(0) = 0
  BY GoBookAssumption, SmallIsItself
<1> QED
  BY <1>1, <1>2, <1>3 DEF VolumeInv, RestsDone, RestsOnce, SumsModulo

LEMMA VolumeInvHolds == Spec => []VolumeInv
<1>1. LockInv /\ VolumeInv /\ [Next]_vars => VolumeInv'
  <2>1. CASE LockInv /\ VolumeInv /\ Next
    BY <2>1, VolumeStep
  <2>2. CASE LockInv /\ VolumeInv /\ UNCHANGED vars
    <3>1. UNCHANGED <<queue, volume, count, pc>>
      BY <2>2 DEF vars, orderVars, bookVars, locals
    <3> QED
      BY <2>2, <3>1, VolumesStay DEF LockInv, Types
  <2> QED
    BY <2>1, <2>2
<1> QED
  BY <1>1, InitVolume, LockInvHolds, PTL DEF Spec

(* What is in a level, and what its volume then is. *)
VolumeWraps == \A n \in Node : volume[n] = ToUInt(InLevel(n))

LEMMA LevelSum ==
  ASSUME TypeOK, NEW n \in Node, NEW x, HasSum(queue[n], x)
  PROVE  InLevel(n) = x
<1>1. PICK q \in Seq(OrderId) : q = queue[n]
  BY WhatRests
<1>2. PICK k \in Nat : k = Len(q) /\ DOMAIN q = 1 .. k
  OBVIOUS
<1>3. PICK sum \in [Nat -> Int] : Sums(q, sum) /\ x = sum[k]
  BY <1>1, <1>2 DEF HasSum
<1>4. FoldLeft(LAMBDA s, o : s + count[o], 0, q) = sum[k]
  BY <1>2, <1>3, FoldIsSum
<1> QED
  BY <1>1, <1>3, <1>4 DEF InLevel

(* volume, which executors, AddOrder and CancelOrder change without a lock  *)
(* of their own, is the sum of the sizes in the level, modulo 2^32, for any *)
(* orders and sizes: nothing is ever forgotten or counted twice, and where  *)
(* the sum fits a uint32 it is the volume.                                  *)
THEOREM VolumeWrapsOnly == Spec => []VolumeWraps
<1>1. LockInv /\ VolumeInv => VolumeWraps
  <2> SUFFICES ASSUME LockInv, VolumeInv, NEW n \in Node
               PROVE  volume[n] = ToUInt(InLevel(n))
    BY DEF VolumeWraps
  <2>1. PICK x \in Int : HasSum(queue[n], x) /\ volume[n] = ToUInt(x)
    BY DEF VolumeInv, SumsModulo
  <2>2. InLevel(n) = x
    BY <2>1, LevelSum DEF LockInv, Types
  <2> QED
    BY <2>1, <2>2
<1> QED
  BY <1>1, LockInvHolds, VolumeInvHolds, PTL

(* Few orders of small sizes: all of them in one level fit a uint32. *)
SmallTerms(m) ==
  /\ \A o \in OrderId : Terms[o].count <= m
  /\ Cardinality(OrderId) * m < Modulus

FewAndSmall == IsFiniteSet(OrderId) /\ \E m \in Nat : SmallTerms(m)

SizesUpTo(m) == \A o \in OrderId : count[o] <= m /\ v[o] <= m

(* Orders only get smaller. *)
LEMMA SizesStaySmall ==
  ASSUME NEW m \in Nat, SmallTerms(m), TypeOK, Standing, SizesUpTo(m), [Next]_vars
  PROVE  SizesUpTo(m)'
<1>1. /\ count \in [OrderId -> 0 .. Modulus - 1] /\ v \in [OrderId -> 0 .. Modulus - 1]
      /\ \A o \in OrderId : count[o] <= m /\ v[o] <= m
  BY DEF TypeOK, SizesUpTo
<1>2. \A o \in OrderId : count[o] \in Nat /\ v[o] \in Nat
  <2>1. Modulus - 1 \in Int
    BY GoBookAssumption
  <2> QED
    BY <1>1, <2>1
<1>3. ASSUME NEW o \in OrderId, NEW s \in Int, s <= m,
             \/ count' = [count EXCEPT ![o] = s] /\ v' = v
             \/ count' = count /\ v' = [v EXCEPT ![o] = s]
      PROVE  SizesUpTo(m)'
  BY <1>1, <1>3 DEF SizesUpTo
<1>4. ASSUME NEW c \in Client, NEW o \in OrderId, ReadOrder(c, o) PROVE SizesUpTo(m)'
  <2>1. Terms[o].count <= m /\ Terms[o].count \in Int
    BY TermsInRange, GoBookAssumption DEF SmallTerms
  <2> QED
    BY <1>3, <1>4, <2>1 DEF ReadOrder
<1>5. ASSUME NEW o \in OrderId, LockMatchHead(o) PROVE SizesUpTo(m)'
  <2>1. count[o] \in Int /\ count[o] <= m
    BY <1>1, <1>2
  <2> QED
    BY <1>3, <1>5, <2>1 DEF LockMatchHead, orderVars
<1>6. ASSUME NEW o \in OrderId, StartExecutor(o) PROVE SizesUpTo(m)'
  <2>1. PICK s \in Int :
          /\ s = IF UsesUp(o, curr[o]) THEN v[o] - volume[curr[o]] ELSE 0
          /\ s <= m
    <3>1. curr[o] \in Node /\ o \in Command
      BY <1>6, HeadsAreNodes DEF StartExecutor, Standing, StandsWell
    <3>2. PICK a \in Nat, b \in Nat : a = v[o] /\ b = volume[curr[o]] /\ a <= m
      <4>1. volume[curr[o]] \in 0 .. Modulus - 1
        BY <3>1 DEF TypeOK
      <4>2. Modulus - 1 \in Int
        BY GoBookAssumption
      <4> QED
        BY <1>1, <1>2, <4>1, <4>2
    <3>3. a - b \in Int /\ a - b <= m /\ 0 <= m
      BY <3>2
    <3> QED
      BY <3>2, <3>3
  <2> QED
    BY <1>3, <1>6, <2>1 DEF StartExecutor, orderVars
<1>7. ASSUME NEW o \in OrderId, SetOrder(o) PROVE SizesUpTo(m)'
  <2>1. count' = [count EXCEPT ![o] = v[o]] /\ v' = [v EXCEPT ![o] = 0]
    BY <1>7 DEF SetOrder
  <2> QED
    BY <1>1, <1>2, <2>1 DEF SizesUpTo
<1>8. ASSUME NEW e \in executors, Trade(e) PROVE SizesUpTo(m)'
  <2>1. v' = v
    BY <1>8 DEF Trade, locals
  <2>2. CASE count' = count
    BY <1>1, <2>1, <2>2 DEF SizesUpTo
  <2>3. CASE count' # count
    <3>1. PICK s \in Nat : s = e.left
      <4>1. e.left \in 0 .. Modulus - 1
        BY DEF TypeOK, Executor
      <4>2. Modulus - 1 \in Int
        BY GoBookAssumption
      <4> QED
        BY <4>1, <4>2
    <3>2. PICK r : r = Head(queue[e.level]) /\ count' = [count EXCEPT ![r] = @ - s]
      BY <1>8, <2>3, <3>1 DEF Trade
    <3>3. CASE r \in OrderId
      <4>1. count[r] - s \in Int /\ count[r] - s <= m
        BY <1>1, <1>2, <3>1, <3>3
      <4>2. count' = [count EXCEPT ![r] = count[r] - s]
        BY <3>2
      <4> QED
        BY <1>3, <2>1, <3>3, <4>1, <4>2
    <3>4. CASE r \notin OrderId
      <4>1. count' = count
        BY <1>1, <3>2, <3>4
      <4> QED
        BY <2>3, <4>1
    <3> QED
      BY <3>3, <3>4
  <2> QED
    BY <2>2, <2>3
<1>9. CASE UNCHANGED <<count, v>>
  BY <1>1, <1>9 DEF SizesUpTo
<1> QED
  BY <1>4, <1>5, <1>6, <1>7, <1>8, <1>9 DEF Next, Goroutines, Printer, Terminated,
     HandleConn, ProcessActiveOrder, ExecuteOrder, AddOrder, ProcessCancelOrder,
     Unknown, Foreign, Dispatch, Reject, LockSgl, LockLevel, Advance, EndMatch,
     LockOwnHead, StartAdd, EndExecutor, PlaceFound, AddStep, NewLevel, AppendOrder,
     LockCancelHead, QueueCancel, CancelStep, CancelFails, CancelSucceeds,
     NextChannel, PrintLine, vars, orderVars, locals

LEMMA SumUpTo ==
  ASSUME NEW m \in Nat, NEW q \in Seq(OrderId), NEW x, HasSum(q, x),
         \A o \in OrderId : count[o] \in Nat /\ count[o] <= m
  PROVE  0 <= x /\ x <= Len(q) * m
<1>1. PICK l \in Nat : l = Len(q)
  OBVIOUS
<1>2. PICK sum \in [Nat -> Int] : Sums(q, sum) /\ x = sum[l]
  BY <1>1 DEF HasSum
<1>3. /\ sum[0] = 0
      /\ \A i \in 1 .. l : sum[i] = sum[i - 1] + count[q[i]]
  BY <1>1, <1>2 DEF Sums
<1>4. \A i \in 1 .. l : count[q[i]] \in Nat /\ count[q[i]] <= m
  <2>1. \A i \in 1 .. l : q[i] \in OrderId
    BY <1>1
  <2> QED
    BY <2>1
<1> DEFINE S == {i \in 0 .. l : ~(0 <= sum[i] /\ sum[i] <= i * m)}
<1>5. ASSUME S # {} PROVE FALSE
  <2>1. S \in SUBSET Nat
    OBVIOUS
  <2>2. PICK i \in S : \A j \in S : i <= j
    <3> HIDE DEF S
    <3> QED
      BY <1>5, <2>1, Least
  <2>3. i \in Nat /\ i <= l /\ ~(0 <= sum[i] /\ sum[i] <= i * m)
    OBVIOUS
  <2>4. i # 0
    BY <1>3, <2>3
  <2>5. PICK j \in Nat : j = i - 1 /\ j \in 0 .. l /\ ~(i <= j) /\ i \in 1 .. l
    BY <2>3, <2>4
  <2>6. 0 <= sum[j] /\ sum[j] <= j * m
    BY <2>2, <2>5
  <2>7. sum[i] = sum[j] + count[q[i]]
    BY <1>3, <2>5
  <2>8. i * m = j * m + m
    <3>1. (j + 1) * m = j * m + m /\ i = j + 1
      BY <2>5
    <3> QED
      BY <3>1
  <2>9. PICK a \in Int, b \in Nat, e \in Nat : a = sum[j] /\ b = count[q[i]] /\ e = j * m
    BY SMTT(30), <1>4, <2>5
  <2>10. sum[i] = a + b /\ i * m = e + m
    BY <2>7, <2>8, <2>9
  <2>11. 0 <= a /\ a <= e /\ 0 <= b /\ b <= m
    BY SMTT(30), <1>4, <2>5, <2>6, <2>9
  <2>12. 0 <= a + b /\ a + b <= e + m
    BY <2>11
  <2> QED
    BY <2>3, <2>10, <2>12
<1>6. 0 <= sum[l] /\ sum[l] <= l * m
  <2>1. l \in 0 .. l
    OBVIOUS
  <2> QED
    BY <1>5, <2>1
<1> QED
  BY <1>1, <1>2, <1>6

(* With few orders of small sizes volume is the sum: MatchOrder, which      *)
(* decides by the volume of a level what its executor will match and        *)
(* whether nothing is left of the level, decides by what is in it.          *)
THEOREM FewOrdersSumUp == FewAndSmall => (Spec => []VolumeIsSum)
<1> SUFFICES ASSUME FewAndSmall PROVE Spec => []VolumeIsSum
  OBVIOUS
<1>1. PICK m \in Nat : SmallTerms(m)
  BY DEF FewAndSmall
<1>2. Init => SizesUpTo(m)
  BY DEF Init, SizesUpTo
<1>3. LockInv /\ SizesUpTo(m) /\ [Next]_vars => SizesUpTo(m)'
  BY <1>1, SizesStaySmall DEF LockInv, Types
<1>4. LockInv /\ VolumeInv /\ SizesUpTo(m) => VolumeIsSum
  <2> SUFFICES ASSUME LockInv, VolumeInv, SizesUpTo(m), NEW n \in Node
               PROVE  volume[n] = InLevel(n)
    BY DEF VolumeIsSum, InLevel
  <2>1. PICK x \in Int : HasSum(queue[n], x) /\ volume[n] = ToUInt(x)
    BY DEF VolumeInv, SumsModulo
  <2>2. TypeOK
    BY DEF LockInv, Types
  <2>3. InLevel(n) = x
    BY <2>1, <2>2, LevelSum
  <2>4. PICK q \in Seq(OrderId) : q = queue[n]
    BY <2>2, WhatRests
  <2>5. PICK l \in Nat : l = Len(q) /\ DOMAIN q = 1 .. l
    OBVIOUS
  <2>6. 0 <= x /\ x <= l * m
    BY <2>1, <2>2, <2>4, <2>5, WhatRests, SumUpTo DEF SizesUpTo
  <2>7. PICK all \in Nat : all = Cardinality(OrderId)
    BY FS_CardinalityType DEF FewAndSmall
  <2>8. l <= all
    <3>1. PICK f \in [1 .. l -> OrderId] : \A i \in 1 .. l : f[i] = q[i]
      <4> DEFINE f == [i \in 1 .. l |-> q[i]]
      <4>1. f \in [1 .. l -> OrderId]
        BY <2>5
      <4> QED
        BY <4>1
    <3>2. f \in Injection(1 .. l, OrderId)
      <4>1. \A i, j \in 1 .. l : q[i] = q[j] => i = j
        BY <2>4, <2>5 DEF VolumeInv, RestsOnce
      <4> QED
        BY <3>1, <4>1 DEF Injection, IsInjective
    <3>3. Cardinality(1 .. l) <= Cardinality(OrderId)
      BY <3>2, FS_Injection DEF FewAndSmall
    <3>4. Cardinality(1 .. l) = l
      <4>1. 1 \in Int /\ l \in Int
        OBVIOUS
      <4>2. Cardinality(1 .. l) = IF 1 > l THEN 0 ELSE l - 1 + 1
        BY <4>1, FS_Interval
      <4> QED
        BY <4>2
    <3> QED
      BY <2>7, <3>3, <3>4
  <2>9. x < Modulus
    <3>1. PICK a \in Nat, b \in Nat : a = l * m /\ b = all * m
      OBVIOUS
    <3>2. PICK d \in Nat : all = l + d
      <4>1. all - l \in Nat /\ all = l + (all - l)
        BY <2>8
      <4> QED
        BY <4>1
    <3>3. (l + d) * m = l * m + d * m /\ d * m \in Nat
      OBVIOUS
    <3>4. a <= b
      BY <3>1, <3>2, <3>3
    <3>5. b < Modulus
      BY <1>1, <2>7, <3>1 DEF SmallTerms
    <3> QED
      BY <2>5, <2>6, <3>1, <3>4, <3>5, GoBookAssumption
  <2> QED
    BY <2>1, <2>3, <2>6, <2>9, SmallIsItself
<1> HIDE DEF SizesUpTo
<1> QED
  BY <1>2, <1>3, <1>4, LockInvHolds, VolumeInvHolds, PTL DEF Spec

-----------------------------------------------------------------------------
(* What leaves a list.  An order that rests, or is on its way into the book, *)
(* has a size.                                                              *)
HasSize(o) ==
  /\ pc[o] \in {"lock own head", "set"} => v[o] > 0
  /\ pc[o] \in {"queue add", "add", "new level", "append"} => count[o] > 0

RestsWithSize ==
  /\ \A n \in Node : \A i \in DOMAIN queue[n] : count[queue[n][i]] > 0
  /\ \A o \in OrderId : HasSize(o)

(* There is nothing in a level, or its executor will trade all of it. *)
UsedUp(n) ==
  queue[n] # <<>> => \E e \in executors : e.level = n /\ e.left >= volume[n]

(* So it is with the levels that have left the list, and with the one that  *)
(* MatchOrder is going to unlink.                                           *)
LeavesUsedUp(o) ==
  /\ pc[o] = "advance" /\ popPrev[o] => UsedUp(curr[o])
  /\ pc[o] = "lock level" /\ popPrev[o] => UsedUp(next[MatchHead(o)])

LossInv ==
  /\ RestsWithSize
  /\ \A n \in OrderId \ Linked : UsedUp(n)
  /\ \A o \in OrderId : LeavesUsedUp(o)

Idle(n) == \A k \in Command : n \notin Uses(k)

(* Whoever uses a level, or is about to, is on the list. *)
LEMMA UsersOnList ==
  ASSUME LockInv, ListInv, NEW k \in Command
  PROVE  Uses(k) \subseteq Linked
<1> USE HeadsAreNodes
<1>1. /\ Heads \subseteq Linked
      /\ \A n \in Linked : next[n] # Nil => next[n] \in Linked
  BY LinkedIsClosed DEF LockInv, Types
<1>2. WalksOnList(k) /\ (k \in OrderId => MatchesOnList(k))
  BY DEF ListInv, OnList
<1>3. StandsWell(k)
  BY DEF LockInv, Types, Standing
<1>4. CASE k \in OrderId
  <2>1. /\ MatchHead(k) \in Heads /\ OwnHead(k) \in Heads
        /\ pc[k] \in {"unread", "done"} \cup OrderPc
    BY <1>4 DEF LockInv, Types, Labels
  <2>2. pc[k] = "execute" => curr[k] \in Linked
    BY <1>1, <1>2, <1>3, <1>4, <2>1 DEF MatchesOnList, StandsWell
  <2> QED
    BY <1>1, <1>2, <2>1, <2>2 DEF Uses, WalksOnList, OrderPc
<1>5. CASE k \in CancelId
  <2>1. OwnHead(About[k]) \in Heads /\ pc[k] \in {"unread", "done"} \cup CancelPc
    BY <1>5 DEF LockInv, Types, Labels
  <2>2. pc[k] = "cancel" => Held(k) \subseteq Linked
    BY <1>2 DEF WalksOnList, Held
  <2> QED
    BY <1>1, <2>1, <2>2 DEF Uses, CancelPc
<1> QED
  BY <1>4, <1>5 DEF Command

(* Sums of sizes above 0. *)
LEMMA SumOfSizes ==
  ASSUME NEW q \in Seq(OrderId), NEW x, HasSum(q, x), q # <<>>,
         \A i \in 1 .. Len(q) : count[q[i]] \in Nat /\ count[q[i]] > 0
  PROVE  x \in Int /\ x >= count[q[1]] /\ count[q[1]] \in Nat /\ count[q[1]] > 0
<1>1. PICK l \in Nat : l = Len(q) /\ l >= 1
  OBVIOUS
<1>2. PICK sum \in [Nat -> Int] : Sums(q, sum) /\ x = sum[l]
  BY <1>1 DEF HasSum
<1>3. /\ sum[0] = 0
      /\ \A i \in 1 .. l : sum[i] = sum[i - 1] + count[q[i]]
  BY <1>1, <1>2 DEF Sums
<1>4. PICK c \in Nat : c = count[q[1]] /\ c > 0
  BY <1>1
<1> DEFINE S == {i \in 1 .. l : ~(sum[i] >= c)}
<1>5. ASSUME S # {} PROVE FALSE
  <2>1. S \in SUBSET Nat
    OBVIOUS
  <2>2. PICK i \in S : \A j \in S : i <= j
    <3> HIDE DEF S
    <3> QED
      BY <1>5, <2>1, Least
  <2>3. i \in 1 .. l /\ ~(sum[i] >= c)
    OBVIOUS
  <2>4. PICK a \in Int, b \in Nat : a = sum[i - 1] /\ b = count[q[i]]
    <3>1. i - 1 \in Nat
      BY <2>3
    <3> QED
      BY <1>1, <2>3, <3>1
  <2>5. sum[i] = a + b
    BY <1>3, <2>3, <2>4
  <2>6. CASE i = 1
    <3>1. a = 0 /\ b = c
      BY <1>3, <1>4, <2>4, <2>6
    <3> QED
      BY <2>3, <2>5, <3>1
  <2>7. CASE i # 1
    <3>1. PICK j \in 1 .. l : j = i - 1 /\ ~(i <= j)
      BY <2>3, <2>7
    <3>2. a >= c
      BY <2>2, <2>4, <3>1
    <3> QED
      BY SMTT(30), <1>4, <2>3, <2>4, <2>5, <3>2
  <2> QED
    BY <2>6, <2>7
<1>6. sum[l] >= c
  <2>1. l \in 1 .. l
    BY <1>1
  <2> QED
    BY <1>5, <2>1
<1> QED
  BY <1>2, <1>4, <1>6

(* In a level: the volume is at least the size of the first order. *)
LEMMA FirstInVolume ==
  ASSUME TypeOK, VolumeInv, VolumeIsSum, RestsWithSize, NEW n \in Node, queue[n] # <<>>
  PROVE  /\ volume[n] \in Int /\ count[Head(queue[n])] \in Nat
         /\ volume[n] >= count[Head(queue[n])]
         /\ count[Head(queue[n])] > 0
         /\ Head(queue[n]) \in OrderId
<1>1. PICK q \in Seq(OrderId) : q = queue[n]
  BY WhatRests
<1>2. PICK x \in Int : HasSum(q, x) /\ InLevel(n) = x
  BY <1>1, LevelSum DEF VolumeInv, SumsModulo
<1>3. \A i \in 1 .. Len(q) : count[q[i]] \in Nat /\ count[q[i]] > 0
  <2>1. \A i \in 1 .. Len(q) : i \in DOMAIN q /\ q[i] \in OrderId
    OBVIOUS
  <2> QED
    BY <1>1, <2>1, WhatRests DEF RestsWithSize
<1>4. x >= count[q[1]] /\ count[q[1]] \in Nat /\ count[q[1]] > 0
  BY <1>1, <1>2, <1>3, SumOfSizes
<1>5. Head(q) = q[1] /\ q[1] \in OrderId
  BY <1>1, TailFacts
<1> QED
  BY <1>1, <1>2, <1>4, <1>5 DEF VolumeIsSum

(* Whoever moves has a size where it needs one, and the others keep theirs. *)
LEMMA SizesStep ==
  ASSUME LockInv, VolumeInv, RestsWithSize, Next
  PROVE  \A o \in OrderId : HasSize(o)'
<1> USE HeadsAreNodes
<1>0. /\ TypeOK /\ Labels /\ RestsDone
      /\ pc \in [Command -> {"unread", "done"} \cup OrderPc \cup CancelPc]
      /\ count \in [OrderId -> 0 .. Modulus - 1] /\ v \in [OrderId -> 0 .. Modulus - 1]
      /\ \A o \in OrderId : HasSize(o)
  BY DEF LockInv, Types, TypeOK, VolumeInv, RestsWithSize
<1>1. ASSUME NEW k \in Command, OnlyMoves(k),
             \A o \in OrderId \ {k} : count'[o] = count[o],
             k \in OrderId => HasSize(k)'
      PROVE  \A o \in OrderId : HasSize(o)'
  <2> SUFFICES ASSUME NEW o \in OrderId, o # k PROVE HasSize(o)'
    BY <1>1
  <2>1. pc'[o] = pc[o] /\ v'[o] = v[o] /\ count'[o] = count[o]
    BY <1>1 DEF OnlyMoves
  <2> QED
    BY <1>0, <2>1 DEF HasSize
<1>2. ASSUME UNCHANGED <<pc, v, count>> PROVE \A o \in OrderId : HasSize(o)'
  BY <1>0, <1>2 DEF HasSize
<1>3. ASSUME NEW c \in Client, HandleConn(c) PROVE \A o \in OrderId : HasSize(o)'
  <2>1. ASSUME NEW o \in OrderId, ReadOrder(c, o) PROVE \A k \in OrderId : HasSize(k)'
    <3>1. OnlyMoves(o) /\ pc'[o] = "lock sgl" /\ o \in Command
      BY <1>0, <2>1, WhoMoves DEF ReadOrder, Goto
    <3>2. \A k \in OrderId \ {o} : count'[k] = count[k]
      BY <1>0, <2>1 DEF ReadOrder
    <3>3. HasSize(o)'
      BY <3>1 DEF HasSize
    <3> QED
      BY <1>1, <3>1, <3>2, <3>3
  <2>2. ASSUME NEW x \in CancelId, Dispatch(c, x) PROVE \A k \in OrderId : HasSize(k)'
    <3>1. OnlyMoves(x) /\ count' = count /\ x \in Command /\ x \notin OrderId
      BY <1>0, <2>2, WhoMoves DEF Dispatch, orderVars
    <3> QED
      BY <1>1, <3>1
  <2> QED
    BY <1>2, <1>3, <2>1, <2>2 DEF HandleConn, Unknown, Foreign, Reject, locals, orderVars
<1>4. ASSUME NEW o \in OrderId, ProcessActiveOrder(o) \/ AddOrder(o)
      PROVE  \A k \in OrderId : HasSize(k)'
  <2>1. OnlyMoves(o) /\ o \in Command
    BY <1>0, <1>4, WhoMoves
  <2>2. \A l, n : /\ Goto(o, l) => pc'[o] = l
                  /\ v' = [v EXCEPT ![o] = n] => v'[o] = n
                  /\ count' = [count EXCEPT ![o] = n] =>
                       count'[o] = n /\ \A k \in OrderId \ {o} : count'[k] = count[k]
    BY <1>0 DEF Goto
  <2>3. CASE EndMatch(o)
    <3>1. pc'[o] = "done" \/ (pc'[o] = "lock own head" /\ v[o] > 0)
      BY <2>2, <2>3 DEF EndMatch
    <3>2. UNCHANGED <<count, v>>
      BY <2>3 DEF EndMatch, orderVars
    <3> QED
      BY <1>1, <2>1, <3>1, <3>2 DEF HasSize
  <2>4. CASE LockOwnHead(o)
    <3>1. pc[o] = "lock own head" /\ pc'[o] = "set" /\ UNCHANGED <<count, v>>
      BY <2>2, <2>4 DEF LockOwnHead, orderVars
    <3>2. HasSize(o)'
      BY <1>0, <3>1 DEF HasSize
    <3> QED
      BY <1>1, <2>1, <3>1, <3>2
  <2>5. CASE SetOrder(o)
    <3>1. pc[o] = "set" /\ pc'[o] = "queue add" /\ count' = [count EXCEPT ![o] = v[o]]
      BY <2>2, <2>5 DEF SetOrder
    <3>2. count'[o] = v[o] /\ v[o] > 0
      BY <1>0, <2>2, <3>1 DEF HasSize
    <3> QED
      BY <1>1, <2>1, <2>2, <3>1, <3>2 DEF HasSize
  <2>6. CASE StartAdd(o) \/ AddOrder(o)
    <3>1. /\ pc[o] \in {"queue add", "add", "new level", "append"}
          /\ pc'[o] \in {"add", "new level", "append", "done"} /\ UNCHANGED <<count, v>>
      BY <2>2, <2>6 DEF StartAdd, AddOrder, PlaceFound, PlacePc, AddStep, NewLevel,
         AppendOrder, orderVars
    <3>2. HasSize(o)'
      BY <1>0, <3>1 DEF HasSize
    <3> QED
      BY <1>1, <2>1, <3>1, <3>2
  <2>7. CASE LockSgl(o) \/ LockMatchHead(o) \/ LockLevel(o) \/ StartExecutor(o) \/ Advance(o)
    <3>1. pc'[o] \in {"lock match head", "lock level", "matched", "execute", "advance"}
      BY <2>2, <2>7 DEF LockSgl, LockMatchHead, LockLevel, StartExecutor, Advance, LevelPc
    <3>2. count' = count
      BY <2>7 DEF LockSgl, LockMatchHead, LockLevel, StartExecutor, Advance, orderVars
    <3>3. HasSize(o)'
      BY <3>1 DEF HasSize
    <3> QED
      BY <1>1, <2>1, <3>2, <3>3
  <2> QED
    BY <1>4, <2>3, <2>4, <2>5, <2>6, <2>7 DEF ProcessActiveOrder
<1>5. ASSUME NEW x \in CancelId, ProcessCancelOrder(x)
      PROVE  \A k \in OrderId : HasSize(k)'
  <2>1. OnlyMoves(x) /\ x \in Command /\ x \notin OrderId
    BY <1>0, <1>5, WhoMoves
  <2>2. count' = count
    BY <1>5 DEF ProcessCancelOrder, LockCancelHead, QueueCancel, CancelStep, CancelFails,
       CancelSucceeds, orderVars
  <2> QED
    BY <1>1, <2>1, <2>2
<1>6. ASSUME NEW e \in executors, Trade(e) PROVE \A k \in OrderId : HasSize(k)'
  <2>1. PICK n \in Node : n = e.level
    BY <1>0 DEF TypeOK, Executor
  <2>2. PICK q \in Seq(OrderId) : q = queue[n] /\ q # <<>>
    BY <1>0, <1>6, <2>1, WhatRests DEF Trade
  <2>3. Head(q) = q[1] /\ 1 \in DOMAIN q /\ q[1] \in OrderId
    BY <2>2, TailFacts
  <2>4. pc' = pc /\ v' = v /\ pc[q[1]] = "done"
    BY <1>0, <1>6, <2>2, <2>3 DEF RestsDone, Trade, locals
  <2>5. count' = count \/ \E s : count' = [count EXCEPT ![q[1]] = s]
    BY <1>6, <2>1, <2>2, <2>3 DEF Trade
  <2>6. \A k \in OrderId : k = q[1] \/ count'[k] = count[k]
    BY <1>0, <2>5
  <2> QED
    BY <1>0, <2>4, <2>6 DEF HasSize
<1>7. CASE Printer \/ Terminated \/ \E e \in executors : EndExecutor(e)
  BY <1>2, <1>7 DEF Printer, NextChannel, PrintLine, Terminated, EndExecutor, vars,
     orderVars, locals
<1> QED
  BY <1>3, <1>4, <1>5, <1>6, <1>7 DEF Next, Goroutines, ExecuteOrder

(* What rests keeps its size, until it is used up. *)
LEMMA RestingStep ==
  ASSUME LockInv, VolumeInv, RestsWithSize, Next
  PROVE  RestsWithSize'
<1> USE HeadsAreNodes
<1>0. /\ TypeOK /\ Labels /\ RestsDone /\ Standing
      /\ pc \in [Command -> {"unread", "done"} \cup OrderPc \cup CancelPc]
      /\ count \in [OrderId -> 0 .. Modulus - 1]
      /\ queue \in [Node -> Seq(OrderId)]
      /\ \A o \in OrderId : count[o] \in Nat
  BY WhatRests DEF LockInv, Types, TypeOK, VolumeInv
<1>1. \A m \in Node : \A i \in DOMAIN queue[m] :
        queue[m][i] \in OrderId /\ pc[queue[m][i]] = "done" /\ count[queue[m][i]] > 0
  BY <1>0, WhatRests DEF RestsDone, RestsWithSize
<1>2. ASSUME \A m \in Node : \A i \in DOMAIN queue'[m] :
               \E j \in DOMAIN queue[m] : queue'[m][i] = queue[m][j],
             \A o \in OrderId : pc[o] = "done" => count'[o] = count[o] \/ count'[o] > 0
      PROVE  \A m \in Node : \A i \in DOMAIN queue'[m] : count'[queue'[m][i]] > 0
  BY <1>1, <1>2
<1>3. ASSUME queue' = queue,
             \A o \in OrderId : pc[o] = "done" => count'[o] = count[o] \/ count'[o] > 0
      PROVE  \A m \in Node : \A i \in DOMAIN queue'[m] : count'[queue'[m][i]] > 0
  BY <1>1, <1>3
<1>4. ASSUME NEW c \in Client, NEW o \in OrderId, ReadOrder(c, o)
      PROVE  \A m \in Node : \A i \in DOMAIN queue'[m] : count'[queue'[m][i]] > 0
  <2>1. pc[o] = "unread"
    BY <1>0, <1>4, Reading DEF ReadOrder, Reads
  <2>2. queue' = queue /\ \A k \in OrderId : k = o \/ count'[k] = count[k]
    BY <1>0, <1>4 DEF ReadOrder, bookVars
  <2> QED
    BY <1>3, <2>1, <2>2
<1>5. ASSUME NEW o \in OrderId, SetOrder(o)
      PROVE  \A m \in Node : \A i \in DOMAIN queue'[m] : count'[queue'[m][i]] > 0
  <2>1. pc[o] = "set" /\ queue' = queue /\ \A k \in OrderId : k = o \/ count'[k] = count[k]
    BY <1>0, <1>5 DEF SetOrder, bookVars
  <2> QED
    BY <1>3, <2>1
<1>6. ASSUME NEW o \in OrderId, AppendOrder(o)
      PROVE  \A m \in Node : \A i \in DOMAIN queue'[m] : count'[queue'[m][i]] > 0
  <2>1. PICK n \in Node : n = curr[o] /\ pc[o] = "append"
    BY <1>0, <1>6 DEF AppendOrder, Standing, StandsWell
  <2>2. PICK q \in Seq(OrderId) : q = queue[n]
    BY <1>0
  <2>3. queue' = [queue EXCEPT ![n] = Append(q, o)] /\ count' = count
    BY <1>6, <2>1, <2>2 DEF AppendOrder, orderVars
  <2>4. count[o] > 0
    BY <2>1 DEF RestsWithSize, HasSize
  <2>5. \A i \in DOMAIN Append(q, o) :
          (i \in DOMAIN q /\ Append(q, o)[i] = q[i]) \/ Append(q, o)[i] = o
    OBVIOUS
  <2>6. PICK r : r = Append(q, o)
    OBVIOUS
  <2>7. queue'[n] = r /\ \A m \in Node : m # n => queue'[m] = queue[m]
    BY <1>0, <2>3, <2>6
  <2> QED
    BY <1>1, <2>2, <2>3, <2>4, <2>5, <2>6, <2>7
<1>7. ASSUME NEW x \in CancelId, CancelSucceeds(x)
      PROVE  \A m \in Node : \A i \in DOMAIN queue'[m] : count'[queue'[m][i]] > 0
  <2>1. PICK n \in Node : n = curr[x] /\ pc[x] = "cancel"
    BY <1>0, <1>7 DEF CancelSucceeds, Standing, StandsWell
  <2>2. PICK q \in Seq(OrderId) : q = queue[n]
    BY <1>0
  <2>3. PICK k \in DOMAIN q : queue' = [queue EXCEPT ![n] = RemoveAt(q, k)]
    BY <1>7, <2>1, <2>2 DEF CancelSucceeds
  <2>4. count' = count
    BY <1>7 DEF CancelSucceeds, orderVars
  <2>5. \A i \in DOMAIN RemoveAt(q, k) : \E j \in DOMAIN q : RemoveAt(q, k)[i] = q[j]
    <3>1. k \in 1 .. Len(q)
      OBVIOUS
    <3>2. /\ DOMAIN RemoveAt(q, k) = 1 .. Len(q) - 1
          /\ \A i \in 1 .. Len(q) - 1 :
               /\ i \in DOMAIN q /\ i + 1 \in DOMAIN q
               /\ RemoveAt(q, k)[i] = IF i < k THEN q[i] ELSE q[i + 1]
      BY <3>1, Removed
    <3>3. ASSUME NEW i \in DOMAIN RemoveAt(q, k)
          PROVE  \E j \in DOMAIN q : RemoveAt(q, k)[i] = q[j]
      <4>1. /\ i \in DOMAIN q /\ i + 1 \in DOMAIN q
            /\ RemoveAt(q, k)[i] = q[i] \/ RemoveAt(q, k)[i] = q[i + 1]
        BY <3>2
      <4> QED
        BY <4>1
    <3> QED
      BY <3>3
  <2>6. PICK r : r = RemoveAt(q, k)
    OBVIOUS
  <2>7. queue'[n] = r /\ \A m \in Node : m # n => queue'[m] = queue[m]
    BY <1>0, <2>3, <2>6
  <2> QED
    BY <1>2, <2>2, <2>4, <2>5, <2>6, <2>7
<1>8. ASSUME NEW e \in executors, Trade(e)
      PROVE  \A m \in Node : \A i \in DOMAIN queue'[m] : count'[queue'[m][i]] > 0
  <2>1. PICK n \in Node : n = e.level
    BY <1>0 DEF TypeOK, Executor
  <2>2. PICK q \in Seq(OrderId) : q = queue[n] /\ q # <<>>
    BY <1>0, <1>8, <2>1 DEF Trade
  <2>3. PICK o \in OrderId : o = q[1] /\ o = Head(q) /\ 1 \in DOMAIN q
    BY <2>2, TailFacts
  <2>4. PICK s \in Int : s = e.left
    <3>1. e.left \in 0 .. Modulus - 1
      BY <1>0 DEF TypeOK, Executor
    <3>2. Modulus - 1 \in Int
      BY GoBookAssumption
    <3> QED
      BY <3>1, <3>2
  <2>5. CASE s >= count[o]
    <3>1. queue' = [queue EXCEPT ![n] = Tail(q)] /\ count' = count
      BY <1>8, <2>1, <2>2, <2>3, <2>4, <2>5 DEF Trade
    <3>2. \A i \in DOMAIN Tail(q) : i + 1 \in DOMAIN q /\ Tail(q)[i] = q[i + 1]
      BY <2>2, TailFacts
    <3>3. PICK r : r = Tail(q)
      OBVIOUS
    <3>4. queue'[n] = r /\ \A m \in Node : m # n => queue'[m] = queue[m]
      BY <1>0, <3>1, <3>3
    <3>5. \A m \in Node : \A i \in DOMAIN queue'[m] :
            \E j \in DOMAIN queue[m] : queue'[m][i] = queue[m][j]
      <4>1. \A i \in DOMAIN queue'[n] : i + 1 \in DOMAIN queue[n] /\ queue'[n][i] = queue[n][i + 1]
        BY <2>2, <3>2, <3>3, <3>4
      <4>2. \A i \in DOMAIN queue'[n] : \E j \in DOMAIN queue[n] : queue'[n][i] = queue[n][j]
        BY <4>1
      <4> QED
        BY <3>4, <4>2
    <3> QED
      BY <1>2, <3>1, <3>5
  <2>6. CASE ~(s >= count[o])
    <3>1. queue' = queue /\ count' = [count EXCEPT ![o] = count[o] - s]
      BY <1>8, <2>1, <2>2, <2>3, <2>4, <2>6 DEF Trade
    <3>2. count[o] - s > 0
      BY <1>0, <2>4, <2>6
    <3>3. \A k \in OrderId : count'[k] = count[k] \/ count'[k] > 0
      BY <1>0, <3>1, <3>2
    <3> QED
      BY <1>3, <3>1, <3>3
  <2> QED
    BY <2>5, <2>6
<1>9. ASSUME UNCHANGED <<queue, count>>
      PROVE  \A m \in Node : \A i \in DOMAIN queue'[m] : count'[queue'[m][i]] > 0
  BY <1>3, <1>9
<1>10. \A m \in Node : \A i \in DOMAIN queue'[m] : count'[queue'[m][i]] > 0
  BY <1>4, <1>5, <1>6, <1>7, <1>8, <1>9 DEF Next, Goroutines, Printer, Terminated,
     HandleConn, ProcessActiveOrder, ExecuteOrder, AddOrder, ProcessCancelOrder,
     Unknown, Foreign, Dispatch, Reject, LockSgl, LockMatchHead, LockLevel,
     StartExecutor, Advance, EndMatch, LockOwnHead, StartAdd, EndExecutor, PlaceFound,
     AddStep, NewLevel, LockCancelHead, QueueCancel, CancelStep, CancelFails,
     NextChannel, PrintLine, vars, orderVars, bookVars
<1> QED
  BY <1>10, SizesStep DEF RestsWithSize

(* An executor that will trade all of its level does so: nobody adds to the *)
(* level, and what the executor trades it has less to do.                   *)
LEMMA UsedUpByTrade ==
  ASSUME TypeOK, LocksHaveOneUser, VolumeInv, VolumeIsSum, RestsWithSize,
         NEW n \in OrderId, UsedUp(n), NEW e \in executors, Trade(e), e.level = n
  PROVE  UsedUp(n)'
<1> USE HeadsAreNodes
<1>1. PICK q \in Seq(OrderId) : q = queue[n] /\ q # <<>>
  BY WhatRests DEF Trade
<1>2. PICK d \in executors : d.level = n /\ d.left >= volume[n]
  BY <1>1 DEF UsedUp
<1>3. d = e
  BY <1>2 DEF LocksHaveOneUser
<1>4. e \in Executor /\ Modulus \in Nat
  BY GoBookAssumption DEF TypeOK
<1>5. PICK l \in Nat, a \in Nat, b \in Nat :
        l = e.left /\ a = volume[n] /\ b = count[Head(q)] /\ a < Modulus
  <2>1. e.left \in 0 .. Modulus - 1 /\ volume[n] \in 0 .. Modulus - 1
    BY <1>4 DEF TypeOK, Executor
  <2>2. count[Head(q)] \in Nat
    BY <1>1, FirstInVolume
  <2>3. Modulus - 1 \in Int
    BY <1>4
  <2> QED
    BY <1>4, <2>1, <2>2, <2>3
<1>6. a >= b /\ l >= a
  BY <1>1, <1>2, <1>3, <1>5, FirstInVolume
<1>7. /\ executors' = (executors \ {e}) \cup {[e EXCEPT !.left = l - b]}
      /\ Shrink(n, b)
  BY <1>1, <1>5, <1>6 DEF Trade
<1>8. volume'[n] = a - b
  <2>1. ToUInt(a - b) = a - b
    BY <1>4, <1>5, <1>6, SmallIsItself
  <2> QED
    BY <1>5, <1>7, <2>1 DEF Shrink, TypeOK
<1>9. PICK f : f = [e EXCEPT !.left = l - b]
  OBVIOUS
<1>10. f \in executors' /\ f.level = n /\ f.left = l - b
  BY <1>4, <1>7, <1>9 DEF Executor
<1>11. l - b >= a - b
  BY <1>6
<1> QED
  BY <1>8, <1>10, <1>11 DEF UsedUp

LEMMA UsedUpByEnd ==
  ASSUME TypeOK, LocksHaveOneUser, VolumeInv, VolumeIsSum, RestsWithSize,
         NEW n \in OrderId, UsedUp(n), NEW e \in executors, EndExecutor(e), e.level = n
  PROVE  UsedUp(n)'
<1> USE HeadsAreNodes
<1>1. queue' = queue
  BY DEF EndExecutor
<1>2. SUFFICES ASSUME queue[n] # <<>> PROVE FALSE
  BY <1>1 DEF UsedUp
<1>3. PICK d \in executors : d.level = n /\ d.left >= volume[n]
  BY <1>2 DEF UsedUp
<1>4. d = e /\ e.left = 0
  BY <1>2, <1>3 DEF LocksHaveOneUser, EndExecutor
<1>5. volume[n] \in Int /\ volume[n] > 0
  <2>1. PICK a \in Int, b \in Nat : a = volume[n] /\ b = count[Head(queue[n])] /\ a >= b /\ b > 0
    BY <1>2, FirstInVolume
  <2> QED
    BY <2>1
<1> QED
  BY <1>3, <1>4, <1>5

(* Nobody else touches a level that nobody uses. *)
LEMMA UsedUpStays ==
  ASSUME LockInv, VolumeInv, VolumeIsSum, RestsWithSize, Next,
         NEW n \in OrderId, Idle(n), UsedUp(n)
  PROVE  UsedUp(n)'
<1> USE HeadsAreNodes
<1>0. /\ TypeOK /\ Labels /\ Standing /\ LocksHaveOneUser
      /\ queue \in [Node -> Seq(OrderId)] /\ volume \in [Node -> 0 .. Modulus - 1]
      /\ n \in Node
  BY DEF LockInv, Types, TypeOK
<1>1. ASSUME queue'[n] = queue[n], volume'[n] = volume[n],
             \A e \in executors : e.level = n => e \in executors'
      PROVE  UsedUp(n)'
  BY <1>1 DEF UsedUp
<1>2. ASSUME NEW o \in OrderId, AppendOrder(o) PROVE UsedUp(n)'
  <2>1. PICK m \in Node : m = curr[o] /\ pc[o] = "append"
    BY <1>0, <1>2 DEF AppendOrder, Standing, StandsWell
  <2>2. m # n
    <3>1. m \in Uses(o)
      BY ZenonT(30), <2>1, UsesAt
    <3> QED
      BY <3>1 DEF Idle
  <2>3. queue' = [queue EXCEPT ![m] = Append(@, o)] /\ executors' = executors
        /\ Grow(m, count[o])
    BY <1>2, <2>1 DEF AppendOrder
  <2> QED
    BY <1>0, <1>1, <2>2, <2>3 DEF Grow
<1>3. ASSUME NEW x \in CancelId, CancelSucceeds(x) PROVE UsedUp(n)'
  <2>1. PICK m \in Node : m = curr[x] /\ pc[x] = "cancel"
    BY <1>0, <1>3 DEF CancelSucceeds, Standing, StandsWell
  <2>2. m # n
    <3>1. m \in Uses(x)
      BY ZenonT(30), <2>1, UsesAt
    <3> QED
      BY <3>1 DEF Idle
  <2>3. executors' = executors /\ Shrink(m, count[About[x]])
        /\ \E i : queue' = [queue EXCEPT ![m] = RemoveAt(@, i)]
    BY <1>3, <2>1 DEF CancelSucceeds
  <2> QED
    BY <1>0, <1>1, <2>2, <2>3 DEF Shrink
<1>4. ASSUME NEW o \in OrderId, StartExecutor(o) PROVE UsedUp(n)'
  BY <1>1, <1>4 DEF StartExecutor, bookVars
<1>5. ASSUME NEW e \in executors, Trade(e) PROVE UsedUp(n)'
  <2>1. CASE e.level = n
    BY <1>0, <1>5, <2>1, UsedUpByTrade
  <2>2. CASE e.level # n
    <3>1. PICK m : m = e.level /\ m # n
      BY <2>2
    <3>2. /\ queue' = queue \/ queue' = [queue EXCEPT ![m] = Tail(@)]
          /\ \E s : Shrink(m, s)
          /\ executors \ {e} \subseteq executors'
      BY <1>5, <3>1 DEF Trade
    <3>3. queue'[n] = queue[n]
      BY <1>0, <3>1, <3>2
    <3>4. volume'[n] = volume[n]
      BY <1>0, <3>1, <3>2 DEF Shrink
    <3> QED
      BY <1>1, <2>2, <3>2, <3>3, <3>4
  <2> QED
    BY <2>1, <2>2
<1>6. ASSUME NEW e \in executors, EndExecutor(e) PROVE UsedUp(n)'
  <2>1. CASE e.level = n
    BY <1>0, <1>6, <2>1, UsedUpByEnd
  <2>2. CASE e.level # n
    BY <1>1, <1>6, <2>2 DEF EndExecutor
  <2> QED
    BY <2>1, <2>2
<1>7. ASSUME UNCHANGED <<queue, volume, executors>> PROVE UsedUp(n)'
  BY <1>1, <1>7
<1> QED
  BY <1>2, <1>3, <1>4, <1>5, <1>6, <1>7 DEF Next, Goroutines, Printer, Terminated,
     HandleConn, ProcessActiveOrder, ExecuteOrder, AddOrder, ProcessCancelOrder,
     ReadOrder, Unknown, Foreign, Dispatch, Reject, LockSgl, LockMatchHead, LockLevel,
     Advance, EndMatch, LockOwnHead, SetOrder, StartAdd, PlaceFound,
     AddStep, NewLevel, LockCancelHead, QueueCancel, CancelStep, CancelFails,
     NextChannel, PrintLine, vars, bookVars

(* What leaves the list in a step: a level that MatchOrder has handed to an *)
(* executor, or the one that CancelOrder emptied.                           *)
HasLeft(n) ==
  \/ \E o \in OrderId : /\ pc[o] = "lock level" /\ popPrev[o] /\ Idle(n)
                        /\ n = next[MatchHead(o)]
  \/ \E o \in OrderId : pc[o] = "advance" /\ popPrev[o] /\ Idle(n) /\ n = curr[o]
  \/ \E x \in CancelId : CancelSucceeds(x) /\ n = curr[x] /\ volume'[n] = 0

LEMMA WhatLeaves ==
  ASSUME LockInv, LockInv', ListInv, Next
  PROVE  \A n \in Linked \ Linked' : n \in OrderId /\ HasLeft(n)
<1> USE HeadsAreNodes
<1>0. /\ TypeOK /\ TypeOK' /\ Labels /\ Standing /\ LocksHaveOneUser /\ OneBehind
      /\ Heads \subseteq Linked /\ Linked \subseteq Node
      /\ \A n \in Linked : next[n] # Nil => next[n] \in Linked
      /\ next \in [Node -> OrderId \cup {Nil}]
  BY LinkedIsClosed DEF LockInv, Types, TypeOK, ListInv
<1>1. ASSUME next' = next PROVE Linked' = Linked
  BY <1>1, SameLinks
<1>2. ASSUME NEW o \in OrderId, LockLevel(o), next' # next
      PROVE  \A n \in Linked \ Linked' : n \in OrderId /\ HasLeft(n)
  <2>1. PICK h \in Linked : h = MatchHead(o) /\ h \in Heads
    BY <1>0
  <2>2. PICK m : m = next[h]
    OBVIOUS
  <2>3. /\ pc[o] = "lock level" /\ popPrev[o] /\ curr[o] \in OrderId
        /\ next' = [next EXCEPT ![h] = curr[o]]
    BY <1>0, <1>2, <2>1 DEF LockLevel, Unlink, Standing, StandsWell
  <2>4. m # Nil /\ next[m] = curr[o] /\ HandedOver(o, m)
    BY <2>1, <2>2, <2>3 DEF ListInv, OnList, MatchesOnList
  <2>5. m \in OrderId /\ h # m
    BY <1>0, <2>1, <2>2, <2>4
  <2>6. Linked' = Linked \ {m}
    BY <1>0, <2>1, <2>2, <2>3, <2>4, <2>5, Shortcut
  <2>7. HasLeft(m)
    BY <2>1, <2>2, <2>3, <2>4 DEF HasLeft, HandedOver, Idle
  <2> QED
    BY <2>5, <2>6, <2>7
<1>3. ASSUME NEW o \in OrderId, Advance(o), next' # next
      PROVE  \A n \in Linked \ Linked' : n \in OrderId /\ HasLeft(n)
  <2>1. PICK h \in Linked : h = MatchHead(o) /\ h \in Heads
    BY <1>0
  <2>2. PICK m : m = curr[o]
    OBVIOUS
  <2>3. /\ pc[o] = "advance" /\ popPrev[o] /\ m \in OrderId /\ next[m] = Nil
        /\ next' = [next EXCEPT ![h] = next[m]]
    BY <1>0, <1>3, <2>1, <2>2 DEF Advance, Unlink, Standing, StandsWell
  <2>4. m = next[h] /\ HandedOver(o, m)
    BY <2>1, <2>2, <2>3 DEF ListInv, OnList, MatchesOnList
  <2>5. h # m
    BY <1>0, <2>1, <2>3
  <2>6. Linked' = Linked \ {m}
    BY <1>0, <2>1, <2>3, <2>4, <2>5, Shortcut
  <2>7. HasLeft(m)
    BY <2>2, <2>3, <2>4 DEF HasLeft, HandedOver, Idle
  <2> QED
    BY <2>3, <2>6, <2>7
<1>4. ASSUME NEW o \in OrderId, NewLevel(o) PROVE Linked \subseteq Linked'
  <2>1. PICK p \in Linked : p = curr[o] /\ pc[o] = "new level"
    BY <1>4 DEF NewLevel, ListInv, OnList, WalksOnList
  <2>2. next' = [next EXCEPT ![o] = next[p], ![p] = o]
    BY <1>4, <2>1 DEF NewLevel
  <2>3. \A n \in Node : next[n] # o
    BY <2>1 DEF ListInv, MadeBeforeLinked
  <2>4. p # o
    BY <1>4, <2>1 DEF NewLevel, HandOver, Free
  <2> QED
    BY <1>0, <2>2, <2>3, <2>4, Insert
<1>5. ASSUME NEW x \in CancelId, CancelSucceeds(x), next' # next
      PROVE  \A n \in Linked \ Linked' : n \in OrderId /\ HasLeft(n)
  <2>1. PICK m \in Linked : m = curr[x] /\ pc[x] = "cancel" /\ m \in OrderId
    <3>1. pc[x] = "cancel" /\ curr[x] \notin Heads
      BY <1>5 DEF CancelSucceeds, AtLevel
    <3>2. curr[x] \in Linked
      BY <3>1 DEF ListInv, OnList, WalksOnList
    <3> QED
      BY <1>0, <3>1, <3>2 DEF Node
  <2>2. PICK p \in Linked : p = prev[x] /\ next[p] = m
    BY <1>0, <2>1 DEF ListInv, OnList, WalksOnList
  <2>3. p # m
    BY <1>0, <2>1, <2>2 DEF Standing, StandsWell
  <2>4. volume'[m] = 0 /\ next' = [next EXCEPT ![p] = next[m]]
    BY <1>5, <2>1, <2>2 DEF CancelSucceeds, DropLevel
  <2>5. Linked' = Linked \ {m}
    BY <1>0, <2>1, <2>2, <2>3, <2>4, Shortcut
  <2>6. HasLeft(m)
    BY <1>5, <2>1, <2>4 DEF HasLeft
  <2> QED
    BY <2>1, <2>5, <2>6
<1>6. \/ next' = next
      \/ \E o \in OrderId : LockLevel(o) \/ Advance(o) \/ NewLevel(o)
      \/ \E x \in CancelId : CancelSucceeds(x)
  BY DEF Next, Goroutines, Printer, Terminated,
     HandleConn, ProcessActiveOrder, ExecuteOrder, AddOrder, ProcessCancelOrder,
     ReadOrder, Unknown, Foreign, Dispatch, Reject, LockSgl, LockMatchHead,
     StartExecutor, EndMatch, LockOwnHead, SetOrder, StartAdd, PlaceFound,
     AddStep, AppendOrder, Trade, EndExecutor, LockCancelHead, QueueCancel, CancelStep,
     CancelFails, NextChannel, PrintLine, vars, bookVars
<1> QED
  BY <1>1, <1>2, <1>3, <1>4, <1>5, <1>6

(* A level that has no size left has no orders, and has an unsigned volume *)
(* to say so.                                                              *)
EmptyAtZero == \A n \in Node : volume[n] = 0 => queue[n] = <<>>

LEMMA EmptyLevel ==
  ASSUME TypeOK, VolumeInv, VolumeIsSum, RestsWithSize
  PROVE  EmptyAtZero
<1> SUFFICES ASSUME NEW n \in Node, volume[n] = 0, queue[n] # <<>> PROVE FALSE
  BY DEF EmptyAtZero
<1>1. PICK a \in Int, b \in Nat : a = volume[n] /\ b = count[Head(queue[n])] /\ a >= b /\ b > 0
  BY FirstInVolume
<1> QED
  BY <1>1

LEMMA EmptyAfter ==
  LockInv' /\ VolumeInv' /\ VolumeIsSum' /\ RestsWithSize' => EmptyAtZero'
<1>1. LockInv /\ VolumeInv /\ VolumeIsSum /\ RestsWithSize => EmptyAtZero
  BY EmptyLevel DEF LockInv, Types
<1> QED
  BY <1>1, PTL

(* The link of a level changes by those who use it only. *)
LEMMA LinkStays ==
  ASSUME LockInv, ListInv, Next, NEW o \in OrderId, NEW h \in Node, h \in Uses(o),
         pc'[o] = pc[o]
  PROVE  next'[h] = next[h]
<1> USE HeadsAreNodes
<1>0. /\ TypeOK /\ Labels /\ Standing /\ LocksHaveOneUser /\ h \in Node
      /\ next \in [Node -> OrderId \cup {Nil}]
      /\ pc \in [Command -> {"unread", "done"} \cup OrderPc \cup CancelPc]
  BY DEF LockInv, Types, TypeOK
<1>1. ASSUME NEW k \in Command, pc'[k] # pc[k], NEW p \in Uses(k) PROVE p # h
  BY <1>0, <1>1 DEF LocksHaveOneUser
<1>2. ASSUME NEW k \in OrderId, LockLevel(k) \/ Advance(k), next' # next
      PROVE  next'[h] = next[h]
  <2>1. pc[k] \in {"lock level", "advance"} /\ pc'[k] # pc[k]
    BY <1>0, <1>2 DEF LockLevel, Advance, LevelPc, Goto, Unlink, ListInv, OnList,
       MatchesOnList, Standing, StandsWell
  <2>2. PICK p : p = MatchHead(k) /\ p \in Uses(k)
    BY <2>1, UsesAt
  <2>3. PICK n : next' = [next EXCEPT ![p] = n]
    BY <1>2, <2>2 DEF LockLevel, Advance, Unlink
  <2>4. p # h
    BY <1>1, <2>1, <2>2 DEF Command
  <2> QED
    BY <1>0, <2>3, <2>4
<1>3. ASSUME NEW k \in OrderId, NewLevel(k) PROVE next'[h] = next[h]
  <2>1. pc[k] = "new level" /\ pc'[k] = "append"
    BY <1>0, <1>3 DEF NewLevel, Goto
  <2>2. PICK p : p = curr[k] /\ p \in Uses(k)
    BY <2>1, UsesAt
  <2>3. PICK n : next' = [next EXCEPT ![k] = n, ![p] = k]
    BY <1>3, <2>2 DEF NewLevel
  <2>4. p # h
    BY <1>1, <2>1, <2>2 DEF Command
  <2>5. k # h
    BY <1>0, <1>3, UsedIsLocked DEF NewLevel, HandOver, Free, Command
  <2> QED
    BY <1>0, <2>3, <2>4, <2>5
<1>4. ASSUME NEW x \in CancelId, CancelSucceeds(x) PROVE next'[h] = next[h]
  <2>1. pc[x] = "cancel" /\ pc'[x] = "done"
    BY <1>0, <1>4 DEF CancelSucceeds, Answer, Goto
  <2>2. PICK p : p = prev[x] /\ (p # Nil => p \in Uses(x))
    BY <2>1, UsesAt
  <2>3. next' = next \/ \E n : next' = [next EXCEPT ![p] = n]
    BY <1>4, <2>2 DEF CancelSucceeds, DropLevel
  <2>4. p # h
    <3>1. h # Nil
      BY <1>0, GoBookAssumption
    <3> QED
      BY <1>1, <2>1, <2>2, <3>1 DEF Command
  <2> QED
    BY <1>0, <2>3, <2>4
<1>6. \/ next' = next
      \/ \E k \in OrderId : LockLevel(k) \/ Advance(k) \/ NewLevel(k)
      \/ \E x \in CancelId : CancelSucceeds(x)
  BY DEF Next, Goroutines, Printer, Terminated,
     HandleConn, ProcessActiveOrder, ExecuteOrder, AddOrder, ProcessCancelOrder,
     ReadOrder, Unknown, Foreign, Dispatch, Reject, LockSgl, LockMatchHead,
     StartExecutor, EndMatch, LockOwnHead, SetOrder, StartAdd, PlaceFound,
     AddStep, AppendOrder, Trade, EndExecutor, LockCancelHead, QueueCancel, CancelStep,
     CancelFails, NextChannel, PrintLine, vars, bookVars
<1> QED
  BY <1>2, <1>3, <1>4, <1>6

(* What MatchOrder is going to unlink stays used up until it does. *)
LEMMA LeavesStep ==
  ASSUME LockInv, ListInv, VolumeInv, VolumeIsSum, RestsWithSize, Next,
         NEW o \in OrderId, LeavesUsedUp(o)
  PROVE  LeavesUsedUp(o)'
<1> USE HeadsAreNodes
<1>0. /\ TypeOK /\ Labels /\ Standing /\ MatchesOnList(o) /\ StandsWell(o)
      /\ next \in [Node -> OrderId \cup {Nil}]
      /\ pc \in [Command -> {"unread", "done"} \cup OrderPc \cup CancelPc]
      /\ popPrev \in [OrderId -> BOOLEAN] /\ curr \in [Command -> Node \cup {Nil}]
  BY DEF LockInv, Types, TypeOK, ListInv, OnList, Standing, Command
<1>1. PICK h \in Heads : h = MatchHead(o)
  OBVIOUS
<1>2. PICK m, first : m = curr'[o] /\ first = next'[h]
  OBVIOUS
<1>3. SUFFICES /\ pc'[o] = "advance" /\ popPrev'[o] => UsedUp(m)'
               /\ pc'[o] = "lock level" /\ popPrev'[o] => UsedUp(first)'
  BY <1>1, <1>2 DEF LeavesUsedUp, UsedUp
<1>4. ASSUME pc[o] = "advance", popPrev[o]
      PROVE  \A n : n = curr[o] => UsedUp(n)'
  <2>1. curr[o] \in OrderId /\ Idle(curr[o]) /\ UsedUp(curr[o])
    BY <1>0, <1>4 DEF MatchesOnList, HandedOver, Idle, StandsWell, LeavesUsedUp
  <2> QED
    BY <2>1, UsedUpStays
<1>5. ASSUME pc[o] = "lock level", popPrev[o]
      PROVE  \A n : n = next[h] => UsedUp(n)'
  <2>1. next[h] \in OrderId /\ Idle(next[h]) /\ UsedUp(next[h])
    BY <1>0, <1>1, <1>5 DEF MatchesOnList, HandedOver, Idle, LeavesUsedUp
  <2> QED
    BY <2>1, UsedUpStays
<1>6. ASSUME pc'[o] = pc[o], popPrev'[o] = popPrev[o], curr'[o] = curr[o]
      PROVE  /\ pc'[o] = "advance" /\ popPrev'[o] => UsedUp(m)'
             /\ pc'[o] = "lock level" /\ popPrev'[o] => UsedUp(first)'
  <2>1. pc[o] = "lock level" => next'[h] = next[h]
    <3>1. pc[o] = "lock level" => h \in Uses(o)
      <4>1. o \in Command
        BY DEF Command
      <4>2. pc[o] = "lock level" => Uses(o) = {MatchHead(o)}
        BY <4>1, UsesAt
      <4> QED
        BY <1>1, <4>2
    <3> QED
      BY <1>6, <3>1, LinkStays
  <2> QED
    BY <1>2, <1>4, <1>5, <1>6, <2>1
<1>7. ASSUME StartExecutor(o)
      PROVE  /\ pc'[o] = "advance" /\ popPrev'[o] => UsedUp(m)'
             /\ pc'[o] = "lock level" /\ popPrev'[o] => UsedUp(first)'
  <2>1. pc'[o] = "advance" /\ m = curr[o]
    BY <1>0, <1>2, <1>7 DEF StartExecutor, Goto, Command
  <2>2. popPrev'[o] = UsesUp(o, m)
    BY <1>0, <1>7, <2>1 DEF StartExecutor
  <2>3. PICK e : e = [order |-> o, level |-> m, left |-> v[o], channel |-> Len(outputs')]
    OBVIOUS
  <2>4. e \in executors' /\ volume' = volume
    BY <1>7, <2>1, <2>3 DEF StartExecutor, bookVars
  <2>5. e.level = m /\ e.left = v[o]
    BY <2>3
  <2> QED
    BY <2>1, <2>2, <2>4, <2>5 DEF UsesUp, UsedUp
<1>8. ASSUME Advance(o)
      PROVE  /\ pc'[o] = "advance" /\ popPrev'[o] => UsedUp(m)'
             /\ pc'[o] = "lock level" /\ popPrev'[o] => UsedUp(first)'
  <2>1. pc[o] = "advance" /\ next[h] = curr[o] /\ popPrev'[o] = popPrev[o]
    BY <1>0, <1>1, <1>8 DEF Advance, MatchesOnList
  <2>2. pc'[o] = "matched" \/ (pc'[o] = "lock level" /\ next' = next)
    BY <1>0, <1>8 DEF Advance, Goto, LevelPc, Command
  <2> QED
    BY <1>2, <1>4, <2>1, <2>2
<1>9. ASSUME LockMatchHead(o) PROVE ~popPrev'[o]
  BY <1>0, <1>9 DEF LockMatchHead, MatchesOnList
<1>10. ASSUME \/ LockSgl(o) \/ LockLevel(o) \/ EndMatch(o) \/ LockOwnHead(o)
              \/ SetOrder(o) \/ StartAdd(o) \/ AddOrder(o)
              \/ \E c \in Client : ReadOrder(c, o)
       PROVE  pc'[o] \notin {"advance", "lock level"}
  BY <1>0, <1>10 DEF LockSgl, LockLevel, EndMatch, LockOwnHead, SetOrder, StartAdd,
     AddOrder, PlaceFound, PlacePc, AddStep, NewLevel, AppendOrder, ReadOrder, Goto, Command
<1>11. ASSUME NEW k \in Command, k # o, OnlyMoves(k)
       PROVE  pc'[o] = pc[o] /\ popPrev'[o] = popPrev[o] /\ curr'[o] = curr[o]
  BY <1>11 DEF OnlyMoves, Command
<1>12. ASSUME UNCHANGED locals
       PROVE  pc'[o] = pc[o] /\ popPrev'[o] = popPrev[o] /\ curr'[o] = curr[o]
  BY <1>12 DEF locals
<1>13. \/ UNCHANGED locals
       \/ \E k \in Command : k # o /\ OnlyMoves(k)
       \/ ProcessActiveOrder(o) \/ AddOrder(o) \/ \E c \in Client : ReadOrder(c, o)
  <2>1. \A x \in CancelId : x # o
    BY GoBookAssumption
  <2> QED
    BY <1>0, <2>1, WhoMoves DEF Next, Goroutines, HandleConn, Command
<1> QED
  BY <1>6, <1>7, <1>8, <1>9, <1>10, <1>11, <1>12, <1>13 DEF ProcessActiveOrder

(* And the levels that are not in a list are used up. *)
LEMMA UnlinkedStep ==
  ASSUME LockInv, LockInv', ListInv, VolumeInv, VolumeInv', VolumeIsSum, VolumeIsSum',
         LossInv, RestsWithSize', Next, NEW n \in OrderId, n \notin Linked'
  PROVE  UsedUp(n)'
<1>1. ASSUME Idle(n), UsedUp(n) PROVE UsedUp(n)'
  BY <1>1, UsedUpStays DEF LossInv
<1>2. CASE n \notin Linked
  <2>1. Idle(n)
    BY <1>2, UsersOnList DEF Idle
  <2> QED
    BY <1>1, <1>2, <2>1 DEF LossInv
<1>3. CASE n \in Linked
  <2>1. HasLeft(n)
    BY <1>3, WhatLeaves
  <2>2. ASSUME NEW o \in OrderId, pc[o] = "lock level", popPrev[o], Idle(n),
               n = next[MatchHead(o)]
        PROVE  UsedUp(n)'
    BY <1>1, <2>2 DEF LossInv, LeavesUsedUp
  <2>3. ASSUME NEW o \in OrderId, pc[o] = "advance", popPrev[o], Idle(n), n = curr[o]
        PROVE  UsedUp(n)'
    BY <1>1, <2>3 DEF LossInv, LeavesUsedUp
  <2>4. ASSUME volume'[n] = 0 PROVE UsedUp(n)'
    <3>1. queue'[n] = <<>>
      BY <2>4, EmptyAfter, HeadsAreNodes DEF EmptyAtZero
    <3> QED
      BY <3>1 DEF UsedUp
  <2> QED
    BY <2>1, <2>2, <2>3, <2>4 DEF HasLeft
<1> QED
  BY <1>2, <1>3

(* What is known of every state by then. *)
SoFar == LockInv /\ ListInv /\ VolumeInv /\ VolumeIsSum

LEMMA InitLoss == Init => LossInv
<1> SUFFICES ASSUME Init PROVE LossInv
  OBVIOUS
<1>1. RestsWithSize
  BY HeadsAreNodes DEF Init, RestsWithSize, HasSize, Command
<1>2. \A n \in OrderId : UsedUp(n)
  BY HeadsAreNodes DEF Init, UsedUp
<1>3. \A o \in OrderId : LeavesUsedUp(o)
  BY DEF Init, LeavesUsedUp, Command
<1> QED
  BY <1>1, <1>2, <1>3 DEF LossInv

LEMMA LossStep ==
  LossInv /\ SoFar /\ SoFar' /\ [Next]_vars => LossInv'
<1> SUFFICES ASSUME LossInv, SoFar, SoFar', [Next]_vars PROVE LossInv'
  OBVIOUS
<1>1. ASSUME Next PROVE LossInv'
  <2>1. RestsWithSize'
    BY <1>1, RestingStep DEF SoFar, LossInv
  <2>2. \A o \in OrderId : LeavesUsedUp(o)'
    BY <1>1, LeavesStep DEF SoFar, LossInv
  <2>3. \A n \in OrderId : n \notin Linked' => UsedUp(n)'
    BY <1>1, <2>1, UnlinkedStep DEF SoFar
  <2> QED
    BY <2>1, <2>2, <2>3 DEF LossInv
<1>2. CASE UNCHANGED vars
  BY <1>2 DEF vars, connVars, orderVars, bookVars, locals, outVars, LossInv,
     RestsWithSize, HasSize, UsedUp, LeavesUsedUp, Linked, FollowsLinks
<1> QED
  BY <1>1, <1>2

LEMMA UsedUpIsNotLost == SoFar /\ LossInv => NothingIsLost
<1> SUFFICES ASSUME SoFar, LossInv, NEW n \in OrderId \ Linked, queue[n] # <<>>
             PROVE  \E e \in executors : e.level = n /\ e.left >= InLevel(n)
  BY DEF NothingIsLost
<1>1. UsedUp(n) /\ volume[n] = InLevel(n)
  BY HeadsAreNodes DEF LossInv, SoFar, VolumeIsSum
<1> QED
  BY <1>1 DEF UsedUp

(* No order leaves the book with its level: a level that is not in a list    *)
(* any more, because CancelOrder emptied it or MatchOrder used it up, has   *)
(* no orders, or an executor that still has enough left for all of them.    *)
(* The sizes are such that the volumes do not wrap: MatchOrder decides what *)
(* to unlink by the volume, long before the executor takes the orders.      *)
THEOREM NothingLeavesWithALevel == FewAndSmall => (Spec => []NothingIsLost)
<1>1. FewAndSmall => (Spec => []SoFar)
  BY ListInvHolds, FewOrdersSumUp, LockInvHolds, VolumeInvHolds, PTL DEF SoFar
<1> QED
  BY <1>1, InitLoss, LossStep, UsedUpIsNotLost, PTL DEF Spec

-----------------------------------------------------------------------------
(* Sorted lists.  A head has price 0 for AddOrder, so no order may have it. *)
PricesAboveZero == \A o \in OrderId : Terms[o].price > 0

InFront(n, m) == n = OwnHead(m) \/ (n \in OrderId /\ Ahead(n, m))

SameLevel(n, o) ==
  n \in OrderId /\ Terms[n].side = Terms[o].side /\ Terms[n].price = Terms[o].price

(* AddOrder stands before the place of its order, and, when it has decided  *)
(* for a new level, the next one is behind that.                            *)
AtPlace(o) ==
  /\ pc[o] \in {"add", "new level"} => InFront(curr[o], o)
  /\ pc[o] = "new level" => next[curr[o]] = Nil \/ Ahead(o, next[curr[o]])
  /\ pc[o] = "append" => SameLevel(curr[o], o)

LinksSorted == \A n \in Node : next[n] # Nil => InFront(n, next[n])
LevelsSorted == \A n \in Node : \A i \in DOMAIN queue[n] : SameLevel(n, queue[n][i])

SortInv == LinksSorted /\ LevelsSorted /\ \A o \in OrderId : AtPlace(o)

(* What the parameters are. *)
LEMMA SidesAndPrices ==
  /\ \A o \in OrderId : Terms[o].side \in {"buy", "sell"} /\ Terms[o].price \in Nat
  /\ \A o \in OrderId : PriceOf(o) = Terms[o].price /\ OwnHead(o) = HeadOf(Terms[o].side)
  /\ \A h \in Heads : PriceOf(h) = 0
  /\ \A o, p \in OrderId : OwnHead(o) = OwnHead(p) <=> Terms[o].side = Terms[p].side
<1>1. \A o \in OrderId : /\ Terms[o] \in [side : Side, price : 0 .. Modulus - 1,
                                          count : 1 .. Modulus - 1]
  BY GoBookAssumption
<1>2. \A o \in OrderId : Terms[o].side \in {"buy", "sell"} /\ Terms[o].price \in Nat
  BY <1>1, GoBookAssumption DEF Side
<1> QED
  BY <1>2, GoBookAssumption DEF PriceOf, OwnHead, HeadOf, Heads

(* The order of the prices, along a list. *)
LEMMA AheadIsTransitive ==
  ASSUME NEW o \in OrderId, NEW p \in OrderId, NEW q \in OrderId, Ahead(o, p), Ahead(p, q)
  PROVE  Ahead(o, q)
BY SidesAndPrices DEF Ahead, Before

(* What is in front of a level is in front of those behind it.              *)
LEMMA InFrontOfAll ==
  ASSUME NEW n, NEW p \in OrderId, NEW q \in OrderId, InFront(n, p), InFront(p, q)
  PROVE  InFront(n, q) /\ Ahead(p, q)
<1>1. Ahead(p, q)
  BY HeadsAreNodes DEF InFront
<1>2. Terms[p].side = Terms[q].side
  BY <1>1 DEF Ahead
<1> QED
  BY <1>1, <1>2, SidesAndPrices, AheadIsTransitive DEF InFront

(* A level is linked where its price belongs, and what is unlinked leaves a *)
(* sorted list.                                                             *)
LEMMA LinksSortedStep ==
  ASSUME LockInv, ListInv, LinksSorted, \A o \in OrderId : AtPlace(o), Next
  PROVE  LinksSorted'
<1> USE HeadsAreNodes
<1>0. /\ TypeOK /\ Standing /\ Heads \subseteq Linked
      /\ next \in [Node -> OrderId \cup {Nil}]
      /\ \A n \in Node : next[n] # Nil => next[n] \in OrderId /\ InFront(n, next[n])
  BY LinkedIsClosed DEF LockInv, Types, TypeOK, LinksSorted
<1>1. ASSUME NEW p \in Node, NEW m, next' = [next EXCEPT ![p] = m],
             m # Nil => InFront(p, m)
      PROVE  LinksSorted'
  BY <1>0, <1>1 DEF LinksSorted, InFront
<1>2. ASSUME next' = next PROVE LinksSorted'
  BY <1>0, <1>2 DEF LinksSorted, InFront
<1>3. ASSUME NEW o \in OrderId, LockLevel(o), next' # next PROVE LinksSorted'
  <2>1. PICK h \in Node : h = MatchHead(o)
    OBVIOUS
  <2>2. PICK m \in OrderId : m = curr[o]
    BY <1>0, <1>3 DEF LockLevel, Standing, StandsWell, Command
  <2>3. pc[o] = "lock level" /\ popPrev[o] /\ next' = [next EXCEPT ![h] = m]
    BY <1>3, <2>1, <2>2 DEF LockLevel, Unlink
  <2>4. PICK first : first = next[h]
    OBVIOUS
  <2>5. first # Nil /\ next[first] = m
    BY <2>1, <2>2, <2>3, <2>4 DEF ListInv, OnList, MatchesOnList, Command
  <2>6. first \in OrderId /\ InFront(h, first)
    BY <1>0, <2>4, <2>5
  <2>7. InFront(first, m)
    BY <1>0, <2>5, <2>6
  <2> QED
    BY <1>1, <2>3, <2>6, <2>7, InFrontOfAll
<1>4. ASSUME NEW o \in OrderId, Advance(o), next' # next PROVE LinksSorted'
  <2>1. PICK h \in Node : h = MatchHead(o)
    OBVIOUS
  <2>2. next' = [next EXCEPT ![h] = Nil]
    BY <1>4, <2>1 DEF Advance, Unlink
  <2> QED
    BY <1>1, <2>2
<1>5. ASSUME NEW o \in OrderId, NewLevel(o) PROVE LinksSorted'
  <2>1. PICK n \in Node : n = curr[o]
    BY <1>0, <1>5 DEF NewLevel, Standing, StandsWell, Command
  <2>2. PICK m \in OrderId \cup {Nil} : m = next[n]
    BY <1>0
  <2>3. next' = [next EXCEPT ![o] = m, ![n] = o]
    BY <1>5, <2>1, <2>2 DEF NewLevel
  <2>4. InFront(n, o) /\ (m # Nil => InFront(o, m))
    BY <1>5, <2>1, <2>2 DEF NewLevel, AtPlace, InFront
  <2> QED
    BY <1>0, <2>3, <2>4 DEF LinksSorted, InFront
<1>6. ASSUME NEW x \in CancelId, CancelSucceeds(x), next' # next PROVE LinksSorted'
  <2>1. PICK m \in OrderId : m = curr[x] /\ pc[x] = "cancel"
    BY <1>0, <1>6 DEF CancelSucceeds, AtLevel, Standing, StandsWell, Node, Command
  <2>2. PICK p \in Node : p = prev[x] /\ next[p] = m
    <3>1. curr[x] \notin Heads
      BY <2>1
    <3>2. prev[x] # Nil /\ prev[x] \in Linked /\ next[prev[x]] = curr[x]
      BY <2>1, <3>1 DEF ListInv, OnList, WalksOnList, Command
    <3> QED
      BY <1>0, <2>1, <3>2, LinkedIsClosed
  <2>3. PICK l \in OrderId \cup {Nil} : l = next[m]
    BY <1>0
  <2>4. next' = [next EXCEPT ![p] = l]
    BY <1>6, <2>1, <2>2, <2>3 DEF CancelSucceeds, DropLevel
  <2>5. l # Nil => InFront(p, l)
    BY <1>0, <2>2, <2>3, InFrontOfAll
  <2> QED
    BY <1>1, <2>4, <2>5
<1>7. \/ next' = next
      \/ \E o \in OrderId : LockLevel(o) \/ Advance(o) \/ NewLevel(o)
      \/ \E x \in CancelId : CancelSucceeds(x)
  BY DEF Next, Goroutines, Printer, Terminated,
     HandleConn, ProcessActiveOrder, ExecuteOrder, AddOrder, ProcessCancelOrder,
     ReadOrder, Unknown, Foreign, Dispatch, Reject, LockSgl, LockMatchHead,
     StartExecutor, EndMatch, LockOwnHead, SetOrder, StartAdd, PlaceFound,
     AddStep, AppendOrder, Trade, EndExecutor, LockCancelHead, QueueCancel, CancelStep,
     CancelFails, NextChannel, PrintLine, vars, bookVars
<1> QED
  BY <1>2, <1>3, <1>4, <1>5, <1>6, <1>7

(* An order is appended to a level of its side and price. *)
LEMMA LevelsSortedStep ==
  ASSUME LockInv, LevelsSorted, \A o \in OrderId : AtPlace(o), Next
  PROVE  LevelsSorted'
<1> USE HeadsAreNodes
<1>0. /\ TypeOK /\ Standing /\ queue \in [Node -> Seq(OrderId)]
      /\ \A n \in Node : \A i \in DOMAIN queue[n] : SameLevel(n, queue[n][i])
  BY DEF LockInv, Types, TypeOK, LevelsSorted
<1>1. ASSUME NEW n \in Node, NEW q, queue' = [queue EXCEPT ![n] = q],
             \A i \in DOMAIN q : SameLevel(n, q[i])
      PROVE  LevelsSorted'
  <2>1. ASSUME NEW m \in Node, NEW i \in DOMAIN queue'[m]
        PROVE  SameLevel(m, queue'[m][i])
    <3>1. CASE m = n
      BY <1>0, <1>1, <2>1, <3>1
    <3>2. CASE m # n
      BY <1>0, <1>1, <2>1, <3>2
    <3> QED
      BY <3>1, <3>2
  <2> QED
    BY <2>1 DEF LevelsSorted, SameLevel
<1>2. ASSUME queue' = queue PROVE LevelsSorted'
  BY <1>0, <1>2 DEF LevelsSorted, SameLevel
<1>3. ASSUME NEW o \in OrderId, AppendOrder(o) PROVE LevelsSorted'
  <2>1. PICK n \in Node : n = curr[o] /\ SameLevel(n, o)
    BY <1>3 DEF AppendOrder, AtPlace, SameLevel
  <2>2. PICK q \in Seq(OrderId) : q = queue[n]
    BY <1>0
  <2>3. queue' = [queue EXCEPT ![n] = Append(q, o)]
    BY <1>3, <2>1, <2>2 DEF AppendOrder
  <2>4. \A i \in DOMAIN Append(q, o) : Append(q, o)[i] = o \/ (i \in DOMAIN q /\ Append(q, o)[i] = q[i])
    BY <2>2
  <2>5. \A i \in DOMAIN Append(q, o) : SameLevel(n, Append(q, o)[i])
    BY <1>0, <2>1, <2>2, <2>4
  <2> QED
    BY <1>1, <2>3, <2>5
<1>4. ASSUME NEW e \in executors, Trade(e), queue' # queue PROVE LevelsSorted'
  <2>1. PICK n \in Node : n = e.level
    BY <1>0 DEF TypeOK, Executor
  <2>2. PICK q \in Seq(OrderId) : q = queue[n] /\ q # <<>>
    BY <1>0, <1>4, <2>1 DEF Trade
  <2>3. queue' = [queue EXCEPT ![n] = Tail(q)]
    BY <1>4, <2>1, <2>2 DEF Trade
  <2>4. \A i \in DOMAIN Tail(q) : i + 1 \in DOMAIN q /\ Tail(q)[i] = q[i + 1]
    BY <2>2, TailFacts
  <2>5. \A i \in DOMAIN Tail(q) : SameLevel(n, Tail(q)[i])
    BY <1>0, <2>2, <2>4
  <2> QED
    BY <1>1, <2>3, <2>5
<1>5. ASSUME NEW x \in CancelId, CancelSucceeds(x) PROVE LevelsSorted'
  <2>1. PICK n \in Node : n = curr[x]
    BY <1>0, <1>5 DEF CancelSucceeds, Standing, StandsWell, Command
  <2>2. PICK q \in Seq(OrderId) : q = queue[n]
    BY <1>0
  <2>3. PICK i \in DOMAIN q : queue' = [queue EXCEPT ![n] = RemoveAt(q, i)]
    BY <1>5, <2>1, <2>2 DEF CancelSucceeds
  <2>4. /\ DOMAIN RemoveAt(q, i) = 1 .. Len(q) - 1
        /\ \A j \in 1 .. Len(q) - 1 :
             /\ j \in DOMAIN q /\ j + 1 \in DOMAIN q
             /\ RemoveAt(q, i)[j] = IF j < i THEN q[j] ELSE q[j + 1]
    <3>1. i \in 1 .. Len(q)
      BY <2>2
    <3> QED
      BY <3>1, Removed
  <2>5. \A j \in DOMAIN RemoveAt(q, i) : SameLevel(n, RemoveAt(q, i)[j])
    BY <1>0, <2>2, <2>4
  <2> QED
    BY <1>1, <2>3, <2>5
<1>6. \/ queue' = queue
      \/ \E o \in OrderId : AppendOrder(o)
      \/ \E e \in executors : Trade(e)
      \/ \E x \in CancelId : CancelSucceeds(x)
  BY DEF Next, Goroutines, Printer, Terminated,
     HandleConn, ProcessActiveOrder, ExecuteOrder, AddOrder, ProcessCancelOrder,
     ReadOrder, Unknown, Foreign, Dispatch, Reject, LockSgl, LockMatchHead, LockLevel,
     StartExecutor, Advance, EndMatch, LockOwnHead, SetOrder, StartAdd, PlaceFound,
     AddStep, NewLevel, EndExecutor, LockCancelHead, QueueCancel, CancelStep,
     CancelFails, NextChannel, PrintLine, vars, bookVars
<1> QED
  BY <1>2, <1>3, <1>4, <1>5, <1>6

(* Who walks stays in front of his place, and who found it keeps it: the     *)
(* next of a level changes by those who have its lock.                      *)
LEMMA AtPlaceStep ==
  ASSUME PricesAboveZero, LockInv, ListInv, SortInv, Next, NEW o \in OrderId
  PROVE  AtPlace(o)'
<1> USE HeadsAreNodes
<1>0. /\ TypeOK /\ Labels /\ Standing /\ AtPlace(o) /\ o \in Command
      /\ next \in [Node -> OrderId \cup {Nil}]
      /\ pc \in [Command -> {"unread", "done"} \cup OrderPc \cup CancelPc]
      /\ curr \in [Command -> Node \cup {Nil}]
      /\ \A n \in Node : next[n] # Nil => next[n] \in OrderId /\ InFront(n, next[n])
  BY DEF LockInv, Types, TypeOK, SortInv, LinksSorted, Command
<1>1. PICK c, d, n : c = curr[o] /\ d = curr'[o] /\ n = next'[d]
  OBVIOUS
<1>2. SUFFICES /\ pc'[o] \in {"add", "new level"} => InFront(d, o)
               /\ pc'[o] = "new level" => n = Nil \/ Ahead(o, n)
               /\ pc'[o] = "append" => SameLevel(d, o)
  BY <1>1 DEF AtPlace, InFront, SameLevel
<1>3. pc[o] \in {"add", "new level", "append"} => c \in Node
  BY <1>0, <1>1 DEF Standing, StandsWell
<1>4. ASSUME pc'[o] = pc[o], curr'[o] = curr[o]
      PROVE  /\ pc'[o] \in {"add", "new level"} => InFront(d, o)
             /\ pc'[o] = "new level" => n = Nil \/ Ahead(o, n)
             /\ pc'[o] = "append" => SameLevel(d, o)
  <2>1. pc[o] = "new level" => next'[c] = next[c]
    <3>1. pc[o] = "new level" => Uses(o) = {c}
      BY <1>0, <1>1, UsesAt
    <3>2. ASSUME pc[o] = "new level" PROVE c \in Node /\ c \in Uses(o)
      BY <1>3, <3>1, <3>2
    <3> QED
      BY <1>4, <3>2, LinkStays
  <2> QED
    BY <1>0, <1>1, <1>4, <2>1 DEF AtPlace
<1>5. ASSUME StartAdd(o)
      PROVE  pc'[o] = "add" /\ InFront(d, o)
  BY <1>0, <1>1, <1>5 DEF StartAdd, Goto, InFront
<1>6. ASSUME pc[o] = "add", NEW m, m = next[c], m # Nil
      PROVE  m \in OrderId /\ Terms[m].side = Terms[o].side
  <2>1. m \in OrderId /\ InFront(c, m) /\ InFront(c, o)
    BY <1>0, <1>1, <1>3, <1>6 DEF AtPlace
  <2> QED
    BY <2>1, SidesAndPrices DEF InFront, Ahead
<1>7. ASSUME PlaceFound(o)
      PROVE  pc'[o] = "new level" /\ InFront(d, o) /\ (n = Nil \/ Ahead(o, n))
  <2>1. pc[o] = "add" /\ d = c /\ n = next[c] /\ InFront(c, o)
    BY <1>0, <1>1, <1>7 DEF PlaceFound, bookVars, AtPlace
  <2>2. Terms[o].price # PriceOf(c)
    BY <1>3, <2>1, SidesAndPrices DEF PricesAboveZero, InFront, Ahead, Before
  <2>3. pc'[o] = "new level"
    BY <1>0, <1>1, <1>7, <2>2 DEF PlaceFound, PlacePc, Goto
  <2>4. n = Nil \/ Before(Terms[o].side, Terms[o].price, PriceOf(n))
    BY <1>1, <1>7, <2>1 DEF PlaceFound
  <2>5. n = Nil \/ Ahead(o, n)
    BY <1>6, <2>1, <2>4, SidesAndPrices DEF Ahead
  <2> QED
    BY <2>1, <2>3, <2>5
<1>8. ASSUME AddStep(o)
      PROVE  \/ pc'[o] = "append" /\ SameLevel(d, o)
             \/ pc'[o] = "add" /\ InFront(d, o)
  <2>1. PICK m : m = next[c]
    OBVIOUS
  <2>2. /\ pc[o] = "add" /\ m # Nil /\ d = m
        /\ ~Before(Terms[o].side, Terms[o].price, PriceOf(m))
        /\ pc'[o] = IF Terms[o].price = PriceOf(m) THEN "append" ELSE "add"
    BY <1>0, <1>1, <1>8, <2>1 DEF AddStep, Goto
  <2>3. m \in OrderId /\ Terms[m].side = Terms[o].side
    BY <1>6, <2>1, <2>2
  <2>4. CASE Terms[o].price = PriceOf(m)
    BY <2>2, <2>3, <2>4, SidesAndPrices DEF SameLevel
  <2>5. CASE Terms[o].price # PriceOf(m)
    <3>1. Ahead(m, o)
      BY <2>2, <2>3, <2>5, SidesAndPrices DEF Ahead, Before
    <3> QED
      BY <2>2, <2>3, <2>5, <3>1 DEF InFront
  <2> QED
    BY <2>4, <2>5
<1>9. ASSUME NewLevel(o) PROVE pc'[o] = "append" /\ SameLevel(d, o)
  BY <1>0, <1>1, <1>9 DEF NewLevel, Goto, SameLevel
<1>10. ASSUME \/ LockSgl(o) \/ LockMatchHead(o) \/ LockLevel(o) \/ StartExecutor(o)
              \/ Advance(o) \/ EndMatch(o) \/ LockOwnHead(o) \/ SetOrder(o)
              \/ AppendOrder(o) \/ \E k \in Client : ReadOrder(k, o)
       PROVE  pc'[o] \notin {"add", "new level", "append"}
  BY <1>0, <1>10 DEF LockSgl, LockMatchHead, LockLevel, LevelPc, StartExecutor, Advance,
     EndMatch, LockOwnHead, SetOrder, AppendOrder, ReadOrder, Goto
<1>11. ASSUME NEW k \in Command, k # o, OnlyMoves(k)
       PROVE  pc'[o] = pc[o] /\ curr'[o] = curr[o]
  BY <1>11 DEF OnlyMoves, Command
<1>12. ASSUME UNCHANGED locals
       PROVE  pc'[o] = pc[o] /\ curr'[o] = curr[o]
  BY <1>12 DEF locals
<1>13. \/ UNCHANGED locals
       \/ \E k \in Command : k # o /\ OnlyMoves(k)
       \/ ProcessActiveOrder(o) \/ AddOrder(o) \/ \E k \in Client : ReadOrder(k, o)
  <2>1. \A x \in CancelId : x # o
    BY GoBookAssumption
  <2> QED
    BY <1>0, <2>1, WhoMoves DEF Next, Goroutines, HandleConn, Command
<1> QED
  BY <1>4, <1>5, <1>7, <1>8, <1>9, <1>10, <1>11, <1>12, <1>13 DEF ProcessActiveOrder, AddOrder

(* The lists start empty. *)
LEMMA SortInit == Init => SortInv
BY HeadsAreNodes DEF Init, SortInv, LinksSorted, LevelsSorted, AtPlace, Command

(* Every step keeps the lists sorted. *)
LEMMA SortStep ==
  PricesAboveZero /\ LockInv /\ ListInv /\ SortInv /\ [Next]_vars => SortInv'
<1> SUFFICES ASSUME PricesAboveZero, LockInv, ListInv, SortInv, [Next]_vars PROVE SortInv'
  OBVIOUS
<1>1. ASSUME Next PROVE SortInv'
  <2>1. \A o \in OrderId : AtPlace(o)'
    BY <1>1, AtPlaceStep
  <2>2. LinksSorted' /\ LevelsSorted'
    BY <1>1, LinksSortedStep, LevelsSortedStep DEF SortInv
  <2> QED
    BY <2>1, <2>2 DEF SortInv
<1>2. CASE UNCHANGED vars
  BY <1>2 DEF vars, bookVars, locals, SortInv, LinksSorted, LevelsSorted, AtPlace,
     InFront, SameLevel
<1> QED
  BY <1>1, <1>2

(* The lists are sorted at all times. *)
LEMMA SortInvHolds == PricesAboveZero => (Spec => []SortInv)
<1> SUFFICES ASSUME PricesAboveZero PROVE Spec => []SortInv
  OBVIOUS
<1>1. LockInv /\ ListInv /\ SortInv /\ [Next]_vars => SortInv'
  BY SortStep
<1> QED
  BY <1>1, SortInit, LockInvHolds, ListInvHolds, PTL DEF Spec

(* The property is a part of what is proved. *)
LEMMA SortedBooks == LockInv /\ SortInv => BooksSorted
<1> SUFFICES ASSUME LockInv, SortInv PROVE BooksSorted
  OBVIOUS
<1> USE HeadsAreNodes
<1>0. /\ queue \in [Node -> Seq(OrderId)] /\ next \in [Node -> OrderId \cup {Nil}]
      /\ LinksSorted /\ LevelsSorted
  BY DEF LockInv, Types, TypeOK, SortInv
<1>1. \A n \in Node : \A o \in ToSet(queue[n]) : SameLevel(n, o)
  BY <1>0 DEF LevelsSorted, ToSet
<1>2. \A h \in Heads : queue[h] = <<>>
  <2> SUFFICES ASSUME NEW h \in Heads, queue[h] # <<>> PROVE FALSE
    OBVIOUS
  <2>1. 1 \in DOMAIN queue[h]
    <3>1. PICK q \in Seq(OrderId) : q = queue[h] /\ q # <<>>
      BY <1>0
    <3> QED
      BY <3>1
  <2> QED
    BY <1>0, <2>1 DEF LevelsSorted, SameLevel
<1>3. \A n \in Node : next[n] # Nil => InFront(n, next[n])
  BY <1>0 DEF LinksSorted
<1>4. \A h \in Heads : next[h] # Nil => OwnHead(next[h]) = h
  BY <1>3 DEF InFront
<1>5. \A n \in OrderId : next[n] # Nil => next[n] \in OrderId /\ Ahead(n, next[n])
  BY <1>0, <1>3 DEF InFront
<1> QED
  BY <1>1, <1>2, <1>4, <1>5 DEF BooksSorted, SameLevel

(* The list of a side is strictly sorted by price from the best one, with   *)
(* the orders of a price in its level, whatever walks, trades and cancels   *)
(* at the same time: AddOrder gives back the lock of the level it compared  *)
(* its price with before it decides, and is still right.                    *)
LEMMA ListsAreSorted == PricesAboveZero => (Spec => []BooksSorted)
BY SortInvHolds, SortedBooks, LockInvHolds, PTL

-----------------------------------------------------------------------------
(* The two locks that are no level's.  sgl is held by one order's goroutine, *)
(* from the match to the start of the add, ordersLock from one step of      *)
(* another to the next by a connection that rejects a cancel only.          *)
InSgl(o) ==
  pc[o] \in {"lock match head", "lock level", "execute", "advance", "matched",
             "lock own head", "set", "queue add"}

GlobalLocks ==
  /\ \A o, p \in OrderId : InSgl(o) /\ InSgl(p) => o = p
  /\ "sgl" \in locked <=> \E o \in OrderId : InSgl(o)
  /\ "ordersLock" \in locked => \E c \in Client : conn[c] = "reject unknown"

SameGlobals ==
  /\ "sgl" \in locked' <=> "sgl" \in locked
  /\ "ordersLock" \in locked' <=> "ordersLock" \in locked

(* Which steps take or give back one of them. *)
LEMMA MostKeepGlobals ==
  ASSUME LockInv
  PROVE  /\ \A o \in OrderId :
              (ProcessActiveOrder(o) \/ AddOrder(o))
                => SameGlobals \/ LockSgl(o) \/ EndMatch(o) \/ StartAdd(o)
         /\ \A o \in OrderId : ExecuteOrder(o) => SameGlobals
         /\ \A x \in CancelId : ProcessCancelOrder(x) => SameGlobals
         /\ Printer \/ Terminated => SameGlobals
<1> USE HeadsAreNodes
<1>0. /\ TypeOK /\ Standing /\ locked \subseteq Lock
      /\ curr \in [Command -> Node \cup {Nil}] /\ prev \in [CancelId -> Node \cup {Nil}]
      /\ next \in [Node -> OrderId \cup {Nil}]
      /\ \A e \in executors : e.level \in Node
  BY DEF LockInv, Types, TypeOK, Executor
<1>1. ASSUME NEW A \in SUBSET Node, NEW B \in SUBSET Node, locked' = (locked \ A) \cup B
      PROVE  SameGlobals
  BY <1>1 DEF SameGlobals
<1>2. ASSUME locked' = locked PROVE SameGlobals
  BY <1>2 DEF SameGlobals
<1>3. ASSUME NEW l \in Node, locked' = locked \cup {l} PROVE SameGlobals
  BY <1>3 DEF SameGlobals
<1>4. ASSUME NEW L \in SUBSET Node, locked' = locked \ L PROVE SameGlobals
  BY <1>4 DEF SameGlobals
<1>5. ASSUME NEW o \in OrderId, LockMatchHead(o) \/ LockOwnHead(o) PROVE SameGlobals
  BY <1>3, <1>5 DEF LockMatchHead, LockOwnHead, Acquire
<1>6. ASSUME NEW o \in OrderId, LockLevel(o) PROVE SameGlobals
  <2>1. curr[o] \in Node
    BY <1>0, <1>6 DEF LockLevel, Standing, StandsWell, Command
  <2> QED
    BY <1>2, <1>3, <1>6, <2>1 DEF LockLevel
<1>7. ASSUME NEW o \in OrderId,
             StartExecutor(o) \/ Advance(o) \/ SetOrder(o) \/ PlaceFound(o)
      PROVE  SameGlobals
  BY <1>2, <1>7 DEF StartExecutor, Advance, SetOrder, PlaceFound, bookVars
<1>8. ASSUME NEW o \in OrderId, AddStep(o) \/ NewLevel(o) PROVE SameGlobals
  <2>1. PICK p \in Node : p = curr[o]
    BY <1>0, <1>8 DEF AddStep, NewLevel, Standing, StandsWell, Command
  <2>2. PICK l \in Node : locked' = (locked \ {p}) \cup {l}
    BY <1>0, <1>8, <2>1 DEF AddStep, NewLevel, HandOver
  <2> QED
    BY ZenonT(30), <1>1, <2>2
<1>9. ASSUME NEW o \in OrderId, AppendOrder(o) PROVE SameGlobals
  <2>1. curr[o] \in Node
    BY <1>0, <1>9 DEF AppendOrder, Standing, StandsWell, Command
  <2> QED
    BY ZenonT(30), <1>4, <1>9, <2>1 DEF AppendOrder, Release
<1>10. ASSUME NEW e \in executors, Trade(e) \/ EndExecutor(e) PROVE SameGlobals
  <2>1. PICK l \in Node : l = e.level
    BY <1>0
  <2>2. locked' = locked \/ locked' = locked \ {l}
    BY <1>10, <2>1 DEF Trade, EndExecutor, Release
  <2> QED
    BY <1>2, <1>4, <2>2
<1>11. ASSUME NEW x \in CancelId, LockCancelHead(x) \/ QueueCancel(x) PROVE SameGlobals
  BY <1>2, <1>3, <1>11 DEF LockCancelHead, QueueCancel, Acquire, bookVars
<1>12. ASSUME NEW x \in CancelId, CancelStep(x) PROVE SameGlobals
  <2>1. PICK n \in Node, c \in Node : c = curr[x] /\ n = next[c]
    BY <1>0, <1>12 DEF CancelStep, Standing, StandsWell, Command
  <2>2. CASE prev[x] = Nil
    BY <1>3, <1>12, <2>1, <2>2 DEF CancelStep, Acquire
  <2>3. CASE prev[x] # Nil
    <3>1. PICK p \in Node : p = prev[x]
      BY <1>0, <2>3
    <3>2. locked' = (locked \ {p}) \cup {n}
      BY <1>12, <2>1, <2>3, <3>1 DEF CancelStep, HandOver
    <3> QED
      BY ZenonT(30), <1>1, <3>2
  <2> QED
    BY <2>2, <2>3
<1>13. ASSUME NEW x \in CancelId, CancelFails(x) \/ CancelSucceeds(x) PROVE SameGlobals
  <2>1. Held(x) \subseteq Node
    BY <1>0 DEF Held, Command
  <2>2. locked' = locked \ Held(x)
    BY <1>13 DEF CancelFails, CancelSucceeds, Answer, Release
  <2> QED
    BY <1>4, <2>1, <2>2
<1>14. ASSUME Printer \/ Terminated PROVE SameGlobals
  BY <1>2, <1>14 DEF Printer, NextChannel, PrintLine, Terminated, vars, bookVars
<1> QED
  BY <1>5, <1>6, <1>7, <1>8, <1>9, <1>10, <1>11, <1>12, <1>13, <1>14
  DEF ProcessActiveOrder, AddOrder, ExecuteOrder, ProcessCancelOrder

(* sgl goes from LockSgl to EndMatch or StartAdd, ordersLock from Unknown to *)
(* Reject.                                                                  *)
LEMMA GlobalLocksStep == ASSUME LockInv, GlobalLocks, Next PROVE GlobalLocks'
<1> USE HeadsAreNodes
<1>0. /\ TypeOK /\ Labels /\ OrderId \cap CancelId = {}
      /\ pc \in [Command -> {"unread", "done"} \cup OrderPc \cup CancelPc]
      /\ conn \in [Client -> {"read", "reject unknown", "reject foreign"}]
  BY GoBookAssumption DEF LockInv, Types, TypeOK
<1>1. ASSUME SameGlobals, conn' = conn, \A o \in OrderId : InSgl(o)' <=> InSgl(o)
      PROVE  GlobalLocks'
  BY <1>1 DEF GlobalLocks, SameGlobals
<1>2. ASSUME NEW k \in Command, OnlyMoves(k), k \in OrderId => (InSgl(k)' <=> InSgl(k))
      PROVE  \A o \in OrderId : InSgl(o)' <=> InSgl(o)
  BY <1>2 DEF OnlyMoves, InSgl, Command
<1>3. ASSUME UNCHANGED locals PROVE \A o \in OrderId : InSgl(o)' <=> InSgl(o)
  BY <1>3 DEF locals, InSgl
<1>4. ASSUME NEW o \in OrderId, ProcessActiveOrder(o) \/ AddOrder(o) PROVE GlobalLocks'
  <2>1. OnlyMoves(o) /\ o \in Command
    BY <1>0, <1>4, WhoMoves DEF Command
  <2>2. conn' = conn
    BY <1>4 DEF ProcessActiveOrder, AddOrder, LockSgl, LockMatchHead, LockLevel,
       StartExecutor, Advance, EndMatch, LockOwnHead, SetOrder, StartAdd, PlaceFound,
       AddStep, NewLevel, AppendOrder, connVars
  <2>3. \A p \in OrderId \ {o} : InSgl(p)' <=> InSgl(p)
    BY <2>1 DEF OnlyMoves, InSgl, Command
  <2>9. PICK left \in Nat : left = v[o]
    <3>1. v[o] \in 0 .. Modulus - 1 /\ Modulus \in Nat
      BY <1>0, GoBookAssumption DEF TypeOK
    <3> QED
      BY <3>1
  <2>10. ASSUME EndMatch(o)
         PROVE  /\ pc[o] = "matched"
                /\ \/ left = 0 /\ Release({MatchHead(o), "sgl"}) /\ Goto(o, "done")
                   \/ left > 0 /\ Release({MatchHead(o)}) /\ Goto(o, "lock own head")
    BY <2>9, <2>10 DEF EndMatch
  <2>11. ASSUME EndMatch(o), left = 0
         PROVE  pc[o] = "matched" /\ Release({MatchHead(o), "sgl"}) /\ Goto(o, "done")
    BY <2>9, <2>10, <2>11
  <2>12. ASSUME EndMatch(o), left > 0
         PROVE  pc[o] = "matched" /\ Release({MatchHead(o)}) /\ Goto(o, "lock own head")
    <3>1. left # 0
      BY <2>9, <2>12
    <3> QED
      BY <2>10, <2>12, <3>1
  <2>4. CASE LockSgl(o)
    <3>1. "sgl" \notin locked /\ locked' = locked \cup {"sgl"} /\ pc'[o] = "lock match head"
      BY <1>0, <2>1, <2>4 DEF LockSgl, Acquire, Free, Goto
    <3>2. \A p \in OrderId : ~InSgl(p)
      BY <3>1 DEF GlobalLocks
    <3>3. \A p \in OrderId : InSgl(p)' <=> p = o
      BY <2>3, <3>1, <3>2 DEF InSgl
    <3>4. "sgl" \in locked' /\ ("ordersLock" \in locked' <=> "ordersLock" \in locked)
      BY <3>1
    <3> QED
      BY <2>2, <3>3, <3>4 DEF GlobalLocks
  <2>5. ASSUME StartAdd(o) \/ (EndMatch(o) /\ left = 0) PROVE GlobalLocks'
    <3>1. InSgl(o) /\ pc'[o] \in {"add", "done"}
      BY <1>0, <2>1, <2>5, <2>11 DEF StartAdd, Goto, InSgl
    <3>2. "sgl" \notin locked' /\ ("ordersLock" \in locked' => "ordersLock" \in locked)
      BY <2>5, <2>11 DEF StartAdd, Release
    <3>3. \A p \in OrderId : ~InSgl(p)'
      BY <2>3, <3>1 DEF GlobalLocks, InSgl
    <3> QED
      BY <2>2, <3>2, <3>3 DEF GlobalLocks
  <2>6. CASE EndMatch(o) /\ left > 0
    <3>1. locked' = locked \ {MatchHead(o)} /\ pc[o] = "matched" /\ pc'[o] = "lock own head"
      BY <1>0, <2>1, <2>6, <2>12 DEF Release, Goto
    <3>2. SameGlobals
      BY <3>1 DEF SameGlobals
    <3>3. InSgl(o)' <=> InSgl(o)
      BY <3>1 DEF InSgl
    <3> QED
      BY <1>1, <1>2, <2>1, <2>2, <3>2, <3>3
  <2>7. ASSUME ~LockSgl(o), ~EndMatch(o), ~StartAdd(o) PROVE GlobalLocks'
    <3>1. SameGlobals
      BY <1>4, <2>7, MostKeepGlobals
    <3>2. \/ LockMatchHead(o) \/ LockLevel(o) \/ StartExecutor(o) \/ Advance(o)
          \/ LockOwnHead(o) \/ SetOrder(o) \/ AddOrder(o)
      BY <1>4, <2>7 DEF ProcessActiveOrder
    <3>3. InSgl(o)' <=> InSgl(o)
      BY <1>0, <2>1, <3>2 DEF LockMatchHead, LockLevel, LevelPc, StartExecutor, Advance,
         LockOwnHead, SetOrder, AddOrder, PlaceFound, PlacePc, AddStep, NewLevel,
         AppendOrder, Goto, InSgl
    <3> QED
      BY <1>1, <1>2, <2>1, <2>2, <3>1, <3>3
  <2>8. left = 0 \/ left > 0
    BY <2>9
  <2> QED
    BY <2>4, <2>5, <2>6, <2>7, <2>8
<1>5. ASSUME NEW x \in CancelId, ProcessCancelOrder(x) PROVE GlobalLocks'
  <2>1. OnlyMoves(x) /\ x \in Command /\ x \notin OrderId
    BY <1>0, <1>5, WhoMoves DEF Command
  <2>2. conn' = conn
    BY <1>5 DEF ProcessCancelOrder, LockCancelHead, QueueCancel, CancelStep, CancelFails,
       CancelSucceeds, connVars
  <2> QED
    BY <1>1, <1>2, <1>5, <2>1, <2>2, MostKeepGlobals
<1>6. ASSUME (\E o \in OrderId : ExecuteOrder(o)) \/ Printer \/ Terminated PROVE GlobalLocks'
  <2>1. conn' = conn /\ UNCHANGED locals
    BY <1>0, <1>6, WhoMoves DEF ExecuteOrder, Trade, EndExecutor, Printer, NextChannel,
       PrintLine, Terminated, vars, connVars
  <2> QED
    BY <1>1, <1>3, <1>6, <2>1, MostKeepGlobals
<1>7. ASSUME NEW c \in Client, HandleConn(c) PROVE GlobalLocks'
  <2>1. ASSUME NEW o \in OrderId, ReadOrder(c, o) PROVE GlobalLocks'
    <3>1. OnlyMoves(o) /\ conn' = conn /\ locked' = locked /\ pc'[o] = "lock sgl"
      BY <1>0, <2>1, WhoMoves DEF ReadOrder, bookVars, Goto, Command
    <3>2. ~InSgl(o)
      <4>1. pc[o] = "unread"
        BY <1>0, <2>1, <3>1, Reading DEF ReadOrder, Reads, Command
      <4> QED
        BY <4>1 DEF InSgl
    <3>3. SameGlobals /\ ~InSgl(o)'
      BY <3>1 DEF SameGlobals, InSgl
    <3> QED
      BY <1>1, <1>2, <3>1, <3>2, <3>3 DEF Command
  <2>2. ASSUME NEW x \in CancelId, Unknown(c, x) PROVE GlobalLocks'
    <3>1. UNCHANGED locals /\ locked' = locked \cup {"ordersLock"} /\ conn'[c] = "reject unknown"
      BY <1>0, <2>2 DEF Unknown, Acquire
    <3>2. "sgl" \in locked' <=> "sgl" \in locked
      BY <3>1
    <3> QED
      BY <1>3, <3>1, <3>2 DEF GlobalLocks
  <2>3. ASSUME NEW x \in CancelId, Foreign(c, x) \/ Dispatch(c, x) PROVE GlobalLocks'
    <3>1. /\ UNCHANGED locals \/ OnlyMoves(x)
          /\ locked' = locked
          /\ \A d \in Client : conn[d] = "reject unknown" => conn'[d] = "reject unknown"
      BY <1>0, <2>3, WhoMoves DEF Foreign, Dispatch, LooksUp, Reads, bookVars
    <3>2. \A o \in OrderId : InSgl(o)' <=> InSgl(o)
      BY <1>0, <1>2, <1>3, <3>1 DEF Command
    <3> QED
      BY <3>1, <3>2 DEF GlobalLocks
  <2>4. ASSUME Reject(c) PROVE GlobalLocks'
    <3>1. UNCHANGED locals
      BY <2>4 DEF Reject
    <3>2. "sgl" \in locked' <=> "sgl" \in locked
      BY <2>4 DEF Reject, Release
    <3>3. "ordersLock" \in locked' =>
            "ordersLock" \in locked /\ conn[c] # "reject unknown"
      BY <2>4 DEF Reject, Release
    <3>4. \A d \in Client : d # c => conn'[d] = conn[d]
      BY <1>0, <2>4 DEF Reject
    <3>5. "ordersLock" \in locked' => \E d \in Client : conn'[d] = "reject unknown"
      BY <3>3, <3>4 DEF GlobalLocks
    <3> QED
      BY <1>3, <3>1, <3>2, <3>5 DEF GlobalLocks
  <2> QED
    BY <1>7, <2>1, <2>2, <2>3, <2>4 DEF HandleConn
<1> QED
  BY <1>4, <1>5, <1>6, <1>7 DEF Next, Goroutines

(* Both locks are used as they should at all times. *)
LEMMA GlobalLocksHold == Spec => []GlobalLocks
<1>1. Init => GlobalLocks
  BY DEF Init, GlobalLocks, InSgl, Command
<1>2. LockInv /\ GlobalLocks /\ [Next]_vars => GlobalLocks'
  <2>1. ASSUME GlobalLocks, UNCHANGED vars PROVE GlobalLocks'
    BY <2>1 DEF vars, connVars, bookVars, locals, GlobalLocks, InSgl
  <2> QED
    BY <2>1, GlobalLocksStep
<1> QED
  BY <1>1, <1>2, LockInvHolds, PTL DEF Spec

-----------------------------------------------------------------------------
(* Uncrossed lists.  An order is committed when its match has left something *)
(* of it.  At the end of its match nothing is left in the other list that   *)
(* it could trade with, and so it stays while sgl keeps others from         *)
(* committing; who still walks to his place stands on a level of that list. *)
Committed(o) ==
  \/ pc[o] \in {"lock own head", "set", "queue add", "add", "new level", "append"}
  \/ o \in Linked

NothingLeftToMatch(o) ==
  pc[o] = "matched" /\ v[o] > 0
    => next[MatchHead(o)] = Nil \/ ~Matches(o, next[MatchHead(o)])

Uncrossed ==
  \A o, p \in OrderId :
    (Committed(o) /\ Committed(p) /\ Terms[o].side # Terms[p].side) => ~Matches(o, p)

CrossInv == (\A o \in OrderId : NothingLeftToMatch(o)) /\ Uncrossed

(* What matching means, for orders of either side. *)
LEMMA Meeting ==
  ASSUME NEW o \in OrderId, NEW p \in OrderId, Terms[o].side # Terms[p].side
  PROVE  /\ MatchHead(o) = OwnHead(p)
         /\ Matches(o, p) <=> Matches(p, o)
         /\ \A q \in OrderId : (Ahead(q, p) \/ SameLevel(q, p)) /\ ~Matches(o, q)
                                 => ~Matches(o, p)
<1>1. /\ Terms[o].side \in {"buy", "sell"} /\ Terms[p].side \in {"buy", "sell"}
      /\ \A q \in OrderId : PriceOf(q) = Terms[q].price /\ Terms[q].price \in Nat
  BY SidesAndPrices
<1>2. MatchHead(o) = OwnHead(p)
  BY <1>1 DEF MatchHead, OwnHead, HeadOf, Opposite
<1> QED
  BY <1>1, <1>2 DEF Matches, Before, Opposite, Ahead, SameLevel

(* A list whose first level is too dear is too dear. *)
LEMMA BehindTheFirst ==
  ASSUME LockInv, LinksSorted, NEW o \in OrderId,
         next[MatchHead(o)] = Nil \/ ~Matches(o, next[MatchHead(o)])
  PROVE  \A p \in Linked \cap OrderId : Terms[o].side # Terms[p].side => ~Matches(o, p)
<1> USE HeadsAreNodes
<1>0. \A n \in Node : next[n] # Nil => next[n] \in OrderId /\ InFront(n, next[n])
  BY DEF LockInv, Types, TypeOK, LinksSorted
<1>1. PICK L \in SUBSET OrderId :
        L = {p \in OrderId : Terms[o].side # Terms[p].side => ~Matches(o, p)}
  OBVIOUS
<1>2. ASSUME NEW n \in Heads \cup L, next[n] # Nil PROVE next[n] \in L
  <2>1. PICK m \in OrderId : m = next[n] /\ InFront(n, m)
    BY <1>0, <1>2
  <2>2. SUFFICES ASSUME Terms[o].side # Terms[m].side PROVE ~Matches(o, m)
    BY <1>1, <2>1
  <2>3. CASE n = OwnHead(m)
    BY <2>1, <2>2, <2>3, Meeting
  <2>4. CASE n \in OrderId /\ Ahead(n, m)
    <3>1. Terms[o].side # Terms[n].side /\ n \in L
      BY <1>2, <2>2, <2>4 DEF Ahead
    <3>2. ~Matches(o, n)
      BY <1>1, <3>1
    <3> QED
      BY <2>2, <2>4, <3>2, Meeting
  <2> QED
    BY <2>1, <2>3, <2>4 DEF InFront
<1>3. FollowsLinks(L)
  BY <1>2 DEF FollowsLinks
<1> QED
  BY <1>1, <1>3, LinkedIsLeast

(* Only AddOrder links a level. *)
LEMMA WhatComes ==
  ASSUME LockInv, LockInv', ListInv, Next
  PROVE  \A o \in (Linked' \ Linked) \cap OrderId : pc[o] = "new level" /\ NewLevel(o)
<1> USE HeadsAreNodes
<1>0. /\ TypeOK /\ TypeOK' /\ Labels /\ Standing /\ LocksHaveOneUser /\ OneBehind
      /\ Heads \subseteq Linked /\ Linked \subseteq Node
      /\ \A n \in Linked : next[n] # Nil => next[n] \in Linked
      /\ next \in [Node -> OrderId \cup {Nil}]
  BY LinkedIsClosed DEF LockInv, Types, TypeOK, ListInv
<1>1. ASSUME next' = next PROVE Linked' = Linked
  BY <1>1, SameLinks
<1>2. ASSUME NEW o \in OrderId, LockLevel(o) \/ Advance(o), next' # next
      PROVE  Linked' \subseteq Linked
  <2>1. PICK h \in Linked : h = MatchHead(o) /\ h \in Heads
    BY <1>0
  <2>2. PICK n : next' = [next EXCEPT ![h] = n] /\ (n # Nil => n \in Linked)
    <3>1. CASE LockLevel(o)
      <4>1. pc[o] = "lock level" /\ next' = [next EXCEPT ![h] = curr[o]]
        BY <1>2, <2>1, <3>1 DEF LockLevel, Unlink
      <4>2. curr[o] \in Linked
        <5>1. next[h] = curr[o] \/ (next[h] # Nil /\ next[next[h]] = curr[o])
          BY <2>1, <4>1 DEF ListInv, OnList, MatchesOnList, Command
        <5>2. curr[o] # Nil
          BY <1>0, <4>1 DEF Standing, StandsWell, Command
        <5> QED
          BY <1>0, <2>1, <5>1, <5>2
      <4> QED
        BY <4>1, <4>2
    <3>2. CASE Advance(o)
      BY <1>2, <2>1, <3>2 DEF Advance, Unlink
    <3> QED
      BY <1>2, <3>1, <3>2
  <2>3. PICK L \in SUBSET OrderId : L = Linked \cap OrderId
    OBVIOUS
  <2>4. \A m \in Heads \cup L : m \in Linked /\ (next'[m] # Nil => next'[m] \in Linked)
    BY <1>0, <2>1, <2>2, <2>3
  <2>5. \A m \in Heads \cup L : next'[m] # Nil => next'[m] \in OrderId
    BY ZenonT(30), <1>0, <2>3 DEF TypeOK
  <2>6. FollowsLinks(L)'
    BY <2>3, <2>4, <2>5 DEF FollowsLinks
  <2>7. \A m \in Linked' : m \in Heads \/ m \in L
    BY <2>6 DEF Linked
  <2> QED
    BY <1>0, <2>3, <2>7
<1>3. ASSUME NEW o \in OrderId, NewLevel(o)
      PROVE  Linked' = Linked \cup {o} /\ pc[o] = "new level"
  <2>1. PICK p \in Linked : p = curr[o] /\ pc[o] = "new level"
    BY <1>3 DEF NewLevel, ListInv, OnList, WalksOnList, Command
  <2>2. next' = [next EXCEPT ![o] = next[p], ![p] = o]
    BY <1>3, <2>1 DEF NewLevel
  <2>3. \A n \in Node : next[n] # o
    BY <2>1 DEF ListInv, MadeBeforeLinked
  <2>4. p # o
    BY <1>3, <2>1 DEF NewLevel, HandOver, Free
  <2> QED
    BY <1>0, <2>1, <2>2, <2>3, <2>4, Insert
<1>4. ASSUME NEW x \in CancelId, CancelSucceeds(x), next' # next
      PROVE  Linked' \subseteq Linked
  <2>1. PICK m \in Linked : m = curr[x] /\ pc[x] = "cancel" /\ m \in OrderId
    <3>1. pc[x] = "cancel" /\ curr[x] \notin Heads
      BY <1>4 DEF CancelSucceeds, AtLevel
    <3>2. curr[x] \in Linked
      BY <3>1 DEF ListInv, OnList, WalksOnList, Command
    <3> QED
      BY <1>0, <3>1, <3>2 DEF Node
  <2>2. PICK p \in Linked : p = prev[x] /\ next[p] = m
    BY <1>0, <2>1 DEF ListInv, OnList, WalksOnList, Command
  <2>3. p # m
    BY <1>0, <2>1, <2>2 DEF Standing, StandsWell, Command
  <2>4. next' = [next EXCEPT ![p] = next[m]]
    BY <1>4, <2>1, <2>2 DEF CancelSucceeds, DropLevel
  <2> QED
    BY <1>0, <2>1, <2>2, <2>3, <2>4, Shortcut
<1>5. \/ next' = next
      \/ \E o \in OrderId : LockLevel(o) \/ Advance(o) \/ NewLevel(o)
      \/ \E x \in CancelId : CancelSucceeds(x)
  BY DEF Next, Goroutines, Printer, Terminated,
     HandleConn, ProcessActiveOrder, ExecuteOrder, AddOrder, ProcessCancelOrder,
     ReadOrder, Unknown, Foreign, Dispatch, Reject, LockSgl, LockMatchHead,
     StartExecutor, EndMatch, LockOwnHead, SetOrder, StartAdd, PlaceFound,
     AddStep, AppendOrder, Trade, EndExecutor, LockCancelHead, QueueCancel, CancelStep,
     CancelFails, NextChannel, PrintLine, vars, bookVars
<1> QED
  BY <1>1, <1>2, <1>3, <1>4, <1>5

(* A match ends when nothing is left of the order, when the other list is   *)
(* empty, or when its first level does not match.                           *)
LEMMA NothingLeftStep ==
  ASSUME LockInv, ListInv, Next, NEW o \in OrderId, NothingLeftToMatch(o)
  PROVE  NothingLeftToMatch(o)'
<1> USE HeadsAreNodes
<1>0. /\ TypeOK /\ Labels /\ Standing /\ MatchesOnList(o) /\ o \in Command
      /\ next \in [Node -> OrderId \cup {Nil}]
      /\ pc \in [Command -> {"unread", "done"} \cup OrderPc \cup CancelPc]
  BY DEF LockInv, Types, TypeOK, ListInv, OnList, Command
<1>1. PICK h \in Node : h = MatchHead(o)
  OBVIOUS
<1>2. PICK first, left : first = next'[h] /\ left = v'[o]
  OBVIOUS
<1>3. SUFFICES ASSUME pc'[o] = "matched", left > 0
               PROVE  first = Nil \/ ~Matches(o, first)
  BY <1>1, <1>2 DEF NothingLeftToMatch
<1>4. v[o] \in Nat
  <2>1. v[o] \in 0 .. Modulus - 1 /\ Modulus \in Nat
    BY <1>0, GoBookAssumption DEF TypeOK
  <2> QED
    BY <2>1
<1>5. ASSUME pc'[o] = pc[o], v'[o] = v[o]
      PROVE  first = Nil \/ ~Matches(o, first)
  <2>1. Uses(o) = {h}
    BY <1>0, <1>1, <1>3, <1>5, UsesAt
  <2>2. next'[h] = next[h]
    <3>1. h \in Uses(o)
      BY <2>1
    <3> QED
      BY <1>5, <3>1, LinkStays
  <2> QED
    BY <1>1, <1>2, <1>3, <1>5, <2>2 DEF NothingLeftToMatch
<1>6. ASSUME LockMatchHead(o) PROVE first = Nil
  BY <1>0, <1>1, <1>2, <1>3, <1>6 DEF LockMatchHead, LevelPc, Goto
<1>7. ASSUME LockLevel(o) PROVE ~Matches(o, first)
  <2>1. pc[o] = "lock level" /\ left = v[o]
    BY <1>2, <1>7 DEF LockLevel
  <2>2. ~(v[o] # 0 /\ Matches(o, curr[o]))
    BY <1>0, <1>3, <1>7 DEF LockLevel, Goto
  <2>3. v[o] # 0
    <3>1. left \in Nat /\ left > 0
      BY <1>3, <1>4, <2>1
    <3>2. left # 0
      BY <3>1
    <3> QED
      BY <2>1, <3>2
  <2>4. CASE popPrev[o]
    <3>1. next' = [next EXCEPT ![h] = curr[o]]
      BY <1>1, <1>7, <2>4 DEF LockLevel, Unlink
    <3>2. first = curr[o]
      BY <1>0, <1>1, <1>2, <3>1
    <3> QED
      BY <2>2, <2>3, <3>2
  <2>5. CASE ~popPrev[o]
    <3>1. next' = next
      BY <1>7, <2>5 DEF LockLevel, Unlink
    <3>2. next[h] = curr[o]
      BY <1>0, <1>1, <2>1, <2>3, <2>5 DEF MatchesOnList, HandedOver
    <3> QED
      BY <1>2, <2>2, <2>3, <3>1, <3>2
  <2> QED
    BY <2>4, <2>5
<1>8. ASSUME Advance(o) PROVE first = Nil
  <2>1. pc[o] = "advance" /\ left = v[o]
    BY <1>2, <1>8 DEF Advance
  <2>2. next[curr[o]] = Nil
    BY <1>0, <1>3, <1>8 DEF Advance, LevelPc, Goto
  <2>3. popPrev[o]
    <3>1. v[o] # 0
      BY <1>3, <1>4, <2>1
    <3> QED
      BY <1>0, <2>1, <3>1 DEF MatchesOnList, HandedOver
  <2>4. next' = [next EXCEPT ![h] = Nil]
    BY <1>1, <1>8, <2>2, <2>3 DEF Advance, Unlink
  <2> QED
    BY <1>0, <1>1, <1>2, <2>4
<1>9. ASSUME \/ LockSgl(o) \/ StartExecutor(o) \/ EndMatch(o) \/ LockOwnHead(o)
             \/ SetOrder(o) \/ StartAdd(o) \/ AddOrder(o)
             \/ \E k \in Client : ReadOrder(k, o)
      PROVE  FALSE
  BY <1>0, <1>3, <1>9 DEF LockSgl, StartExecutor, EndMatch, LockOwnHead, SetOrder,
     StartAdd, AddOrder, PlaceFound, PlacePc, AddStep, NewLevel, AppendOrder, ReadOrder, Goto
<1>10. ASSUME NEW k \in Command, k # o, OnlyMoves(k) PROVE pc'[o] = pc[o] /\ v'[o] = v[o]
  BY <1>10 DEF OnlyMoves, Command
<1>11. ASSUME UNCHANGED locals PROVE pc'[o] = pc[o] /\ v'[o] = v[o]
  BY <1>11 DEF locals
<1>12. \/ UNCHANGED locals
       \/ \E k \in Command : k # o /\ OnlyMoves(k)
       \/ ProcessActiveOrder(o) \/ AddOrder(o) \/ \E k \in Client : ReadOrder(k, o)
  <2>1. \A x \in CancelId : x # o
    BY GoBookAssumption
  <2> QED
    BY <1>0, <2>1, WhoMoves DEF Next, Goroutines, HandleConn, Command
<1> QED
  BY <1>5, <1>6, <1>7, <1>8, <1>9, <1>10, <1>11, <1>12 DEF ProcessActiveOrder

(* An order that commits can trade with no committed order. *)
LEMMA CommitsUncrossed ==
  ASSUME LockInv, ListInv, SortInv, GlobalLocks, NEW o \in OrderId, NothingLeftToMatch(o),
         pc[o] = "matched", v[o] > 0, NEW p \in OrderId, Committed(p),
         Terms[o].side # Terms[p].side
  PROVE  ~Matches(o, p)
<1> USE HeadsAreNodes
<1>1. \A n \in Linked \cap OrderId : Terms[o].side # Terms[n].side => ~Matches(o, n)
  BY BehindTheFirst DEF NothingLeftToMatch, SortInv
<1>2. CASE p \in Linked
  BY <1>1, <1>2
<1>3. CASE pc[p] \in {"lock own head", "set", "queue add"}
  BY <1>3 DEF GlobalLocks, InSgl
<1>4. CASE pc[p] \in {"add", "new level", "append"}
  <2>1. PICK c : c = curr[p]
    OBVIOUS
  <2>2. c \in Linked
    BY <1>4, <2>1 DEF ListInv, OnList, WalksOnList, Command
  <2>3. InFront(c, p) \/ SameLevel(c, p)
    BY <1>4, <2>1 DEF SortInv, AtPlace
  <2>4. c # MatchHead(o)
    <3>1. Uses(o) = {MatchHead(o)} /\ Uses(p) = {c} /\ o # p
      BY <1>4, <2>1, UsesAt DEF Command
    <3> QED
      BY <3>1 DEF LockInv, LocksHaveOneUser, Command
  <2>5. c \in OrderId /\ (Ahead(c, p) \/ SameLevel(c, p))
    BY <2>3, <2>4, Meeting DEF InFront, SameLevel
  <2>6. ~Matches(o, c)
    BY <1>1, <2>2, <2>5 DEF Ahead, SameLevel
  <2> QED
    BY <2>5, <2>6, Meeting
<1> QED
  BY <1>2, <1>3, <1>4 DEF Committed

(* Orders commit at the end of their matches only. *)
LEMMA WhoCommits ==
  ASSUME LockInv, LockInv', ListInv, Next, NEW o \in OrderId, Committed(o)', ~Committed(o)
  PROVE  /\ EndMatch(o) /\ pc[o] = "matched" /\ v[o] > 0
         /\ \A p \in OrderId \ {o} : Committed(p)' => Committed(p)
<1> USE HeadsAreNodes
<1>0. /\ TypeOK /\ Labels /\ o \in Command
      /\ pc \in [Command -> {"unread", "done"} \cup OrderPc \cup CancelPc]
  BY DEF LockInv, Types, TypeOK, Command
<1>1. o \notin Linked'
  BY WhatComes DEF Committed
<1>2. pc'[o] \in {"lock own head", "set", "queue add", "add", "new level", "append"}
      /\ pc'[o] # pc[o]
  BY <1>1 DEF Committed
<1>3. EndMatch(o)
  <2>1. ASSUME NEW k \in Command, k # o, OnlyMoves(k) PROVE pc'[o] = pc[o]
    BY <2>1 DEF OnlyMoves, Command
  <2>2. ASSUME UNCHANGED locals PROVE pc'[o] = pc[o]
    BY <2>2 DEF locals
  <2>3. \/ UNCHANGED locals
        \/ \E k \in Command : k # o /\ OnlyMoves(k)
        \/ ProcessActiveOrder(o) \/ AddOrder(o) \/ \E k \in Client : ReadOrder(k, o)
    <3>1. \A x \in CancelId : x # o
      BY GoBookAssumption
    <3> QED
      BY <1>0, <3>1, WhoMoves DEF Next, Goroutines, HandleConn, Command
  <2>4. ASSUME \/ LockSgl(o) \/ LockMatchHead(o) \/ LockLevel(o) \/ StartExecutor(o)
               \/ Advance(o) \/ LockOwnHead(o) \/ SetOrder(o) \/ StartAdd(o) \/ AddOrder(o)
               \/ \E k \in Client : ReadOrder(k, o)
        PROVE  FALSE
    BY <1>0, <1>2, <2>4 DEF Committed, LockSgl, LockMatchHead, LockLevel, LevelPc,
       StartExecutor, Advance, LockOwnHead, SetOrder, StartAdd, AddOrder, PlaceFound,
       PlacePc, AddStep, NewLevel, AppendOrder, ReadOrder, Goto
  <2> QED
    BY <1>2, <2>1, <2>2, <2>3, <2>4 DEF ProcessActiveOrder
<1>4. pc[o] = "matched" /\ v[o] > 0
  BY <1>0, <1>2, <1>3 DEF EndMatch, Goto
<1>5. Linked' = Linked
  BY <1>3, SameLinks DEF EndMatch
<1>6. \A p \in OrderId \ {o} : pc'[p] = pc[p]
  BY <1>0, <1>3, WhoMoves DEF ProcessActiveOrder, OnlyMoves, Command
<1> QED
  BY <1>3, <1>4, <1>5, <1>6 DEF Committed

(* Every step keeps the lists uncrossed. *)
LEMMA CrossStep ==
  LockInv /\ LockInv' /\ ListInv /\ SortInv /\ GlobalLocks /\ CrossInv /\ [Next]_vars
    => CrossInv'
<1> SUFFICES ASSUME LockInv, LockInv', ListInv, SortInv, GlobalLocks, CrossInv, [Next]_vars
             PROVE  CrossInv'
  OBVIOUS
<1>1. ASSUME Next PROVE CrossInv'
  <2>1. \A o \in OrderId : NothingLeftToMatch(o)'
    BY <1>1, NothingLeftStep DEF CrossInv
  <2>2. ASSUME NEW o \in OrderId, NEW p \in OrderId, Committed(o)', Committed(p)',
               Terms[o].side # Terms[p].side
        PROVE  ~Matches(o, p)
    <3>1. CASE Committed(o) /\ Committed(p)
      BY <2>2, <3>1 DEF CrossInv, Uncrossed
    <3>2. CASE ~Committed(o)
      <4>1. pc[o] = "matched" /\ v[o] > 0 /\ Committed(p)
        BY <1>1, <2>2, <3>2, WhoCommits
      <4> QED
        BY <2>2, <4>1, CommitsUncrossed DEF CrossInv
    <3>3. CASE ~Committed(p)
      <4>1. pc[p] = "matched" /\ v[p] > 0 /\ Committed(o)
        BY <1>1, <2>2, <3>3, WhoCommits
      <4>2. ~Matches(p, o)
        BY <2>2, <4>1, CommitsUncrossed DEF CrossInv
      <4> QED
        BY <2>2, <4>2, Meeting
    <3> QED
      BY <3>1, <3>2, <3>3
  <2>3. Uncrossed'
    BY <2>2 DEF Uncrossed, Matches
  <2> QED
    BY <2>1, <2>3 DEF CrossInv
<1>2. CASE UNCHANGED vars
  <2>1. Linked' = Linked
    BY <1>2, SameLinks DEF vars, bookVars
  <2> QED
    BY <1>2, <2>1 DEF vars, bookVars, locals, CrossInv, NothingLeftToMatch, Uncrossed,
       Committed, Matches
<1> QED
  BY <1>1, <1>2

(* No order is committed at first. *)
LEMMA CrossInit == Init => CrossInv
<1> SUFFICES ASSUME Init PROVE CrossInv
  OBVIOUS
<1> USE HeadsAreNodes
<1>1. /\ \A o \in OrderId : pc[o] = "unread"
      /\ \A n \in Node : next[n] = Nil
  BY DEF Init, Command
<1>2. \A o \in OrderId : o \notin Linked
  <2>1. FollowsLinks({})
    BY <1>1 DEF FollowsLinks
  <2> QED
    BY <2>1 DEF Linked
<1> QED
  BY <1>1, <1>2 DEF CrossInv, NothingLeftToMatch, Uncrossed, Committed

(* No buy level is ever in its list while a sell level it could trade with  *)
(* is in the other: what an order matches under the lock of the other head  *)
(* stays matched until it is added under its own, because sgl is held from  *)
(* one to the other and AddOrder adds committed orders only.                *)
LEMMA BooksNeverCross == PricesAboveZero => (Spec => []NeverCrossed)
<1> SUFFICES ASSUME PricesAboveZero PROVE Spec => []NeverCrossed
  OBVIOUS
<1>1. Spec => []SortInv
  BY SortInvHolds
<1>2. CrossInv => NeverCrossed
  <2> SUFFICES ASSUME CrossInv, NEW b \in Linked \cap OrderId, NEW s \in Linked \cap OrderId,
                      Terms[b].side = "buy", Terms[s].side = "sell"
               PROVE  Terms[b].price < Terms[s].price
    BY DEF NeverCrossed
  <2>1. ~Matches(b, s)
    BY DEF CrossInv, Uncrossed, Committed
  <2> QED
    BY <2>1, SidesAndPrices DEF Matches, Before, Opposite
<1> QED
  BY <1>1, <1>2, CrossInit, CrossStep, LockInvHolds, ListInvHolds, GlobalLocksHold, PTL
  DEF Spec

(* The lists are in order, each of them and the two together, at all times, *)
(* if no order has the price of the heads.                                  *)
THEOREM BooksStayInOrder == PricesAboveZero => (Spec => []BooksInOrder)
<1>1. BooksSorted /\ NeverCrossed => BooksInOrder
  BY DEF BooksInOrder
<1> QED
  BY <1>1, ListsAreSorted, BooksNeverCross, PTL

-----------------------------------------------------------------------------
(* No empty levels.  A linked level has orders, more than an executor in it  *)
(* can trade, or MatchOrder is about to unlink it, or AddOrder is about to   *)
(* append an order to it.                                                   *)
Stays(n) == queue[n] # <<>> /\ \A e \in executors : e.level = n => e.left < volume[n]

GoingToLeave(n) ==
  \E o \in OrderId :
    /\ popPrev[o]
    /\ \/ pc[o] = "advance" /\ curr[o] = n
       \/ pc[o] = "lock level" /\ next[MatchHead(o)] = n

Filling(n) == \E o \in OrderId : pc[o] = "append" /\ curr[o] = n

NoneEmpty == \A n \in Linked \cap OrderId : Stays(n) \/ GoingToLeave(n) \/ Filling(n)

(* What has a volume has orders. *)
LEMMA VolumeOfNothing ==
  VolumeInv => \A n \in Node : volume[n] # 0 => queue[n] # <<>>
<1> SUFFICES ASSUME VolumeInv, NEW n \in Node, queue[n] = <<>> PROVE volume[n] = 0
  OBVIOUS
<1>1. PICK x \in Int : HasSum(<<>>, x) /\ volume[n] = ToUInt(x)
  BY DEF VolumeInv, SumsModulo
<1>2. PICK sum \in [Nat -> Int] : Sums(<<>>, sum) /\ x = sum[0]
  BY <1>1 DEF HasSum
<1>3. x = 0
  BY <1>2 DEF Sums
<1>4. ToUInt(0) = 0
  BY GoBookAssumption, SmallIsItself
<1> QED
  BY <1>1, <1>3, <1>4

(* The same of the state after a step. *)
LEMMA VolumeOfNothingLater ==
  VolumeInv' => \A n \in Node : volume'[n] # 0 => queue'[n] # <<>>
<1>1. VolumeInv => \A n \in Node : volume[n] # 0 => queue[n] # <<>>
  BY VolumeOfNothing
<1>2. (VolumeInv => \A n \in Node : volume[n] # 0 => queue[n] # <<>>)'
  BY <1>1, PTL
<1> QED
  BY <1>2

(* An executor that cannot trade all of its level leaves some of it. *)
LEMMA StaysByTrade ==
  ASSUME TypeOK, LocksHaveOneUser, VolumeInv, VolumeInv', VolumeIsSum, RestsWithSize,
         NEW n \in OrderId, Stays(n), NEW e \in executors, Trade(e), e.level = n
  PROVE  Stays(n)'
<1> USE HeadsAreNodes
<1>1. PICK q \in Seq(OrderId) : q = queue[n] /\ q # <<>>
  BY WhatRests DEF Trade
<1>2. e.left < volume[n]
  BY DEF Stays
<1>4. e \in Executor /\ Modulus \in Nat
  BY GoBookAssumption DEF TypeOK
<1>5. PICK l \in Nat, a \in Nat, b \in Nat :
        l = e.left /\ a = volume[n] /\ b = count[Head(q)] /\ a < Modulus
  <2>1. e.left \in 0 .. Modulus - 1 /\ volume[n] \in 0 .. Modulus - 1
    BY <1>4 DEF TypeOK, Executor
  <2>2. count[Head(q)] \in Nat
    BY <1>1, FirstInVolume
  <2>3. Modulus - 1 \in Int
    BY <1>4
  <2> QED
    BY <1>4, <2>1, <2>2, <2>3
<1>6. PICK s \in Nat : s = (IF l >= b THEN b ELSE l) /\ s <= l /\ l < a
  BY <1>2, <1>5
<1>7. /\ executors' = (executors \ {e}) \cup {[e EXCEPT !.left = l - s]}
      /\ Shrink(n, s)
  BY <1>1, <1>5, <1>6 DEF Trade
<1>8. volume'[n] = a - s
  <2>1. a - s \in Int /\ 0 <= a - s /\ a - s < Modulus
    BY SMTT(30), <1>4, <1>5, <1>6
  <2>2. ToUInt(a - s) = a - s
    BY <2>1, SmallIsItself
  <2> QED
    BY <1>5, <1>7, <2>2 DEF Shrink, TypeOK
<1>9. PICK f : f = [e EXCEPT !.left = l - s]
  OBVIOUS
<1>10. f.level = n /\ f.left = l - s
  BY <1>4, <1>9 DEF Executor
<1>11. \A d \in executors' : d.level = n => d = f
  BY <1>7, <1>9 DEF LocksHaveOneUser
<1>12. l - s < a - s /\ a - s # 0
  BY <1>6
<1>13. queue'[n] # <<>>
  BY <1>8, <1>12, VolumeOfNothingLater
<1> QED
  BY <1>8, <1>10, <1>11, <1>12, <1>13 DEF Stays

(* A level that nobody trades with stays when it has orders. *)
LEMMA StaysLocked ==
  ASSUME LocksHaveOneUser, NEW k \in Command, NEW n \in Uses(k),
         executors' = executors, queue'[n] # <<>>
  PROVE  Stays(n)'
BY DEF Stays, LocksHaveOneUser

(* A level stays that does not change. *)
LEMMA StaysAlone ==
  ASSUME NEW n, Stays(n), queue'[n] = queue[n], volume'[n] = volume[n],
         \A e \in executors' : e.level = n => e \in executors
  PROVE  Stays(n)'
BY DEF Stays

(* What leaves, leaves. *)
LEMMA GoneByMatch ==
  ASSUME LockInv, LockInv', ListInv, NEW o \in OrderId, popPrev[o]
  PROVE  /\ LockLevel(o) => next[MatchHead(o)] \notin Linked'
         /\ Advance(o) /\ next[curr[o]] = Nil => curr[o] \notin Linked'
<1> USE HeadsAreNodes
<1>0. /\ TypeOK /\ TypeOK' /\ Standing /\ OneBehind /\ o \in Command
      /\ Heads \subseteq Linked /\ Linked \subseteq Node
      /\ \A n \in Linked : next[n] # Nil => next[n] \in Linked
      /\ next \in [Node -> OrderId \cup {Nil}]
  BY LinkedIsClosed DEF LockInv, Types, TypeOK, ListInv, Command
<1>1. PICK h \in Linked : h = MatchHead(o) /\ h \in Heads
  BY <1>0
<1>2. ASSUME LockLevel(o) PROVE next[h] \notin Linked'
  <2>2. PICK m : m = next[h]
    OBVIOUS
  <2>3. /\ pc[o] = "lock level" /\ curr[o] \in OrderId
        /\ next' = [next EXCEPT ![h] = curr[o]]
    BY <1>0, <1>1, <1>2 DEF LockLevel, Unlink, Standing, StandsWell
  <2>4. m # Nil /\ next[m] = curr[o]
    BY <1>0, <1>1, <2>2, <2>3 DEF ListInv, OnList, MatchesOnList
  <2>5. m \in OrderId /\ h # m
    BY <1>0, <1>1, <2>2, <2>4
  <2>6. Linked' = Linked \ {m}
    BY <1>0, <1>1, <2>2, <2>3, <2>4, <2>5, Shortcut
  <2> QED
    BY <2>2, <2>6
<1>3. ASSUME Advance(o), next[curr[o]] = Nil PROVE curr[o] \notin Linked'
  <2>2. PICK m : m = curr[o]
    OBVIOUS
  <2>3. /\ pc[o] = "advance" /\ m \in OrderId /\ next[m] = Nil
        /\ next' = [next EXCEPT ![h] = next[m]]
    BY <1>0, <1>1, <1>3, <2>2 DEF Advance, Unlink, Standing, StandsWell
  <2>4. m = next[h]
    BY <1>0, <1>1, <2>2, <2>3 DEF ListInv, OnList, MatchesOnList
  <2>5. h # m
    BY <1>1, <2>3
  <2>6. Linked' = Linked \ {m}
    BY <1>0, <1>1, <2>3, <2>4, <2>5, Shortcut
  <2> QED
    BY <2>2, <2>6
<1> QED
  BY <1>1, <1>2, <1>3

(* A level that a cancel empties is not linked any more. *)
LEMMA GoneByCancel ==
  ASSUME LockInv, LockInv', ListInv, NEW x \in CancelId, CancelSucceeds(x),
         volume'[curr[x]] = 0
  PROVE  curr[x] \notin Linked'
<1> USE HeadsAreNodes
<1>0. /\ TypeOK /\ TypeOK' /\ Standing /\ OneBehind /\ x \in Command
      /\ Heads \subseteq Linked /\ Linked \subseteq Node
  BY LinkedIsClosed DEF LockInv, Types, ListInv, Command
<1>1. PICK m \in Linked : m = curr[x] /\ pc[x] = "cancel" /\ m \in OrderId
  <2>1. pc[x] = "cancel" /\ curr[x] \notin Heads
    BY DEF CancelSucceeds, AtLevel
  <2>2. curr[x] \in Linked
    BY <1>0, <2>1 DEF ListInv, OnList, WalksOnList
  <2> QED
    BY <1>0, <2>1, <2>2 DEF Node
<1>2. PICK p \in Linked : p = prev[x] /\ next[p] = m
  BY <1>0, <1>1 DEF ListInv, OnList, WalksOnList
<1>3. p # m
  BY <1>0, <1>1, <1>2 DEF Standing, StandsWell
<1>4. next' = [next EXCEPT ![p] = next[m]]
  BY <1>1, <1>2 DEF CancelSucceeds, DropLevel
<1>5. Linked' = Linked \ {m}
  BY <1>0, <1>1, <1>2, <1>3, <1>4, Shortcut
<1> QED
  BY <1>1, <1>5

(* Who is going to unlink a level does so before he lets go of it. *)
LEMMA LeavingStep ==
  ASSUME LockInv, LockInv', ListInv, Next, NEW n \in OrderId, GoingToLeave(n), n \in Linked'
  PROVE  GoingToLeave(n)'
<1> USE HeadsAreNodes
<1>0. /\ TypeOK /\ Labels /\ Standing
      /\ next \in [Node -> OrderId \cup {Nil}]
      /\ pc \in [Command -> {"unread", "done"} \cup OrderPc \cup CancelPc]
  BY DEF LockInv, Types, TypeOK
<1>1. PICK o \in OrderId : /\ popPrev[o]
                           /\ \/ pc[o] = "advance" /\ curr[o] = n
                              \/ pc[o] = "lock level" /\ next[MatchHead(o)] = n
  BY DEF GoingToLeave
<1>2. PICK h \in Heads : h = MatchHead(o)
  OBVIOUS
<1>3. SUFFICES /\ popPrev'[o]
               /\ \/ pc'[o] = "advance" /\ curr'[o] = n
                  \/ pc'[o] = "lock level" /\ next'[h] = n
  BY <1>2 DEF GoingToLeave
<1>4. o \in Command
  BY DEF Command
<1>5. ASSUME pc'[o] = pc[o], popPrev'[o] = popPrev[o], curr'[o] = curr[o]
      PROVE  /\ popPrev'[o]
             /\ \/ pc'[o] = "advance" /\ curr'[o] = n
                \/ pc'[o] = "lock level" /\ next'[h] = n
  <2>1. next'[h] = next[h]
    <3>1. Uses(o) = {MatchHead(o)}
      BY <1>1, <1>4, UsesAt
    <3>2. h \in Uses(o) /\ h \in Node
      BY <1>2, <3>1
    <3> QED
      BY <1>5, <3>2, LinkStays
  <2> QED
    BY <1>1, <1>2, <1>5, <2>1
<1>6. ~LockLevel(o)
  BY <1>1, GoneByMatch DEF LockLevel
<1>7. ASSUME Advance(o) PROVE popPrev'[o] /\ pc'[o] = "lock level" /\ next'[h] = n
  <2>1. pc[o] = "advance" /\ curr[o] = n /\ popPrev' = popPrev
    BY <1>1, <1>7 DEF Advance
  <2>2. next[n] # Nil
    BY <1>1, <1>7, <2>1, GoneByMatch
  <2>3. next' = next /\ pc'[o] = "lock level"
    BY <1>0, <1>4, <1>7, <2>1, <2>2 DEF Advance, LevelPc, Goto
  <2>4. next[h] = n
    BY <1>2, <2>1 DEF ListInv, OnList, MatchesOnList, Command
  <2> QED
    BY <1>1, <2>1, <2>3, <2>4
<1>8. ASSUME \/ LockSgl(o) \/ LockMatchHead(o) \/ StartExecutor(o) \/ EndMatch(o)
             \/ LockOwnHead(o) \/ SetOrder(o) \/ StartAdd(o) \/ AddOrder(o)
             \/ \E k \in Client : ReadOrder(k, o)
      PROVE  FALSE
  <2>1. ASSUME NEW c \in Client, ReadOrder(c, o) PROVE pc[o] = "unread"
    BY <1>0, <1>4, <2>1, Reading DEF ReadOrder, Reads
  <2> QED
    BY <1>1, <1>8, <2>1 DEF LockSgl, LockMatchHead, StartExecutor, EndMatch, LockOwnHead,
       SetOrder, StartAdd, AddOrder, PlaceFound, AddStep, NewLevel, AppendOrder
<1>9. ASSUME NEW k \in Command, k # o, OnlyMoves(k)
      PROVE  pc'[o] = pc[o] /\ popPrev'[o] = popPrev[o] /\ curr'[o] = curr[o]
  BY <1>9 DEF OnlyMoves, Command
<1>10. ASSUME UNCHANGED locals
       PROVE  pc'[o] = pc[o] /\ popPrev'[o] = popPrev[o] /\ curr'[o] = curr[o]
  BY <1>10 DEF locals
<1>11. \/ UNCHANGED locals
       \/ \E k \in Command : k # o /\ OnlyMoves(k)
       \/ ProcessActiveOrder(o) \/ AddOrder(o) \/ \E k \in Client : ReadOrder(k, o)
  <2>1. \A x \in CancelId : x # o
    BY GoBookAssumption
  <2> QED
    BY <1>0, <2>1, WhoMoves DEF Next, Goroutines, HandleConn, Command
<1> QED
  BY <1>5, <1>6, <1>7, <1>8, <1>9, <1>10, <1>11 DEF ProcessActiveOrder

(* A level to which an order is appended stays. *)
LEMMA StaysByAppend ==
  ASSUME LockInv, NEW o \in OrderId, AppendOrder(o), NEW n, n = curr[o]
  PROVE  Stays(n)'
<1> USE HeadsAreNodes
<1>0. /\ LocksHaveOneUser /\ queue \in [Node -> Seq(OrderId)] /\ o \in Command
      /\ Standing
  BY DEF LockInv, Types, TypeOK, Command
<1>1. pc[o] = "append" /\ n \in Node
  BY <1>0 DEF AppendOrder, Standing, StandsWell
<1>2. n \in Uses(o)
  <2>1. Uses(o) = {curr[o]}
    BY <1>0, <1>1, UsesAt
  <2> QED
    BY <2>1
<1>3. PICK q \in Seq(OrderId) : q = queue[n]
  BY <1>0, <1>1
<1>4. queue' = [queue EXCEPT ![n] = Append(q, o)] /\ executors' = executors
  BY <1>3 DEF AppendOrder
<1>5. Append(q, o) # <<>>
  BY <1>3
<1>6. queue'[n] # <<>>
  BY <1>0, <1>1, <1>4, <1>5
<1> QED
  BY <1>0, <1>2, <1>4, <1>6, StaysLocked

(* Who is going to append an order to a level does so. *)
LEMMA FillingStep ==
  ASSUME LockInv, Next, NEW n \in OrderId, Filling(n)
  PROVE  Filling(n)' \/ Stays(n)'
<1> USE HeadsAreNodes
<1>0. /\ TypeOK /\ Labels /\ LocksHaveOneUser /\ queue \in [Node -> Seq(OrderId)]
      /\ pc \in [Command -> {"unread", "done"} \cup OrderPc \cup CancelPc]
  BY DEF LockInv, Types, TypeOK
<1>1. PICK o \in OrderId : pc[o] = "append" /\ curr[o] = n /\ o \in Command
  BY DEF Filling, Command
<1>2. ASSUME pc'[o] = pc[o], curr'[o] = curr[o] PROVE Filling(n)'
  BY <1>1, <1>2 DEF Filling
<1>3. ASSUME AppendOrder(o) PROVE Stays(n)'
  BY <1>1, <1>3, StaysByAppend
<1>4. ASSUME \/ ProcessActiveOrder(o) \/ PlaceFound(o) \/ AddStep(o) \/ NewLevel(o)
             \/ \E k \in Client : ReadOrder(k, o)
      PROVE  FALSE
  <2>1. ASSUME NEW c \in Client, ReadOrder(c, o) PROVE pc[o] = "unread"
    BY <1>0, <1>1, <2>1, Reading DEF ReadOrder, Reads
  <2> QED
    BY <1>1, <1>4, <2>1 DEF ProcessActiveOrder, LockSgl, LockMatchHead, LockLevel, Advance,
       StartExecutor, EndMatch, LockOwnHead, SetOrder, StartAdd, PlaceFound, AddStep, NewLevel
<1>5. ASSUME NEW k \in Command, k # o, OnlyMoves(k) PROVE pc'[o] = pc[o] /\ curr'[o] = curr[o]
  BY <1>5 DEF OnlyMoves, Command
<1>6. ASSUME UNCHANGED locals PROVE pc'[o] = pc[o] /\ curr'[o] = curr[o]
  BY <1>6 DEF locals
<1>7. \/ UNCHANGED locals
      \/ \E k \in Command : k # o /\ OnlyMoves(k)
      \/ ProcessActiveOrder(o) \/ AddOrder(o) \/ \E k \in Client : ReadOrder(k, o)
  <2>1. \A x \in CancelId : x # o
    BY GoBookAssumption
  <2> QED
    BY <1>0, <2>1, WhoMoves DEF Next, Goroutines, HandleConn, Command
<1> QED
  BY <1>2, <1>3, <1>4, <1>5, <1>6, <1>7 DEF AddOrder

(* A level that has orders keeps some, or is unlinked, or is used up by an   *)
(* executor whose order unlinks it.                                         *)
LEMMA StayingStep ==
  ASSUME LockInv, LockInv', ListInv, VolumeInv, VolumeInv', VolumeIsSum, RestsWithSize, Next,
         NEW n \in OrderId, Stays(n), n \in Linked'
  PROVE  Stays(n)' \/ GoingToLeave(n)'
<1> USE HeadsAreNodes
<1>0. /\ TypeOK /\ Labels /\ Standing /\ LocksHaveOneUser
      /\ queue \in [Node -> Seq(OrderId)] /\ volume \in [Node -> 0 .. Modulus - 1]
      /\ pc \in [Command -> {"unread", "done"} \cup OrderPc \cup CancelPc]
      /\ popPrev \in [OrderId -> BOOLEAN]
  BY DEF LockInv, Types, TypeOK
<1>1. ASSUME queue'[n] = queue[n], volume'[n] = volume[n],
             \A e \in executors' : e.level = n => e \in executors
      PROVE  Stays(n)'
  BY <1>1, StaysAlone
<1>2. ASSUME NEW o \in OrderId, AppendOrder(o) PROVE Stays(n)'
  <2>1. PICK m \in Node : m = curr[o] /\ pc[o] = "append"
    BY <1>0, <1>2 DEF AppendOrder, Standing, StandsWell, Command
  <2>2. /\ queue' = [queue EXCEPT ![m] = Append(@, o)] /\ executors' = executors
        /\ Grow(m, count[o])
    BY <1>2, <2>1 DEF AppendOrder
  <2>3. CASE m = n
    BY <1>2, <2>1, <2>3, StaysByAppend
  <2>4. CASE m # n
    BY <1>0, <1>1, <2>2, <2>4 DEF Grow
  <2> QED
    BY <2>3, <2>4
<1>3. ASSUME NEW x \in CancelId, CancelSucceeds(x) PROVE Stays(n)'
  <2>1. PICK m \in Node : m = curr[x] /\ pc[x] = "cancel" /\ x \in Command
    BY <1>0, <1>3 DEF CancelSucceeds, Standing, StandsWell, Command
  <2>2. executors' = executors /\ Shrink(m, count[About[x]])
        /\ \E i : queue' = [queue EXCEPT ![m] = RemoveAt(@, i)]
    BY <1>3, <2>1 DEF CancelSucceeds
  <2>3. CASE m = n
    <3>1. queue'[n] # <<>>
      BY <1>3, <2>1, <2>3, GoneByCancel, VolumeOfNothingLater
    <3>2. n \in Uses(x)
      <4>1. Uses(x) = {curr[x], prev[x]} \ {Nil}
        BY <2>1, UsesAt
      <4> QED
        BY <2>1, <2>3, <4>1
    <3> QED
      BY <1>0, <2>1, <2>2, <3>1, <3>2, StaysLocked
  <2>4. CASE m # n
    BY <1>0, <1>1, <2>2, <2>4 DEF Shrink
  <2> QED
    BY <2>3, <2>4
<1>4. ASSUME NEW o \in OrderId, StartExecutor(o) PROVE Stays(n)' \/ GoingToLeave(n)'
  <2>1. PICK m : m = curr[o]
    OBVIOUS
  <2>2. PICK e : e = [order |-> o, level |-> m, left |-> v[o], channel |-> Len(outputs')]
    OBVIOUS
  <2>3. /\ executors' = executors \cup {e} /\ e.level = m /\ e.left = v[o]
        /\ queue' = queue /\ volume' = volume
        /\ popPrev'[o] = UsesUp(o, m) /\ pc'[o] = "advance" /\ curr' = curr
    BY <1>0, <1>4, <2>1, <2>2 DEF StartExecutor, bookVars, Goto, Command
  <2>4. CASE m # n
    BY <1>1, <2>3, <2>4
  <2>5. CASE m = n /\ UsesUp(o, m)
    BY <2>1, <2>3, <2>5 DEF GoingToLeave
  <2>6. CASE m = n /\ ~UsesUp(o, m)
    <3>1. v[o] < volume[n]
      <4>1. v[o] \in Nat /\ volume[n] \in Nat
        <5>1. v[o] \in 0 .. Modulus - 1 /\ volume[n] \in 0 .. Modulus - 1 /\ Modulus \in Nat
          BY <1>0, GoBookAssumption DEF TypeOK
        <5> QED
          BY <5>1
      <4> QED
        BY <2>6, <4>1 DEF UsesUp
    <3> QED
      BY <2>3, <3>1 DEF Stays
  <2> QED
    BY <2>4, <2>5, <2>6
<1>5. ASSUME NEW e \in executors, Trade(e) PROVE Stays(n)'
  <2>1. CASE e.level = n
    BY <1>0, <1>5, <2>1, StaysByTrade
  <2>2. CASE e.level # n
    <3>1. PICK m : m = e.level /\ m # n
      BY <2>2
    <3>2. /\ queue' = queue \/ queue' = [queue EXCEPT ![m] = Tail(@)]
          /\ \E s : Shrink(m, s)
          /\ \E s : executors' = (executors \ {e}) \cup {[e EXCEPT !.left = s]}
      BY <1>5, <3>1 DEF Trade
    <3>3. queue'[n] = queue[n]
      BY <1>0, <3>1, <3>2
    <3>4. volume'[n] = volume[n]
      BY <1>0, <3>1, <3>2 DEF Shrink
    <3>5. \A d \in executors' : d.level = n => d \in executors
      <4>1. e \in Executor
        BY <1>0 DEF TypeOK
      <4>2. \A s : [e EXCEPT !.left = s].level = m
        BY <3>1, <4>1 DEF Executor
      <4> QED
        BY <3>1, <3>2, <4>2
    <3> QED
      BY <1>1, <3>3, <3>4, <3>5
  <2> QED
    BY <2>1, <2>2
<1>6. ASSUME NEW e \in executors, EndExecutor(e) PROVE Stays(n)'
  BY <1>1, <1>6 DEF EndExecutor
<1>7. ASSUME UNCHANGED <<queue, volume, executors>> PROVE Stays(n)'
  BY <1>1, <1>7
<1> QED
  BY <1>2, <1>3, <1>4, <1>5, <1>6, <1>7 DEF Next, Goroutines, Printer, Terminated,
     HandleConn, ProcessActiveOrder, ExecuteOrder, AddOrder, ProcessCancelOrder,
     ReadOrder, Unknown, Foreign, Dispatch, Reject, LockSgl, LockMatchHead, LockLevel,
     Advance, EndMatch, LockOwnHead, SetOrder, StartAdd, PlaceFound,
     AddStep, NewLevel, LockCancelHead, QueueCancel, CancelStep, CancelFails,
     NextChannel, PrintLine, vars, bookVars

(* No step leaves a level of a list empty. *)
LEMMA NoneEmptyStep ==
  ASSUME LockInv, LockInv', ListInv, VolumeInv, VolumeInv', VolumeIsSum, RestsWithSize,
         NoneEmpty, Next
  PROVE  NoneEmpty'
<1> SUFFICES ASSUME NEW n \in OrderId, n \in Linked'
             PROVE  Stays(n)' \/ GoingToLeave(n)' \/ Filling(n)'
  BY DEF NoneEmpty
<1>1. CASE n \notin Linked
  <2>1. NewLevel(n)
    BY <1>1, WhatComes
  <2>2. pc'[n] = "append" /\ curr'[n] = n
    BY <2>1, HeadsAreNodes DEF NewLevel, Goto, LockInv, Types, TypeOK
  <2> QED
    BY <2>2 DEF Filling
<1>2. CASE n \in Linked
  <2>1. Stays(n) \/ GoingToLeave(n) \/ Filling(n)
    BY <1>2 DEF NoneEmpty
  <2> QED
    BY <2>1, LeavingStep, FillingStep, StayingStep
<1> QED
  BY <1>1, <1>2

-----------------------------------------------------------------------------
(* The map of the orders has those that rest in a level and those on their  *)
(* way to one.                                                              *)
Enters(o) == pc[o] \in {"queue add", "add", "new level", "append"}
Rests(o) == \E n \in Node : \E i \in DOMAIN queue[n] : queue[n][i] = o
Registered == \A o \in OrderId : o \in orders <=> Enters(o) \/ Rests(o)

(* Taking one order out of a level takes no other out. *)
LEMMA RestsWithout ==
  ASSUME TypeOK, RestsOnce, NEW n \in Node, NEW k \in DOMAIN queue[n],
         NEW r \in Seq(OrderId), Without(queue[n], k, r),
         queue' = [queue EXCEPT ![n] = r]
  PROVE  \A o \in OrderId : Rests(o)' <=> Rests(o) /\ o # queue[n][k]
<1>1. queue \in [Node -> Seq(OrderId)]
  BY DEF TypeOK
<1>2. PICK q \in Seq(OrderId) : q = queue[n]
  BY <1>1
<1>3. PICK m \in Nat : m = Len(q) /\ DOMAIN q = 1 .. m /\ DOMAIN r = 1 .. m - 1 /\ k \in 1 .. m
  <2>1. Len(q) \in Nat /\ DOMAIN q = 1 .. Len(q) /\ DOMAIN r = 1 .. Len(r)
    OBVIOUS
  <2>2. Len(r) = Len(q) - 1 /\ k \in DOMAIN q
    BY <1>2 DEF Without
  <2> QED
    BY <2>1, <2>2
<1>4. \A i \in 1 .. m - 1 : r[i] = IF i < k THEN q[i] ELSE q[i + 1]
  BY <1>2, <1>3 DEF Without
<1>5. queue'[n] = r /\ \A l \in Node : l # n => queue'[l] = queue[l]
  BY <1>1
<1>6. ASSUME NEW i \in DOMAIN r PROVE \E j \in DOMAIN q : j # k /\ r[i] = q[j]
  <2>1. CASE i < k
    <3>1. i \in DOMAIN q /\ i # k /\ r[i] = q[i]
      BY <1>3, <1>4, <2>1
    <3> QED
      BY <3>1
  <2>2. CASE ~(i < k)
    <3>1. i + 1 \in DOMAIN q /\ i + 1 # k /\ r[i] = q[i + 1]
      BY <1>3, <1>4, <2>2
    <3> QED
      BY <3>1
  <2> QED
    BY <2>1, <2>2
<1>7. ASSUME NEW j \in DOMAIN q, j # k PROVE \E i \in DOMAIN r : r[i] = q[j]
  <2>1. CASE j < k
    <3>1. j \in DOMAIN r /\ r[j] = q[j]
      BY <1>3, <1>4, <2>1
    <3> QED
      BY <3>1
  <2>2. CASE ~(j < k)
    <3>1. j - 1 \in DOMAIN r /\ ~(j - 1 < k) /\ j - 1 + 1 = j
      BY <1>3, <1>7, <2>2
    <3>2. r[j - 1] = q[j]
      BY <1>3, <1>4, <3>1
    <3> QED
      BY <3>1, <3>2
  <2> QED
    BY <2>1, <2>2
<1>8. ASSUME NEW o \in OrderId, Rests(o)' PROVE Rests(o) /\ o # queue[n][k]
  <2>1. PICK l \in Node : \E i \in DOMAIN queue'[l] : queue'[l][i] = o
    BY <1>8 DEF Rests
  <2>2. \E j \in DOMAIN queue[l] : queue[l][j] = o /\ ~(l = n /\ j = k)
    BY <1>2, <1>5, <1>6, <2>1
  <2> QED
    BY <2>2 DEF Rests, RestsOnce
<1>9. ASSUME NEW o \in OrderId, Rests(o), o # queue[n][k] PROVE Rests(o)'
  <2>1. PICK l \in Node : \E j \in DOMAIN queue[l] : queue[l][j] = o /\ ~(l = n /\ j = k)
    BY <1>9 DEF Rests
  <2>2. \E i \in DOMAIN queue'[l] : queue'[l][i] = o
    BY <1>2, <1>5, <1>7, <2>1
  <2> QED
    BY <2>2 DEF Rests
<1> QED
  BY <1>8, <1>9

(* Who starts and who ends his way into a level. *)
LEMMA WhoEnters ==
  ASSUME LockInv, Next, NEW o \in OrderId, ~SetOrder(o), ~AppendOrder(o)
  PROVE  Enters(o)' <=> Enters(o)
<1> USE HeadsAreNodes
<1>0. /\ TypeOK /\ Labels /\ o \in Command
      /\ pc \in [Command -> {"unread", "done"} \cup OrderPc \cup CancelPc]
  BY DEF LockInv, Types, TypeOK, Command
<1>1. ASSUME NEW k \in Command, k # o, OnlyMoves(k) PROVE pc'[o] = pc[o]
  BY <1>1 DEF OnlyMoves, Command
<1>2. ASSUME UNCHANGED locals PROVE pc'[o] = pc[o]
  BY <1>2 DEF locals
<1>3. \/ UNCHANGED locals
      \/ \E k \in Command : k # o /\ OnlyMoves(k)
      \/ ProcessActiveOrder(o) \/ AddOrder(o) \/ \E k \in Client : ReadOrder(k, o)
  <2>1. \A x \in CancelId : x # o
    BY GoBookAssumption
  <2> QED
    BY <1>0, <2>1, WhoMoves DEF Next, Goroutines, HandleConn, Command
<1>4. ASSUME \/ LockSgl(o) \/ LockMatchHead(o) \/ LockLevel(o) \/ StartExecutor(o)
             \/ Advance(o) \/ EndMatch(o) \/ LockOwnHead(o) \/ StartAdd(o) \/ PlaceFound(o)
             \/ AddStep(o) \/ NewLevel(o)
      PROVE  Enters(o)' <=> Enters(o)
  BY <1>0, <1>4 DEF Enters, LockSgl, LockMatchHead, LockLevel, LevelPc,
     StartExecutor, Advance, EndMatch, LockOwnHead, StartAdd, PlaceFound,
     PlacePc, AddStep, NewLevel, Goto
<1>5. ASSUME NEW c \in Client, ReadOrder(c, o) PROVE ~Enters(o) /\ ~Enters(o)'
  <2>1. pc[o] = "unread"
    BY <1>0, <1>5, Reading DEF ReadOrder, Reads
  <2>2. pc'[o] = "lock sgl"
    BY <1>0, <1>5 DEF ReadOrder, Goto
  <2> QED
    BY <2>1, <2>2 DEF Enters
<1> QED
  BY <1>1, <1>2, <1>3, <1>4, <1>5 DEF Enters, ProcessActiveOrder, AddOrder

(* SetOrder registers, executeOrder and CancelOrder take an order out of its *)
(* level and out of the map in one step.                                    *)
LEMMA RegisteredStep ==
  ASSUME LockInv, VolumeInv, Registered, Next
  PROVE  Registered'
<1> USE HeadsAreNodes
<1>0. /\ TypeOK /\ Labels /\ Standing /\ RestsDone /\ RestsOnce
      /\ queue \in [Node -> Seq(OrderId)] /\ orders \subseteq OrderId
      /\ pc \in [Command -> {"unread", "done"} \cup OrderPc \cup CancelPc]
  BY DEF LockInv, Types, TypeOK, VolumeInv
<1>1. \A o \in OrderId : Rests(o) => pc[o] = "done"
  BY <1>0 DEF RestsDone, Rests
<1>2. ASSUME UNCHANGED <<queue, orders>>, \A o \in OrderId : ~SetOrder(o) /\ ~AppendOrder(o)
      PROVE  Registered'
  <2>1. \A o \in OrderId : Enters(o)' <=> Enters(o)
    BY <1>2, WhoEnters
  <2> QED
    BY <1>2, <2>1 DEF Registered, Rests
<1>3. ASSUME NEW o \in OrderId, SetOrder(o) PROVE Registered'
  <2>1. /\ pc' = [pc EXCEPT ![o] = "queue add"]
        /\ queue' = queue /\ orders' = orders \cup {o}
    BY <1>3 DEF SetOrder, Goto, bookVars
  <2>2. \A p \in OrderId : Enters(p)' <=> (Enters(p) \/ p = o)
    BY <1>0, <2>1 DEF Enters, Command
  <2> QED
    BY <2>1, <2>2 DEF Registered, Rests
<1>4. ASSUME NEW o \in OrderId, AppendOrder(o) PROVE Registered'
  <2>1. PICK n \in Node : n = curr[o] /\ pc[o] = "append"
    BY <1>0, <1>4 DEF AppendOrder, Standing, StandsWell, Command
  <2>2. PICK q \in Seq(OrderId) : q = queue[n]
    BY <1>0
  <2>3. PICK r : r = Append(q, o)
    OBVIOUS
  <2>4. /\ pc' = [pc EXCEPT ![o] = "done"] /\ orders' = orders
        /\ queue' = [queue EXCEPT ![n] = r]
    BY <1>4, <2>1, <2>2, <2>3 DEF AppendOrder, Goto
  <2>5. /\ \A i \in DOMAIN q : i \in DOMAIN r /\ r[i] = q[i]
        /\ \A i \in DOMAIN r : (i \in DOMAIN q /\ r[i] = q[i]) \/ r[i] = o
        /\ \E i \in DOMAIN r : r[i] = o
    BY <2>2, <2>3
  <2>6. queue'[n] = r /\ \A m \in Node : m # n => queue'[m] = queue[m]
    BY <1>0, <2>4
  <2>7. ASSUME NEW p \in OrderId PROVE Rests(p)' <=> (Rests(p) \/ p = o)
    BY <2>2, <2>5, <2>6 DEF Rests
  <2>8. \A p \in OrderId : Enters(p)' <=> (Enters(p) /\ p # o)
    BY <1>0, <2>4 DEF Enters, Command
  <2>9. Enters(o)
    BY <2>1 DEF Enters
  <2> QED
    BY <2>4, <2>7, <2>8, <2>9 DEF Registered
<1>5. ASSUME NEW o \in OrderId, Rests(o), orders' = orders \ {o}, pc' = pc \/ \E x \in CancelId : OnlyMoves(x),
             \A p \in OrderId : Rests(p)' <=> Rests(p) /\ p # o
      PROVE  Registered'
  <2>1. \A p \in OrderId : pc'[p] = pc[p]
    BY <1>0, <1>5 DEF OnlyMoves, Command
  <2>2. ~Enters(o)
    BY <1>1, <1>5 DEF Enters
  <2> QED
    BY <1>5, <2>1, <2>2 DEF Registered, Enters
<1>6. ASSUME NEW x \in CancelId, CancelSucceeds(x) PROVE Registered'
  <2>1. PICK n \in Node : n = curr[x]
    BY <1>0, <1>6 DEF CancelSucceeds, Standing, StandsWell, Command
  <2>2. PICK q \in Seq(OrderId) : q = queue[n]
    BY <1>0
  <2>3. PICK i \in DOMAIN q : q[i] = About[x] /\ queue' = [queue EXCEPT ![n] = RemoveAt(q, i)]
    BY <1>6, <2>1, <2>2 DEF CancelSucceeds
  <2>4. RemoveAt(q, i) \in Seq(OrderId) /\ Without(q, i, RemoveAt(q, i))
    <3>1. i \in 1 .. Len(q)
      OBVIOUS
    <3> QED
      BY ZenonT(30), <3>1, Removed DEF Without
  <2>5. \A p \in OrderId : Rests(p)' <=> Rests(p) /\ p # About[x]
    BY <1>0, <2>2, <2>3, <2>4, RestsWithout
  <2>6. Rests(About[x])
    BY <2>2, <2>3 DEF Rests
  <2>7. OnlyMoves(x)
    BY <1>0, <1>6, WhoMoves DEF ProcessCancelOrder
  <2>8. orders' = orders \ {About[x]}
    BY <1>6 DEF CancelSucceeds
  <2> QED
    BY <1>5, <2>5, <2>6, <2>7, <2>8
<1>7. ASSUME NEW e \in executors, Trade(e) PROVE Registered'
  <2>1. PICK n \in Node : n = e.level
    BY <1>0 DEF TypeOK, Executor
  <2>2. PICK q \in Seq(OrderId) : q = queue[n] /\ q # <<>>
    BY <1>0, <1>7, <2>1 DEF Trade
  <2>3. PICK o \in OrderId : o = q[1] /\ o = Head(q) /\ 1 \in DOMAIN q
    BY <2>2, TailFacts
  <2>4. pc' = pc
    BY <1>7 DEF Trade, locals
  <2>5. CASE e.left >= count[o]
    <3>1. queue' = [queue EXCEPT ![n] = Tail(q)] /\ orders' = orders \ {o}
      BY <1>7, <2>1, <2>2, <2>3, <2>5 DEF Trade
    <3>2. Tail(q) \in Seq(OrderId) /\ Without(q, 1, Tail(q))
      <4>1. /\ Len(q) \in Nat /\ Len(q) >= 1
            /\ Len(Tail(q)) = Len(q) - 1 /\ DOMAIN Tail(q) = 1 .. Len(q) - 1
        BY <2>2
      <4>2. /\ Tail(q) \in Seq(OrderId)
            /\ \A i \in DOMAIN Tail(q) : Tail(q)[i] = q[i + 1]
        BY <2>2, TailFacts
      <4> QED
        BY <4>1, <4>2 DEF Without
    <3>3. \A p \in OrderId : Rests(p)' <=> Rests(p) /\ p # o
      BY <1>0, <2>2, <2>3, <3>1, <3>2, RestsWithout
    <3>4. Rests(o)
      BY <2>2, <2>3 DEF Rests
    <3> QED
      BY <1>5, <2>4, <3>1, <3>3, <3>4
  <2>6. CASE ~(e.left >= count[o])
    <3>1. queue' = queue /\ orders' = orders
      BY <1>7, <2>1, <2>2, <2>3, <2>6 DEF Trade
    <3> QED
      BY <2>4, <3>1 DEF Registered, Enters, Rests
  <2> QED
    BY <2>5, <2>6
<1>8. \/ UNCHANGED <<queue, orders>>
      \/ \E o \in OrderId : SetOrder(o) \/ AppendOrder(o)
      \/ \E x \in CancelId : CancelSucceeds(x)
      \/ \E e \in executors : Trade(e)
  BY DEF Next, Goroutines, Printer, Terminated,
     HandleConn, ProcessActiveOrder, ExecuteOrder, AddOrder, ProcessCancelOrder,
     ReadOrder, Unknown, Foreign, Dispatch, Reject, LockSgl, LockMatchHead, LockLevel,
     Advance, StartExecutor, EndMatch, LockOwnHead, StartAdd, PlaceFound, EndExecutor,
     AddStep, NewLevel, LockCancelHead, QueueCancel, CancelStep,
     CancelFails, NextChannel, PrintLine, vars, bookVars
<1> QED
  BY <1>2, <1>3, <1>4, <1>6, <1>7, <1>8

(* And so at every step. *)
LEMMA NothingStranded ==
  NoneEmpty /\ LossInv /\ SoFar /\ SoFar' /\ [Next]_vars => NoneEmpty'
<1> SUFFICES ASSUME NoneEmpty, LossInv, SoFar, SoFar', [Next]_vars PROVE NoneEmpty'
  OBVIOUS
<1>1. ASSUME Next PROVE NoneEmpty'
  BY <1>1, NoneEmptyStep DEF SoFar, LossInv
<1>2. CASE UNCHANGED vars
  BY <1>2 DEF vars, bookVars, locals, NoneEmpty, Stays, GoingToLeave, Filling, Linked,
     FollowsLinks
<1> QED
  BY <1>1, <1>2

(* No level is linked at first. *)
LEMMA InitNoneEmpty == Init => NoneEmpty
<1> SUFFICES ASSUME Init PROVE NoneEmpty
  OBVIOUS
<1>1. FollowsLinks({})
  BY HeadsAreNodes DEF Init, FollowsLinks
<1>2. \A n \in OrderId : n \notin Linked
  BY <1>1, HeadsAreNodes DEF Linked
<1> QED
  BY <1>2 DEF NoneEmpty

(* The map of the orders has them at all times. *)
LEMMA RegisteredHolds == Spec => []Registered
<1>1. Init => Registered
  <2> SUFFICES ASSUME Init PROVE Registered
    OBVIOUS
  <2>1. \A n \in Node : queue[n] = <<>>
    BY DEF Init
  <2>2. orders = {} /\ \A o \in OrderId : pc[o] = "unread"
    BY HeadsAreNodes DEF Init
  <2>3. \A o \in OrderId : ~Rests(o)
    <3>1. DOMAIN <<>> = {}
      OBVIOUS
    <3> QED
      BY <2>1, <3>1 DEF Rests
  <2> QED
    BY <2>2, <2>3 DEF Registered, Enters
<1>2. LockInv /\ VolumeInv /\ Registered /\ [Next]_vars => Registered'
  <2>1. ASSUME Registered, UNCHANGED vars PROVE Registered'
    BY <2>1 DEF vars, bookVars, locals, Registered, Enters, Rests
  <2> QED
    BY <2>1, RegisteredStep
<1> QED
  BY <1>1, <1>2, LockInvHolds, VolumeInvHolds, PTL DEF Spec

(* What is left of all this when nobody is at work. *)
LEMMA QuietIsWhole ==
  LockInv /\ GlobalLocks /\ NoneEmpty /\ Registered /\ NothingIsLost => QuietBookIsWhole
<1> SUFFICES ASSUME LockInv, GlobalLocks, NoneEmpty, Registered, NothingIsLost, Quiet
             PROVE  /\ locked = {}
                    /\ \A n \in Linked \cap OrderId : queue[n] # <<>>
                    /\ orders = UNION {ToSet(queue[n]) : n \in Linked}
  BY DEF QuietBookIsWhole
<1> USE HeadsAreNodes
<1>0. /\ TypeOK /\ Labels /\ LocksHaveOneUser
      /\ locked \subseteq Lock /\ orders \subseteq OrderId
      /\ Heads \subseteq Linked /\ Linked \subseteq Node
  BY LinkedIsClosed DEF LockInv, Types, TypeOK
<1>1. /\ executors = {} /\ \A k \in Command : pc[k] \in {"unread", "done"}
      /\ \A c \in Client : input[c] = <<>>
  BY DEF Quiet
<1>2. locked = {}
  <2>1. \A k \in Command : Uses(k) = {}
    BY <1>1, UsesAt
  <2>2. locked \cap Node = {}
    BY <1>0, <1>1, <2>1 DEF LocksHaveOneUser
  <2>3. "sgl" \notin locked
    BY <1>1 DEF GlobalLocks, InSgl
  <2>4. "ordersLock" \notin locked
    BY <1>0, <1>1 DEF GlobalLocks, Labels
  <2> QED
    BY <1>0, <2>2, <2>3, <2>4 DEF Lock
<1>3. \A n \in Linked \cap OrderId : queue[n] # <<>>
  BY <1>1 DEF NoneEmpty, Stays, GoingToLeave, Filling
<1>4. \A o \in OrderId : o \in orders <=> Rests(o)
  BY <1>1 DEF Registered, Enters
<1>5. \A n \in Node : \A i \in DOMAIN queue[n] : queue[n][i] \in OrderId /\ n \in Linked
  <2> SUFFICES ASSUME NEW n \in Node, NEW i \in DOMAIN queue[n], n \notin Linked PROVE FALSE
    BY <1>0, WhatRests
  <2>1. n \in OrderId \ Linked
    BY <1>0 DEF Node
  <2>2. queue[n] # <<>>
    OBVIOUS
  <2> QED
    BY <1>1, <2>1, <2>2 DEF NothingIsLost
<1>6. ASSUME NEW o PROVE o \in orders <=> \E n \in Linked : o \in ToSet(queue[n])
  BY <1>0, <1>4, <1>5 DEF Rests, ToSet
<1> QED
  BY <1>2, <1>3, <1>6

(* When all is quiet nothing is locked, every level of a list has orders,   *)
(* and the map in which cancels look orders up has just those in the lists: *)
(* whatever was unlinked, by MatchOrder before its level was empty, and by  *)
(* CancelOrder with its last order, was rightly so.  The sizes are such     *)
(* that the volumes do not wrap.                                            *)
THEOREM QuietBooksAreWhole == FewAndSmall => (Spec => []QuietBookIsWhole)
<1>1. FewAndSmall => (Spec => []SoFar)
  BY ListInvHolds, FewOrdersSumUp, LockInvHolds, VolumeInvHolds, PTL DEF SoFar
<1>2. FewAndSmall => (Spec => []LossInv)
  BY <1>1, InitLoss, LossStep, PTL DEF Spec
<1>3. FewAndSmall => (Spec => []NoneEmpty)
  BY <1>1, <1>2, InitNoneEmpty, NothingStranded, PTL DEF Spec
<1> QED
  BY <1>3, QuietIsWhole, LockInvHolds, GlobalLocksHold, RegisteredHolds,
     NothingLeavesWithALevel, PTL

=============================================================================
