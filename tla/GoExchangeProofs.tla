---------------------------- MODULE GoExchangeProofs ----------------------------
(***************************************************************************)
(* When the Go engine is quiet, its lists are what the lines it printed    *)
(* say, for any number of connections and orders.                          *)
(*                                                                         *)
(* Lines are written by goroutines that run at the same time, each into    *)
(* the channel of its command, and main prints the channels in the order   *)
(* of their queue. A line about an order can be printed long after it was  *)
(* written, and what is printed says little of the book until all is       *)
(* quiet. What is true at every step is a balance:                         *)
(*                                                                         *)
(*   OutInv     which goroutine owns which channel, that main prints       *)
(*              none past one that is open, that an order's own line       *)
(*              comes first, and that a line about an order that rests     *)
(*              is in a channel that was queued after the order's.         *)
(*   Accounts   of each order, the units printed as filled, those in       *)
(*              lines that wait, those that an executor is about to take   *)
(*              and those that are left add up to its size, and so do      *)
(*              the numbers of its executions.                             *)
(*                                                                         *)
(* When all is quiet nothing waits and nobody is about to take anything.   *)
(* That an order with units left is then in a list comes from              *)
(* GoBookProofs: no order is lost with its level.                          *)
(***************************************************************************)
EXTENDS GoExchange, GoBookProofs

-----------------------------------------------------------------------------
(* The lines in the channels, by channel and place, and what a step does to *)
(* them.                                                                    *)
IsLine(ch, i) == ch \in DOMAIN outputs /\ i \in DOMAIN outputs[ch].lines
At(ch, i) == outputs[ch].lines[i]
Open(ch) == ch \in DOMAIN outputs /\ ~outputs[ch].closed

SameLines ==
  \A ch, i : /\ IsLine(ch, i)' <=> IsLine(ch, i)
             /\ IsLine(ch, i) => At(ch, i)' = At(ch, i)

Gets(ch, i, line) ==
  /\ ~IsLine(ch, i) /\ IsLine(ch, i)' /\ At(ch, i)' = line
  /\ \A c, j : /\ IsLine(c, j)' => IsLine(c, j) \/ (c = ch /\ j = i)
               /\ IsLine(c, j) => IsLine(c, j)' /\ At(c, j)' = At(c, j)

OpenStay == \A c : Open(c)' <=> Open(c)
Closes(ch) == \A c : Open(c)' <=> Open(c) /\ c # ch
Opens(ch) == \A c : Open(c)' <=> Open(c) \/ c = ch

LEMMA LinesAreTyped ==
  ASSUME Channels
  PROVE  /\ DOMAIN outputs = 1 .. Len(outputs) /\ Len(outputs) \in Nat
         /\ \A ch \in DOMAIN outputs : /\ outputs[ch].lines \in Seq(Line)
                                      /\ outputs[ch].closed \in BOOLEAN
                                      /\ DOMAIN outputs[ch].lines = 1 .. Len(outputs[ch].lines)
                                      /\ Len(outputs[ch].lines) \in Nat
         /\ \A ch, i : IsLine(ch, i) => /\ At(ch, i) \in Line
                                        /\ ch \in Nat /\ ch > 0 /\ ch <= Len(outputs)
                                        /\ i \in Nat /\ i > 0
<1>1. outputs \in Seq(Output)
  BY DEF Channels
<1>2. DOMAIN outputs = 1 .. Len(outputs) /\ Len(outputs) \in Nat
  BY <1>1
<1>3. \A ch \in DOMAIN outputs : outputs[ch] \in Output
  BY <1>1
<1>4. \A ch \in DOMAIN outputs : outputs[ch].lines \in Seq(Line) /\ outputs[ch].closed \in BOOLEAN
  BY <1>3 DEF Output
<1>5. \A ch \in DOMAIN outputs : /\ DOMAIN outputs[ch].lines = 1 .. Len(outputs[ch].lines)
                                  /\ Len(outputs[ch].lines) \in Nat
  BY <1>4
<1>6. ASSUME NEW ch, NEW i, IsLine(ch, i)
      PROVE  /\ At(ch, i) \in Line /\ i \in Nat /\ i > 0
             /\ ch \in Nat /\ ch > 0 /\ ch <= Len(outputs)
  <2>1. ch \in DOMAIN outputs /\ i \in DOMAIN outputs[ch].lines
    BY <1>6 DEF IsLine
  <2>2. PICK s \in Seq(Line) : s = outputs[ch].lines
    BY <1>4, <2>1
  <2>3. i \in DOMAIN s /\ s[i] \in Line
    BY <2>1, <2>2
  <2>4. i \in 1 .. Len(s) /\ Len(s) \in Nat
    BY <2>3
  <2>5. ch \in 1 .. Len(outputs)
    BY <1>2, <2>1
  <2> QED
    BY <1>2, <2>2, <2>3, <2>4, <2>5 DEF At
<1> QED
  BY <1>2, <1>4, <1>5, <1>6

LEMMA SendGets ==
  ASSUME Channels, NEW ch \in DOMAIN outputs, NEW line \in Line,
         Send(ch, line) \/ SendLast(ch, line)
  PROVE  /\ Gets(ch, Len(outputs[ch].lines) + 1, line)
         /\ DOMAIN outputs' = DOMAIN outputs /\ Len(outputs') = Len(outputs)
         /\ Send(ch, line) => OpenStay
         /\ SendLast(ch, line) => Closes(ch)
         /\ \A c \in DOMAIN outputs : c # ch => outputs'[c] = outputs[c]
<1>1. /\ outputs \in Seq(Output) /\ DOMAIN outputs' = DOMAIN outputs
      /\ Len(outputs') = Len(outputs)
  BY SendKeeps DEF Channels
<1>2. \A c \in DOMAIN outputs : c # ch => outputs'[c] = outputs[c]
  BY <1>1 DEF Send, SendLast
<1>3. /\ outputs'[ch].lines = Append(outputs[ch].lines, line)
      /\ Send(ch, line) => outputs'[ch].closed = outputs[ch].closed
      /\ SendLast(ch, line) => outputs'[ch].closed
  <2>0. outputs[ch] \in Output
    BY <1>1
  <2>1. CASE Send(ch, line)
    <3>1. outputs'[ch] = [outputs[ch] EXCEPT !.lines = Append(@, line)]
      BY <1>1, <2>1 DEF Send
    <3>2. SendLast(ch, line) => outputs'[ch].closed
      BY <1>1 DEF SendLast
    <3> QED
      BY <2>0, <3>1, <3>2 DEF Output
  <2>2. CASE SendLast(ch, line) /\ ~Send(ch, line)
    BY <1>1, <2>2 DEF SendLast
  <2> QED
    BY <2>1, <2>2
<1>4. PICK s \in Seq(Line) : s = outputs[ch].lines
  BY LinesAreTyped
<1>5. PICK i : i = Len(s) + 1
  OBVIOUS
<1>6. PICK t : t = Append(s, line)
  OBVIOUS
<1>7. /\ i \notin DOMAIN s /\ t[i] = line
      /\ \A j : j \in DOMAIN t <=> j \in DOMAIN s \/ j = i
      /\ \A j \in DOMAIN s : t[j] = s[j]
  BY <1>5, <1>6
<1>8. Gets(ch, i, line)
  <2>1. \A j : (IsLine(ch, j) <=> j \in DOMAIN s) /\ (IsLine(ch, j)' <=> j \in DOMAIN t)
    BY <1>1, <1>3, <1>4, <1>6 DEF IsLine
  <2>2. \A j : At(ch, j) = s[j] /\ At(ch, j)' = t[j]
    BY <1>3, <1>4, <1>6 DEF At
  <2>3. ASSUME NEW c, NEW j, c # ch
        PROVE  /\ IsLine(c, j)' <=> IsLine(c, j)
               /\ IsLine(c, j) => At(c, j)' = At(c, j)
    <3>1. c \in DOMAIN outputs' <=> c \in DOMAIN outputs
      BY <1>1
    <3>2. c \in DOMAIN outputs => outputs'[c] = outputs[c]
      BY <1>2, <2>3
    <3> QED
      BY <3>1, <3>2 DEF IsLine, At
  <2>4. ~IsLine(ch, i) /\ IsLine(ch, i)' /\ At(ch, i)' = line
    BY <1>7, <2>1, <2>2
  <2>5. ASSUME NEW c, NEW j
        PROVE  /\ IsLine(c, j)' => IsLine(c, j) \/ (c = ch /\ j = i)
               /\ IsLine(c, j) => IsLine(c, j)' /\ At(c, j)' = At(c, j)
    <3>1. CASE c = ch
      BY <1>7, <2>1, <2>2, <3>1
    <3>2. CASE c # ch
      BY <2>3, <3>2
    <3> QED
      BY <3>1, <3>2
  <2> QED
    BY <2>4, <2>5 DEF Gets
<1>9. Send(ch, line) => OpenStay
  BY <1>1, <1>2, <1>3 DEF OpenStay, Open
<1>10. SendLast(ch, line) => Closes(ch)
  BY <1>1, <1>2, <1>3 DEF Closes, Open
<1> QED
  BY <1>1, <1>2, <1>4, <1>5, <1>8, <1>9, <1>10

LEMMA CloseSame ==
  ASSUME Channels, NEW ch \in DOMAIN outputs, outputs' = [outputs EXCEPT ![ch].closed = TRUE]
  PROVE  SameLines /\ Closes(ch) /\ Len(outputs') = Len(outputs)
<1>1. /\ outputs \in Seq(Output) /\ DOMAIN outputs' = DOMAIN outputs
      /\ Len(outputs') = Len(outputs)
  BY CloseKeeps DEF Channels
<1>2. outputs[ch] \in Output
  BY <1>1
<1>3. /\ \A c \in DOMAIN outputs : c # ch => outputs'[c] = outputs[c]
      /\ outputs'[ch] = [outputs[ch] EXCEPT !.closed = TRUE]
  BY <1>1
<1>4. outputs'[ch].lines = outputs[ch].lines /\ outputs'[ch].closed
  BY <1>2, <1>3 DEF Output
<1>5. \A c \in DOMAIN outputs : outputs'[c].lines = outputs[c].lines
  BY <1>3, <1>4
<1> QED
  BY <1>1, <1>3, <1>4, <1>5 DEF SameLines, IsLine, At, Closes, Open

LEMMA QueueSame ==
  ASSUME Channels, Queue(<<>>, FALSE)
  PROVE  SameLines /\ Opens(Len(outputs) + 1) /\ Len(outputs') = Len(outputs) + 1
<1> DEFINE out == [lines |-> <<>>, closed |-> FALSE]
<1>1. outputs \in Seq(Output) /\ outputs' = Append(outputs, out)
  BY DEF Channels, Queue
<1>2. out \in Output /\ out.lines = <<>> /\ ~out.closed
  BY DEF Output
<1> HIDE DEF out
<1>3. DOMAIN out.lines = {}
  BY <1>2
<1>4. PICK m : m = Len(outputs) + 1
  OBVIOUS
<1>5. /\ Len(outputs') = m /\ m \notin DOMAIN outputs /\ outputs'[m] = out
      /\ \A c : c \in DOMAIN outputs' <=> c \in DOMAIN outputs \/ c = m
      /\ \A c \in DOMAIN outputs : outputs'[c] = outputs[c]
  BY <1>1, <1>2, <1>4
<1>6. SameLines
  BY <1>3, <1>5 DEF SameLines, IsLine, At
<1>7. Opens(m)
  BY <1>2, <1>5 DEF Opens, Open
<1> QED
  BY <1>4, <1>5, <1>6, <1>7

LEMMA QueueGets ==
  ASSUME Channels, NEW line \in Line, Queue(<<line>>, TRUE)
  PROVE  /\ Gets(Len(outputs) + 1, 1, line) /\ OpenStay
         /\ Len(outputs') = Len(outputs) + 1
<1> DEFINE out == [lines |-> <<line>>, closed |-> TRUE]
<1>1. outputs \in Seq(Output) /\ outputs' = Append(outputs, out)
  BY DEF Channels, Queue
<1>2. out \in Output /\ out.lines = <<line>> /\ out.closed
  BY DEF Output
<1> HIDE DEF out
<1>3. (\A j : j \in DOMAIN out.lines <=> j = 1) /\ out.lines[1] = line
  BY <1>2
<1>4. PICK m : m = Len(outputs) + 1
  OBVIOUS
<1>5. /\ Len(outputs') = m /\ m \notin DOMAIN outputs /\ outputs'[m] = out
      /\ \A c : c \in DOMAIN outputs' <=> c \in DOMAIN outputs \/ c = m
      /\ \A c \in DOMAIN outputs : outputs'[c] = outputs[c]
  BY <1>1, <1>2, <1>4
<1>6. Gets(m, 1, line)
  BY <1>3, <1>5 DEF Gets, IsLine, At
<1>7. OpenStay
  BY <1>2, <1>5 DEF OpenStay, Open
<1> QED
  BY <1>4, <1>5, <1>6, <1>7

-----------------------------------------------------------------------------
(* Which orders rest in a level. *)
Holds(n, o) == \E i \in DOMAIN queue[n] : queue[n][i] = o

(* What is known of every state that the book goes through. *)
Base == SoFar /\ LossInv /\ Registered

LEMMA BaseGives ==
  ASSUME Base
  PROVE  /\ TypeOK /\ Channels /\ Labels /\ Standing /\ LocksHaveOneUser
         /\ VolumeInv /\ RestsDone /\ RestsOnce /\ VolumeIsSum /\ RestsWithSize /\ LockInv
         /\ \A o \in OrderId : Rests(o) => pc[o] = "done" /\ count[o] > 0
         /\ \A n \in Node, o \in OrderId : Holds(n, o) => Rests(o)
         /\ \A k \in Command : mine[k] \in Nat /\ mine[k] <= Len(outputs)
         /\ Len(outputs) \in Nat /\ DOMAIN outputs = 1 .. Len(outputs)
         /\ \A e \in executors : /\ e \in Executor /\ e.order \in OrderId /\ e.level \in OrderId
                                 /\ e.left \in Nat /\ e.left < Modulus /\ e.channel \in Nat
                                 /\ e.channel > 0 /\ e.channel <= Len(outputs)
         /\ \A o \in OrderId : /\ count[o] \in Nat /\ v[o] \in Nat /\ executionId[o] \in Nat
                               /\ executionId[o] > 0
<1> USE HeadsAreNodes
<1>1. /\ TypeOK /\ Channels /\ Labels /\ Standing /\ LocksHaveOneUser
      /\ VolumeInv /\ RestsDone /\ RestsOnce /\ VolumeIsSum /\ RestsWithSize /\ LockInv
  BY DEF Base, SoFar, LockInv, Types, VolumeInv, LossInv
<1>2. \A o \in OrderId : Rests(o) => pc[o] = "done" /\ count[o] > 0
  BY <1>1 DEF Rests, RestsDone, RestsWithSize
<1>3. \A n \in Node, o \in OrderId : Holds(n, o) => Rests(o)
  BY DEF Holds, Rests
<1>4. Len(outputs) \in Nat /\ DOMAIN outputs = 1 .. Len(outputs)
  BY <1>1, LinesAreTyped
<1>5. \A k \in Command : mine[k] \in Nat /\ mine[k] <= Len(outputs)
  <2>1. \A k \in Command : mine[k] \in 0 .. Len(outputs)
    BY <1>1 DEF TypeOK
  <2> QED
    BY <1>4, <2>1
<1>6. Modulus \in Nat
  BY TermsInRange
<1>7. ASSUME NEW e \in executors
      PROVE  /\ e \in Executor /\ e.order \in OrderId /\ e.level \in OrderId
             /\ e.left \in Nat /\ e.left < Modulus /\ e.channel \in Nat
             /\ e.channel > 0 /\ e.channel <= Len(outputs)
  <2>1. e \in Executor /\ e.channel \in DOMAIN outputs
    BY <1>1 DEF TypeOK, Channels
  <2>2. /\ e.order \in OrderId /\ e.level \in OrderId /\ e.left \in 0 .. Modulus - 1
        /\ e.channel \in Nat \ {0}
    BY <2>1 DEF Executor
  <2>3. e.left \in Nat /\ e.left < Modulus
    BY <1>6, <2>2
  <2>4. e.channel \in 1 .. Len(outputs)
    BY <1>4, <2>1
  <2> QED
    BY <1>4, <2>1, <2>2, <2>3, <2>4
<1>8. ASSUME NEW o \in OrderId
      PROVE  /\ count[o] \in Nat /\ v[o] \in Nat /\ executionId[o] \in Nat /\ executionId[o] > 0
  <2>1. count[o] \in 0 .. Modulus - 1 /\ v[o] \in 0 .. Modulus - 1
    BY <1>1 DEF TypeOK
  <2>2. executionId[o] \in Nat \ {0}
    BY <1>1 DEF TypeOK
  <2> QED
    BY <1>6, <2>1, <2>2
<1> QED
  BY <1>1, <1>2, <1>3, <1>4, <1>5, <1>7, <1>8

-----------------------------------------------------------------------------
(* What the steps do.  executeOrder trades with r, the first of its level. *)
Lessens(e, s) ==
  \E f : /\ executors' = (executors \ {e}) \cup {f}
         /\ f.order = e.order /\ f.level = e.level /\ f.channel = e.channel
         /\ f.left = e.left - s

TradesWith(e, r, s, i) ==
  /\ s \in Nat /\ s > 0 /\ s <= e.left /\ s <= volume[e.level] /\ s <= count[r]
  /\ Holds(e.level, r)
  /\ Lessens(e, s)
  /\ volume' = [volume EXCEPT ![e.level] = volume[e.level] - s]
  /\ Gets(e.channel, i, Executed(e.order, r, s)) /\ OpenStay
  /\ i = Len(outputs[e.channel].lines) + 1
  /\ DOMAIN outputs' = DOMAIN outputs /\ Len(outputs') = Len(outputs)
  /\ \A c \in DOMAIN outputs : c # e.channel => outputs'[c] = outputs[c]
  /\ \/ /\ s = count[r] /\ count' = count /\ executionId' = executionId
        /\ \A o \in OrderId : Rests(o)' <=> Rests(o) /\ o # r
     \/ /\ s < count[r] /\ s = e.left
        /\ count' = [count EXCEPT ![r] = count[r] - s]
        /\ executionId' = [executionId EXCEPT ![r] = executionId[r] + 1]
        /\ \A o \in OrderId : Rests(o)' <=> Rests(o)
  /\ \A n \in Node, o \in OrderId : Holds(n, o)' => Holds(n, o)
  /\ pc' = pc /\ mine' = mine /\ v' = v /\ taken' = taken /\ shown' = shown
  /\ rId' = rId /\ popPrev' = popPrev /\ curr' = curr

LEMMA TradeDoes ==
  ASSUME Base, NEW e \in executors, Trade(e)
  PROVE  \E r \in OrderId, s \in Nat : \E i : TradesWith(e, r, s, i)
<1> USE BaseGives
<1>1. PICK n \in Node : n = e.level /\ e \in Executor
  BY HeadsAreNodes
<1>2. PICK q \in Seq(OrderId) : q = queue[n] /\ q # <<>>
  BY <1>1, WhatRests DEF Trade
<1>3. /\ Head(q) = q[1] /\ 1 \in DOMAIN q /\ q[1] \in OrderId /\ Tail(q) \in Seq(OrderId)
      /\ Len(q) >= 1 /\ Without(q, 1, Tail(q))
  <2>1. /\ Len(q) \in Nat /\ Len(q) >= 1
        /\ Len(Tail(q)) = Len(q) - 1 /\ DOMAIN Tail(q) = 1 .. Len(q) - 1
    BY <1>2
  <2>2. /\ Head(q) = q[1] /\ 1 \in DOMAIN q /\ q[1] \in OrderId /\ Tail(q) \in Seq(OrderId)
        /\ \A i \in DOMAIN Tail(q) : Tail(q)[i] = q[i + 1]
    BY <1>2, TailFacts
  <2> QED
    BY <2>1, <2>2 DEF Without
<1>4. PICK r \in OrderId : r = q[1] /\ r = Head(q)
  BY <1>3
<1>5. PICK a \in Nat, b \in Nat, l \in Nat :
        a = volume[n] /\ b = count[r] /\ l = e.left /\ b > 0 /\ b <= a /\ a < Modulus
  <2>1. volume[n] \in 0 .. Modulus - 1 /\ Modulus \in Nat
    BY TermsInRange DEF TypeOK
  <2>2. volume[n] \in Nat /\ volume[n] < Modulus
    BY <2>1
  <2>3. volume[n] >= count[r] /\ count[r] > 0 /\ count[r] \in Nat
    BY <1>2, <1>4, FirstInVolume
  <2> QED
    BY <2>2, <2>3
<1>6. PICK s \in Nat : s = IF l >= b THEN b ELSE l
  OBVIOUS
<1>7. s > 0 /\ s <= l /\ s <= a /\ s <= b
  <2>1. l # 0
    BY <1>5 DEF Trade
  <2> QED
    BY <1>5, <1>6, <2>1
<1>8. /\ executors' = (executors \ {e}) \cup {[e EXCEPT !.left = l - s]}
      /\ Shrink(n, s)
      /\ Send(e.channel, Executed(e.order, r, s))
      /\ \/ /\ l >= b /\ queue' = [queue EXCEPT ![n] = Tail(q)]
            /\ UNCHANGED <<count, executionId>>
         \/ /\ ~(l >= b)
            /\ count' = [count EXCEPT ![r] = b - s]
            /\ executionId' = [executionId EXCEPT ![r] = executionId[r] + 1]
            /\ queue' = queue
      /\ UNCHANGED <<rId, locals, mine, taken, shown>>
  BY <1>1, <1>2, <1>4, <1>5, <1>6 DEF Trade
<1>9. PICK f : f = [e EXCEPT !.left = l - s]
  OBVIOUS
<1>10. f.order = e.order /\ f.level = e.level /\ f.channel = e.channel /\ f.left = l - s
  BY <1>1, <1>9 DEF Executor
<1>11. Lessens(e, s)
  BY <1>5, <1>8, <1>9, <1>10 DEF Lessens
<1>12. volume' = [volume EXCEPT ![n] = a - s]
  <2>1. ToUInt(a - s) = a - s
    BY <1>5, <1>7, TermsInRange, SmallIsItself
  <2> QED
    BY <1>5, <1>8, <2>1 DEF Shrink
<1>13. Executed(e.order, r, s) \in Line
  <2>1. s \in 0 .. Modulus - 1
    BY <1>5, <1>7, TermsInRange
  <2>2. executionId[r] \in Nat /\ e.order \in OrderId
    BY <1>4
  <2> QED
    BY <2>1, <2>2, TermsInRange DEF Line, Executed
<1>14. PICK i : i = Len(outputs[e.channel].lines) + 1
  OBVIOUS
<1>15. /\ Gets(e.channel, i, Executed(e.order, r, s)) /\ OpenStay
       /\ DOMAIN outputs' = DOMAIN outputs /\ Len(outputs') = Len(outputs)
       /\ \A c \in DOMAIN outputs : c # e.channel => outputs'[c] = outputs[c]
  <2>1. e.channel \in DOMAIN outputs
    BY DEF Channels
  <2> QED
    BY <1>8, <1>13, <1>14, <2>1, SendGets
<1>16. Holds(n, r)
  BY <1>2, <1>3, <1>4 DEF Holds
<1>17. /\ \A m \in Node, o \in OrderId : Holds(m, o)' => Holds(m, o)
       /\ IF l >= b THEN \A o \in OrderId : Rests(o)' <=> Rests(o) /\ o # r
                    ELSE \A o \in OrderId : Rests(o)' <=> Rests(o)
  <2>1. CASE queue' = queue /\ ~(l >= b)
    BY <2>1 DEF Holds, Rests
  <2>2. CASE l >= b /\ queue' = [queue EXCEPT ![n] = Tail(q)]
    <3>0. TypeOK /\ RestsOnce /\ 1 \in DOMAIN queue[n] /\ r = queue[n][1]
      BY <1>2, <1>3, <1>4
    <3>1. \A o \in OrderId : Rests(o)' <=> Rests(o) /\ o # r
      <4>1. Without(queue[n], 1, Tail(q))
        BY <1>2, <1>3
      <4> QED
        BY <1>3, <2>2, <3>0, <4>1, RestsWithout
    <3>2. queue'[n] = Tail(q) /\ \A m \in Node : m # n => queue'[m] = queue[m]
      BY <2>2, WhatRests
    <3>3. \A j \in DOMAIN Tail(q) : j + 1 \in DOMAIN q /\ Tail(q)[j] = q[j + 1]
      BY <1>2, <1>3
    <3>4. ASSUME NEW m \in Node, NEW o \in OrderId, Holds(m, o)' PROVE Holds(m, o)
      <4>1. PICK j \in DOMAIN queue'[m] : queue'[m][j] = o
        BY <3>4 DEF Holds
      <4>2. CASE m = n
        <5>1. j \in DOMAIN Tail(q) /\ Tail(q)[j] = o
          BY <3>2, <4>1, <4>2
        <5> QED
          BY <1>2, <3>3, <4>2, <5>1 DEF Holds
      <4>3. CASE m # n
        BY <3>2, <4>1, <4>3 DEF Holds
      <4> QED
        BY <4>2, <4>3
    <3> QED
      BY <2>2, <3>1, <3>4
  <2> QED
    BY <1>8, <2>1, <2>2
<1>18. \/ /\ s = count[r] /\ count' = count /\ executionId' = executionId
          /\ \A o \in OrderId : Rests(o)' <=> Rests(o) /\ o # r
       \/ /\ s < count[r] /\ s = e.left
          /\ count' = [count EXCEPT ![r] = count[r] - s]
          /\ executionId' = [executionId EXCEPT ![r] = executionId[r] + 1]
          /\ \A o \in OrderId : Rests(o)' <=> Rests(o)
  <2>1. CASE l >= b
    BY <1>5, <1>6, <1>8, <1>17, <2>1
  <2>2. CASE ~(l >= b)
    <3>1. s = l /\ s < b
      BY <1>6, <2>2
    <3> QED
      BY <1>5, <1>8, <1>17, <2>2, <3>1
  <2> QED
    BY <2>1, <2>2
<1>19. /\ pc' = pc /\ mine' = mine /\ v' = v /\ taken' = taken /\ shown' = shown
       /\ rId' = rId /\ popPrev' = popPrev /\ curr' = curr
  BY <1>8 DEF locals
<1> QED
  BY <1>1, <1>5, <1>7, <1>11, <1>12, <1>14, <1>15, <1>16, <1>17, <1>18, <1>19 DEF TradesWith

(* The other steps that change the channels or who writes to them: a new    *)
(* executor and its end, a command that gets its channel, its last line,    *)
(* and the rejection of a connection.                                       *)
SameOrders ==
  /\ count' = count /\ executionId' = executionId /\ rId' = rId
  /\ taken' = taken /\ shown' = shown

SameVolumes == \A e \in executors : volume'[e.level] = volume[e.level]

Planned(e) == IF e.left >= volume[e.level] THEN volume[e.level] ELSE e.left

Starts(o, e) ==
  /\ pc[o] = "execute" /\ pc' = [pc EXCEPT ![o] = "advance"]
  /\ e.order = o /\ e.level = curr[o] /\ e.left = v[o] /\ e.channel = Len(outputs) + 1
  /\ executors' = executors \cup {e} /\ mine' = mine /\ queue' = queue
  /\ volume' = volume /\ v' = [v EXCEPT ![o] = v[o] - Planned(e)]
  /\ SameLines /\ Opens(e.channel) /\ Len(outputs') = Len(outputs) + 1
  /\ SameOrders

Ends(e) ==
  /\ volume[e.level] = 0 \/ e.left = 0
  /\ executors' = executors \ {e} /\ mine' = mine /\ queue' = queue /\ pc' = pc
  /\ volume' = volume /\ v' = v
  /\ SameLines /\ Closes(e.channel) /\ Len(outputs') = Len(outputs)
  /\ SameOrders

Joins(k) ==
  /\ IF k \in OrderId THEN pc[k] = "queue add" /\ pc' = [pc EXCEPT ![k] = "add"]
                      ELSE pc[k] = "queue cancel" /\ pc' = [pc EXCEPT ![k] = "cancel"]
  /\ mine' = [mine EXCEPT ![k] = Len(outputs) + 1]
  /\ executors' = executors /\ queue' = queue /\ volume' = volume /\ v' = v
  /\ SameLines /\ Opens(Len(outputs) + 1) /\ Len(outputs') = Len(outputs) + 1
  /\ SameOrders

WritesLast(k, line) ==
  /\ Writes(k) /\ pc' = [pc EXCEPT ![k] = "done"]
  /\ executors' = executors /\ mine' = mine /\ SameVolumes /\ v' = v
  /\ \E i \in Nat : i = Len(outputs[mine[k]].lines) + 1 /\ Gets(mine[k], i, line)
  /\ Closes(mine[k]) /\ Len(outputs') = Len(outputs)
  /\ SameOrders

Appends(o) ==
  /\ pc[o] = "append" /\ WritesLast(o, Added(o))
  /\ \A p \in OrderId : Rests(p)' <=> Rests(p) \/ p = o
  /\ \A e \in executors, p \in OrderId : Holds(e.level, p)' => Holds(e.level, p)

Answers(x, accepted) ==
  /\ pc[x] = "cancel" /\ WritesLast(x, Deleted(x, accepted))
  /\ accepted => Rests(About[x])
  /\ \A p \in OrderId : Rests(p)' <=> Rests(p) /\ ~(accepted /\ p = About[x])
  /\ \A n \in Node, p \in OrderId : Holds(n, p)' => Holds(n, p)

Rejects(x) ==
  /\ pc' = pc /\ executors' = executors /\ mine' = mine /\ queue' = queue
  /\ volume' = volume /\ v' = v
  /\ Gets(Len(outputs) + 1, 1, Deleted(x, FALSE)) /\ OpenStay
  /\ Len(outputs') = Len(outputs) + 1
  /\ SameOrders

LEMMA StartDoes ==
  ASSUME Base, NEW o \in OrderId, StartExecutor(o)
  PROVE  \E e : Starts(o, e)
<1> USE HeadsAreNodes
<1>0. /\ TypeOK /\ Channels /\ Len(outputs) \in Nat
      /\ pc \in [Command -> {"unread", "done"} \cup OrderPc \cup CancelPc]
      /\ v \in [OrderId -> 0 .. Modulus - 1]
  BY BaseGives DEF TypeOK
<1>1. PICK e : e = [order |-> o, level |-> curr[o], left |-> v[o], channel |-> Len(outputs')]
  OBVIOUS
<1>2. e.order = o /\ e.level = curr[o] /\ e.left = v[o] /\ e.channel = Len(outputs')
  BY <1>1
<1>3. SameLines /\ Opens(Len(outputs) + 1) /\ Len(outputs') = Len(outputs) + 1
  BY <1>0, QueueSame DEF StartExecutor
<1>4. v' = [v EXCEPT ![o] = v[o] - Planned(e)]
  <2>1. v[o] \in Nat
    BY BaseGives
  <2>2. CASE UsesUp(o, curr[o])
    BY <1>2, <2>2 DEF StartExecutor, UsesUp, Planned
  <2>3. CASE ~UsesUp(o, curr[o])
    <3>1. v' = [v EXCEPT ![o] = 0] /\ Planned(e) = v[o]
      BY <1>2, <2>3 DEF StartExecutor, UsesUp, Planned
    <3>2. v[o] - v[o] = 0
      BY <2>1
    <3> QED
      BY <3>1, <3>2
  <2> QED
    BY <2>2, <2>3
<1>5. /\ pc[o] = "execute" /\ pc' = [pc EXCEPT ![o] = "advance"]
      /\ executors' = executors \cup {e} /\ mine' = mine /\ queue' = queue /\ volume' = volume
      /\ SameOrders
  BY <1>1 DEF StartExecutor, Goto, orderVars, bookVars, SameOrders
<1> QED
  BY <1>2, <1>3, <1>4, <1>5 DEF Starts

LEMMA EndDoes ==
  ASSUME Base, NEW e \in executors, EndExecutor(e)
  PROVE  Ends(e)
<1>1. Channels /\ TypeOK /\ e.channel \in DOMAIN outputs /\ e.level \in Node
  BY BaseGives, HeadsAreNodes DEF Channels
<1>2. SameLines /\ Closes(e.channel) /\ Len(outputs') = Len(outputs)
  BY <1>1, CloseSame DEF EndExecutor
<1>3. queue[e.level] = <<>> => volume[e.level] = 0
  <2> SUFFICES ASSUME queue[e.level] = <<>> PROVE volume[e.level] = 0
    OBVIOUS
  <2>1. PICK x \in Int : HasSum(queue[e.level], x)
    BY <1>1, BaseGives DEF VolumeInv, SumsModulo
  <2>2. x = 0
    <3>1. PICK sum \in [Nat -> Int] : Sums(<<>>, sum) /\ x = sum[Len(<<>>)]
      BY <2>1 DEF HasSum
    <3>2. Len(<<>>) = 0
      OBVIOUS
    <3> QED
      BY <3>1, <3>2 DEF Sums
  <2> QED
    BY <1>1, <2>1, <2>2, LevelSum, BaseGives DEF VolumeIsSum
<1> QED
  BY <1>2, <1>3 DEF EndExecutor, Ends, SameOrders, orderVars, locals

LEMMA JoinDoes ==
  ASSUME Base
  PROVE  /\ \A o \in OrderId : StartAdd(o) => Joins(o)
         /\ \A x \in CancelId : QueueCancel(x) => Joins(x)
<1> USE HeadsAreNodes
<1>1. TypeOK /\ Channels
  BY BaseGives
<1>2. ASSUME NEW o \in OrderId, StartAdd(o) PROVE Joins(o)
  <2>1. Queue(<<>>, FALSE)
    BY <1>2 DEF StartAdd, QueueMine
  <2>2. SameLines /\ Opens(Len(outputs) + 1) /\ Len(outputs') = Len(outputs) + 1
    BY <1>1, <2>1, QueueSame
  <2> QED
    BY <1>2, <2>2 DEF StartAdd, QueueMine, Joins, Goto, SameOrders, orderVars
<1>3. ASSUME NEW x \in CancelId, QueueCancel(x) PROVE Joins(x)
  <2>1. Queue(<<>>, FALSE) /\ x \notin OrderId
    BY <1>3 DEF QueueCancel, QueueMine
  <2>2. SameLines /\ Opens(Len(outputs) + 1) /\ Len(outputs') = Len(outputs) + 1
    BY <1>1, <2>1, QueueSame
  <2> QED
    BY <1>3, <2>1, <2>2 DEF QueueCancel, QueueMine, Joins, Goto, SameOrders, orderVars, bookVars
<1> QED
  BY <1>2, <1>3

LEMMA LastLine ==
  ASSUME Base, NEW k \in Command, Writes(k), NEW line \in Line, SendLast(mine[k], line)
  PROVE  /\ \E i \in Nat : i = Len(outputs[mine[k]].lines) + 1 /\ Gets(mine[k], i, line)
         /\ Closes(mine[k]) /\ Len(outputs') = Len(outputs)
<1>1. Channels /\ mine[k] \in DOMAIN outputs
  BY BaseGives DEF Channels
<1>2. PICK n \in Nat : n = Len(outputs[mine[k]].lines)
  BY <1>1, LinesAreTyped
<1>3. n + 1 \in Nat
  OBVIOUS
<1>4. Gets(mine[k], n + 1, line) /\ Closes(mine[k]) /\ Len(outputs') = Len(outputs)
  BY <1>1, <1>2, SendGets
<1> QED
  BY <1>2, <1>3, <1>4

LEMMA AppendDoes ==
  ASSUME Base, NEW o \in OrderId, AppendOrder(o)
  PROVE  Appends(o)
<1> USE HeadsAreNodes
<1>0. TypeOK /\ Standing /\ LocksHaveOneUser /\ pc[o] = "append" /\ Writes(o)
  BY BaseGives DEF AppendOrder, Writes
<1>1. PICK n \in Node : n = curr[o]
  BY <1>0 DEF Standing, StandsWell
<1>2. Added(o) \in Line
  BY <1>0, TermsInRange DEF Line, Added, TypeOK
<1>3. \A e \in executors : e.level # n /\ e.level \in Node
  <2>1. Uses(o) = {n}
    BY <1>0, <1>1, UsesAt
  <2> QED
    BY <1>0, <2>1, BaseGives DEF LocksHaveOneUser
<1>4. SameVolumes
  BY <1>0, <1>1, <1>3 DEF AppendOrder, Grow, SameVolumes, TypeOK
<1>5. WritesLast(o, Added(o))
  <2>1. SendLast(mine[o], Added(o))
    BY DEF AppendOrder
  <2> QED
    BY <1>0, <1>2, <1>4, <2>1, LastLine
    DEF AppendOrder, WritesLast, Goto, SameOrders, orderVars
<1>6. PICK q \in Seq(OrderId) : q = queue[n]
  BY <1>0, WhatRests
<1>7. PICK r : r = Append(q, o)
  OBVIOUS
<1>8. /\ \A i \in DOMAIN q : i \in DOMAIN r /\ r[i] = q[i]
      /\ \A i \in DOMAIN r : (i \in DOMAIN q /\ r[i] = q[i]) \/ r[i] = o
      /\ \E i \in DOMAIN r : r[i] = o
  BY <1>6, <1>7
<1>9. queue'[n] = r /\ \A m \in Node : m # n => queue'[m] = queue[m]
  BY <1>0, <1>1, <1>6, <1>7, WhatRests DEF AppendOrder
<1>10. ASSUME NEW p \in OrderId PROVE Rests(p)' <=> Rests(p) \/ p = o
  BY <1>6, <1>8, <1>9 DEF Rests
<1>11. ASSUME NEW e \in executors, NEW p \in OrderId, Holds(e.level, p)' PROVE Holds(e.level, p)
  BY <1>3, <1>9, <1>11 DEF Holds
<1> QED
  BY <1>0, <1>5, <1>10, <1>11 DEF Appends

LEMMA AnswerDoes ==
  ASSUME Base, NEW x \in CancelId
  PROVE  /\ CancelFails(x) => Answers(x, FALSE)
         /\ CancelSucceeds(x) => Answers(x, TRUE)
<1> USE HeadsAreNodes
<1>0. TypeOK /\ Standing /\ LocksHaveOneUser /\ RestsOnce
  BY BaseGives
<1>1. \A accepted \in BOOLEAN : Deleted(x, accepted) \in Line
  BY DEF Line, Deleted
<1>2. ASSUME CancelFails(x) PROVE Answers(x, FALSE)
  <2>1. pc[x] = "cancel" /\ Writes(x) /\ SendLast(mine[x], Deleted(x, FALSE))
    BY <1>2 DEF CancelFails, Answer, Writes
  <2>2. WritesLast(x, Deleted(x, FALSE))
    BY <1>1, <1>2, <2>1, LastLine
    DEF CancelFails, Answer, WritesLast, Goto, SameOrders, orderVars, SameVolumes
  <2>3. queue' = queue
    BY <1>2 DEF CancelFails
  <2> QED
    BY <2>1, <2>2, <2>3 DEF Answers, Rests, Holds
<1>3. ASSUME CancelSucceeds(x) PROVE Answers(x, TRUE)
  <2>1. pc[x] = "cancel" /\ Writes(x) /\ SendLast(mine[x], Deleted(x, TRUE))
    BY <1>3 DEF CancelSucceeds, Answer, Writes
  <2>2. PICK n \in Node : n = curr[x]
    BY <1>0, <2>1 DEF Standing, StandsWell
  <2>3. \A e \in executors : e.level # n /\ e.level \in Node
    <3>1. n \in Uses(x)
      BY <2>1, <2>2, UsesAt DEF Held
    <3> QED
      BY <1>0, <3>1, BaseGives DEF LocksHaveOneUser
  <2>4. SameVolumes
    BY <1>0, <1>3, <2>2, <2>3 DEF CancelSucceeds, Shrink, SameVolumes, TypeOK
  <2>5. WritesLast(x, Deleted(x, TRUE))
    BY <1>1, <1>3, <2>1, <2>4, LastLine
    DEF CancelSucceeds, Answer, WritesLast, Goto, SameOrders, orderVars
  <2>6. PICK q \in Seq(OrderId) : q = queue[n]
    BY <1>0, WhatRests
  <2>7. PICK i \in DOMAIN q : q[i] = About[x] /\ queue' = [queue EXCEPT ![n] = RemoveAt(q, i)]
    BY <1>3, <2>2, <2>6 DEF CancelSucceeds
  <2>8. RemoveAt(q, i) \in Seq(OrderId) /\ Without(q, i, RemoveAt(q, i))
    <3>1. i \in 1 .. Len(q)
      OBVIOUS
    <3> QED
      BY ZenonT(30), <3>1, Removed DEF Without
  <2>9. \A p \in OrderId : Rests(p)' <=> Rests(p) /\ p # About[x]
    BY <1>0, <2>6, <2>7, <2>8, RestsWithout
  <2>10. Rests(About[x])
    BY <2>6, <2>7 DEF Rests
  <2>11. PICK r \in Seq(OrderId) : r = RemoveAt(q, i)
    BY <2>8
  <2>12. \A j \in DOMAIN r : \E l \in DOMAIN q : r[j] = q[l]
    <3>1. /\ Len(r) = Len(q) - 1 /\ Len(q) \in Nat /\ DOMAIN q = 1 .. Len(q)
          /\ DOMAIN r = 1 .. Len(r)
      BY <2>8, <2>11 DEF Without
    <3>2. \A j \in DOMAIN r : r[j] = IF j < i THEN q[j] ELSE q[j + 1]
      BY <2>8, <2>11, <3>1 DEF Without
    <3>3. \A j \in DOMAIN r : j \in DOMAIN q /\ j + 1 \in DOMAIN q
      BY <3>1
    <3> QED
      BY <3>2, <3>3
  <2>13. queue'[n] = r /\ \A m \in Node : m # n => queue'[m] = queue[m]
    BY <1>0, <2>7, <2>11, WhatRests
  <2>14. ASSUME NEW m \in Node, NEW p \in OrderId, Holds(m, p)' PROVE Holds(m, p)
    <3>1. CASE m = n
      BY <2>6, <2>12, <2>13, <2>14, <3>1 DEF Holds
    <3>2. CASE m # n
      BY <2>13, <2>14, <3>2 DEF Holds
    <3> QED
      BY <3>1, <3>2
  <2> QED
    BY <2>1, <2>5, <2>9, <2>10, <2>14 DEF Answers
<1> QED
  BY <1>2, <1>3

LEMMA RejectDoes ==
  ASSUME Base, NEW c \in Client, Reject(c)
  PROVE  \E x \in CancelId : Rejects(x)
<1>1. Channels /\ Labels
  BY BaseGives
<1>2. PICK x \in CancelId : x = Head(input[c])
  BY <1>1 DEF Reject, Labels
<1>3. Deleted(x, FALSE) \in Line
  BY HeadsAreNodes DEF Line, Deleted
<1>4. PICK line \in Line : line = Deleted(x, FALSE)
  BY <1>3
<1>5. Queue(<<line>>, TRUE)
  BY <1>2, <1>4 DEF Reject
<1>6. /\ Gets(Len(outputs) + 1, 1, line) /\ OpenStay
      /\ Len(outputs') = Len(outputs) + 1
  BY <1>1, <1>5, QueueGets
<1>7. Rejects(x)
  BY <1>4, <1>6 DEF Reject, Rejects, SameOrders, orderVars, locals
<1> QED
  BY <1>7

(* All other steps leave the channels and the levels alone; MatchOrder may  *)
(* end, and a cancel of an order that is in the map orders may begin.       *)
Still ==
  /\ outputs' = outputs /\ mine' = mine /\ executors' = executors /\ queue' = queue
  /\ volume' = volume /\ taken' = taken /\ shown' = shown
  /\ \A k \in Command :
       /\ Writes(k)' <=> Writes(k)
       /\ pc[k] = "done" => pc'[k] = "done"
       /\ pc'[k] = "done" => pc[k] \in {"done", "matched"}
       /\ pc[k] # "unread" => pc'[k] # "unread"
       /\ pc[k] = "queue add" => pc'[k] = "queue add"
  /\ \A x \in CancelId :
       pc'[x] \in {"lock head", "queue cancel"}
         => pc[x] \in {"lock head", "queue cancel"} \/ About[x] \in orders

StillOrder(o) ==
  \/ LockSgl(o) \/ LockMatchHead(o) \/ LockLevel(o) \/ Advance(o) \/ EndMatch(o)
  \/ LockOwnHead(o) \/ SetOrder(o) \/ PlaceFound(o) \/ AddStep(o) \/ NewLevel(o)

LEMMA StillSteps ==
  ASSUME Base
  PROVE  /\ \A c \in Client, o \in OrderId : ReadOrder(c, o) => Still
         /\ \A c \in Client, x \in CancelId :
              Unknown(c, x) \/ Foreign(c, x) \/ Dispatch(c, x) => Still
         /\ \A o \in OrderId : StillOrder(o) => Still
         /\ \A x \in CancelId : LockCancelHead(x) \/ CancelStep(x) => Still
<1> USE HeadsAreNodes
<1>0. /\ TypeOK /\ Labels /\ Standing
      /\ pc \in [Command -> {"unread", "done"} \cup OrderPc \cup CancelPc]
  BY BaseGives DEF TypeOK
<1>1. ASSUME NEW k \in Command, NEW l, pc' = [pc EXCEPT ![k] = l],
             UNCHANGED <<outputs, mine, executors, queue, volume, taken, shown>>,
             Writes(k) <=> l \in {"add", "new level", "append", "cancel"},
             pc[k] # "done", l = "done" => pc[k] = "matched", l # "unread",
             pc[k] = "queue add" => l = "queue add",
             (k \in CancelId /\ l \in {"lock head", "queue cancel"})
               => pc[k] = "lock head" \/ About[k] \in orders
      PROVE  Still
  <2>1. pc'[k] = l /\ \A j \in Command : j # k => pc'[j] = pc[j]
    BY <1>0, <1>1
  <2> QED
    BY <1>1, <2>1 DEF Still, Writes
<1>2. ASSUME NEW c \in Client, NEW o \in OrderId, ReadOrder(c, o) PROVE Still
  <2>1. pc[o] = "unread"
    BY <1>0, <1>2, Reading DEF ReadOrder, Reads
  <2>2. pc' = [pc EXCEPT ![o] = "lock sgl"]
    BY <1>2 DEF ReadOrder, Goto
  <2>3. UNCHANGED <<outputs, mine, executors, queue, volume, taken, shown>>
    BY <1>2 DEF ReadOrder, bookVars, outVars
  <2> QED
    BY <1>1, <2>1, <2>2, <2>3 DEF Writes
<1>3. ASSUME NEW c \in Client, NEW x \in CancelId, Unknown(c, x) \/ Foreign(c, x) PROVE Still
  BY <1>3 DEF Unknown, Foreign, bookVars, outVars, locals, Still, Writes
<1>4. ASSUME NEW c \in Client, NEW x \in CancelId, Dispatch(c, x) PROVE Still
  <2>1. pc[x] = "unread"
    BY <1>0, <1>4, Reading DEF Dispatch, LooksUp, Reads
  <2>2. pc' = [pc EXCEPT ![x] = "lock head"] /\ About[x] \in orders
    BY <1>4 DEF Dispatch, Goto
  <2>3. UNCHANGED <<outputs, mine, executors, queue, volume, taken, shown>>
    BY <1>4 DEF Dispatch, bookVars, outVars
  <2> QED
    BY <1>1, <2>1, <2>2, <2>3 DEF Writes
<1>5. ASSUME NEW o \in OrderId, StillOrder(o) PROVE Still
  <2>0. UNCHANGED <<outputs, mine, executors, queue, volume, taken, shown>>
    BY <1>5 DEF StillOrder, LockSgl, LockMatchHead, LockLevel, Advance, EndMatch, LockOwnHead,
       SetOrder, PlaceFound, AddStep, NewLevel, bookVars, outVars
  <2>x. o \notin CancelId
    OBVIOUS
  <2>1. CASE LockSgl(o) \/ LockMatchHead(o) \/ LockLevel(o) \/ Advance(o)
    <3>1. PICK l : /\ pc' = [pc EXCEPT ![o] = l]
                   /\ l \in {"lock match head", "matched", "lock level", "execute"}
      BY <2>1 DEF LockSgl, LockMatchHead, LockLevel, Advance, LevelPc, Goto
    <3>2. pc[o] \in {"lock sgl", "lock match head", "lock level", "advance"}
      BY <2>1 DEF LockSgl, LockMatchHead, LockLevel, Advance
    <3> QED
      BY <1>1, <2>0, <2>x, <3>1, <3>2 DEF Writes
  <2>2. CASE EndMatch(o)
    <3>1. PICK l : /\ pc' = [pc EXCEPT ![o] = l]
                   /\ l \in {"done", "lock own head"}
      BY <2>2 DEF EndMatch, Goto
    <3>2. pc[o] = "matched"
      BY <2>2 DEF EndMatch
    <3> QED
      BY <1>1, <2>0, <2>x, <3>1, <3>2 DEF Writes
  <2>3. CASE LockOwnHead(o) \/ SetOrder(o)
    <3>1. PICK l : /\ pc' = [pc EXCEPT ![o] = l]
                   /\ l \in {"set", "queue add"}
      BY <2>3 DEF LockOwnHead, SetOrder, Goto
    <3>2. pc[o] \in {"lock own head", "set"}
      BY <2>3 DEF LockOwnHead, SetOrder
    <3> QED
      BY <1>1, <2>0, <2>x, <3>1, <3>2 DEF Writes
  <2>4. CASE PlaceFound(o) \/ AddStep(o) \/ NewLevel(o)
    <3>1. PICK l : /\ pc' = [pc EXCEPT ![o] = l]
                   /\ l \in {"add", "new level", "append"}
      BY <2>4 DEF PlaceFound, AddStep, NewLevel, PlacePc, Goto
    <3>2. pc[o] \in {"add", "new level"}
      BY <2>4 DEF PlaceFound, AddStep, NewLevel
    <3> QED
      BY <1>1, <2>0, <2>x, <3>1, <3>2 DEF Writes
  <2> QED
    BY <1>5, <2>1, <2>2, <2>3, <2>4 DEF StillOrder
<1>6. ASSUME NEW x \in CancelId, LockCancelHead(x) \/ CancelStep(x) PROVE Still
  <2>0. UNCHANGED <<outputs, mine, executors, queue, volume, taken, shown>>
    BY <1>6 DEF LockCancelHead, CancelStep, outVars
  <2>1. CASE LockCancelHead(x)
    <3>1. pc[x] = "lock head" /\ pc' = [pc EXCEPT ![x] = "queue cancel"]
      BY <2>1 DEF LockCancelHead, Goto
    <3> QED
      BY <1>1, <2>0, <3>1 DEF Writes
  <2>2. CASE CancelStep(x)
    <3>1. pc[x] = "cancel" /\ pc' = [pc EXCEPT ![x] = "cancel"]
      BY <2>2 DEF CancelStep, Goto
    <3> QED
      BY <1>1, <2>0, <3>1 DEF Writes
  <2> QED
    BY <1>6, <2>1, <2>2
<1> QED
  BY <1>2, <1>3, <1>4, <1>5, <1>6

(* They leave every order what it has, in v while MatchOrder runs and in    *)
(* count before and after.                                                  *)
Matching == {"lock level", "execute", "advance", "matched", "lock own head", "set"}
Left(o) == IF pc[o] \in Matching THEN v[o] ELSE count[o]

KeepsLeft(o) ==
  \/ pc'[o] = pc[o] /\ count'[o] = count[o] /\ v'[o] = v[o]
  \/ /\ pc[o] \notin {"unread", "done"} /\ pc'[o] \notin {"unread", "done"}
     /\ Left(o)' = Left(o)
  \/ pc[o] = "matched" /\ pc'[o] = "done" /\ v[o] = 0

Kept == rId' = rId /\ executionId' = executionId /\ \A o \in OrderId : KeepsLeft(o)

LEMMA KeptSteps ==
  ASSUME Base
  PROVE  /\ \A c \in Client, x \in CancelId :
              Unknown(c, x) \/ Foreign(c, x) \/ Dispatch(c, x) => Kept
         /\ \A o \in OrderId : StillOrder(o) => Kept
         /\ \A x \in CancelId : LockCancelHead(x) \/ CancelStep(x) => Kept
         /\ Terminated => Kept
<1> USE HeadsAreNodes
<1>0. /\ pc \in [Command -> {"unread", "done"} \cup OrderPc \cup CancelPc]
      /\ v \in [OrderId -> 0 .. Modulus - 1] /\ count \in [OrderId -> 0 .. Modulus - 1]
  BY BaseGives DEF TypeOK
<1>1. ASSUME NEW k \in Command, NEW l, pc' = [pc EXCEPT ![k] = l],
             count' = count, v' = v, rId' = rId, executionId' = executionId,
             k \in OrderId =>
               \/ /\ pc[k] \notin {"unread", "done"} /\ l \notin {"unread", "done"}
                  /\ pc[k] \in Matching <=> l \in Matching
               \/ pc[k] = "matched" /\ l = "done" /\ v[k] = 0
      PROVE  Kept
  <2>1. pc'[k] = l /\ \A j \in Command : j # k => pc'[j] = pc[j]
    BY <1>0, <1>1
  <2>2. ASSUME NEW o \in OrderId PROVE KeepsLeft(o)
    <3>1. CASE o = k
      <4>1. CASE pc[o] = "matched" /\ l = "done" /\ v[o] = 0
        BY <2>1, <3>1, <4>1 DEF KeepsLeft
      <4>2. CASE /\ pc[o] \notin {"unread", "done"} /\ l \notin {"unread", "done"}
                 /\ pc[o] \in Matching <=> l \in Matching
        <5>1. Left(o)' = IF l \in Matching THEN v[o] ELSE count[o]
          BY <1>1, <2>1, <3>1 DEF Left
        <5>2. Left(o)' = Left(o)
          BY <4>2, <5>1 DEF Left
        <5> QED
          BY <2>1, <3>1, <4>2, <5>2 DEF KeepsLeft
      <4> QED
        BY <1>1, <3>1, <4>1, <4>2
    <3>2. CASE o # k
      BY <1>1, <2>1, <3>2 DEF KeepsLeft
    <3> QED
      BY <3>1, <3>2
  <2> QED
    BY <1>1, <2>2 DEF Kept
<1>2. ASSUME NEW c \in Client, NEW x \in CancelId, Unknown(c, x) \/ Foreign(c, x) PROVE Kept
  BY <1>2 DEF Unknown, Foreign, orderVars, locals, Kept, KeepsLeft
<1>3. ASSUME NEW c \in Client, NEW x \in CancelId, Dispatch(c, x) PROVE Kept
  <2>1. /\ pc' = [pc EXCEPT ![x] = "lock head"] /\ x \notin OrderId
        /\ count' = count /\ v' = v /\ rId' = rId /\ executionId' = executionId
    BY <1>3 DEF Dispatch, Goto, orderVars
  <2> QED
    BY <1>1, <2>1
<1>4. ASSUME NEW x \in CancelId, LockCancelHead(x) \/ CancelStep(x) PROVE Kept
  <2>1. \E l : pc' = [pc EXCEPT ![x] = l]
    BY <1>4 DEF LockCancelHead, CancelStep, Goto
  <2>2. /\ x \notin OrderId
        /\ count' = count /\ v' = v /\ rId' = rId /\ executionId' = executionId
    BY <1>4 DEF LockCancelHead, CancelStep, orderVars
  <2> QED
    BY <1>1, <2>1, <2>2
<1>5. ASSUME NEW o \in OrderId, StillOrder(o) PROVE Kept
  <2>0. rId' = rId /\ executionId' = executionId
    BY <1>5 DEF StillOrder, LockSgl, LockMatchHead, LockLevel, Advance, EndMatch, LockOwnHead,
       SetOrder, PlaceFound, AddStep, NewLevel, orderVars
  <2>1. CASE LockSgl(o) \/ PlaceFound(o) \/ AddStep(o) \/ NewLevel(o)
    <3>1. PICK l : /\ pc' = [pc EXCEPT ![o] = l]
                   /\ l \in {"lock match head", "add", "new level", "append"}
      BY <2>1 DEF LockSgl, PlaceFound, AddStep, NewLevel, PlacePc, Goto
    <3>2. pc[o] \in {"lock sgl", "add", "new level"} /\ count' = count /\ v' = v
      BY <2>1 DEF LockSgl, PlaceFound, AddStep, NewLevel, orderVars
    <3>3. pc[o] \notin Matching /\ l \notin Matching
      BY <3>1, <3>2 DEF Matching
    <3>4. /\ pc[o] \notin {"unread", "done"} /\ l \notin {"unread", "done"}
          /\ pc[o] \in Matching <=> l \in Matching
      BY <3>1, <3>2, <3>3
    <3>5. o \in Command
      OBVIOUS
    <3> HIDE HeadsAreNodes
    <3> QED
      BY <1>1, <2>0, <3>1, <3>2, <3>4, <3>5
  <2>2. CASE LockLevel(o) \/ Advance(o) \/ LockOwnHead(o)
    <3>1. PICK l : /\ pc' = [pc EXCEPT ![o] = l]
                   /\ l \in {"matched", "lock level", "execute", "set"}
      BY <2>2 DEF LockLevel, Advance, LockOwnHead, LevelPc, Goto
    <3>2. /\ pc[o] \in {"lock level", "advance", "lock own head"} /\ count' = count /\ v' = v
      BY <2>2 DEF LockLevel, Advance, LockOwnHead, orderVars
    <3>3. pc[o] \in Matching /\ l \in Matching
      BY <3>1, <3>2 DEF Matching
    <3>4. /\ pc[o] \notin {"unread", "done"} /\ l \notin {"unread", "done"}
          /\ pc[o] \in Matching <=> l \in Matching
      BY <3>1, <3>2, <3>3
    <3>5. o \in Command
      OBVIOUS
    <3> HIDE HeadsAreNodes
    <3> QED
      BY <1>1, <2>0, <3>1, <3>2, <3>4, <3>5
  <2>3. CASE EndMatch(o)
    <3>1. pc[o] = "matched" /\ count' = count /\ v' = v
      BY <2>3 DEF EndMatch, orderVars
    <3>2. CASE v[o] = 0 /\ pc' = [pc EXCEPT ![o] = "done"]
      BY <1>1, <2>0, <3>1, <3>2
    <3>3. CASE pc' = [pc EXCEPT ![o] = "lock own head"]
      <4>1. "matched" \in Matching /\ "lock own head" \in Matching
        BY DEF Matching
      <4>2. /\ pc[o] \notin {"unread", "done"} /\ "lock own head" \notin {"unread", "done"}
            /\ pc[o] \in Matching <=> "lock own head" \in Matching
        BY <3>1, <4>1
      <4>3. o \in Command
        OBVIOUS
      <4> HIDE HeadsAreNodes
      <4> QED
        BY <1>1, <2>0, <3>1, <3>3, <4>2, <4>3
    <3> QED
      BY <2>3, <3>2, <3>3 DEF EndMatch, Goto
  <2>4. CASE LockMatchHead(o)
    <3>1. PICK l : pc' = [pc EXCEPT ![o] = l] /\ l \in {"matched", "lock level"}
      BY <2>4 DEF LockMatchHead, LevelPc, Goto
    <3>2. pc[o] = "lock match head" /\ count' = count /\ v' = [v EXCEPT ![o] = count[o]]
      BY <2>4 DEF LockMatchHead, orderVars
    <3>3. pc'[o] = l /\ \A p \in OrderId : p # o => pc'[p] = pc[p]
      BY <1>0, <3>1
    <3>4. v'[o] = count[o] /\ \A p \in OrderId : p # o => v'[p] = v[p]
      BY <1>0, <3>2
    <3>5. pc[o] \notin Matching /\ l \in Matching
      BY <3>1, <3>2 DEF Matching
    <3>6. Left(o)' = Left(o)
      BY <3>3, <3>4, <3>5 DEF Left
    <3>7. ASSUME NEW p \in OrderId PROVE KeepsLeft(p)
      BY <3>1, <3>2, <3>3, <3>4, <3>6 DEF KeepsLeft
    <3> QED
      BY <2>0, <3>7 DEF Kept
  <2>5. CASE SetOrder(o)
    <3>1. /\ pc[o] = "set" /\ pc' = [pc EXCEPT ![o] = "queue add"]
          /\ count' = [count EXCEPT ![o] = v[o]] /\ v' = [v EXCEPT ![o] = 0]
      BY <2>5 DEF SetOrder, Goto
    <3>2. pc'[o] = "queue add" /\ \A p \in OrderId : p # o => pc'[p] = pc[p]
      BY <1>0, <3>1
    <3>3. /\ count'[o] = v[o]
          /\ \A p \in OrderId : p # o => v'[p] = v[p] /\ count'[p] = count[p]
      BY <1>0, <3>1
    <3>4. "set" \in Matching /\ "queue add" \notin Matching
      BY DEF Matching
    <3>5. Left(o)' = Left(o)
      BY <3>1, <3>2, <3>3, <3>4 DEF Left
    <3>6. ASSUME NEW p \in OrderId PROVE KeepsLeft(p)
      BY <3>1, <3>2, <3>3, <3>5 DEF KeepsLeft
    <3> QED
      BY <2>0, <3>6 DEF Kept
  <2> QED
    BY <1>5, <2>1, <2>2, <2>3, <2>4, <2>5 DEF StillOrder
<1>6. Terminated => Kept
  BY DEF Terminated, vars, orderVars, locals, Kept, KeepsLeft
<1> QED
  BY <1>2, <1>3, <1>4, <1>5, <1>6

(* Every step is one of these, or reads an order or prints a line.          *)
Other ==
  \/ \E c \in Client :
       \/ \E x \in CancelId : Unknown(c, x) \/ Foreign(c, x) \/ Dispatch(c, x)
       \/ Reject(c)
  \/ \E o \in OrderId : ProcessActiveOrder(o) \/ ExecuteOrder(o) \/ AddOrder(o)
  \/ \E x \in CancelId : ProcessCancelOrder(x)
  \/ Terminated

LEMMA OtherKinds ==
  ASSUME Base, Other
  PROVE  \/ Still /\ Kept
         \/ \E o \in OrderId : \E e : Starts(o, e)
         \/ \E e \in executors, r \in OrderId, s \in Nat : \E i : TradesWith(e, r, s, i)
         \/ \E e \in executors : Ends(e)
         \/ \E o \in OrderId : StartAdd(o) /\ Joins(o)
         \/ \E x \in CancelId : QueueCancel(x) /\ Joins(x)
         \/ \E o \in OrderId : Appends(o)
         \/ \E x \in CancelId, accepted \in BOOLEAN : Answers(x, accepted)
         \/ \E x \in CancelId : Rejects(x)
<1>1. ASSUME NEW c \in Client,
             \/ \E x \in CancelId : Unknown(c, x) \/ Foreign(c, x) \/ Dispatch(c, x)
             \/ Reject(c)
      PROVE  (Still /\ Kept) \/ \E x \in CancelId : Rejects(x)
  BY <1>1, StillSteps, KeptSteps, RejectDoes
<1>2. ASSUME NEW o \in OrderId, ProcessActiveOrder(o) \/ AddOrder(o)
      PROVE  (Still /\ Kept) \/ (\E e : Starts(o, e)) \/ (StartAdd(o) /\ Joins(o)) \/ Appends(o)
  <2>1. StillOrder(o) => Still /\ Kept
    BY StillSteps, KeptSteps
  <2>2. StartAdd(o) => Joins(o)
    BY JoinDoes
  <2> QED
    BY <1>2, <2>1, <2>2, StartDoes, AppendDoes
    DEF ProcessActiveOrder, AddOrder, StillOrder
<1>3. ASSUME NEW e \in executors, Trade(e) \/ EndExecutor(e)
      PROVE  Ends(e) \/ \E r \in OrderId, s \in Nat : \E i : TradesWith(e, r, s, i)
  BY <1>3, TradeDoes, EndDoes
<1>4. ASSUME NEW x \in CancelId, ProcessCancelOrder(x)
      PROVE  \/ Still /\ Kept
             \/ QueueCancel(x) /\ Joins(x)
             \/ \E accepted \in BOOLEAN : Answers(x, accepted)
  BY <1>4, StillSteps, KeptSteps, JoinDoes, AnswerDoes DEF ProcessCancelOrder
<1>5. ASSUME Terminated PROVE Still /\ Kept
  <2>1. Still
    BY <1>5 DEF Terminated, vars, outVars, bookVars, locals, Still, Writes
  <2> QED
    BY <1>5, <2>1, KeptSteps
<1> QED
  BY <1>1, <1>2, <1>3, <1>4, <1>5 DEF Other, ExecuteOrder

LEMMA NextKinds ==
  Next => Other \/ (\E c \in Client, o \in OrderId : ReadOrder(c, o)) \/ NextChannel \/ PrintLine
BY DEF Next, Goroutines, HandleConn, Printer, Other

-----------------------------------------------------------------------------
(* What the lines say. *)
AddLine(o, ch, i) == IsLine(ch, i) /\ At(ch, i).kind = "added" /\ At(ch, i).id = o

TradeLine(o, r, n, ch, i) ==
  /\ IsLine(ch, i) /\ At(ch, i).kind = "executed"
  /\ At(ch, i).id = o /\ At(ch, i).resting = r /\ At(ch, i).count = n

EndLine(o, ch, i) ==
  IsLine(ch, i) /\ At(ch, i).kind = "deleted" /\ At(ch, i).accepted /\ At(ch, i).id = o

HitLine(r, ch, i) == \E o, n : TradeLine(o, r, n, ch, i)

Touches(o, ch, i) == HitLine(o, ch, i) \/ EndLine(o, ch, i)

NothingSaid ==
  \A o, ch, i :
    /\ AddLine(o, ch, i)' <=> AddLine(o, ch, i)
    /\ EndLine(o, ch, i)' <=> EndLine(o, ch, i)
    /\ \A r, n : TradeLine(o, r, n, ch, i)' <=> TradeLine(o, r, n, ch, i)
    /\ HitLine(o, ch, i)' <=> HitLine(o, ch, i)
    /\ Touches(o, ch, i)' <=> Touches(o, ch, i)

LEMMA SaidElsewhere ==
  ASSUME \A o, ch, i : /\ AddLine(o, ch, i)' <=> AddLine(o, ch, i)
                       /\ EndLine(o, ch, i)' <=> EndLine(o, ch, i)
                       /\ \A r, n : TradeLine(o, r, n, ch, i)' <=> TradeLine(o, r, n, ch, i)
  PROVE  NothingSaid
<1>1. ASSUME NEW o, NEW ch, NEW i PROVE HitLine(o, ch, i)' <=> HitLine(o, ch, i)
  BY DEF HitLine
<1>2. ASSUME NEW o, NEW ch, NEW i PROVE Touches(o, ch, i)' <=> Touches(o, ch, i)
  BY <1>1 DEF Touches
<1> QED
  BY <1>1, <1>2 DEF NothingSaid

LEMMA SameSay == SameLines => NothingSaid
<1> SUFFICES ASSUME SameLines PROVE NothingSaid
  OBVIOUS
<1>1. ASSUME NEW o, NEW ch, NEW i
      PROVE  /\ AddLine(o, ch, i)' <=> AddLine(o, ch, i)
             /\ EndLine(o, ch, i)' <=> EndLine(o, ch, i)
             /\ \A r, n : TradeLine(o, r, n, ch, i)' <=> TradeLine(o, r, n, ch, i)
  BY DEF SameLines, AddLine, EndLine, TradeLine
<1> QED
  BY <1>1, SaidElsewhere

LEMMA NewSays ==
  ASSUME NEW c, NEW j, NEW line, Gets(c, j, line)
  PROVE  \A o, ch, i :
           /\ AddLine(o, ch, i)' <=>
                AddLine(o, ch, i) \/ (ch = c /\ i = j /\ line.kind = "added" /\ line.id = o)
           /\ EndLine(o, ch, i)' <=>
                \/ EndLine(o, ch, i)
                \/ ch = c /\ i = j /\ line.kind = "deleted" /\ line.accepted /\ line.id = o
           /\ \A r, n : TradeLine(o, r, n, ch, i)' <=>
                \/ TradeLine(o, r, n, ch, i)
                \/ /\ ch = c /\ i = j /\ line.kind = "executed"
                   /\ line.id = o /\ line.resting = r /\ line.count = n
<1> SUFFICES ASSUME NEW o, NEW ch, NEW i
             PROVE  /\ AddLine(o, ch, i)' <=>
                        \/ AddLine(o, ch, i)
                        \/ ch = c /\ i = j /\ line.kind = "added" /\ line.id = o
                    /\ EndLine(o, ch, i)' <=>
                        \/ EndLine(o, ch, i)
                        \/ ch = c /\ i = j /\ line.kind = "deleted" /\ line.accepted /\ line.id = o
                    /\ \A r, n : TradeLine(o, r, n, ch, i)' <=>
                        \/ TradeLine(o, r, n, ch, i)
                        \/ /\ ch = c /\ i = j /\ line.kind = "executed"
                           /\ line.id = o /\ line.resting = r /\ line.count = n
  OBVIOUS
<1>1. CASE ch = c /\ i = j
  <2>1. ~IsLine(ch, i) /\ IsLine(ch, i)' /\ At(ch, i)' = line
    BY <1>1 DEF Gets
  <2> QED
    BY <1>1, <2>1 DEF AddLine, EndLine, TradeLine
<1>2. CASE ~(ch = c /\ i = j)
  <2>1. (IsLine(ch, i)' <=> IsLine(ch, i)) /\ (IsLine(ch, i) => At(ch, i)' = At(ch, i))
    BY <1>2 DEF Gets
  <2> QED
    BY <1>2, <2>1 DEF AddLine, EndLine, TradeLine
<1> QED
  BY <1>1, <1>2

LEMMA LineOrders ==
  ASSUME Channels
  PROVE  \A o, ch, i :
           /\ AddLine(o, ch, i) => o \in OrderId
           /\ Touches(o, ch, i) => o \in OrderId
           /\ \A r, n : TradeLine(o, r, n, ch, i) => o \in OrderId /\ r \in OrderId /\ n \in Nat
           /\ AddLine(o, ch, i) \/ Touches(o, ch, i) \/ (\E r, n : TradeLine(o, r, n, ch, i))
                => ch \in Nat /\ ch <= Len(outputs) /\ i \in Nat
<1>1. \A ch, i : IsLine(ch, i) => At(ch, i) \in Line /\ ch \in Nat /\ ch <= Len(outputs) /\ i \in Nat
  BY LinesAreTyped
<1>2. ASSUME NEW line \in Line
      PROVE  /\ line.id \in OrderId
             /\ line.kind = "executed" => line.resting \in OrderId /\ line.count \in Nat
  BY TermsInRange DEF Line
<1>3. ASSUME NEW o, NEW ch, NEW i, AddLine(o, ch, i) \/ EndLine(o, ch, i)
      PROVE  o \in OrderId /\ ch \in Nat /\ ch <= Len(outputs) /\ i \in Nat
  BY <1>1, <1>2, <1>3 DEF AddLine, EndLine
<1>4. ASSUME NEW o, NEW r, NEW n, NEW ch, NEW i, TradeLine(o, r, n, ch, i)
      PROVE  /\ o \in OrderId /\ r \in OrderId /\ n \in Nat
             /\ ch \in Nat /\ ch <= Len(outputs) /\ i \in Nat
  <2>1. PICK line \in Line : line = At(ch, i)
    BY <1>1, <1>4 DEF TradeLine
  <2> QED
    BY <1>1, <1>2, <1>4, <2>1 DEF TradeLine
<1> QED
  BY <1>3, <1>4 DEF Touches, HitLine

(* Whose the channels are: those of executors, and those of commands.       *)
Owners ==
  /\ \A k \in Command :
       /\ Writes(k) => mine[k] # 0
       /\ Writes(k) => \A ch : mine[k] = ch => Open(ch) /\ \A i : ~IsLine(ch, i)
       /\ mine[k] # 0 => Writes(k) \/ pc[k] = "done"
  /\ \A k, l \in Command : mine[k] = mine[l] /\ mine[k] # 0 => k = l
  /\ \A e \in executors : Open(e.channel) /\ \A k \in Command : mine[k] # e.channel
  /\ \A d, e \in executors : d.channel = e.channel => d = e

(* The printer is not past a channel that is open. *)
InPrint ==
  /\ taken \in Nat /\ shown \in Nat /\ taken <= Len(outputs)
  /\ \A ch : Open(ch) => ch >= taken
  /\ \A i \in Nat : taken > 0 /\ i > 0 /\ i <= shown => IsLine(taken, i)

(* An order is booked by one line. *)
AddLines ==
  /\ \A o, ch, i : AddLine(o, ch, i) => i = 1 /\ pc[o] = "done" /\ mine[o] = ch
  /\ \A o \in OrderId : \A ch : mine[o] = ch /\ ch # 0 /\ pc[o] = "done" => AddLine(o, ch, 1)

(* No order trades with itself: it trades before it has a channel. *)
TradeLines ==
  \A o, r, n, ch, i : TradeLine(o, r, n, ch, i) => o # r /\ n > 0 /\ pc[o] # "unread"

Traders ==
  \A e \in executors :
    /\ pc[e.order] # "unread" /\ (mine[e.order] # 0 => e.channel < mine[e.order])
    /\ \A r \in OrderId : Holds(e.level, r) => mine[r] < e.channel

(* The lines that take from a resting order are in channels behind its own, *)
(* and after a cancel it is gone.                                           *)
TouchLines ==
  /\ \A o, ch, i : Touches(o, ch, i) => pc[o] = "done" /\ mine[o] # 0 /\ mine[o] < ch
  /\ \A o, ch, i : EndLine(o, ch, i) => ~Rests(o)
  /\ \A o \in OrderId : Rests(o) => mine[o] # 0
  /\ \A x \in CancelId :
       /\ pc[x] \in {"lock head", "queue cancel"}
            => pc[About[x]] = "queue add" \/ mine[About[x]] # 0
       /\ mine[x] # 0 => mine[About[x]] # 0 /\ mine[About[x]] < mine[x]

(* Only such a line ends its rest. *)
LeaveLines ==
  \A o \in OrderId :
    mine[o] # 0 /\ pc[o] = "done" /\ ~Rests(o) => \E ch, i : Touches(o, ch, i)

OutInv ==
  Owners /\ InPrint /\ AddLines /\ TradeLines /\ Traders /\ TouchLines /\ LeaveLines

LEMMA InitOut == Init => OutInv
<1> SUFFICES ASSUME Init PROVE OutInv
  OBVIOUS
<1> USE HeadsAreNodes
<1>1. \A ch, i : ~IsLine(ch, i) /\ ~Open(ch)
  <2>1. outputs = <<>> /\ DOMAIN <<>> = {}
    BY DEF Init
  <2> QED
    BY <2>1 DEF IsLine, Open
<1>2. /\ \A k \in Command : mine[k] = 0 /\ pc[k] = "unread"
      /\ executors = {} /\ taken = 0 /\ shown = 0 /\ Len(outputs) = 0
  BY DEF Init
<1>3. \A o \in OrderId : ~Rests(o)
  <2>1. DOMAIN <<>> = {} /\ \A n \in Node : queue[n] = <<>>
    BY DEF Init
  <2> QED
    BY <2>1 DEF Rests
<1>4. Owners /\ InPrint
  <2>1. Owners
    BY <1>1, <1>2 DEF Owners, Writes
  <2>2. InPrint
    BY <1>1, <1>2 DEF InPrint
  <2> QED
    BY <2>1, <2>2
<1>5. AddLines /\ TradeLines /\ Traders
  BY <1>1, <1>2 DEF AddLines, TradeLines, Traders, AddLine, TradeLine
<1>6. TouchLines /\ LeaveLines
  BY <1>1, <1>2, <1>3 DEF TouchLines, LeaveLines, Touches, HitLine, EndLine, TradeLine
<1> QED
  BY <1>4, <1>5, <1>6 DEF OutInv

LEMMA StillOut ==
  ASSUME Base, OutInv, Still
  PROVE  OutInv'
<1> USE HeadsAreNodes
<1>0. SameLines /\ OpenStay /\ outputs' = outputs /\ NothingSaid
  BY SameSay DEF Still, SameLines, IsLine, At, OpenStay, Open
<1>1. /\ mine' = mine /\ executors' = executors /\ taken' = taken /\ shown' = shown
      /\ \A o : Rests(o)' <=> Rests(o)
      /\ \A n, o : Holds(n, o)' <=> Holds(n, o)
      /\ \A k \in Command :
           /\ Writes(k)' <=> Writes(k)
           /\ pc[k] = "done" => pc'[k] = "done"
           /\ pc'[k] = "done" => pc[k] \in {"done", "matched"}
           /\ pc[k] # "unread" => pc'[k] # "unread"
           /\ pc[k] = "queue add" => pc'[k] = "queue add"
  BY DEF Still, Rests, Holds
<1>2. \A k \in Command : mine[k] # 0 /\ pc'[k] = "done" => pc[k] = "done"
  BY <1>1 DEF OutInv, Owners, Writes
<1>3. Owners'
  BY <1>0, <1>1 DEF OutInv, Owners, SameLines, OpenStay
<1>4. InPrint'
  BY <1>0, <1>1 DEF OutInv, InPrint, SameLines, OpenStay
<1>5. \A o, ch, i : /\ AddLine(o, ch, i) => o \in OrderId
                    /\ Touches(o, ch, i) => o \in OrderId
                    /\ \A r, n : TradeLine(o, r, n, ch, i) => o \in OrderId
  BY BaseGives, LineOrders
<1>6. AddLines'
  <2>1. ASSUME NEW o, NEW ch, NEW i, AddLine(o, ch, i)'
        PROVE  i = 1 /\ pc'[o] = "done" /\ mine'[o] = ch
    <3>1. AddLine(o, ch, i) /\ o \in Command
      BY <1>0, <1>5, <2>1 DEF NothingSaid
    <3> QED
      BY <1>1, <3>1 DEF OutInv, AddLines
  <2>2. ASSUME NEW o \in OrderId, NEW ch, mine'[o] = ch, ch # 0, pc'[o] = "done"
        PROVE  AddLine(o, ch, 1)'
    <3>1. AddLine(o, ch, 1)
      BY <1>1, <1>2, <2>2 DEF OutInv, AddLines
    <3> QED
      BY <1>0, <3>1 DEF NothingSaid
  <2> QED
    BY <2>1, <2>2 DEF AddLines
<1>7. TradeLines' /\ Traders'
  <2>1. ASSUME NEW o, NEW r, NEW n, NEW ch, NEW i, TradeLine(o, r, n, ch, i)'
        PROVE  o # r /\ n > 0 /\ pc'[o] # "unread"
    <3>1. TradeLine(o, r, n, ch, i) /\ o \in Command
      BY <1>0, <1>5, <2>1 DEF NothingSaid
    <3> QED
      BY <1>1, <3>1 DEF OutInv, TradeLines
  <2>2. ASSUME NEW e \in executors
        PROVE  /\ pc'[e.order] # "unread" /\ (mine[e.order] # 0 => e.channel < mine[e.order])
               /\ \A r \in OrderId : Holds(e.level, r)' => mine[r] < e.channel
    BY <1>1, <2>2, BaseGives DEF OutInv, Traders
  <2> QED
    BY <1>1, <2>1, <2>2 DEF TradeLines, Traders
<1>8. \A x \in CancelId :
        pc'[x] \in {"lock head", "queue cancel"}
          => pc'[About[x]] = "queue add" \/ mine[About[x]] # 0
  <2> SUFFICES ASSUME NEW x \in CancelId, pc'[x] \in {"lock head", "queue cancel"}
               PROVE  pc'[About[x]] = "queue add" \/ mine[About[x]] # 0
    OBVIOUS
  <2>1. CASE pc[x] \in {"lock head", "queue cancel"}
    BY <1>1, <2>1 DEF OutInv, TouchLines
  <2>2. CASE About[x] \in orders
    <3>1. Enters(About[x]) \/ Rests(About[x])
      BY <2>2 DEF Base, Registered
    <3> QED
      BY <1>1, <3>1 DEF Enters, OutInv, TouchLines, Owners, Writes
  <2> QED
    BY <2>1, <2>2 DEF Still
<1>9. TouchLines'
  BY <1>0, <1>1, <1>5, <1>8 DEF NothingSaid, OutInv, TouchLines
<1>10. LeaveLines'
  BY <1>0, <1>1, <1>2 DEF NothingSaid, OutInv, LeaveLines
<1> QED
  BY <1>3, <1>4, <1>6, <1>7, <1>9, <1>10 DEF OutInv

(* Most of the others leave every command where it is, as far as the lines  *)
(* are concerned.                                                           *)
Alike ==
  /\ mine' = mine
  /\ \A k \in Command :
       /\ Writes(k)' <=> Writes(k)
       /\ pc'[k] = "done" <=> pc[k] = "done"
       /\ pc'[k] = "unread" <=> pc[k] = "unread"
       /\ pc'[k] = "queue add" <=> pc[k] = "queue add"
       /\ pc'[k] \in {"lock head", "queue cancel"} <=> pc[k] \in {"lock head", "queue cancel"}

LEMMA SameLinesKeep ==
  ASSUME Base, OutInv, Alike, NothingSaid, queue' = queue
  PROVE  AddLines' /\ TradeLines' /\ TouchLines' /\ LeaveLines'
<1> USE HeadsAreNodes
<1>1. /\ mine' = mine /\ \A o : Rests(o)' <=> Rests(o)
      /\ \A k \in Command :
           /\ pc'[k] = "done" <=> pc[k] = "done"
           /\ pc'[k] = "unread" <=> pc[k] = "unread"
           /\ pc'[k] = "queue add" <=> pc[k] = "queue add"
           /\ pc'[k] \in {"lock head", "queue cancel"} <=> pc[k] \in {"lock head", "queue cancel"}
  BY DEF Alike, Rests
<1>2. \A o, ch, i : /\ AddLine(o, ch, i) => o \in Command
                    /\ Touches(o, ch, i) => o \in Command
                    /\ \A r, n : TradeLine(o, r, n, ch, i) => o \in Command
  BY BaseGives, LineOrders
<1>3. AddLines'
  <2>1. ASSUME NEW o, NEW ch, NEW i, AddLine(o, ch, i)'
        PROVE  i = 1 /\ pc'[o] = "done" /\ mine'[o] = ch
    <3>1. AddLine(o, ch, i) /\ o \in Command
      BY <1>2, <2>1 DEF NothingSaid
    <3> QED
      BY <1>1, <3>1 DEF OutInv, AddLines
  <2>2. ASSUME NEW o \in OrderId, NEW ch, mine'[o] = ch, ch # 0, pc'[o] = "done"
        PROVE  AddLine(o, ch, 1)'
    <3>1. AddLine(o, ch, 1)
      BY <1>1, <2>2 DEF OutInv, AddLines
    <3> QED
      BY <3>1 DEF NothingSaid
  <2> QED
    BY <2>1, <2>2 DEF AddLines
<1>4. TradeLines'
  <2>1. ASSUME NEW o, NEW r, NEW n, NEW ch, NEW i, TradeLine(o, r, n, ch, i)'
        PROVE  o # r /\ n > 0 /\ pc'[o] # "unread"
    <3>1. TradeLine(o, r, n, ch, i) /\ o \in Command
      BY <1>2, <2>1 DEF NothingSaid
    <3> QED
      BY <1>1, <3>1 DEF OutInv, TradeLines
  <2> QED
    BY <2>1 DEF TradeLines
<1>5. TouchLines'
  BY <1>1, <1>2 DEF NothingSaid, OutInv, TouchLines
<1>6. LeaveLines'
  BY <1>1 DEF NothingSaid, OutInv, LeaveLines
<1> QED
  BY <1>3, <1>4, <1>5, <1>6

LEMMA StartOut ==
  ASSUME Base, OutInv, NEW o \in OrderId, NEW e, Starts(o, e)
  PROVE  OutInv'
<1> USE HeadsAreNodes
<1>0. PICK n \in Nat : n = Len(outputs)
  BY BaseGives
<1>1. pc[o] = "execute" /\ pc' = [pc EXCEPT ![o] = "advance"] /\ mine' = mine
  BY DEF Starts
<1>2. pc'[o] = "advance" /\ \A k \in Command : k # o => pc'[k] = pc[k]
  BY <1>1, BaseGives DEF TypeOK
<1>3. Alike
  BY <1>1, <1>2 DEF Alike, Writes
<1>4. AddLines' /\ TradeLines' /\ TouchLines' /\ LeaveLines'
  BY <1>3, SameSay, SameLinesKeep DEF Starts
<1>5. /\ executors' = executors \cup {e} /\ e.order = o /\ e.channel = n + 1
      /\ Opens(n + 1) /\ SameLines /\ Len(outputs') = n + 1
      /\ taken' = taken /\ shown' = shown /\ queue' = queue
  BY <1>0 DEF Starts, SameOrders
<1>6. \A k \in Command : mine[k] \in Nat /\ mine[k] <= n
  BY <1>0, BaseGives
<1>7. \A d \in executors : d.channel \in Nat /\ d.channel <= n /\ d.order \in OrderId
  BY <1>0, BaseGives
<1>8. Owners'
  <2>1. ASSUME NEW k \in Command, Writes(k)'
        PROVE  mine'[k] # 0 /\ \A c : mine'[k] = c => Open(c)' /\ \A i : ~IsLine(c, i)'
    <3>1. mine[k] # 0 /\ \A c : mine[k] = c => Open(c) /\ \A i : ~IsLine(c, i)
      BY <1>3, <2>1 DEF Alike, OutInv, Owners
    <3>2. \A c : mine[k] = c => Open(c)' /\ \A i : ~IsLine(c, i)'
      BY <1>5, <3>1 DEF Opens, SameLines
    <3> QED
      BY <1>1, <3>1, <3>2
  <2>2. \A k, l \in Command : mine'[k] = mine'[l] /\ mine'[k] # 0 => k = l
    BY <1>1 DEF OutInv, Owners
  <2>3. \A k \in Command : mine'[k] # 0 => Writes(k)' \/ pc'[k] = "done"
    BY <1>1, <1>3 DEF Alike, OutInv, Owners
  <2>4. ASSUME NEW d \in executors' PROVE Open(d.channel)' /\ \A k \in Command : mine'[k] # d.channel
    <3>1. CASE d = e
      <4>1. \A k \in Command : mine[k] # n + 1
        BY <1>6
      <4> QED
        BY <1>1, <1>5, <3>1, <4>1 DEF Opens
    <3>2. CASE d \in executors
      BY <1>1, <1>5, <3>2 DEF Opens, OutInv, Owners
    <3> QED
      BY <1>5, <3>1, <3>2
  <2>5. ASSUME NEW d \in executors', NEW f \in executors', d.channel = f.channel PROVE d = f
    <3>1. \A g \in executors : g.channel # n + 1
      BY <1>7
    <3> QED
      BY <1>5, <2>5, <3>1 DEF OutInv, Owners
  <2> QED
    BY <2>1, <2>2, <2>3, <2>4, <2>5 DEF Owners
<1>9. InPrint'
  BY <1>0, <1>5 DEF OutInv, InPrint, Opens, SameLines
<1>10. Traders'
  <2>1. mine[o] = 0
    BY <1>1 DEF OutInv, Owners, Writes
  <2>2. ASSUME NEW d \in executors'
        PROVE  /\ pc'[d.order] # "unread" /\ (mine'[d.order] # 0 => d.channel < mine'[d.order])
               /\ \A r \in OrderId : Holds(d.level, r)' => mine'[r] < d.channel
    <3>1. CASE d = e
      BY <1>1, <1>2, <1>5, <1>6, <2>1, <3>1
    <3>2. CASE d \in executors
      <4>1. /\ pc[d.order] # "unread" /\ (mine[d.order] # 0 => d.channel < mine[d.order])
            /\ \A r \in OrderId : Holds(d.level, r) => mine[r] < d.channel
        BY <3>2 DEF OutInv, Traders
      <4>2. \A r \in OrderId : Holds(d.level, r)' <=> Holds(d.level, r)
        BY <1>5 DEF Holds
      <4> QED
        BY <1>1, <1>3, <1>7, <3>2, <4>1, <4>2 DEF Alike
    <3> QED
      BY <1>5, <3>1, <3>2
  <2> QED
    BY <2>2 DEF Traders
<1> QED
  BY <1>4, <1>8, <1>9, <1>10 DEF OutInv

LEMMA EndOut ==
  ASSUME Base, OutInv, NEW e \in executors, Ends(e)
  PROVE  OutInv'
<1> USE HeadsAreNodes
<1>1. /\ Alike /\ mine' = mine /\ executors' = executors \ {e} /\ Closes(e.channel) /\ SameLines
      /\ Len(outputs') = Len(outputs) /\ taken' = taken /\ shown' = shown /\ queue' = queue
      /\ pc' = pc
  BY DEF Ends, Alike, Writes, SameOrders
<1>2. AddLines' /\ TradeLines' /\ TouchLines' /\ LeaveLines'
  BY <1>1, SameSay, SameLinesKeep
<1>3. Owners'
  <2>1. \A k \in Command : mine[k] # e.channel
    BY DEF OutInv, Owners
  <2>2. \A d \in executors' : d \in executors /\ d.channel # e.channel
    BY <1>1 DEF OutInv, Owners
  <2>3. \A c : c # e.channel => (Open(c)' <=> Open(c))
    BY <1>1 DEF Closes
  <2>4. \A k \in Command : Writes(k)' <=> Writes(k)
    BY <1>1 DEF Alike
  <2> QED
    BY <1>1, <2>1, <2>2, <2>3, <2>4 DEF OutInv, Owners, SameLines
<1>4. InPrint'
  BY <1>1 DEF OutInv, InPrint, Closes, SameLines
<1>5. Traders'
  BY <1>1 DEF OutInv, Traders, Holds
<1> QED
  BY <1>2, <1>3, <1>4, <1>5 DEF OutInv

LEMMA PrinterOut ==
  ASSUME Base, OutInv, NextChannel \/ PrintLine
  PROVE  OutInv'
<1> USE HeadsAreNodes
<1>1. /\ outputs' = outputs /\ mine' = mine /\ executors' = executors /\ queue' = queue /\ pc' = pc
  BY DEF NextChannel, PrintLine, outVars, bookVars, locals
<1>2. Alike /\ SameLines /\ OpenStay
  BY <1>1 DEF Alike, Writes, SameLines, IsLine, At, OpenStay, Open
<1>3. AddLines' /\ TradeLines' /\ TouchLines' /\ LeaveLines'
  BY <1>1, <1>2, SameSay, SameLinesKeep
<1>4. Owners'
  BY <1>1, <1>2 DEF OutInv, Owners, Alike, SameLines, OpenStay
<1>5. Traders'
  BY <1>1 DEF OutInv, Traders, Holds
<1>6. InPrint'
  <2>1. CASE NextChannel
    <3>1. /\ taken < Len(outputs) /\ taken' = taken + 1 /\ shown' = 0
          /\ taken > 0 => outputs[taken].closed
      BY <2>1 DEF NextChannel
    <3>2. taken \in Nat /\ Len(outputs) \in Nat
      BY BaseGives DEF OutInv, InPrint
    <3>3. ASSUME NEW ch, Open(ch)' PROVE ch >= taken + 1
      <4>1. Open(ch) /\ ch >= taken /\ ch \in Nat /\ ch > 0
        <5>1. Open(ch) /\ ch \in DOMAIN outputs
          BY <1>2, <3>3 DEF OpenStay, Open
        <5> QED
          BY <5>1, BaseGives DEF OutInv, InPrint
      <4>2. ch # taken
        <5>1. SUFFICES ASSUME ch = taken PROVE FALSE
          OBVIOUS
        <5>2. outputs[taken].closed
          BY <3>1, <4>1, <5>1
        <5> QED
          BY <4>1, <5>1, <5>2 DEF Open
      <4> QED
        BY <3>2, <4>1, <4>2
    <3>4. taken + 1 \in Nat /\ taken + 1 <= Len(outputs)
      BY <3>1, <3>2
    <3>5. \A i \in Nat : ~(i > 0 /\ i <= shown')
      BY <3>1
    <3> QED
      BY <1>1, <3>1, <3>3, <3>4, <3>5 DEF InPrint
  <2>2. CASE PrintLine
    <3>1. /\ taken > 0 /\ shown < Len(outputs[taken].lines) /\ shown' = shown + 1 /\ taken' = taken
      BY <2>2 DEF PrintLine
    <3>2. IsLine(taken, shown + 1)
      <4>1. taken \in DOMAIN outputs /\ shown \in Nat
        BY <3>1, BaseGives DEF OutInv, InPrint
      <4>2. /\ DOMAIN outputs[taken].lines = 1 .. Len(outputs[taken].lines)
            /\ Len(outputs[taken].lines) \in Nat
        BY <4>1, BaseGives, LinesAreTyped
      <4> QED
        BY <3>1, <4>1, <4>2 DEF IsLine
    <3>3. taken \in Nat /\ shown \in Nat /\ taken <= Len(outputs)
      BY DEF OutInv, InPrint
    <3>4. ASSUME NEW i \in Nat, i > 0, i <= shown + 1 PROVE IsLine(taken, i)
      <4>1. CASE i = shown + 1
        BY <3>2, <4>1
      <4>2. CASE i <= shown
        BY <3>1, <3>4, <4>2 DEF OutInv, InPrint
      <4> QED
        BY <3>3, <3>4, <4>1, <4>2
    <3>5. \A ch : Open(ch)' => ch >= taken
      BY <1>2 DEF OpenStay, OutInv, InPrint
    <3>6. \A i \in Nat : i > 0 /\ i <= shown' => IsLine(taken, i)'
      BY <1>2, <3>1, <3>4 DEF SameLines
    <3> QED
      BY <1>1, <3>1, <3>3, <3>5, <3>6 DEF InPrint
  <2> QED
    BY <2>1, <2>2
<1> QED
  BY <1>3, <1>4, <1>5, <1>6 DEF OutInv

LEMMA RejectOut ==
  ASSUME Base, OutInv, NEW x \in CancelId, Rejects(x)
  PROVE  OutInv'
<1> USE HeadsAreNodes
<1>0. PICK n \in Nat : n = Len(outputs)
  BY BaseGives
<1>1. /\ mine' = mine /\ executors' = executors /\ queue' = queue /\ pc' = pc
      /\ Len(outputs') = n + 1 /\ taken' = taken /\ shown' = shown /\ OpenStay
  BY <1>0 DEF Rejects, SameOrders
<1>2. PICK line : line = Deleted(x, FALSE)
  OBVIOUS
<1>3. line.kind = "deleted" /\ ~line.accepted
  BY <1>2 DEF Deleted
<1>4. Gets(n + 1, 1, line)
  BY <1>0, <1>2 DEF Rejects
<1>5. NothingSaid
  <2>1. \A o, ch, i : /\ AddLine(o, ch, i)' <=> AddLine(o, ch, i)
                      /\ EndLine(o, ch, i)' <=> EndLine(o, ch, i)
                      /\ \A r, s : TradeLine(o, r, s, ch, i)' <=> TradeLine(o, r, s, ch, i)
    BY <1>3, <1>4, NewSays
  <2> QED
    BY <2>1, SaidElsewhere
<1>6. AddLines' /\ TradeLines' /\ TouchLines' /\ LeaveLines'
  BY <1>1, <1>5, SameLinesKeep DEF Alike, Writes
<1>7. Owners'
  <2>1. \A k \in Command : mine[k] # n + 1
    <3>1. \A k \in Command : mine[k] \in Nat /\ mine[k] <= n
      BY <1>0, BaseGives
    <3> QED
      BY <3>1
  <2>2. ASSUME NEW c, c # n + 1, \A i : ~IsLine(c, i) PROVE \A i : ~IsLine(c, i)'
    BY <1>4, <2>2 DEF Gets
  <2> QED
    BY <1>1, <2>1, <2>2 DEF OutInv, Owners, OpenStay, Writes
<1>8. InPrint'
  BY <1>0, <1>1, <1>4 DEF OutInv, InPrint, OpenStay, Gets
<1>9. Traders'
  BY <1>1 DEF OutInv, Traders, Holds
<1> QED
  BY <1>6, <1>7, <1>8, <1>9 DEF OutInv

LEMMA JoinOut ==
  ASSUME Base, OutInv, NEW k \in Command, Joins(k),
         k \notin OrderId => k \in CancelId /\ mine[About[k]] # 0
  PROVE  OutInv'
<1> USE HeadsAreNodes
<1>0. PICK n \in Nat : n = Len(outputs)
  BY BaseGives
<1>1. /\ mine' = [mine EXCEPT ![k] = n + 1] /\ executors' = executors /\ queue' = queue
      /\ SameLines /\ Opens(n + 1) /\ Len(outputs') = n + 1
      /\ taken' = taken /\ shown' = shown
      /\ \A o : Rests(o)' <=> Rests(o)
      /\ \A m, o : Holds(m, o)' <=> Holds(m, o)
  BY <1>0 DEF Joins, SameOrders, Rests, Holds
<1>2. /\ mine'[k] = n + 1 /\ \A l \in Command : l # k => mine'[l] = mine[l]
      /\ \A l \in Command : mine[l] \in Nat /\ mine[l] <= n /\ mine[l] # n + 1
      /\ n + 1 # 0
  <2>1. \A l \in Command : mine[l] \in Nat /\ mine[l] <= n
    BY <1>0, BaseGives
  <2>2. mine \in [Command -> 0 .. Len(outputs)]
    BY BaseGives DEF TypeOK
  <2> QED
    BY <1>1, <2>1, <2>2
<1>3. /\ ~Writes(k) /\ Writes(k)' /\ pc[k] # "done" /\ pc'[k] # "done" /\ pc'[k] # "unread"
      /\ pc'[k] \notin {"lock head", "queue cancel"}
      /\ \A l \in Command : l # k => pc'[l] = pc[l] /\ (Writes(l)' <=> Writes(l))
  <2>1. PICK l : /\ pc' = [pc EXCEPT ![k] = l] /\ l \in {"add", "cancel"}
                 /\ pc[k] \in {"queue add", "queue cancel"}
    <3>1. CASE k \in OrderId
      BY <3>1 DEF Joins
    <3>2. CASE k \notin OrderId
      BY <3>2 DEF Joins
    <3> QED
      BY <3>1, <3>2
  <2>2. pc \in [Command -> {"unread", "done"} \cup OrderPc \cup CancelPc]
    BY BaseGives DEF TypeOK
  <2>3. pc'[k] = l /\ \A m \in Command : m # k => pc'[m] = pc[m]
    BY <2>1, <2>2
  <2> QED
    BY <2>1, <2>3 DEF Writes
<1>4. mine[k] = 0
  BY <1>3 DEF OutInv, Owners
<1>5. Owners'
  <2>1. \A c : c # n + 1 => (Open(c)' <=> Open(c))
    BY <1>1 DEF Opens
  <2>2. \A c, i : IsLine(c, i)' <=> IsLine(c, i)
    BY <1>1 DEF SameLines
  <2>3. Open(n + 1)' /\ \A i : ~IsLine(n + 1, i)
    <3>1. n + 1 \notin DOMAIN outputs
      BY <1>0, BaseGives
    <3> QED
      BY <1>1, <3>1 DEF Opens, IsLine
  <2>4. ASSUME NEW l \in Command, Writes(l)'
        PROVE  mine'[l] # 0 /\ \A ch : mine'[l] = ch => Open(ch)' /\ \A i : ~IsLine(ch, i)'
    <3>1. CASE l = k
      BY <1>2, <2>2, <2>3, <3>1
    <3>2. CASE l # k
      BY <1>2, <1>3, <2>1, <2>2, <2>4, <3>2 DEF OutInv, Owners
    <3> QED
      BY <3>1, <3>2
  <2>5. \A l \in Command : mine'[l] # 0 => Writes(l)' \/ pc'[l] = "done"
    BY <1>2, <1>3 DEF OutInv, Owners
  <2>6. \A l, m \in Command : mine'[l] = mine'[m] /\ mine'[l] # 0 => l = m
    BY <1>2 DEF OutInv, Owners
  <2>7. ASSUME NEW e \in executors
        PROVE  Open(e.channel)' /\ \A l \in Command : mine'[l] # e.channel
    <3>1. e.channel # n + 1
      <4>1. e.channel \in Nat /\ e.channel <= n
        BY <1>0, BaseGives
      <4> QED
        BY <4>1
    <3> QED
      BY <1>2, <2>1, <3>1 DEF OutInv, Owners
  <2> QED
    BY <1>1, <2>4, <2>5, <2>6, <2>7 DEF OutInv, Owners
<1>6. InPrint'
  BY <1>0, <1>1 DEF OutInv, InPrint, Opens, SameLines
<1>7. NothingSaid
  BY <1>1, SameSay
<1>8. \A o, ch, i : /\ AddLine(o, ch, i) => o \in Command
                    /\ Touches(o, ch, i) => o \in Command
                    /\ \A r, s : TradeLine(o, r, s, ch, i) => o \in Command
  BY BaseGives, LineOrders
<1>9. AddLines'
  <2>1. ASSUME NEW o, NEW ch, NEW i, AddLine(o, ch, i)'
        PROVE  i = 1 /\ pc'[o] = "done" /\ mine'[o] = ch
    <3>1. AddLine(o, ch, i) /\ o \in Command
      BY <1>7, <1>8, <2>1 DEF NothingSaid
    <3>2. i = 1 /\ pc[o] = "done" /\ mine[o] = ch
      BY <3>1 DEF OutInv, AddLines
    <3> QED
      BY <1>2, <1>3, <3>1, <3>2
  <2>2. ASSUME NEW o \in OrderId, NEW ch, mine'[o] = ch, ch # 0, pc'[o] = "done"
        PROVE  AddLine(o, ch, 1)'
    <3>1. o # k
      BY <1>3, <2>2
    <3>2. AddLine(o, ch, 1)
      BY <1>2, <1>3, <2>2, <3>1 DEF OutInv, AddLines
    <3> QED
      BY <1>7, <3>2 DEF NothingSaid
  <2> QED
    BY <2>1, <2>2 DEF AddLines
<1>10. TradeLines'
  <2>1. ASSUME NEW o, NEW r, NEW s, NEW ch, NEW i, TradeLine(o, r, s, ch, i)'
        PROVE  o # r /\ s > 0 /\ pc'[o] # "unread"
    <3>1. TradeLine(o, r, s, ch, i) /\ o \in Command
      BY <1>7, <1>8, <2>1 DEF NothingSaid
    <3>2. o # r /\ s > 0 /\ pc[o] # "unread"
      BY <3>1 DEF OutInv, TradeLines
    <3> QED
      BY <1>3, <3>1, <3>2
  <2> QED
    BY <2>1 DEF TradeLines
<1>11. Traders'
  <2>1. ASSUME NEW e \in executors
        PROVE  /\ pc'[e.order] # "unread" /\ (mine'[e.order] # 0 => e.channel < mine'[e.order])
               /\ \A r \in OrderId : Holds(e.level, r)' => mine'[r] < e.channel
    <3>1. /\ e.order \in Command /\ e.channel \in Nat /\ e.channel <= n /\ e.level \in Node
      BY <1>0, BaseGives
    <3>2. pc'[e.order] # "unread"
      BY <1>3, <2>1, <3>1 DEF OutInv, Traders
    <3>3. mine'[e.order] # 0 => e.channel < mine'[e.order]
      <4>1. CASE e.order = k
        BY <1>2, <3>1, <4>1
      <4>2. CASE e.order # k
        BY <1>2, <2>1, <3>1, <4>2 DEF OutInv, Traders
      <4> QED
        BY <4>1, <4>2
    <3>4. ASSUME NEW r \in OrderId, Holds(e.level, r)' PROVE mine'[r] < e.channel
      <4>1. Holds(e.level, r) /\ Rests(r)
        BY <1>1, <3>1, <3>4, BaseGives
      <4>2. r # k
        BY <1>3, <4>1, BaseGives
      <4> QED
        BY <1>2, <4>1, <4>2 DEF OutInv, Traders
    <3> QED
      BY <3>2, <3>3, <3>4
  <2> QED
    BY <1>1, <2>1 DEF Traders
<1>12. TouchLines'
  <2>1. ASSUME NEW o, NEW ch, NEW i, Touches(o, ch, i)'
        PROVE  pc'[o] = "done" /\ mine'[o] # 0 /\ mine'[o] < ch
    <3>1. Touches(o, ch, i) /\ o \in Command
      BY <1>7, <1>8, <2>1 DEF NothingSaid
    <3>2. pc[o] = "done" /\ mine[o] # 0 /\ mine[o] < ch
      BY <3>1 DEF OutInv, TouchLines
    <3> QED
      BY <1>2, <1>3, <3>1, <3>2
  <2>2. \A o, ch, i : EndLine(o, ch, i)' => ~Rests(o)'
    BY <1>1, <1>7 DEF NothingSaid, OutInv, TouchLines
  <2>3. \A o \in OrderId : Rests(o)' => mine'[o] # 0
    BY <1>1, <1>2 DEF OutInv, TouchLines
  <2>4. ASSUME NEW x \in CancelId
        PROVE  /\ pc'[x] \in {"lock head", "queue cancel"}
                    => pc'[About[x]] = "queue add" \/ mine'[About[x]] # 0
               /\ mine'[x] # 0 => mine'[About[x]] # 0 /\ mine'[About[x]] < mine'[x]
    <3>1. PICK o \in OrderId : o = About[x] /\ o # x
      OBVIOUS
    <3>2. pc'[x] \in {"lock head", "queue cancel"} => pc'[o] = "queue add" \/ mine'[o] # 0
      BY <1>2, <1>3, <3>1 DEF OutInv, TouchLines
    <3>3. ASSUME mine'[x] # 0 PROVE mine'[o] # 0 /\ mine'[o] < mine'[x]
      <4>1. CASE x = k
        BY <1>2, <3>1, <4>1
      <4>2. CASE x # k
        <5>1. mine[o] # 0 /\ mine[o] < mine[x]
          BY <1>2, <3>1, <3>3, <4>2 DEF OutInv, TouchLines
        <5>2. o # k
          BY <1>4, <5>1
        <5> QED
          BY <1>2, <4>2, <5>1, <5>2
      <4> QED
        BY <4>1, <4>2
    <3> QED
      BY <3>1, <3>2, <3>3
  <2> QED
    BY <2>1, <2>2, <2>3, <2>4 DEF TouchLines
<1>13. LeaveLines'
  <2> SUFFICES ASSUME NEW o \in OrderId, mine'[o] # 0, pc'[o] = "done", ~Rests(o)'
               PROVE  \E ch, i : Touches(o, ch, i)'
    BY DEF LeaveLines
  <2>1. o # k
    BY <1>3
  <2>2. \E ch, i : Touches(o, ch, i)
    BY <1>1, <1>2, <1>3, <2>1 DEF OutInv, LeaveLines
  <2> QED
    BY <1>7, <2>2 DEF NothingSaid
<1> QED
  BY <1>5, <1>6, <1>9, <1>10, <1>11, <1>12, <1>13 DEF OutInv

(* CancelOrder has the lock of the head, so its order has left it. *)
LEMMA CancelsBehind ==
  ASSUME Base, OutInv, NEW x \in CancelId, QueueCancel(x)
  PROVE  mine[About[x]] # 0
<1> USE HeadsAreNodes
<1>1. pc[x] = "queue cancel" /\ About[x] \in OrderId /\ About[x] # x
  BY DEF QueueCancel
<1>2. Uses(x) = {OwnHead(About[x])}
  BY <1>1, UsesAt
<1>3. pc[About[x]] = "queue add" => Uses(About[x]) = {OwnHead(About[x])}
  BY <1>1, UsesAt
<1>4. Uses(x) \cap Uses(About[x]) = {}
  BY <1>1, BaseGives DEF LocksHaveOneUser
<1>5. pc[About[x]] # "queue add"
  BY <1>2, <1>3, <1>4
<1> QED
  BY <1>1, <1>5 DEF OutInv, TouchLines

(* Appending an order to its level: the line that books it. *)
LEMMA AppendOut ==
  ASSUME Base, OutInv, NEW o \in OrderId, Appends(o)
  PROVE  OutInv'
<1> USE HeadsAreNodes
<1>1. /\ pc[o] = "append" /\ Writes(o) /\ pc' = [pc EXCEPT ![o] = "done"]
      /\ executors' = executors /\ mine' = mine /\ Len(outputs') = Len(outputs)
      /\ taken' = taken /\ shown' = shown /\ Closes(mine[o])
      /\ \A p \in OrderId : Rests(p)' <=> Rests(p) \/ p = o
      /\ \A e \in executors, p \in OrderId : Holds(e.level, p)' => Holds(e.level, p)
  BY DEF Appends, WritesLast, SameOrders
<1>2. /\ pc'[o] = "done" /\ \A k \in Command : k # o => pc'[k] = pc[k]
      /\ ~Writes(o)' /\ \A k \in Command : k # o => (Writes(k)' <=> Writes(k))
  <2>1. pc'[o] = "done" /\ \A k \in Command : k # o => pc'[k] = pc[k]
    BY <1>1, BaseGives DEF TypeOK
  <2> QED
    BY <2>1 DEF Writes
<1>3. PICK c : c = mine[o]
  OBVIOUS
<1>4. /\ c # 0 /\ c \in Nat /\ Open(c) /\ \A i : ~IsLine(c, i)
      /\ \A k \in Command : mine[k] = c => k = o
  <2>1. c \in Nat
    BY <1>3, BaseGives
  <2> QED
    BY <1>1, <1>3, <2>1 DEF OutInv, Owners
<1>5. PICK line : line = Added(o)
  OBVIOUS
<1>6. line.kind = "added" /\ line.id = o
  BY <1>5 DEF Added
<1>7. Gets(c, 1, line)
  <2>1. PICK i \in Nat : i = Len(outputs[c].lines) + 1 /\ Gets(c, i, line)
    BY <1>3, <1>5 DEF Appends, WritesLast
  <2>2. c \in DOMAIN outputs
    BY <1>4 DEF Open
  <2>3. PICK n \in Nat : n = Len(outputs[c].lines) /\ DOMAIN outputs[c].lines = 1 .. n
    BY <2>2, BaseGives, LinesAreTyped
  <2>4. n = 0
    <3> SUFFICES ASSUME n # 0 PROVE FALSE
      OBVIOUS
    <3>1. 1 \in 1 .. n
      OBVIOUS
    <3>2. IsLine(c, 1)
      BY <2>2, <2>3, <3>1 DEF IsLine
    <3> QED
      BY <1>4, <3>2
  <2>5. i = 1
    BY <2>1, <2>3, <2>4
  <2> QED
    BY <2>1, <2>5
<1>8. \A p, ch, i :
        /\ AddLine(p, ch, i)' <=> AddLine(p, ch, i) \/ (ch = c /\ i = 1 /\ p = o)
        /\ EndLine(p, ch, i)' <=> EndLine(p, ch, i)
        /\ \A r, n : TradeLine(p, r, n, ch, i)' <=> TradeLine(p, r, n, ch, i)
  BY <1>6, <1>7, NewSays
<1>9. \A p, ch, i : /\ HitLine(p, ch, i)' <=> HitLine(p, ch, i)
                    /\ Touches(p, ch, i)' <=> Touches(p, ch, i)
  <2>1. \A p, ch, i : HitLine(p, ch, i)' <=> HitLine(p, ch, i)
    BY <1>8 DEF HitLine
  <2> QED
    BY <1>8, <2>1 DEF Touches
<1>10. \A p, ch, i : /\ AddLine(p, ch, i) => p \in OrderId
                     /\ Touches(p, ch, i) => p \in OrderId
                     /\ \A r, n : TradeLine(p, r, n, ch, i) => p \in OrderId
  BY BaseGives, LineOrders
<1>11. ~Rests(o)
  BY <1>1, BaseGives
<1>12. Owners'
  <2>1. \A ch : ch # c => (Open(ch)' <=> Open(ch)) /\ \A i : IsLine(ch, i)' <=> IsLine(ch, i)
    BY <1>1, <1>3, <1>7 DEF Closes, Gets
  <2>2. ASSUME NEW k \in Command, Writes(k)'
        PROVE  mine'[k] # 0 /\ \A ch : mine'[k] = ch => Open(ch)' /\ \A i : ~IsLine(ch, i)'
    <3>1. k # o /\ Writes(k)
      BY <1>2, <2>2
    <3>2. mine[k] # c
      BY <1>4, <3>1
    <3> QED
      BY <1>1, <2>1, <3>1, <3>2 DEF OutInv, Owners
  <2>3. \A k \in Command : mine'[k] # 0 => Writes(k)' \/ pc'[k] = "done"
    BY <1>1, <1>2 DEF OutInv, Owners
  <2>4. ASSUME NEW e \in executors
        PROVE  Open(e.channel)' /\ \A k \in Command : mine'[k] # e.channel
    <3>1. e.channel # c
      BY <1>3 DEF OutInv, Owners
    <3> QED
      BY <1>1, <2>1, <3>1 DEF OutInv, Owners
  <2> QED
    BY <1>1, <2>2, <2>3, <2>4 DEF OutInv, Owners
<1>13. InPrint'
  BY <1>1, <1>7 DEF OutInv, InPrint, Closes, Gets
<1>14. AddLines'
  <2>1. ASSUME NEW p, NEW ch, NEW i, AddLine(p, ch, i)'
        PROVE  i = 1 /\ pc'[p] = "done" /\ mine'[p] = ch
    <3>1. CASE AddLine(p, ch, i)
      <4>1. p \in Command
        BY <1>10, <3>1
      <4> QED
        BY <1>1, <1>2, <3>1, <4>1 DEF OutInv, AddLines
    <3>2. CASE ch = c /\ i = 1 /\ p = o
      BY <1>1, <1>2, <1>3, <3>2
    <3> QED
      BY <1>8, <2>1, <3>1, <3>2
  <2>2. ASSUME NEW p \in OrderId, NEW ch, mine'[p] = ch, ch # 0, pc'[p] = "done"
        PROVE  AddLine(p, ch, 1)'
    <3>1. CASE p = o
      BY <1>1, <1>3, <1>8, <2>2, <3>1
    <3>2. CASE p # o
      BY <1>1, <1>2, <1>8, <2>2, <3>2 DEF OutInv, AddLines
    <3> QED
      BY <3>1, <3>2
  <2> QED
    BY <2>1, <2>2 DEF AddLines
<1>15. TradeLines'
  <2>1. ASSUME NEW p, NEW r, NEW n, NEW ch, NEW i, TradeLine(p, r, n, ch, i)'
        PROVE  p # r /\ n > 0 /\ pc'[p] # "unread"
    <3>1. TradeLine(p, r, n, ch, i)
      BY <1>8, <2>1
    <3>2. p \in Command
      BY <1>10, <3>1
    <3> QED
      BY <1>2, <3>1, <3>2 DEF OutInv, TradeLines
  <2> QED
    BY <2>1 DEF TradeLines
<1>16. Traders'
  <2>1. ASSUME NEW e \in executors
        PROVE  /\ pc'[e.order] # "unread" /\ (mine'[e.order] # 0 => e.channel < mine'[e.order])
               /\ \A r \in OrderId : Holds(e.level, r)' => mine'[r] < e.channel
    <3>1. e.order \in Command
      BY <2>1, BaseGives
    <3> QED
      BY <1>1, <1>2, <2>1, <3>1 DEF OutInv, Traders
  <2> QED
    BY <1>1, <2>1 DEF Traders
<1>17. TouchLines'
  <2>1. ASSUME NEW p, NEW ch, NEW i, Touches(p, ch, i)'
        PROVE  pc'[p] = "done" /\ mine'[p] # 0 /\ mine'[p] < ch
    <3>1. Touches(p, ch, i) /\ p \in Command
      BY <1>9, <1>10, <2>1
    <3> QED
      BY <1>1, <1>2, <3>1 DEF OutInv, TouchLines
  <2>2. ASSUME NEW p, NEW ch, NEW i, EndLine(p, ch, i)' PROVE ~Rests(p)'
    <3>1. EndLine(p, ch, i) /\ Touches(p, ch, i) /\ p \in OrderId
      BY <1>8, <1>10, <2>2 DEF Touches
    <3>2. p # o
      BY <1>1, <3>1 DEF OutInv, TouchLines
    <3> QED
      BY <1>1, <3>1, <3>2 DEF OutInv, TouchLines
  <2>3. \A p \in OrderId : Rests(p)' => mine'[p] # 0
    BY <1>1, <1>3, <1>4 DEF OutInv, TouchLines
  <2>4. ASSUME NEW x \in CancelId
        PROVE  /\ pc'[x] \in {"lock head", "queue cancel"}
                    => pc'[About[x]] = "queue add" \/ mine'[About[x]] # 0
               /\ mine'[x] # 0 => mine'[About[x]] # 0 /\ mine'[About[x]] < mine'[x]
    <3>1. x # o /\ About[x] \in Command /\ pc'[x] = pc[x]
      BY <1>2
    <3>2. pc[About[x]] = "queue add" => About[x] # o
      BY <1>1
    <3> QED
      BY <1>1, <1>2, <3>1, <3>2 DEF OutInv, TouchLines
  <2> QED
    BY <2>1, <2>2, <2>3, <2>4 DEF TouchLines
<1>18. LeaveLines'
  <2> SUFFICES ASSUME NEW p \in OrderId, mine'[p] # 0, pc'[p] = "done", ~Rests(p)'
               PROVE  \E ch, i : Touches(p, ch, i)'
    BY DEF LeaveLines
  <2>1. p # o /\ ~Rests(p)
    BY <1>1
  <2>2. \E ch, i : Touches(p, ch, i)
    BY <1>1, <1>2, <2>1 DEF OutInv, LeaveLines
  <2> QED
    BY <1>9, <2>2
<1> QED
  BY <1>12, <1>13, <1>14, <1>15, <1>16, <1>17, <1>18 DEF OutInv

(* The answer to a cancel: an accepted one takes the order out. *)
LEMMA AnswerOut ==
  ASSUME Base, OutInv, NEW x \in CancelId, NEW accepted \in BOOLEAN, Answers(x, accepted)
  PROVE  OutInv'
<1> USE HeadsAreNodes
<1>1. /\ pc[x] = "cancel" /\ Writes(x) /\ pc' = [pc EXCEPT ![x] = "done"]
      /\ executors' = executors /\ mine' = mine /\ Len(outputs') = Len(outputs)
      /\ taken' = taken /\ shown' = shown /\ Closes(mine[x])
      /\ accepted => Rests(About[x])
      /\ \A p \in OrderId : Rests(p)' <=> Rests(p) /\ ~(accepted /\ p = About[x])
      /\ \A n \in Node, p \in OrderId : Holds(n, p)' => Holds(n, p)
  BY DEF Answers, WritesLast, SameOrders
<1>2. /\ pc'[x] = "done" /\ \A k \in Command : k # x => pc'[k] = pc[k]
      /\ ~Writes(x)' /\ \A k \in Command : k # x => (Writes(k)' <=> Writes(k))
      /\ x \notin OrderId /\ \A p \in OrderId : pc'[p] = pc[p]
  <2>1. pc'[x] = "done" /\ \A k \in Command : k # x => pc'[k] = pc[k]
    BY <1>1, BaseGives DEF TypeOK
  <2> QED
    BY <2>1 DEF Writes
<1>3. PICK c : c = mine[x]
  OBVIOUS
<1>4. /\ c # 0 /\ c \in Nat /\ Open(c)
      /\ \A k \in Command : mine[k] = c => k = x
  <2>1. c \in Nat
    BY <1>3, BaseGives
  <2> QED
    BY <1>1, <1>3, <2>1 DEF OutInv, Owners
<1>5. PICK line : line = Deleted(x, accepted)
  OBVIOUS
<1>6. line.kind = "deleted" /\ line.id = About[x] /\ line.accepted = accepted
  BY <1>5 DEF Deleted
<1>7. PICK j \in Nat : Gets(c, j, line)
  BY <1>3, <1>5 DEF Answers, WritesLast
<1>8. \A p, ch, i :
        /\ AddLine(p, ch, i)' <=> AddLine(p, ch, i)
        /\ EndLine(p, ch, i)' <=>
             EndLine(p, ch, i) \/ (ch = c /\ i = j /\ accepted /\ p = About[x])
        /\ \A r, n : TradeLine(p, r, n, ch, i)' <=> TradeLine(p, r, n, ch, i)
  <2> SUFFICES ASSUME NEW p, NEW ch, NEW i
               PROVE  /\ AddLine(p, ch, i)' <=> AddLine(p, ch, i)
                      /\ EndLine(p, ch, i)' <=>
                           EndLine(p, ch, i) \/ (ch = c /\ i = j /\ accepted /\ p = About[x])
                      /\ \A r, n : TradeLine(p, r, n, ch, i)' <=> TradeLine(p, r, n, ch, i)
    OBVIOUS
  <2>1. AddLine(p, ch, i)' <=> AddLine(p, ch, i)
    BY <1>6, <1>7, NewSays
  <2>2. EndLine(p, ch, i)' <=>
          EndLine(p, ch, i) \/ (ch = c /\ i = j /\ accepted /\ p = About[x])
    BY <1>6, <1>7, NewSays
  <2>3. \A r, n : TradeLine(p, r, n, ch, i)' <=> TradeLine(p, r, n, ch, i)
    BY <1>6, <1>7, NewSays
  <2> QED
    BY <2>1, <2>2, <2>3
<1>9. \A p, ch, i : /\ HitLine(p, ch, i)' <=> HitLine(p, ch, i)
                    /\ Touches(p, ch, i)' <=>
                         Touches(p, ch, i) \/ (ch = c /\ i = j /\ accepted /\ p = About[x])
  <2>1. \A p, ch, i : HitLine(p, ch, i)' <=> HitLine(p, ch, i)
    BY <1>8 DEF HitLine
  <2> QED
    BY <1>8, <2>1 DEF Touches
<1>10. \A p, ch, i : /\ AddLine(p, ch, i) => p \in OrderId
                     /\ Touches(p, ch, i) => p \in OrderId
                     /\ \A r, n : TradeLine(p, r, n, ch, i) => p \in OrderId
  BY BaseGives, LineOrders
<1>11. /\ About[x] \in OrderId /\ mine[About[x]] # 0 /\ mine[About[x]] < c
       /\ accepted => pc[About[x]] = "done"
  BY <1>1, <1>3, <1>4, BaseGives DEF OutInv, TouchLines
<1>12. Owners'
  <2>1. \A ch : ch # c => (Open(ch)' <=> Open(ch)) /\ \A i : IsLine(ch, i)' <=> IsLine(ch, i)
    BY <1>1, <1>3, <1>7 DEF Closes, Gets
  <2>2. ASSUME NEW k \in Command, Writes(k)'
        PROVE  mine'[k] # 0 /\ \A ch : mine'[k] = ch => Open(ch)' /\ \A i : ~IsLine(ch, i)'
    <3>1. k # x /\ Writes(k)
      BY <1>2, <2>2
    <3>2. mine[k] # c
      BY <1>4, <3>1
    <3> QED
      BY <1>1, <2>1, <3>1, <3>2 DEF OutInv, Owners
  <2>3. \A k \in Command : mine'[k] # 0 => Writes(k)' \/ pc'[k] = "done"
    BY <1>1, <1>2 DEF OutInv, Owners
  <2>4. ASSUME NEW e \in executors
        PROVE  Open(e.channel)' /\ \A k \in Command : mine'[k] # e.channel
    <3>1. e.channel # c
      BY <1>3 DEF OutInv, Owners
    <3> QED
      BY <1>1, <2>1, <3>1 DEF OutInv, Owners
  <2> QED
    BY <1>1, <2>2, <2>3, <2>4 DEF OutInv, Owners
<1>13. InPrint'
  BY <1>1, <1>7 DEF OutInv, InPrint, Closes, Gets
<1>14. AddLines'
  <2>1. ASSUME NEW p, NEW ch, NEW i, AddLine(p, ch, i)'
        PROVE  i = 1 /\ pc'[p] = "done" /\ mine'[p] = ch
    <3>1. AddLine(p, ch, i)
      BY <1>8, <2>1
    <3>2. p \in OrderId
      BY <1>10, <3>1
    <3> QED
      BY <1>1, <1>2, <3>1, <3>2 DEF OutInv, AddLines
  <2>2. ASSUME NEW p \in OrderId, NEW ch, mine'[p] = ch, ch # 0, pc'[p] = "done"
        PROVE  AddLine(p, ch, 1)'
    BY <1>1, <1>2, <1>8, <2>2 DEF OutInv, AddLines
  <2> QED
    BY <2>1, <2>2 DEF AddLines
<1>15. TradeLines'
  <2>1. ASSUME NEW p, NEW r, NEW n, NEW ch, NEW i, TradeLine(p, r, n, ch, i)'
        PROVE  p # r /\ n > 0 /\ pc'[p] # "unread"
    <3>1. TradeLine(p, r, n, ch, i)
      BY <1>8, <2>1
    <3>2. p \in OrderId
      BY <1>10, <3>1
    <3> QED
      BY <1>2, <3>1, <3>2 DEF OutInv, TradeLines
  <2> QED
    BY <2>1 DEF TradeLines
<1>16. Traders'
  <2>1. ASSUME NEW e \in executors
        PROVE  /\ pc'[e.order] # "unread" /\ (mine'[e.order] # 0 => e.channel < mine'[e.order])
               /\ \A r \in OrderId : Holds(e.level, r)' => mine'[r] < e.channel
    <3>1. e.order \in OrderId /\ e.level \in Node
      BY <2>1, BaseGives
    <3> QED
      BY <1>1, <1>2, <2>1, <3>1 DEF OutInv, Traders
  <2> QED
    BY <1>1, <2>1 DEF Traders
<1>17. TouchLines'
  <2>1. ASSUME NEW p, NEW ch, NEW i, Touches(p, ch, i)'
        PROVE  pc'[p] = "done" /\ mine'[p] # 0 /\ mine'[p] < ch
    <3>1. CASE Touches(p, ch, i)
      <4>1. p \in OrderId
        BY <1>10, <3>1
      <4> QED
        BY <1>1, <1>2, <3>1, <4>1 DEF OutInv, TouchLines
    <3>2. CASE ch = c /\ i = j /\ accepted /\ p = About[x]
      BY <1>1, <1>2, <1>11, <3>2
    <3> QED
      BY <1>9, <2>1, <3>1, <3>2
  <2>2. ASSUME NEW p, NEW ch, NEW i, EndLine(p, ch, i)' PROVE ~Rests(p)'
    <3>1. CASE EndLine(p, ch, i)
      <4>1. p \in OrderId
        BY <1>10, <3>1 DEF Touches
      <4> QED
        BY <1>1, <3>1, <4>1 DEF OutInv, TouchLines
    <3>2. CASE accepted /\ p = About[x]
      BY <1>1, <1>11, <3>2
    <3> QED
      BY <1>8, <2>2, <3>1, <3>2
  <2>3. \A p \in OrderId : Rests(p)' => mine'[p] # 0
    BY <1>1 DEF OutInv, TouchLines
  <2>4. ASSUME NEW y \in CancelId
        PROVE  /\ pc'[y] \in {"lock head", "queue cancel"}
                    => pc'[About[y]] = "queue add" \/ mine'[About[y]] # 0
               /\ mine'[y] # 0 => mine'[About[y]] # 0 /\ mine'[About[y]] < mine'[y]
    <3>1. About[y] \in OrderId /\ (pc'[y] = pc[y] \/ pc'[y] = "done")
      BY <1>2
    <3> QED
      BY <1>1, <1>2, <3>1 DEF OutInv, TouchLines
  <2> QED
    BY <2>1, <2>2, <2>3, <2>4 DEF TouchLines
<1>18. LeaveLines'
  <2> SUFFICES ASSUME NEW p \in OrderId, mine'[p] # 0, pc'[p] = "done", ~Rests(p)'
               PROVE  \E ch, i : Touches(p, ch, i)'
    BY DEF LeaveLines
  <2>1. CASE Rests(p)
    <3>1. Touches(p, c, j)'
      BY <1>1, <1>9, <2>1
    <3> QED
      BY <3>1
  <2>2. CASE ~Rests(p)
    <3>1. \E ch, i : Touches(p, ch, i)
      BY <1>1, <1>2, <2>2 DEF OutInv, LeaveLines
    <3> QED
      BY <1>9, <3>1
  <2> QED
    BY <2>1, <2>2
<1> QED
  BY <1>12, <1>13, <1>14, <1>15, <1>16, <1>17, <1>18 DEF OutInv

(* A round of executeOrder: the line of an execution. *)
LEMMA TradeOut ==
  ASSUME Base, OutInv, NEW e \in executors, NEW w \in OrderId, NEW s \in Nat, NEW j,
         TradesWith(e, w, s, j)
  PROVE  OutInv'
<1> USE HeadsAreNodes
<1>1. /\ s > 0 /\ Holds(e.level, w) /\ OpenStay
      /\ pc' = pc /\ mine' = mine /\ Len(outputs') = Len(outputs)
      /\ taken' = taken /\ shown' = shown
      /\ \A n \in Node, o \in OrderId : Holds(n, o)' => Holds(n, o)
      /\ \A o \in OrderId : /\ Rests(o)' => Rests(o)
                            /\ Rests(o) /\ o # w => Rests(o)'
  BY DEF TradesWith
<1>2. PICK f : /\ executors' = (executors \ {e}) \cup {f}
               /\ f.order = e.order /\ f.level = e.level /\ f.channel = e.channel
  BY DEF TradesWith, Lessens
<1>3. PICK c : c = e.channel
  OBVIOUS
<1>4. /\ c \in Nat /\ e.order \in OrderId /\ e.level \in Node
      /\ \A k \in Command : mine[k] # c
      /\ Rests(w) /\ pc[w] = "done" /\ mine[w] # 0 /\ mine[w] < c
      /\ \A k \in Command : mine[k] \in Nat
  <2>1. c \in Nat /\ e.order \in OrderId /\ e.level \in Node /\ \A k \in Command : mine[k] \in Nat
    BY <1>3, BaseGives
  <2>2. Rests(w) /\ pc[w] = "done"
    BY <1>1, <2>1, BaseGives
  <2> QED
    BY <1>1, <1>3, <2>1, <2>2 DEF OutInv, Owners, TouchLines, Traders
<1>5. e.order # w
  <2> SUFFICES ASSUME e.order = w PROVE FALSE
    OBVIOUS
  <2>1. c < mine[w]
    BY <1>3, <1>4 DEF OutInv, Traders
  <2> QED
    BY <1>4, <2>1
<1>6. PICK line : line = Executed(e.order, w, s)
  OBVIOUS
<1>7. line.kind = "executed" /\ line.id = e.order /\ line.resting = w /\ line.count = s
  BY <1>6 DEF Executed
<1>8. Gets(c, j, line)
  BY <1>3, <1>6 DEF TradesWith
<1>9. \A p, ch, i :
        /\ AddLine(p, ch, i)' <=> AddLine(p, ch, i)
        /\ EndLine(p, ch, i)' <=> EndLine(p, ch, i)
        /\ \A q, n : TradeLine(p, q, n, ch, i)' <=>
             TradeLine(p, q, n, ch, i) \/ (ch = c /\ i = j /\ p = e.order /\ q = w /\ n = s)
  <2> SUFFICES ASSUME NEW p, NEW ch, NEW i
               PROVE  /\ AddLine(p, ch, i)' <=> AddLine(p, ch, i)
                      /\ EndLine(p, ch, i)' <=> EndLine(p, ch, i)
                      /\ \A q, n : TradeLine(p, q, n, ch, i)' <=>
                           \/ TradeLine(p, q, n, ch, i)
                           \/ ch = c /\ i = j /\ p = e.order /\ q = w /\ n = s
    OBVIOUS
  <2>1. AddLine(p, ch, i)' <=> AddLine(p, ch, i)
    BY <1>7, <1>8, NewSays
  <2>2. EndLine(p, ch, i)' <=> EndLine(p, ch, i)
    BY <1>7, <1>8, NewSays
  <2>3. ASSUME NEW q, NEW n
        PROVE  TradeLine(p, q, n, ch, i)' <=>
                 \/ TradeLine(p, q, n, ch, i)
                 \/ ch = c /\ i = j /\ p = e.order /\ q = w /\ n = s
    <3>1. CASE ch = c /\ i = j
      <4>1. ~IsLine(ch, i) /\ IsLine(ch, i)' /\ At(ch, i)' = line
        BY <1>8, <3>1 DEF Gets
      <4> QED
        BY <1>7, <3>1, <4>1 DEF TradeLine
    <3>2. CASE ~(ch = c /\ i = j)
      <4>1. (IsLine(ch, i)' <=> IsLine(ch, i)) /\ (IsLine(ch, i) => At(ch, i)' = At(ch, i))
        BY <1>8, <3>2 DEF Gets
      <4> QED
        BY <3>2, <4>1 DEF TradeLine
    <3> QED
      BY <3>1, <3>2
  <2> QED
    BY <1>7, <2>1, <2>2, <2>3
<1>10. \A p, ch, i : /\ HitLine(p, ch, i)' <=> HitLine(p, ch, i) \/ (ch = c /\ i = j /\ p = w)
                     /\ Touches(p, ch, i)' <=> Touches(p, ch, i) \/ (ch = c /\ i = j /\ p = w)
  <2>1. ASSUME NEW p, NEW ch, NEW i
        PROVE  HitLine(p, ch, i)' <=> HitLine(p, ch, i) \/ (ch = c /\ i = j /\ p = w)
    <3>1. \A q, n : TradeLine(q, p, n, ch, i)' <=>
            TradeLine(q, p, n, ch, i) \/ (ch = c /\ i = j /\ q = e.order /\ p = w /\ n = s)
      BY <1>9
    <3>2. HitLine(p, ch, i)' => HitLine(p, ch, i) \/ (ch = c /\ i = j /\ p = w)
      BY <3>1 DEF HitLine
    <3>3. HitLine(p, ch, i) => HitLine(p, ch, i)'
      BY <3>1 DEF HitLine
    <3>4. ch = c /\ i = j /\ p = w => HitLine(p, ch, i)'
      BY <3>1 DEF HitLine
    <3> QED
      BY <3>2, <3>3, <3>4
  <2> QED
    BY <1>9, <2>1 DEF Touches
<1>11. \A p, ch, i : /\ AddLine(p, ch, i) => p \in OrderId
                     /\ Touches(p, ch, i) => p \in OrderId
                     /\ \A q, n : TradeLine(p, q, n, ch, i) => p \in OrderId
  BY BaseGives, LineOrders
<1>12. Owners'
  <2>1. \A ch : Open(ch)' <=> Open(ch)
    BY <1>1 DEF OpenStay
  <2>2. \A ch, i : ch # c => (IsLine(ch, i)' <=> IsLine(ch, i))
    BY <1>8 DEF Gets
  <2>3. \A k \in Command : Writes(k)' <=> Writes(k)
    BY <1>1 DEF Writes
  <2>4. ASSUME NEW k \in Command, Writes(k)'
        PROVE  mine'[k] # 0 /\ \A ch : mine'[k] = ch => Open(ch)' /\ \A i : ~IsLine(ch, i)'
    BY <1>1, <1>4, <2>1, <2>2, <2>3, <2>4 DEF OutInv, Owners
  <2>5. ASSUME NEW d \in executors'
        PROVE  \E g \in executors : g.channel = d.channel /\ (d # f => g = d) /\ (d = f => g = e)
    BY <1>2, <2>5
  <2>6. ASSUME NEW d \in executors'
        PROVE  Open(d.channel)' /\ \A k \in Command : mine'[k] # d.channel
    <3>1. PICK g \in executors : g.channel = d.channel
      BY <2>5, <2>6
    <3>2. Open(g.channel) /\ \A k \in Command : mine[k] # g.channel
      BY DEF OutInv, Owners
    <3> QED
      BY <1>1, <2>1, <3>1, <3>2
  <2>7. ASSUME NEW d \in executors', NEW g \in executors', d.channel = g.channel PROVE d = g
    <3>1. \A h \in executors' : h = f \/ (h \in executors /\ h # e)
      BY <1>2
    <3>2. \A h \in executors : h.channel = c => h = e
      BY <1>3 DEF OutInv, Owners
    <3> QED
      BY <1>2, <1>3, <2>7, <3>1, <3>2 DEF OutInv, Owners
  <2> QED
    BY <1>1, <2>3, <2>4, <2>6, <2>7 DEF OutInv, Owners
<1>13. InPrint'
  BY <1>1, <1>8 DEF OutInv, InPrint, OpenStay, Gets
<1>14. AddLines'
  BY <1>1, <1>9 DEF OutInv, AddLines
<1>15. TradeLines'
  <2>1. ASSUME NEW p, NEW q, NEW n, NEW ch, NEW i, TradeLine(p, q, n, ch, i)'
        PROVE  p # q /\ n > 0 /\ pc'[p] # "unread"
    <3>0. \A a, b : TradeLine(p, a, b, ch, i)' <=>
            TradeLine(p, a, b, ch, i) \/ (ch = c /\ i = j /\ p = e.order /\ a = w /\ b = s)
      BY <1>9
    <3>1. TradeLine(p, q, n, ch, i) \/ (p = e.order /\ q = w /\ n = s)
      BY <2>1, <3>0
    <3>2. CASE TradeLine(p, q, n, ch, i)
      BY <1>1, <3>2 DEF OutInv, TradeLines
    <3>3. CASE p = e.order /\ q = w /\ n = s
      BY <1>1, <1>5, <3>3 DEF OutInv, Traders
    <3> QED
      BY <3>1, <3>2, <3>3
  <2> QED
    BY <2>1 DEF TradeLines
<1>16. Traders'
  <2>1. ASSUME NEW d \in executors'
        PROVE  /\ pc'[d.order] # "unread" /\ (mine'[d.order] # 0 => d.channel < mine'[d.order])
               /\ \A p \in OrderId : Holds(d.level, p)' => mine'[p] < d.channel
    <3>1. PICK g \in executors : g.order = d.order /\ g.channel = d.channel /\ g.level = d.level
      BY <1>2, <2>1
    <3>2. /\ pc[g.order] # "unread" /\ (mine[g.order] # 0 => g.channel < mine[g.order])
          /\ \A p \in OrderId : Holds(g.level, p) => mine[p] < g.channel
      BY <3>1 DEF OutInv, Traders
    <3>3. g.level \in Node
      BY <3>1, BaseGives
    <3> QED
      BY <1>1, <3>1, <3>2, <3>3
  <2> QED
    BY <2>1 DEF Traders
<1>17. TouchLines'
  <2>1. ASSUME NEW p, NEW ch, NEW i, Touches(p, ch, i)'
        PROVE  pc'[p] = "done" /\ mine'[p] # 0 /\ mine'[p] < ch
    <3>1. CASE Touches(p, ch, i)
      BY <1>1, <3>1 DEF OutInv, TouchLines
    <3>2. CASE ch = c /\ p = w
      BY <1>1, <1>4, <3>2
    <3> QED
      BY <1>10, <2>1, <3>1, <3>2
  <2>2. ASSUME NEW p, NEW ch, NEW i, EndLine(p, ch, i)' PROVE ~Rests(p)'
    <3>1. EndLine(p, ch, i)
      BY <1>9, <2>2
    <3>2. p \in OrderId
      BY <1>11, <3>1 DEF Touches
    <3> QED
      BY <1>1, <3>1, <3>2 DEF OutInv, TouchLines
  <2>3. \A p \in OrderId : Rests(p)' => mine'[p] # 0
    BY <1>1 DEF OutInv, TouchLines
  <2> QED
    BY <1>1, <2>1, <2>2, <2>3 DEF OutInv, TouchLines
<1>18. LeaveLines'
  <2> SUFFICES ASSUME NEW p \in OrderId, mine'[p] # 0, pc'[p] = "done", ~Rests(p)'
               PROVE  \E ch, i : Touches(p, ch, i)'
    BY DEF LeaveLines
  <2>1. CASE p = w
    <3>1. Touches(w, c, j)'
      BY <1>10
    <3> QED
      BY <2>1, <3>1
  <2>2. CASE p # w
    <3>1. \E ch, i : Touches(p, ch, i)
      BY <1>1, <2>2 DEF OutInv, LeaveLines
    <3> QED
      BY <1>10, <3>1
  <2> QED
    BY <2>1, <2>2
<1> QED
  BY <1>12, <1>13, <1>14, <1>15, <1>16, <1>17, <1>18 DEF OutInv

LEMMA OutStep ==
  ASSUME Base, OutInv, Next
  PROVE  OutInv'
<1>1. ASSUME NEW x \in CancelId, QueueCancel(x), Joins(x) PROVE OutInv'
  <2>1. x \in Command /\ mine[About[x]] # 0
    BY <1>1, CancelsBehind, HeadsAreNodes
  <2> QED
    BY <1>1, <2>1, JoinOut
<1>2. ASSUME NEW o \in OrderId, Joins(o) PROVE OutInv'
  <2>1. o \in Command
    BY HeadsAreNodes
  <2> QED
    BY <1>2, <2>1, JoinOut
<1>3. ASSUME NEW e \in executors, NEW r \in OrderId, NEW s \in Nat, NEW i, TradesWith(e, r, s, i)
      PROVE  OutInv'
  BY <1>3, TradeOut
<1>4. ASSUME NEW o \in OrderId, NEW e, Starts(o, e) PROVE OutInv'
  BY <1>4, StartOut
<1>5. ASSUME NEW x \in CancelId, NEW accepted \in BOOLEAN, Answers(x, accepted) PROVE OutInv'
  BY <1>5, AnswerOut
<1>6. \A e \in executors : Ends(e) => OutInv'
  BY EndOut
<1>7. \A o \in OrderId : Appends(o) => OutInv'
  BY AppendOut
<1>8. \A x \in CancelId : Rejects(x) => OutInv'
  BY RejectOut
<1>9. Still => OutInv'
  BY StillOut
<1>11. \A c \in Client, o \in OrderId : ReadOrder(c, o) => Still
  BY StillSteps
<1>10. NextChannel \/ PrintLine => OutInv'
  BY PrinterOut
<1> QED
  BY <1>1, <1>2, <1>3, <1>4, <1>5, <1>6, <1>7, <1>8, <1>9, <1>10, <1>11,
     OtherKinds, NextKinds

-----------------------------------------------------------------------------
(* The account of an order.  Of its size the printed lines have told one    *)
(* part; another is in lines that wait to be printed; another is what       *)
(* executors that run for it will still match; and the rest is what it has  *)
(* left itself, in MatchOrder or in the book.  The units of the second and  *)
(* the third are counted one by one.                                        *)
Printed(ch, i) == ch < taken \/ (ch = taken /\ i <= shown)

TradeWaits(o, ch, i) ==
  /\ IsLine(ch, i) /\ ~Printed(ch, i)
  /\ At(ch, i).kind = "executed" /\ o \in {At(ch, i).id, At(ch, i).resting}

HitWaits(o, ch, i) ==
  /\ IsLine(ch, i) /\ ~Printed(ch, i)
  /\ At(ch, i).kind = "executed" /\ At(ch, i).resting = o

LineUnits(o) ==
  {w \in Nat \X Nat \X Nat : TradeWaits(o, w[1], w[2]) /\ w[3] \in 1 .. At(w[1], w[2]).count}

PlanUnits(o) ==
  {w \in OrderId \X Nat :
     \E e \in executors : e.order = o /\ e.level = w[1] /\ w[2] \in 1 .. Planned(e)}

Hits(o) == {w \in Nat \X Nat : HitWaits(o, w[1], w[2])}

Ended(o) == \E ch, i : EndLine(o, ch, i)
Gone(o) == \E ch, i : EndLine(o, ch, i) /\ Printed(ch, i)
Booked(o) == \E ch, i : AddLine(o, ch, i) /\ Printed(ch, i)

Rem(o) == IF pc[o] = "done" THEN IF Rests(o) \/ Ended(o) THEN count[o] ELSE 0 ELSE Left(o)

Due(o) == Cardinality(LineUnits(o)) + Cardinality(PlanUnits(o)) + Rem(o)

Alive(o) == Rests(o) \/ pc[o] # "done"

StateOf(o) ==
  IF status[o].filled = status[o].count THEN "Filled"
  ELSE IF Booked(o) THEN "Booked" ELSE "Active"

Account(o) ==
  /\ IsFiniteSet(LineUnits(o)) /\ IsFiniteSet(PlanUnits(o)) /\ IsFiniteSet(Hits(o))
  /\ rId[o] = Nil <=> pc[o] = "unread"
  /\ rId[o] = Nil => status[o] = E!Absent
  /\ rId[o] # Nil => status[o].count = Terms[o].count
  /\ rId[o] # Nil /\ ~Gone(o) => /\ status[o].filled + Due(o) = status[o].count
                                 /\ status[o].state = StateOf(o)
  /\ Gone(o) => status[o].state = "Filled"
  /\ Alive(o) => status[o].execs + Cardinality(Hits(o)) + 1 = executionId[o]
  /\ Ended(o) => count[o] > 0

Accounts == \A o \in OrderId : Account(o)

(* Counting. *)
LEMMA UnionAdds ==
  ASSUME NEW S, NEW T, IsFiniteSet(S), IsFiniteSet(T), S \cap T = {}
  PROVE  /\ IsFiniteSet(S \cup T) /\ Cardinality(S \cup T) = Cardinality(S) + Cardinality(T)
         /\ Cardinality(S) \in Nat /\ Cardinality(T) \in Nat
<1>1. Cardinality(S) \in Nat /\ Cardinality(T) \in Nat
  BY FS_CardinalityType
<1>2. Cardinality(S \cap T) = 0
  BY FS_EmptySet
<1>3. /\ IsFiniteSet(S \cup T)
      /\ Cardinality(S \cup T) = Cardinality(S) + Cardinality(T) - Cardinality(S \cap T)
  BY FS_Union
<1>4. Cardinality(S \cup T) = Cardinality(S) + Cardinality(T)
  BY <1>1, <1>2, <1>3
<1>5. IsFiniteSet(S \cup T)
  BY <1>3
<1> QED
  BY <1>1, <1>4, <1>5

LEMMA TakenOut ==
  ASSUME NEW S, NEW T, IsFiniteSet(S), T \subseteq S
  PROVE  /\ IsFiniteSet(T) /\ IsFiniteSet(S \ T)
         /\ Cardinality(S \ T) + Cardinality(T) = Cardinality(S)
         /\ Cardinality(S \ T) \in Nat /\ Cardinality(T) \in Nat
<1>1. IsFiniteSet(T) /\ IsFiniteSet(S \ T)
  BY FS_Subset, FS_Difference
<1>2. S \cap T = T
  OBVIOUS
<1>3. Cardinality(S \ T) = Cardinality(S) - Cardinality(S \cap T)
  BY FS_Difference
<1>4. /\ Cardinality(S) \in Nat /\ Cardinality(T) \in Nat
      /\ Cardinality(S \ T) \in Nat
  BY <1>1, FS_CardinalityType
<1>5. PICK a \in Nat, b \in Nat :
        a = Cardinality(S) /\ b = Cardinality(T) /\ Cardinality(S \ T) = a - b
  BY <1>2, <1>3, <1>4
<1>6. (a - b) + b = a
  OBVIOUS
<1> QED
  BY <1>1, <1>4, <1>5, <1>6

LineBlock(ch, i, a) == {<<ch, i, u>> : u \in 1 .. a}
PlanBlock(n, a, b) == {<<n, u>> : u \in (a + 1) .. b}

LEMMA LineBlockSize ==
  ASSUME NEW ch, NEW i, NEW a \in Nat
  PROVE  IsFiniteSet(LineBlock(ch, i, a)) /\ Cardinality(LineBlock(ch, i, a)) = a
<1>1. IsFiniteSet(1 .. a) /\ Cardinality(1 .. a) = a
  BY FS_Interval
<1>2. ExistsBijection(1 .. a, LineBlock(ch, i, a))
  <2> DEFINE f == [u \in 1 .. a |-> <<ch, i, u>>]
  <2>1. f \in Bijection(1 .. a, LineBlock(ch, i, a))
    BY DEF LineBlock, Bijection, Injection, Surjection, IsInjective
  <2> QED
    BY <2>1 DEF ExistsBijection
<1> QED
  BY <1>1, <1>2, FS_Bijection

LEMMA PlanBlockSize ==
  ASSUME NEW n, NEW a \in Nat, NEW b \in Nat, a <= b
  PROVE  IsFiniteSet(PlanBlock(n, a, b)) /\ Cardinality(PlanBlock(n, a, b)) = b - a
<1>1. IsFiniteSet((a + 1) .. b) /\ Cardinality((a + 1) .. b) = b - a
  <2>1. /\ IsFiniteSet((a + 1) .. b)
        /\ Cardinality((a + 1) .. b) = IF a + 1 > b THEN 0 ELSE b - (a + 1) + 1
    BY FS_Interval
  <2> QED
    BY <2>1
<1>2. ExistsBijection((a + 1) .. b, PlanBlock(n, a, b))
  <2> DEFINE f == [u \in (a + 1) .. b |-> <<n, u>>]
  <2>1. f \in Bijection((a + 1) .. b, PlanBlock(n, a, b))
    BY DEF PlanBlock, Bijection, Injection, Surjection, IsInjective
  <2> QED
    BY <2>1 DEF ExistsBijection
<1> QED
  BY <1>1, <1>2, FS_Bijection

(* What a step that adds lines, or none, does to the units.                 *)
SameUnits ==
  \A o \in OrderId :
    /\ LineUnits(o)' = LineUnits(o) /\ Hits(o)' = Hits(o)
    /\ Ended(o)' <=> Ended(o)
    /\ Gone(o)' <=> Gone(o)
    /\ Booked(o)' <=> Booked(o)

LEMMA SameLinesUnits ==
  ASSUME SameLines, \A ch, i : IsLine(ch, i) => (Printed(ch, i)' <=> Printed(ch, i))
  PROVE  SameUnits
<1> SUFFICES ASSUME NEW o \in OrderId
             PROVE  /\ LineUnits(o)' = LineUnits(o) /\ Hits(o)' = Hits(o)
                    /\ Ended(o)' <=> Ended(o)
                    /\ Gone(o)' <=> Gone(o)
                    /\ Booked(o)' <=> Booked(o)
  BY DEF SameUnits
<1>1. \A ch, i : /\ TradeWaits(o, ch, i)' <=> TradeWaits(o, ch, i)
                 /\ HitWaits(o, ch, i)' <=> HitWaits(o, ch, i)
                 /\ TradeWaits(o, ch, i) => At(ch, i)' = At(ch, i)
                 /\ EndLine(o, ch, i)' <=> EndLine(o, ch, i)
                 /\ AddLine(o, ch, i)' <=> AddLine(o, ch, i)
                 /\ EndLine(o, ch, i) => (Printed(ch, i)' <=> Printed(ch, i))
                 /\ AddLine(o, ch, i) => (Printed(ch, i)' <=> Printed(ch, i))
  BY DEF SameLines, TradeWaits, HitWaits, EndLine, AddLine
<1>2. LineUnits(o)' = LineUnits(o)
  BY <1>1 DEF LineUnits
<1>3. Hits(o)' = Hits(o)
  BY <1>1 DEF Hits
<1>4. Ended(o)' <=> Ended(o)
  BY <1>1 DEF Ended
<1>5. Gone(o)' <=> Gone(o)
  BY <1>1 DEF Gone
<1>6. Booked(o)' <=> Booked(o)
  BY <1>1 DEF Booked
<1> QED
  BY <1>2, <1>3, <1>4, <1>5, <1>6

(* A new line has not been printed. *)
LEMMA NewWaits ==
  ASSUME Base, OutInv, NEW c, NEW j, NEW line, Gets(c, j, line), j \in Nat, j > 0,
         c \in Nat, Open(c) \/ c > Len(outputs), taken' = taken, shown' = shown
  PROVE  ~Printed(c, j) /\ \A ch, i : Printed(ch, i)' <=> Printed(ch, i)
<1>1. taken \in Nat /\ shown \in Nat /\ taken <= Len(outputs) /\ Len(outputs) \in Nat
  BY BaseGives DEF OutInv, InPrint
<1>2. c >= taken
  BY <1>1 DEF OutInv, InPrint
<1>3. ~IsLine(c, j)
  BY DEF Gets
<1>4. ~Printed(c, j)
  <2> SUFFICES ASSUME c = taken, j <= shown PROVE FALSE
    BY <1>1, <1>2 DEF Printed
  <2>1. taken > 0
    <3>1. CASE Open(c)
      <4>1. c \in DOMAIN outputs /\ DOMAIN outputs = 1 .. Len(outputs)
        BY <3>1, BaseGives DEF Open
      <4> QED
        BY <1>1, <4>1
    <3>2. CASE c > Len(outputs)
      BY <1>1, <3>2
    <3> QED
      BY <3>1, <3>2
  <2>2. IsLine(taken, j)
    BY <2>1 DEF OutInv, InPrint
  <2> QED
    BY <1>3, <2>2
<1> QED
  BY <1>4 DEF Printed

(* What a line that is new at place j of c does to the units of an order.   *)
Changes(o, c, j, line) ==
  /\ line.kind = "executed" /\ o \in {line.id, line.resting}
       => /\ line.count \in Nat =>
               LineUnits(o)' = LineUnits(o) \cup LineBlock(c, j, line.count)
          /\ LineUnits(o) \cap LineBlock(c, j, line.count) = {}
  /\ ~(line.kind = "executed" /\ o \in {line.id, line.resting})
       => LineUnits(o)' = LineUnits(o)
  /\ line.kind = "executed" /\ o = line.resting
       => Hits(o)' = Hits(o) \cup {<<c, j>>} /\ <<c, j>> \notin Hits(o)
  /\ ~(line.kind = "executed" /\ o = line.resting) => Hits(o)' = Hits(o)
  /\ Ended(o)' <=> \/ Ended(o)
                   \/ line.kind = "deleted" /\ line.accepted /\ line.id = o
  /\ Gone(o)' <=> Gone(o)
  /\ Booked(o)' <=> Booked(o)

LEMMA NewLineUnits ==
  ASSUME NEW c \in Nat, NEW j \in Nat, NEW line, Gets(c, j, line),
         ~Printed(c, j), \A ch, i : Printed(ch, i)' <=> Printed(ch, i),
         NEW o \in OrderId
  PROVE  Changes(o, c, j, line)
<1>1. ~IsLine(c, j) /\ IsLine(c, j)' /\ At(c, j)' = line
  BY DEF Gets
<1>2. \A ch, i : ~(ch = c /\ i = j) =>
        (IsLine(ch, i)' <=> IsLine(ch, i)) /\ (IsLine(ch, i) => At(ch, i)' = At(ch, i))
  BY DEF Gets
<1>3. /\ TradeWaits(o, c, j)' <=> line.kind = "executed" /\ o \in {line.id, line.resting}
      /\ HitWaits(o, c, j)' <=> line.kind = "executed" /\ line.resting = o
      /\ EndLine(o, c, j)' <=> line.kind = "deleted" /\ line.accepted /\ line.id = o
      /\ ~TradeWaits(o, c, j) /\ ~HitWaits(o, c, j) /\ ~EndLine(o, c, j) /\ ~AddLine(o, c, j)
  BY <1>1 DEF TradeWaits, HitWaits, EndLine, AddLine
<1>4. \A ch, i : ~(ch = c /\ i = j) =>
        /\ TradeWaits(o, ch, i)' <=> TradeWaits(o, ch, i)
        /\ HitWaits(o, ch, i)' <=> HitWaits(o, ch, i)
        /\ TradeWaits(o, ch, i) => At(ch, i)' = At(ch, i)
        /\ EndLine(o, ch, i)' <=> EndLine(o, ch, i)
        /\ AddLine(o, ch, i)' <=> AddLine(o, ch, i)
  BY <1>2 DEF TradeWaits, HitWaits, EndLine, AddLine
<1>5. Ended(o)' <=> Ended(o) \/ (line.kind = "deleted" /\ line.accepted /\ line.id = o)
  BY <1>3, <1>4 DEF Ended
<1>6. Gone(o)' <=> Gone(o)
  <2>1. \A ch, i : EndLine(o, ch, i)' /\ Printed(ch, i)' <=> EndLine(o, ch, i) /\ Printed(ch, i)
    BY <1>3, <1>4
  <2> QED
    BY <2>1 DEF Gone
<1>7. Booked(o)' <=> Booked(o)
  <2>1. \A ch, i : AddLine(o, ch, i)' /\ Printed(ch, i)' <=> AddLine(o, ch, i) /\ Printed(ch, i)
    BY <1>3, <1>4
  <2> QED
    BY <2>1 DEF Booked
<1>8. ASSUME ~(line.kind = "executed" /\ o = line.resting) PROVE Hits(o)' = Hits(o)
  <2>1. \A ch, i : HitWaits(o, ch, i)' <=> HitWaits(o, ch, i)
    BY <1>3, <1>4, <1>8
  <2> QED
    BY <2>1 DEF Hits
<1>9. ASSUME line.kind = "executed" /\ o = line.resting
      PROVE  Hits(o)' = Hits(o) \cup {<<c, j>>} /\ <<c, j>> \notin Hits(o)
  <2>1. \A ch, i : HitWaits(o, ch, i)' <=> HitWaits(o, ch, i) \/ (ch = c /\ i = j)
    BY <1>3, <1>4, <1>9
  <2>2. ASSUME NEW w PROVE w \in Hits(o)' <=> w \in Hits(o) \cup {<<c, j>>}
    <3>1. w \in Nat \X Nat => (w = <<c, j>> <=> w[1] = c /\ w[2] = j)
      OBVIOUS
    <3>2. <<c, j>> \in Nat \X Nat
      OBVIOUS
    <3>3. w \in Hits(o)' <=> w \in Nat \X Nat /\ HitWaits(o, w[1], w[2])'
      BY DEF Hits
    <3>4. w \in Hits(o) <=> w \in Nat \X Nat /\ HitWaits(o, w[1], w[2])
      BY DEF Hits
    <3> QED
      BY <2>1, <3>1, <3>2, <3>3, <3>4
  <2> QED
    BY <1>3, <2>2 DEF Hits
<1>10. ASSUME ~(line.kind = "executed" /\ o \in {line.id, line.resting})
       PROVE  LineUnits(o)' = LineUnits(o)
  <2>1. \A ch, i : /\ TradeWaits(o, ch, i)' <=> TradeWaits(o, ch, i)
                   /\ TradeWaits(o, ch, i) => At(ch, i)' = At(ch, i)
    BY <1>3, <1>4, <1>10
  <2> QED
    BY <2>1 DEF LineUnits
<1>11. ASSUME line.kind = "executed" /\ o \in {line.id, line.resting}
       PROVE  /\ line.count \in Nat =>
                   LineUnits(o)' = LineUnits(o) \cup LineBlock(c, j, line.count)
              /\ LineUnits(o) \cap LineBlock(c, j, line.count) = {}
  <2>1. \A ch, i : TradeWaits(o, ch, i)' <=> TradeWaits(o, ch, i) \/ (ch = c /\ i = j)
    BY <1>3, <1>4, <1>11
  <2>2. ASSUME NEW w, line.count \in Nat
        PROVE  w \in LineUnits(o)' <=> w \in LineUnits(o) \cup LineBlock(c, j, line.count)
    <3>1. w \in LineUnits(o)' <=>
            w \in Nat \X Nat \X Nat /\ TradeWaits(o, w[1], w[2])' /\ w[3] \in 1 .. At(w[1], w[2])'.count
      BY DEF LineUnits
    <3>2. w \in LineUnits(o) <=>
            w \in Nat \X Nat \X Nat /\ TradeWaits(o, w[1], w[2]) /\ w[3] \in 1 .. At(w[1], w[2]).count
      BY DEF LineUnits
    <3>3. w \in LineBlock(c, j, line.count) <=>
            w \in Nat \X Nat \X Nat /\ w[1] = c /\ w[2] = j /\ w[3] \in 1 .. line.count
      BY <2>2 DEF LineBlock
    <3>4. CASE w[1] = c /\ w[2] = j
      <4>1. At(w[1], w[2])' = line /\ ~TradeWaits(o, w[1], w[2])
        BY <1>1, <1>3, <3>4
      <4> QED
        BY <2>1, <3>1, <3>2, <3>3, <3>4, <4>1
    <3>5. CASE ~(w[1] = c /\ w[2] = j)
      <4>1. /\ TradeWaits(o, w[1], w[2])' <=> TradeWaits(o, w[1], w[2])
            /\ TradeWaits(o, w[1], w[2]) => At(w[1], w[2])' = At(w[1], w[2])
        BY <1>4, <3>5
      <4> QED
        BY <3>1, <3>2, <3>3, <3>5, <4>1
    <3> QED
      BY <3>4, <3>5
  <2>3. \A w \in LineBlock(c, j, line.count) : w[1] = c /\ w[2] = j
    BY DEF LineBlock
  <2>4. \A w \in LineUnits(o) : TradeWaits(o, w[1], w[2])
    BY DEF LineUnits
  <2>5. LineUnits(o) \cap LineBlock(c, j, line.count) = {}
    BY <1>3, <2>3, <2>4
  <2> QED
    BY <2>2, <2>5
<1> QED
  BY <1>5, <1>6, <1>7, <1>8, <1>9, <1>10, <1>11 DEF Changes

(* What the steps do to the plans of executors. *)
LEMMA PlanFits ==
  ASSUME Base, NEW e \in executors
  PROVE  /\ Planned(e) \in Nat /\ Planned(e) <= e.left /\ Planned(e) <= volume[e.level]
         /\ volume[e.level] \in Nat /\ e.left \in Nat
         /\ volume[e.level] = 0 \/ e.left = 0 => Planned(e) = 0
<1>1. e.left \in Nat /\ e.level \in Node
  BY BaseGives, HeadsAreNodes
<1>2. volume[e.level] \in Nat
  <2>1. volume[e.level] \in 0 .. Modulus - 1 /\ Modulus \in Nat
    BY <1>1, BaseGives, TermsInRange DEF TypeOK
  <2> QED
    BY <2>1
<1>3. PICK a \in Nat, l \in Nat : a = volume[e.level] /\ l = e.left
  BY <1>1, <1>2
<1>4. Planned(e) = IF l >= a THEN a ELSE l
  BY <1>3 DEF Planned
<1> QED
  BY <1>1, <1>2, <1>3, <1>4

LEMMA SamePlans ==
  ASSUME executors' = executors, SameVolumes, NEW o \in OrderId
  PROVE  PlanUnits(o)' = PlanUnits(o)
<1>1. \A e \in executors : Planned(e)' = Planned(e)
  BY DEF Planned, SameVolumes
<1> QED
  BY <1>1 DEF PlanUnits

LEMMA EndPlans ==
  ASSUME Base, NEW e \in executors, Ends(e), NEW o \in OrderId
  PROVE  PlanUnits(o)' = PlanUnits(o)
<1>1. executors' = executors \ {e} /\ volume' = volume
  BY DEF Ends
<1>2. \A d \in executors : Planned(d)' = Planned(d)
  BY <1>1 DEF Planned
<1>3. Planned(e) = 0
  BY PlanFits DEF Ends
<1>4. 1 .. Planned(e) = {}
  BY <1>3
<1>5. \A w \in OrderId \X Nat :
        (\E d \in executors' : d.order = o /\ d.level = w[1] /\ w[2] \in 1 .. Planned(d)')
          <=> (\E d \in executors : d.order = o /\ d.level = w[1] /\ w[2] \in 1 .. Planned(d))
  BY <1>1, <1>2, <1>4
<1> QED
  BY <1>5 DEF PlanUnits

LEMMA StartPlans ==
  ASSUME Base, NEW o \in OrderId, NEW e, Starts(o, e)
  PROVE  /\ Planned(e) \in Nat /\ Planned(e) <= v[o]
         /\ PlanUnits(o)' = PlanUnits(o) \cup PlanBlock(e.level, 0, Planned(e))
         /\ PlanUnits(o) \cap PlanBlock(e.level, 0, Planned(e)) = {}
         /\ \A p \in OrderId : p # o => PlanUnits(p)' = PlanUnits(p)
<1> USE HeadsAreNodes
<1>1. /\ executors' = executors \cup {e} /\ volume' = volume
      /\ e.order = o /\ e.level = curr[o] /\ e.left = v[o] /\ pc[o] = "execute"
  BY DEF Starts
<1>2. PICK n \in OrderId : n = e.level /\ n \in Node
  BY <1>1, BaseGives DEF Standing, StandsWell
<1>3. PICK a \in Nat : a = Planned(e) /\ a <= v[o]
  <2>1. volume[n] \in 0 .. Modulus - 1 /\ Modulus \in Nat
    BY <1>2, BaseGives, TermsInRange DEF TypeOK
  <2>2. volume[n] \in Nat /\ v[o] \in Nat
    BY <2>1, BaseGives
  <2>3. PICK b \in Nat, l \in Nat : b = volume[n] /\ l = v[o]
    BY <2>2
  <2>4. Planned(e) = IF l >= b THEN b ELSE l
    BY <1>1, <1>2, <2>3 DEF Planned
  <2> QED
    BY <2>3, <2>4
<1>4. \A d : Planned(d)' = Planned(d)
  BY <1>1 DEF Planned
<1>5. \A d \in executors : d.level # n
  <2>1. n \in Uses(o)
    BY <1>1, <1>2, UsesAt
  <2> QED
    BY <2>1, BaseGives DEF LocksHaveOneUser
<1>6. \A w : w \in PlanBlock(n, 0, a) <=> w \in OrderId \X Nat /\ w[1] = n /\ w[2] \in 1 .. a
  BY DEF PlanBlock
<1>7. ASSUME NEW p \in OrderId, NEW w
      PROVE  w \in PlanUnits(p)' <=> \/ w \in PlanUnits(p)
                                     \/ p = o /\ w \in PlanBlock(n, 0, a)
  <2>1. w \in PlanUnits(p)' <=>
          /\ w \in OrderId \X Nat
          /\ \E d \in executors' : d.order = p /\ d.level = w[1] /\ w[2] \in 1 .. Planned(d)'
    BY DEF PlanUnits
  <2>2. w \in PlanUnits(p) <=>
          /\ w \in OrderId \X Nat
          /\ \E d \in executors : d.order = p /\ d.level = w[1] /\ w[2] \in 1 .. Planned(d)
    BY DEF PlanUnits
  <2>3. (\E d \in executors' : d.order = p /\ d.level = w[1] /\ w[2] \in 1 .. Planned(d)') <=>
          \/ \E d \in executors : d.order = p /\ d.level = w[1] /\ w[2] \in 1 .. Planned(d)
          \/ o = p /\ n = w[1] /\ w[2] \in 1 .. a
    BY <1>1, <1>2, <1>3, <1>4
  <2> QED
    BY <1>6, <2>1, <2>2, <2>3
<1>8. PlanUnits(o)' = PlanUnits(o) \cup PlanBlock(n, 0, a)
  BY <1>7
<1>9. \A p \in OrderId : p # o => PlanUnits(p)' = PlanUnits(p)
  <2>1. ASSUME NEW p \in OrderId, p # o PROVE PlanUnits(p)' = PlanUnits(p)
    <3>1. \A w : w \in PlanUnits(p)' <=> w \in PlanUnits(p)
      BY <1>7, <2>1
    <3>2. PlanUnits(p)' \subseteq PlanUnits(p) /\ PlanUnits(p) \subseteq PlanUnits(p)'
      BY <3>1
    <3> QED
      BY <3>2
  <2> QED
    BY <2>1
<1>10. PlanUnits(o) \cap PlanBlock(n, 0, a) = {}
  <2>1. \A w \in PlanUnits(o) : w[1] # n
    BY <1>5 DEF PlanUnits
  <2> QED
    BY <1>6, <2>1
<1> QED
  BY <1>2, <1>3, <1>8, <1>9, <1>10

LEMMA TradePlans ==
  ASSUME Base, NEW e \in executors, NEW r \in OrderId, NEW s \in Nat, NEW i,
         TradesWith(e, r, s, i)
  PROVE  /\ Planned(e) \in Nat /\ s <= Planned(e)
         /\ PlanBlock(e.level, Planned(e) - s, Planned(e)) \subseteq PlanUnits(e.order)
         /\ PlanUnits(e.order)' =
              PlanUnits(e.order) \ PlanBlock(e.level, Planned(e) - s, Planned(e))
         /\ \A p \in OrderId : p # e.order => PlanUnits(p)' = PlanUnits(p)
<1> USE HeadsAreNodes
<1>1. /\ s <= e.left /\ s <= volume[e.level] /\ s > 0
      /\ volume' = [volume EXCEPT ![e.level] = volume[e.level] - s]
  BY DEF TradesWith
<1>2. PICK f : /\ executors' = (executors \ {e}) \cup {f}
               /\ f.order = e.order /\ f.level = e.level /\ f.left = e.left - s
  BY DEF TradesWith, Lessens
<1>3. PICK n \in OrderId : n = e.level /\ n \in Node
  BY BaseGives
<1>4. PICK a \in Nat, l \in Nat, P \in Nat :
        /\ a = volume[n] /\ l = e.left /\ P = Planned(e) /\ P = IF l >= a THEN a ELSE l
  BY <1>3, PlanFits DEF Planned
<1>5. s <= P
  BY <1>1, <1>3, <1>4
<1>6. volume'[n] = a - s /\ \A m \in Node : m # n => volume'[m] = volume[m]
  BY <1>1, <1>3, <1>4, BaseGives DEF TypeOK
<1>7. Planned(f)' = P - s
  <2>1. Planned(f)' = IF l - s >= a - s THEN a - s ELSE l - s
    BY <1>2, <1>3, <1>4, <1>6 DEF Planned
  <2> QED
    BY <1>4, <2>1
<1>8. \A d \in executors : d # e => d.level # n /\ d.level \in Node
  BY <1>3, BaseGives DEF LocksHaveOneUser
<1>9. \A d \in executors : d # e => Planned(d)' = Planned(d)
  BY <1>6, <1>8 DEF Planned
<1>10. PICK o \in OrderId : o = e.order
  BY BaseGives
<1>11. \A w : w \in PlanBlock(n, P - s, P) <=>
                w \in OrderId \X Nat /\ w[1] = n /\ w[2] \in P - s + 1 .. P
  <2>1. ASSUME NEW u \in P - s + 1 .. P PROVE u \in Nat
    BY <1>5
  <2> QED
    BY <2>1 DEF PlanBlock
<1>12. ASSUME NEW p \in OrderId, NEW w
       PROVE  w \in PlanUnits(p)' <=> /\ w \in PlanUnits(p)
                                      /\ ~(p = o /\ w \in PlanBlock(n, P - s, P))
  <2>1. w \in PlanUnits(p)' <=>
          /\ w \in OrderId \X Nat
          /\ \E d \in executors' : d.order = p /\ d.level = w[1] /\ w[2] \in 1 .. Planned(d)'
    BY DEF PlanUnits
  <2>2. w \in PlanUnits(p) <=>
          /\ w \in OrderId \X Nat
          /\ \E d \in executors : d.order = p /\ d.level = w[1] /\ w[2] \in 1 .. Planned(d)
    BY DEF PlanUnits
  <2>3. (\E d \in executors' : d.order = p /\ d.level = w[1] /\ w[2] \in 1 .. Planned(d)') <=>
          \/ \E d \in executors : d # e /\ d.order = p /\ d.level = w[1] /\ w[2] \in 1 .. Planned(d)
          \/ o = p /\ n = w[1] /\ w[2] \in 1 .. P - s
    BY <1>2, <1>3, <1>7, <1>9, <1>10
  <2>4. (\E d \in executors : d.order = p /\ d.level = w[1] /\ w[2] \in 1 .. Planned(d)) <=>
          \/ \E d \in executors : d # e /\ d.order = p /\ d.level = w[1] /\ w[2] \in 1 .. Planned(d)
          \/ o = p /\ n = w[1] /\ w[2] \in 1 .. P
    BY <1>3, <1>4, <1>10
  <2>5. w[1] = n => ~ \E d \in executors : d # e /\ d.order = p /\ d.level = w[1] /\ w[2] \in 1 .. Planned(d)
    BY <1>8
  <2>6. w \in OrderId \X Nat => (w[2] \in 1 .. P - s <=> w[2] \in 1 .. P /\ w[2] \notin P - s + 1 .. P)
    BY <1>5
  <2> QED
    BY <1>11, <2>1, <2>2, <2>3, <2>4, <2>5, <2>6
<1>13. PlanBlock(n, P - s, P) \subseteq PlanUnits(o)
  <2>1. \A u \in P - s + 1 .. P : u \in 1 .. P
    BY <1>5
  <2> QED
    BY <1>3, <1>4, <1>10, <1>11, <2>1 DEF PlanUnits
<1>14. PlanUnits(o)' = PlanUnits(o) \ PlanBlock(n, P - s, P)
  BY <1>12
<1>15. \A p \in OrderId : p # o => PlanUnits(p)' = PlanUnits(p)
  <2>1. ASSUME NEW p \in OrderId, p # o PROVE PlanUnits(p)' = PlanUnits(p)
    <3>1. \A w : w \in PlanUnits(p)' <=> w \in PlanUnits(p)
      BY <1>12, <2>1
    <3>2. PlanUnits(p)' \subseteq PlanUnits(p) /\ PlanUnits(p) \subseteq PlanUnits(p)'
      BY <3>1
    <3> QED
      BY <3>2
  <2> QED
    BY <2>1
<1> QED
  BY <1>3, <1>4, <1>5, <1>10, <1>13, <1>14, <1>15

-----------------------------------------------------------------------------
(* The lines that are printed. *)
LEMMA TypedStatus ==
  ASSUME E!TypeOK, NEW o \in OrderId
  PROVE  /\ status[o].filled \in Nat /\ status[o].count \in Nat /\ status[o].execs \in Nat
         /\ status[o] \in E!OrderStatus
<1>1. status[o] \in E!OrderStatus
  BY DEF E!TypeOK
<1> QED
  BY <1>1 DEF E!OrderStatus

(* A sum of sizes below 2^32 does not wrap. *)
LEMMA FilledAfterFits ==
  ASSUME NEW a \in E!OrderStatus, NEW n \in Nat
  PROVE  /\ E!FilledAfter(a, n) \in 0 .. Modulus - 1
         /\ a.filled + n < Modulus => E!FilledAfter(a, n) = a.filled + n
<1>1. a.filled + n \in Nat /\ Modulus \in Nat /\ Modulus > 0
  BY TermsInRange DEF E!OrderStatus
<1> QED
  BY <1>1, Z3T(30) DEF E!FilledAfter

(* What executing n of an order makes of its record. *)
LEMMA FilledIs ==
  ASSUME NEW a \in E!OrderStatus, NEW n \in Nat
  PROVE  /\ E!FilledBy(a, n) \in E!OrderStatus
         /\ E!FilledBy(a, n).filled = E!FilledAfter(a, n)
         /\ E!FilledBy(a, n).count = a.count
         /\ E!FilledBy(a, n).execs = a.execs
         /\ E!FilledBy(a, n).state =
              IF E!FilledAfter(a, n) = a.count THEN "Filled" ELSE a.state
<1>1. PICK m, st : /\ m = E!FilledAfter(a, n)
                   /\ st = IF m = a.count THEN "Filled" ELSE a.state
  OBVIOUS
<1>2. E!FilledBy(a, n) = [a EXCEPT !.filled = m, !.state = st]
  BY <1>1 DEF E!FilledBy
<1>3. m \in 0 .. Modulus - 1 /\ st \in E!States
  BY <1>1, FilledAfterFits DEF E!OrderStatus, E!States
<1>4. [a EXCEPT !.filled = m, !.state = st] \in E!OrderStatus
  BY <1>3 DEF E!OrderStatus
<1>5. /\ [a EXCEPT !.filled = m, !.state = st].filled = m
      /\ [a EXCEPT !.filled = m, !.state = st].state = st
      /\ [a EXCEPT !.filled = m, !.state = st].count = a.count
      /\ [a EXCEPT !.filled = m, !.state = st].execs = a.execs
  BY DEF E!OrderStatus
<1> QED
  BY <1>1, <1>2, <1>4, <1>5

LEMMA RestingFilledIs ==
  ASSUME NEW a \in E!OrderStatus, NEW n \in Nat
  PROVE  /\ E!FilledResting(a, n) \in E!OrderStatus
         /\ E!FilledResting(a, n).filled = E!FilledAfter(a, n)
         /\ E!FilledResting(a, n).count = a.count
         /\ E!FilledResting(a, n).execs = a.execs + 1
         /\ E!FilledResting(a, n).state =
              IF E!FilledAfter(a, n) = a.count THEN "Filled" ELSE a.state
<1>1. PICK b \in E!OrderStatus : b = E!FilledBy(a, n)
  BY FilledIs
<1>2. PICK m : m = a.execs + 1 /\ m \in Nat
  BY DEF E!OrderStatus
<1>3. E!FilledResting(a, n) = [b EXCEPT !.execs = m]
  BY <1>1, <1>2 DEF E!FilledResting
<1>4. /\ [b EXCEPT !.execs = m] \in E!OrderStatus
      /\ [b EXCEPT !.execs = m].execs = m
      /\ [b EXCEPT !.execs = m].filled = b.filled
      /\ [b EXCEPT !.execs = m].state = b.state
      /\ [b EXCEPT !.execs = m].count = b.count
  BY <1>2 DEF E!OrderStatus
<1> QED
  BY <1>1, <1>2, <1>3, <1>4, FilledIs

(* What the replay of a line does to an order. *)
Fills(o, n) ==
  /\ status'[o].filled = E!FilledAfter(status[o], n) /\ status'[o].count = status[o].count
  /\ status'[o].state = IF E!FilledAfter(status[o], n) = status[o].count
                        THEN "Filled" ELSE status[o].state

Replays(line, o) ==
  IF line.kind = "added" /\ line.id = o
  THEN status'[o] = [status[o] EXCEPT !.state = "Booked", !.stamp = lines']
  ELSE IF line.kind = "executed" /\ line.id = o
  THEN Fills(o, line.count) /\ status'[o].execs = status[o].execs
  ELSE IF line.kind = "executed" /\ line.resting = o
  THEN Fills(o, line.count) /\ status'[o].execs = status[o].execs + 1
  ELSE IF line.kind = "deleted" /\ line.accepted /\ line.id = o
  THEN /\ status'[o].state = "Filled" /\ status'[o].count = status[o].count
       /\ status'[o].execs = status[o].execs
  ELSE status'[o] = status[o]

LEMMA ReplayDoes ==
  ASSUME E!TypeOK, NEW line \in Line, lines' = lines + 1,
         status' = E!After(status, line, lines'),
         line.kind = "executed" => line.id # line.resting
  PROVE  /\ E!TypeOK'
         /\ \A o \in OrderId : Replays(line, o)
<1>0. /\ status \in [OrderId -> E!OrderStatus] /\ lines \in Nat /\ lines' \in Nat
      /\ line.id \in OrderId /\ line.kind \in {"added", "executed", "deleted"}
      /\ line.kind = "executed" => line.resting \in OrderId /\ line.count \in Nat
      /\ line.kind = "deleted" => line.accepted \in BOOLEAN
  BY TermsInRange DEF E!TypeOK, Line
<1>1. CASE line.kind = "added"
  <2>1. status' = [status EXCEPT ![line.id] = [status[line.id] EXCEPT !.state = "Booked", !.stamp = lines']]
    BY <1>0, <1>1 DEF E!After, E!AfterAdd, E!StampOf
  <2>2. [status[line.id] EXCEPT !.state = "Booked", !.stamp = lines'] \in E!OrderStatus
    BY <1>0 DEF E!OrderStatus, E!States
  <2>3. /\ status' \in [OrderId -> E!OrderStatus]
        /\ status'[line.id] = [status[line.id] EXCEPT !.state = "Booked", !.stamp = lines']
        /\ \A o \in OrderId : o # line.id => status'[o] = status[o]
    BY <1>0, <2>1, <2>2
  <2> QED
    BY <1>0, <1>1, <2>3 DEF E!TypeOK, Replays
<1>2. CASE line.kind = "executed"
  <2> DEFINE a == status[line.id]
             b == status[line.resting]
             n == line.count
  <2>1. status' = [status EXCEPT ![line.id] = E!FilledBy(@, n),
                                 ![line.resting] = E!FilledResting(@, n)]
    BY <1>2 DEF E!After, E!AfterExecute
  <2>2. a \in E!OrderStatus /\ b \in E!OrderStatus /\ n \in Nat
    BY <1>0, <1>2
  <2>3. /\ E!FilledBy(a, n) \in E!OrderStatus
        /\ E!FilledBy(a, n).filled = E!FilledAfter(a, n)
        /\ E!FilledBy(a, n).count = a.count
        /\ E!FilledBy(a, n).execs = a.execs
        /\ E!FilledBy(a, n).state =
             IF E!FilledAfter(a, n) = a.count THEN "Filled" ELSE a.state
    BY <2>2, FilledIs
  <2>4. /\ E!FilledResting(b, n) \in E!OrderStatus
        /\ E!FilledResting(b, n).filled = E!FilledAfter(b, n)
        /\ E!FilledResting(b, n).count = b.count
        /\ E!FilledResting(b, n).execs = b.execs + 1
        /\ E!FilledResting(b, n).state =
             IF E!FilledAfter(b, n) = b.count THEN "Filled" ELSE b.state
    BY <2>2, RestingFilledIs
  <2>5. PICK f, g : f = E!FilledBy(a, n) /\ g = E!FilledResting(b, n)
    OBVIOUS
  <2>6. status' = [[status EXCEPT ![line.id] = f] EXCEPT ![line.resting] = g]
    BY <1>0, <1>2, <2>1, <2>5
  <2>7. /\ status' \in [OrderId -> E!OrderStatus]
        /\ status'[line.id] = f /\ status'[line.resting] = g
        /\ \A o \in OrderId : o # line.id /\ o # line.resting => status'[o] = status[o]
    BY <1>0, <1>2, <2>3, <2>4, <2>5, <2>6
  <2> QED
    BY <1>0, <1>2, <2>3, <2>4, <2>5, <2>7 DEF E!TypeOK, Fills, Replays
<1>3. CASE line.kind = "deleted"
  <2>1. CASE ~line.accepted
    <3>1. status' = status
      BY <1>3, <2>1 DEF E!After, E!AfterDelete
    <3> QED
      BY <1>0, <1>3, <2>1, <3>1 DEF E!TypeOK, Replays
  <2>2. CASE line.accepted
    <3> DEFINE a == status[line.id]
               b == [a EXCEPT !.filled = a.count, !.state = "Filled"]
    <3>1. status' = [status EXCEPT ![line.id].filled = status[line.id].count,
                                   ![line.id].state = "Filled"]
      BY <1>3, <2>2 DEF E!After, E!AfterDelete
    <3>2. status' = [status EXCEPT ![line.id] = b]
      BY <1>0, <3>1
    <3>3. /\ b \in E!OrderStatus /\ b.state = "Filled" /\ b.count = a.count
          /\ b.execs = a.execs
      BY <1>0 DEF E!OrderStatus, E!States
    <3>4. /\ status' \in [OrderId -> E!OrderStatus] /\ status'[line.id] = b
          /\ \A o \in OrderId : o # line.id => status'[o] = status[o]
      BY <1>0, <3>2, <3>3
    <3>5. E!TypeOK'
      BY <1>0, <3>4 DEF E!TypeOK
    <3>6. PICK c \in E!OrderStatus : c = b
      BY <3>3
    <3>7. /\ status'[line.id] = c /\ c.state = "Filled" /\ c.count = status[line.id].count
          /\ c.execs = status[line.id].execs
      BY <3>3, <3>4, <3>6
    <3> HIDE DEF a, b
    <3> QED
      BY <1>3, <2>2, <3>4, <3>5, <3>7 DEF Replays
  <2> QED
    BY <2>1, <2>2
<1> QED
  BY <1>0, <1>1, <1>2, <1>3

-----------------------------------------------------------------------------
(* The account of an order that a step does not touch. *)
LEMMA SameAccount ==
  ASSUME NEW o \in OrderId, Account(o), status'[o] = status[o], rId'[o] = rId[o],
         pc'[o] = "unread" <=> pc[o] = "unread", executionId'[o] = executionId[o],
         LineUnits(o)' = LineUnits(o), PlanUnits(o)' = PlanUnits(o), Hits(o)' = Hits(o),
         Rem(o)' = Rem(o), Gone(o)' <=> Gone(o), Booked(o)' <=> Booked(o),
         Alive(o)' => Alive(o), Ended(o)' => count'[o] > 0
  PROVE  Account(o)'
<1>1. Due(o)' = Due(o)
  BY DEF Due
<1>2. StateOf(o)' = StateOf(o)
  BY DEF StateOf
<1> QED
  BY <1>1, <1>2 DEF Account

LEMMA EasyAccounts ==
  ASSUME Base, OutInv, Accounts, status' = status, Kept, SameUnits,
         \A o \in OrderId : PlanUnits(o)' = PlanUnits(o),
         \A o \in OrderId : Rests(o)' <=> Rests(o)
  PROVE  Accounts'
<1> SUFFICES ASSUME NEW o \in OrderId PROVE Account(o)'
  BY DEF Accounts
<1>1. /\ LineUnits(o)' = LineUnits(o) /\ Hits(o)' = Hits(o)
      /\ Ended(o)' <=> Ended(o)
      /\ Gone(o)' <=> Gone(o)
      /\ Booked(o)' <=> Booked(o)
  BY DEF SameUnits
<1>2. rId' = rId /\ executionId' = executionId /\ KeepsLeft(o)
  BY DEF Kept
<1>3. (Rests(o) => pc[o] = "done") /\ (Ended(o) => pc[o] = "done")
  BY BaseGives DEF OutInv, TouchLines, Touches, Ended
<1>4. /\ pc'[o] = "unread" <=> pc[o] = "unread"
      /\ Rem(o)' = Rem(o)
      /\ Alive(o)' => Alive(o)
      /\ Ended(o) => count'[o] = count[o]
  <2>1. CASE pc'[o] = pc[o] /\ count'[o] = count[o] /\ v'[o] = v[o]
    BY <1>1, <2>1 DEF Rem, Left, Alive
  <2>2. CASE /\ pc[o] \notin {"unread", "done"} /\ pc'[o] \notin {"unread", "done"}
             /\ Left(o)' = Left(o)
    BY <1>3, <2>2 DEF Rem, Alive
  <2>3. CASE pc[o] = "matched" /\ pc'[o] = "done" /\ v[o] = 0
    <3>1. ~Rests(o)' /\ ~Ended(o)'
      BY <1>1, <1>3, <2>3
    <3>2. Left(o) = 0
      BY <2>3 DEF Left, Matching
    <3> QED
      BY <1>1, <1>3, <2>3, <3>1, <3>2 DEF Rem, Alive
  <2> QED
    BY <1>2, <2>1, <2>2, <2>3 DEF KeepsLeft
<1>5. Account(o)
  BY DEF Accounts
<1>6. Ended(o)' => count'[o] > 0
  BY <1>1, <1>4, <1>5 DEF Account
<1> QED
  BY <1>1, <1>2, <1>4, <1>5, <1>6, SameAccount

(* Steps that write no line leave what has been said of every order. *)
LEMMA UntouchedAccounts ==
  ASSUME Base, OutInv, Accounts, status' = status
  PROVE  /\ Still /\ Kept => Accounts'
         /\ \A e \in executors : Ends(e) => Accounts'
         /\ \A o \in OrderId : StartAdd(o) /\ Joins(o) => Accounts'
         /\ \A x \in CancelId : QueueCancel(x) /\ Joins(x) => Accounts'
         /\ NextChannel => Accounts'
<1> USE HeadsAreNodes
<1>1. ASSUME SameLines, taken' = taken, shown' = shown PROVE SameUnits
  BY <1>1, SameLinesUnits DEF Printed
<1>2. ASSUME Still, Kept PROVE Accounts'
  <2>1. SameLines /\ SameVolumes
    BY <1>2 DEF Still, SameLines, IsLine, At, SameVolumes
  <2>2. SameUnits
    BY <1>1, <1>2, <2>1 DEF Still
  <2>3. /\ \A o \in OrderId : PlanUnits(o)' = PlanUnits(o)
        /\ \A o \in OrderId : Rests(o)' <=> Rests(o)
    BY <1>2, <2>1, SamePlans DEF Still, Rests
  <2> QED
    BY <1>2, <2>2, <2>3, EasyAccounts
<1>3. ASSUME NEW e \in executors, Ends(e) PROVE Accounts'
  <2>1. SameUnits /\ Kept /\ \A o \in OrderId : Rests(o)' <=> Rests(o)
    BY <1>1, <1>3 DEF Ends, SameOrders, Kept, KeepsLeft, Rests
  <2>2. \A o \in OrderId : PlanUnits(o)' = PlanUnits(o)
    BY <1>3, EndPlans
  <2> QED
    BY <2>1, <2>2, EasyAccounts
<1>4. ASSUME NEW k \in Command, Joins(k) PROVE Accounts'
  <2>1. SameUnits /\ \A o \in OrderId : Rests(o)' <=> Rests(o)
    BY <1>1, <1>4 DEF Joins, SameOrders, Rests
  <2>2. \A o \in OrderId : PlanUnits(o)' = PlanUnits(o)
    BY <1>4, SamePlans DEF Joins, SameVolumes
  <2>3. /\ count' = count /\ executionId' = executionId /\ rId' = rId /\ v' = v
        /\ \A o \in OrderId : o # k => pc'[o] = pc[o]
        /\ k \in OrderId => pc[k] = "queue add" /\ pc'[k] = "add"
    <3>1. pc \in [Command -> {"unread", "done"} \cup OrderPc \cup CancelPc]
      BY BaseGives DEF TypeOK
    <3> QED
      BY <1>4, <3>1 DEF Joins, SameOrders
  <2>4. ASSUME NEW o \in OrderId PROVE KeepsLeft(o)
    <3>1. CASE o = k
      <4>1. Left(o)' = count[o] /\ Left(o) = count[o]
        BY <2>3, <3>1 DEF Left, Matching
      <4> QED
        BY <2>3, <3>1, <4>1 DEF KeepsLeft
    <3>2. CASE o # k
      BY <2>3, <3>2 DEF KeepsLeft
    <3> QED
      BY <3>1, <3>2
  <2>5. Kept
    BY <2>3, <2>4 DEF Kept
  <2> QED
    BY <2>1, <2>2, <2>5, EasyAccounts
<1>5. ASSUME NextChannel PROVE Accounts'
  <2>0. /\ UNCHANGED <<outputs, executors, queue, volume, rId, count, executionId, pc, v>>
        /\ taken < Len(outputs) /\ taken' = taken + 1 /\ shown' = 0
        /\ taken > 0 => outputs[taken].closed /\ shown = Len(outputs[taken].lines)
    BY <1>5 DEF NextChannel, orderVars, bookVars, locals, outVars
  <2>1. SameLines /\ SameVolumes /\ Kept /\ \A o \in OrderId : Rests(o)' <=> Rests(o)
    BY <2>0 DEF SameLines, IsLine, At, SameVolumes, Kept, KeepsLeft, Rests
  <2>2. \A o \in OrderId : PlanUnits(o)' = PlanUnits(o)
    BY <2>0, <2>1, SamePlans
  <2>3. taken \in Nat /\ shown \in Nat
    BY DEF OutInv, InPrint
  <2>4. ASSUME NEW ch, NEW i, IsLine(ch, i) PROVE Printed(ch, i)' <=> Printed(ch, i)
    <3>1. ch \in Nat /\ ch > 0 /\ i \in Nat /\ i > 0
      BY <2>4, BaseGives, LinesAreTyped
    <3>2. ch = taken => i <= shown
      <4> SUFFICES ASSUME ch = taken PROVE i <= shown
        OBVIOUS
      <4>1. ch \in DOMAIN outputs /\ i \in DOMAIN outputs[ch].lines
        BY <2>4 DEF IsLine
      <4>2. /\ DOMAIN outputs[ch].lines = 1 .. Len(outputs[ch].lines)
            /\ Len(outputs[ch].lines) \in Nat
        BY <4>1, BaseGives, LinesAreTyped
      <4>3. shown = Len(outputs[ch].lines)
        BY <2>0, <3>1
      <4> QED
        BY <4>1, <4>2, <4>3
    <3>3. Printed(ch, i)' <=> ch < taken + 1 \/ (ch = taken + 1 /\ i <= 0)
      BY <2>0 DEF Printed
    <3> QED
      BY <2>3, <3>1, <3>2, <3>3 DEF Printed
  <2>5. SameUnits
    BY <2>1, <2>4, SameLinesUnits
  <2> QED
    BY <2>1, <2>2, <2>5, EasyAccounts
<1> QED
  BY <1>2, <1>3, <1>4, <1>5

(* A line that says no execution. *)
LEMMA QuietLine ==
  ASSUME Base, OutInv, NEW c \in Nat, NEW j \in Nat, NEW line, Gets(c, j, line), j > 0,
         Open(c) \/ c > Len(outputs), taken' = taken, shown' = shown,
         line.kind # "executed", NEW o \in OrderId
  PROVE  /\ LineUnits(o)' = LineUnits(o) /\ Hits(o)' = Hits(o)
         /\ Ended(o)' <=> (Ended(o) \/ (line.kind = "deleted" /\ line.accepted /\ line.id = o))
         /\ Gone(o)' <=> Gone(o)
         /\ Booked(o)' <=> Booked(o)
<1>1. ~Printed(c, j) /\ \A ch, i : Printed(ch, i)' <=> Printed(ch, i)
  BY NewWaits
<1>2. Changes(o, c, j, line)
  BY <1>1, NewLineUnits
<1> QED
  BY <1>2 DEF Changes

LEMMA LastWaits ==
  ASSUME Base, OutInv, NEW k \in Command, NEW line, WritesLast(k, line)
  PROVE  \E i \in Nat : i > 0 /\ Gets(mine[k], i, line) /\ mine[k] \in Nat /\ Open(mine[k])
<1>1. mine[k] \in Nat /\ Open(mine[k])
  BY BaseGives DEF OutInv, Owners, WritesLast
<1>2. PICK i \in Nat : i = Len(outputs[mine[k]].lines) + 1 /\ Gets(mine[k], i, line)
  BY DEF WritesLast
<1>3. i > 0
  <2>1. Len(outputs[mine[k]].lines) \in Nat
    BY <1>1, BaseGives, LinesAreTyped DEF Open
  <2> QED
    BY <1>2, <2>1
<1> QED
  BY <1>1, <1>2, <1>3

LEMMA RejectAccounts ==
  ASSUME Base, OutInv, Accounts, status' = status, NEW x \in CancelId, Rejects(x)
  PROVE  Accounts'
<1>1. PICK line : line = Deleted(x, FALSE)
  OBVIOUS
<1>2. line.kind = "deleted" /\ line.accepted = FALSE
  BY <1>1 DEF Deleted
<1>3. PICK n \in Nat : n = Len(outputs)
  BY BaseGives
<1>4. Gets(n + 1, 1, line)
  BY <1>1, <1>3 DEF Rejects
<1>9. n + 1 \in Nat /\ n + 1 > Len(outputs)
  BY <1>3
<1>5. taken' = taken /\ shown' = shown
  BY DEF Rejects, SameOrders
<1>6. SameUnits
  BY <1>2, <1>4, <1>5, <1>9, QuietLine DEF SameUnits
<1>7. Kept /\ \A o \in OrderId : Rests(o)' <=> Rests(o)
  BY DEF Rejects, SameOrders, Kept, KeepsLeft, Rests
<1>8. \A o \in OrderId : PlanUnits(o)' = PlanUnits(o)
  BY SamePlans DEF Rejects, SameVolumes
<1> QED
  BY <1>6, <1>7, <1>8, EasyAccounts

LEMMA AppendAccounts ==
  ASSUME Base, OutInv, Accounts, status' = status, NEW o \in OrderId, Appends(o)
  PROVE  Accounts'
<1> USE HeadsAreNodes
<1>1. PICK line : line = Added(o)
  OBVIOUS
<1>2. line.kind = "added"
  BY <1>1 DEF Added
<1>3. /\ WritesLast(o, line) /\ pc[o] = "append"
      /\ \A p \in OrderId : Rests(p)' <=> Rests(p) \/ p = o
  BY <1>1 DEF Appends
<1>4. /\ pc' = [pc EXCEPT ![o] = "done"] /\ executors' = executors /\ SameVolumes /\ v' = v
      /\ count' = count /\ executionId' = executionId /\ rId' = rId
      /\ taken' = taken /\ shown' = shown
  BY <1>3 DEF WritesLast, SameOrders
<1>5. PICK i \in Nat : i > 0 /\ Gets(mine[o], i, line) /\ mine[o] \in Nat /\ Open(mine[o])
  BY <1>3, LastWaits
<1>6. pc'[o] = "done" /\ \A p \in OrderId : p # o => pc'[p] = pc[p]
  <2>1. pc \in [Command -> {"unread", "done"} \cup OrderPc \cup CancelPc]
    BY BaseGives DEF TypeOK
  <2> QED
    BY <1>4, <2>1
<1> SUFFICES ASSUME NEW p \in OrderId PROVE Account(p)'
  BY DEF Accounts
<1>7. /\ LineUnits(p)' = LineUnits(p) /\ Hits(p)' = Hits(p)
      /\ Ended(p)' <=> Ended(p)
      /\ Gone(p)' <=> Gone(p)
      /\ Booked(p)' <=> Booked(p)
  <2>1. ~(line.kind = "deleted" /\ line.accepted /\ line.id = p)
    BY <1>2
  <2> QED
    BY <1>2, <1>4, <1>5, <2>1, QuietLine
<1>8. PlanUnits(p)' = PlanUnits(p)
  BY <1>4, SamePlans
<1>9. /\ pc'[p] = "unread" <=> pc[p] = "unread"
      /\ Rem(p)' = Rem(p)
      /\ Alive(p)' => Alive(p)
  <2>1. CASE p = o
    <3>1. Left(p) = count[p] /\ pc[p] = "append"
      BY <1>3, <2>1 DEF Left, Matching
    <3> QED
      BY <1>3, <1>4, <1>6, <2>1, <3>1 DEF Rem, Alive
  <2>2. CASE p # o
    <3>1. Left(p)' = Left(p) /\ pc'[p] = pc[p] /\ (Rests(p)' <=> Rests(p))
      BY <1>3, <1>4, <1>6, <2>2 DEF Left
    <3> QED
      BY <1>4, <1>7, <3>1 DEF Rem, Alive
  <2> QED
    BY <2>1, <2>2
<1>10. Account(p)
  BY DEF Accounts
<1>11. Ended(p)' => count'[p] > 0
  BY <1>4, <1>7, <1>10 DEF Account
<1> QED
  BY <1>4, <1>7, <1>8, <1>9, <1>10, <1>11, SameAccount

LEMMA AnswerAccounts ==
  ASSUME Base, OutInv, Accounts, status' = status,
         NEW x \in CancelId, NEW accepted \in BOOLEAN, Answers(x, accepted)
  PROVE  Accounts'
<1> USE HeadsAreNodes
<1>1. PICK line : line = Deleted(x, accepted)
  OBVIOUS
<1>2. line.kind = "deleted" /\ line.accepted = accepted /\ line.id = About[x]
  BY <1>1 DEF Deleted
<1>3. /\ WritesLast(x, line)
      /\ accepted => Rests(About[x])
      /\ \A p \in OrderId : Rests(p)' <=> Rests(p) /\ ~(accepted /\ p = About[x])
  BY <1>1 DEF Answers
<1>4. /\ pc' = [pc EXCEPT ![x] = "done"] /\ executors' = executors /\ SameVolumes /\ v' = v
      /\ count' = count /\ executionId' = executionId /\ rId' = rId
      /\ taken' = taken /\ shown' = shown
  BY <1>3 DEF WritesLast, SameOrders
<1>5. PICK i \in Nat : i > 0 /\ Gets(mine[x], i, line) /\ mine[x] \in Nat /\ Open(mine[x])
  BY <1>3, LastWaits
<1>6. \A p \in OrderId : pc'[p] = pc[p]
  <2>1. pc \in [Command -> {"unread", "done"} \cup OrderPc \cup CancelPc]
    BY BaseGives DEF TypeOK
  <2> QED
    BY <1>4, <2>1
<1> SUFFICES ASSUME NEW p \in OrderId PROVE Account(p)'
  BY DEF Accounts
<1>7. /\ LineUnits(p)' = LineUnits(p) /\ Hits(p)' = Hits(p)
      /\ Ended(p)' <=> (Ended(p) \/ (accepted /\ p = About[x]))
      /\ Gone(p)' <=> Gone(p)
      /\ Booked(p)' <=> Booked(p)
  BY <1>2, <1>4, <1>5, QuietLine
<1>8. PlanUnits(p)' = PlanUnits(p)
  BY <1>4, SamePlans
<1>9. Rests(p) => pc[p] = "done" /\ count[p] > 0
  BY BaseGives
<1>10. Rem(p)' = Rem(p) /\ (Alive(p)' => Alive(p))
  <2>1. Left(p)' = Left(p) /\ pc'[p] = pc[p]
    BY <1>4, <1>6 DEF Left
  <2>2. (Rests(p) \/ Ended(p))' <=> (Rests(p) \/ Ended(p))
    BY <1>3, <1>7
  <2>3. Rests(p)' => Rests(p)
    BY <1>3
  <2> QED
    BY <1>4, <2>1, <2>2, <2>3 DEF Rem, Alive
<1>11. Account(p)
  BY DEF Accounts
<1>12. Ended(p)' => count'[p] > 0
  BY <1>3, <1>4, <1>7, <1>9, <1>11 DEF Account
<1> QED
  BY <1>4, <1>6, <1>7, <1>8, <1>10, <1>11, <1>12, SameAccount

-----------------------------------------------------------------------------
(* MatchOrder hands what its executor will match over to it, ... *)
LEMMA UnitsCounted ==
  ASSUME NEW o \in OrderId, Account(o)
  PROVE  /\ Cardinality(LineUnits(o)) \in Nat /\ Cardinality(PlanUnits(o)) \in Nat
         /\ Cardinality(Hits(o)) \in Nat
BY FS_CardinalityType DEF Account

LEMMA RemIsNat ==
  ASSUME Base, NEW o \in OrderId
  PROVE  Rem(o) \in Nat
BY BaseGives DEF Rem, Left

LEMMA StartAccounts ==
  ASSUME Base, OutInv, Accounts, status' = status, NEW o \in OrderId, NEW e, Starts(o, e)
  PROVE  Accounts'
<1> USE HeadsAreNodes
<1>1. /\ pc[o] = "execute" /\ pc' = [pc EXCEPT ![o] = "advance"]
      /\ v' = [v EXCEPT ![o] = v[o] - Planned(e)]
      /\ SameLines /\ queue' = queue
      /\ count' = count /\ executionId' = executionId /\ rId' = rId
      /\ taken' = taken /\ shown' = shown
  BY DEF Starts, SameOrders
<1>2. pc'[o] = "advance" /\ \A p \in OrderId : p # o => pc'[p] = pc[p]
  <2>1. pc \in [Command -> {"unread", "done"} \cup OrderPc \cup CancelPc]
    BY BaseGives DEF TypeOK
  <2> QED
    BY <1>1, <2>1
<1>3. PICK n \in Nat : n = Planned(e) /\ n <= v[o]
  BY StartPlans
<1>4. v'[o] = v[o] - n /\ \A p \in OrderId : p # o => v'[p] = v[p]
  <2>1. v \in [OrderId -> 0 .. Modulus - 1]
    BY BaseGives DEF TypeOK
  <2> QED
    BY <1>1, <1>3, <2>1
<1>5. SameUnits
  BY <1>1, SameLinesUnits DEF Printed
<1>6. \A p \in OrderId : Rests(p)' <=> Rests(p)
  BY <1>1 DEF Rests
<1>7. ASSUME NEW p \in OrderId, p # o PROVE Account(p)'
  <2>1. /\ LineUnits(p)' = LineUnits(p) /\ Hits(p)' = Hits(p)
        /\ Ended(p)' <=> Ended(p)
        /\ Gone(p)' <=> Gone(p)
        /\ Booked(p)' <=> Booked(p)
    BY <1>5 DEF SameUnits
  <2>2. PlanUnits(p)' = PlanUnits(p)
    BY <1>7, StartPlans
  <2>3. pc'[p] = pc[p] /\ Left(p)' = Left(p)
    BY <1>1, <1>2, <1>4, <1>7 DEF Left
  <2>4. Rem(p)' = Rem(p) /\ (Alive(p)' => Alive(p))
    BY <1>1, <1>6, <2>1, <2>3 DEF Rem, Alive
  <2>5. Account(p)
    BY DEF Accounts
  <2>6. Ended(p)' => count'[p] > 0
    BY <1>1, <2>1, <2>5 DEF Account
  <2> QED
    BY <1>1, <2>1, <2>2, <2>3, <2>4, <2>5, <2>6, SameAccount
<1>8. Account(o)'
  <2>1. /\ LineUnits(o)' = LineUnits(o) /\ Hits(o)' = Hits(o)
        /\ Ended(o)' <=> Ended(o)
        /\ Gone(o)' <=> Gone(o)
        /\ Booked(o)' <=> Booked(o)
    BY <1>5 DEF SameUnits
  <2>2. Account(o)
    BY DEF Accounts
  <2>3. /\ PlanUnits(o)' = PlanUnits(o) \cup PlanBlock(e.level, 0, n)
        /\ PlanUnits(o) \cap PlanBlock(e.level, 0, n) = {}
    BY <1>3, StartPlans
  <2>4. PICK l : l = e.level
    OBVIOUS
  <2>5. IsFiniteSet(PlanBlock(l, 0, n)) /\ Cardinality(PlanBlock(l, 0, n)) = n
    <3>1. n - 0 = n /\ 0 <= n
      OBVIOUS
    <3> QED
      BY <3>1, PlanBlockSize
  <2>6. PICK S : S = PlanUnits(o) \cup PlanBlock(l, 0, n)
    OBVIOUS
  <2>7. IsFiniteSet(S) /\ Cardinality(S) = Cardinality(PlanUnits(o)) + n
    <3>1. IsFiniteSet(PlanUnits(o)) /\ PlanUnits(o) \cap PlanBlock(l, 0, n) = {}
      BY <2>2, <2>3, <2>4 DEF Account
    <3> QED
      BY <2>5, <2>6, <3>1, UnionAdds
  <2>8. PlanUnits(o)' = S
    BY <2>3, <2>4, <2>6
  <2>9. Rem(o)' = v[o] - n /\ Rem(o) = v[o]
    <3>1. Left(o)' = v[o] - n /\ Left(o) = v[o]
      BY <1>1, <1>2, <1>4 DEF Left, Matching
    <3> QED
      BY <1>1, <1>2, <3>1 DEF Rem
  <2>10. Due(o)' = Due(o)
    <3>1. PICK a \in Nat, b \in Nat, d \in Nat :
            a = Cardinality(LineUnits(o)) /\ b = Cardinality(PlanUnits(o)) /\ d = v[o]
      BY <2>2, UnitsCounted, BaseGives
    <3>2. Due(o)' = a + (b + n) + (d - n)
      BY <2>1, <2>7, <2>8, <2>9, <3>1 DEF Due
    <3>3. Due(o) = a + b + d
      BY <2>9, <3>1 DEF Due
    <3>4. a + (b + n) + (d - n) = a + b + d
      OBVIOUS
    <3> QED
      BY <3>2, <3>3, <3>4
  <2>11. StateOf(o)' = StateOf(o)
    BY <2>1 DEF StateOf
  <2>12. /\ pc'[o] = "unread" <=> pc[o] = "unread"
         /\ Alive(o)' => Alive(o)
    BY <1>1, <1>2 DEF Alive
  <2> QED
    BY <1>1, <2>1, <2>2, <2>7, <2>8, <2>10, <2>11, <2>12 DEF Account
<1> QED
  BY <1>7, <1>8 DEF Accounts

(* ... the executor trades, and the lines say so of both orders. *)
LEMMA TradeAccounts ==
  ASSUME Base, OutInv, Accounts, E!TypeOK, status' = status, NEW e \in executors, NEW r \in OrderId,
         NEW s \in Nat, NEW i, TradesWith(e, r, s, i)
  PROVE  Accounts'
<1>1. PICK a \in OrderId : a = e.order
  BY BaseGives
<1>2. /\ s > 0 /\ s <= count[r] /\ Holds(e.level, r)
      /\ Gets(e.channel, i, Executed(e.order, r, s))
      /\ i = Len(outputs[e.channel].lines) + 1
      /\ pc' = pc /\ v' = v /\ rId' = rId /\ taken' = taken /\ shown' = shown
      /\ \/ /\ s = count[r] /\ count' = count /\ executionId' = executionId
            /\ \A o \in OrderId : Rests(o)' <=> Rests(o) /\ o # r
         \/ /\ s < count[r] /\ s = e.left
            /\ count' = [count EXCEPT ![r] = count[r] - s]
            /\ executionId' = [executionId EXCEPT ![r] = executionId[r] + 1]
            /\ \A o \in OrderId : Rests(o)' <=> Rests(o)
  BY DEF TradesWith
<1>3. /\ Rests(r) /\ pc[r] = "done" /\ mine[r] # 0 /\ mine[r] < e.channel
      /\ mine[r] \in Nat /\ e.channel \in Nat /\ Open(e.channel)
  <2>1. Rests(r) /\ pc[r] = "done" /\ e.channel \in Nat /\ r \in Command
    BY <1>2, BaseGives, HeadsAreNodes
  <2>2. mine[r] \in Nat
    BY <2>1, BaseGives
  <2> QED
    BY <1>2, <2>1, <2>2 DEF OutInv, TouchLines, Traders, Owners
<1>4. a # r
  <2> SUFFICES ASSUME a = r PROVE FALSE
    OBVIOUS
  <2>1. e.channel < mine[r]
    BY <1>1, <1>3 DEF OutInv, Traders
  <2> QED
    BY <1>3, <2>1
<1>5. PICK c, line : c \in Nat /\ c = e.channel /\ line = Executed(a, r, s)
  BY <1>3
<1>6. /\ line.kind = "executed" /\ line.id = a /\ line.resting = r /\ line.count = s
      /\ ~(line.kind = "deleted")
  BY <1>5 DEF Executed
<1>7. Gets(c, i, line)
  BY <1>1, <1>2, <1>5
<1>8. i \in Nat /\ i > 0
  <2>1. Len(outputs[e.channel].lines) \in Nat
    BY <1>3, BaseGives, LinesAreTyped DEF Open
  <2> QED
    BY <1>2, <2>1
<1>9. \A o \in OrderId : Changes(o, c, i, line)
  <2>1. ~Printed(c, i) /\ \A ch, j : Printed(ch, j)' <=> Printed(ch, j)
    BY <1>2, <1>3, <1>5, <1>7, <1>8, NewWaits
  <2> QED
    BY <1>5, <1>7, <1>8, <2>1, NewLineUnits
<1>10. ASSUME NEW o \in OrderId
       PROVE  /\ Ended(o)' <=> Ended(o)
              /\ Gone(o)' <=> Gone(o)
              /\ Booked(o)' <=> Booked(o)
              /\ Account(o) /\ pc'[o] = pc[o]
              /\ o # r => Hits(o)' = Hits(o) /\ Rem(o)' = Rem(o) /\ (Alive(o)' => Alive(o))
  <2>1. /\ Ended(o)' <=> Ended(o)
        /\ Gone(o)' <=> Gone(o)
        /\ Booked(o)' <=> Booked(o)
        /\ o # r => Hits(o)' = Hits(o)
    BY <1>6, <1>9 DEF Changes
  <2>2. Account(o) /\ pc'[o] = pc[o]
    BY <1>2 DEF Accounts
  <2>3. ASSUME o # r PROVE Rem(o)' = Rem(o) /\ (Alive(o)' => Alive(o))
    <3>0. count \in [OrderId -> 0 .. Modulus - 1]
      BY BaseGives DEF TypeOK
    <3>1. count'[o] = count[o] /\ (Rests(o)' <=> Rests(o))
      BY <1>2, <2>3, <3>0
    <3>2. Left(o)' = Left(o)
      BY <1>2, <3>1 DEF Left
    <3> QED
      BY <2>1, <2>2, <3>1, <3>2 DEF Rem, Alive
  <2> QED
    BY <2>1, <2>2, <2>3
<1>11. \A o \in OrderId : o # r => count'[o] = count[o] /\ executionId'[o] = executionId[o]
  <2>1. count \in [OrderId -> 0 .. Modulus - 1] /\ executionId \in [OrderId -> Nat \ {0}]
    BY BaseGives DEF TypeOK
  <2> QED
    BY <1>2, <2>1
<1>12. IsFiniteSet(LineBlock(c, i, s)) /\ Cardinality(LineBlock(c, i, s)) = s
  BY LineBlockSize
<1>13. ASSUME NEW o \in OrderId, o \in {a, r}
       PROVE  /\ IsFiniteSet(LineUnits(o)')
              /\ Cardinality(LineUnits(o)') = Cardinality(LineUnits(o)) + s
  <2>1. /\ LineUnits(o)' = LineUnits(o) \cup LineBlock(c, i, line.count)
        /\ LineUnits(o) \cap LineBlock(c, i, line.count) = {}
    BY <1>6, <1>9, <1>13 DEF Changes
  <2>2. PICK S : S = LineUnits(o) \cup LineBlock(c, i, s)
    OBVIOUS
  <2>3. IsFiniteSet(LineUnits(o)) /\ LineUnits(o) \cap LineBlock(c, i, s) = {}
    BY <1>6, <1>10, <2>1 DEF Account
  <2>4. IsFiniteSet(S) /\ Cardinality(S) = Cardinality(LineUnits(o)) + s
    BY <1>12, <2>2, <2>3, UnionAdds
  <2>5. LineUnits(o)' = S
    BY <1>6, <2>1, <2>2
  <2> QED
    BY <2>4, <2>5
<1>14. ASSUME NEW o \in OrderId, o # a, o # r PROVE Account(o)'
  <2>1. LineUnits(o)' = LineUnits(o)
    BY <1>6, <1>9, <1>14 DEF Changes
  <2>2. PlanUnits(o)' = PlanUnits(o)
    BY <1>1, <1>14, TradePlans
  <2>3. Ended(o)' => count'[o] > 0
    BY <1>10, <1>11, <1>14 DEF Account
  <2>4. rId'[o] = rId[o] /\ (pc'[o] = "unread" <=> pc[o] = "unread")
    BY <1>2
  <2> QED
    BY <1>10, <1>11, <1>14, <2>1, <2>2, <2>3, <2>4, SameAccount
<1>15. Account(a)'
  <2>1. PICK n, l : n \in Nat /\ n = Planned(e) /\ s <= n /\ l = e.level
    BY TradePlans
  <2>2. PICK T : T = PlanBlock(l, n - s, n)
    OBVIOUS
  <2>3. T \subseteq PlanUnits(a) /\ PlanUnits(a)' = PlanUnits(a) \ T
    <3>1. /\ PlanBlock(e.level, Planned(e) - s, Planned(e)) \subseteq PlanUnits(e.order)
          /\ PlanUnits(e.order)' =
               PlanUnits(e.order) \ PlanBlock(e.level, Planned(e) - s, Planned(e))
      BY TradePlans
    <3>2. PlanUnits(e.order) = PlanUnits(a)
      BY <1>1
    <3>3. PlanUnits(e.order)' = PlanUnits(a)'
      BY <1>1 DEF PlanUnits
    <3> QED
      BY <2>1, <2>2, <3>1, <3>2, <3>3
  <2>4. Cardinality(T) = s
    <3>1. n - s \in Nat /\ n - s <= n /\ n - (n - s) = s
      BY <2>1
    <3> QED
      BY <2>1, <2>2, <3>1, PlanBlockSize
  <2>5. PICK P, Q : P = PlanUnits(a) /\ Q = P \ T
    OBVIOUS
  <2>6. IsFiniteSet(P) /\ T \subseteq P
    BY <1>10, <2>3, <2>5 DEF Account
  <2>7. /\ IsFiniteSet(Q) /\ Cardinality(Q) + s = Cardinality(P)
        /\ Cardinality(Q) \in Nat /\ PlanUnits(a)' = Q
    BY <2>3, <2>4, <2>5, <2>6, TakenOut
  <2>8. Due(a)' = Due(a)
    <3>1. PICK x \in Nat, y \in Nat, z \in Nat :
            x = Cardinality(LineUnits(a)) /\ y = Cardinality(Q) /\ z = Rem(a)
      BY <1>10, <2>7, UnitsCounted, RemIsNat
    <3>2. Due(a)' = (x + s) + y + z
      BY <1>4, <1>10, <1>13, <2>7, <3>1 DEF Due
    <3>3. Due(a) = x + (y + s) + z
      BY <2>5, <2>7, <3>1 DEF Due
    <3>4. (x + s) + y + z = x + (y + s) + z
      OBVIOUS
    <3> QED
      BY <3>2, <3>3, <3>4
  <2>9. StateOf(a)' = StateOf(a)
    BY <1>10 DEF StateOf
  <2>10. IsFiniteSet(LineUnits(a)')
    BY <1>13
  <2>11. /\ rId'[a] = rId[a] /\ executionId'[a] = executionId[a] /\ count'[a] = count[a]
         /\ Hits(a)' = Hits(a)
         /\ Alive(a)' => Alive(a)
    BY <1>2, <1>4, <1>10, <1>11
  <2> QED
    BY <1>10, <2>7, <2>8, <2>9, <2>10, <2>11 DEF Account
<1>16. Account(r)'
  <2>1. ~Ended(r)
    BY <1>3 DEF OutInv, TouchLines, Ended
  <2>2. PlanUnits(r)' = PlanUnits(r)
    BY <1>1, <1>4, TradePlans
  <2>3. PICK m \in Nat : m = count[r]
    BY BaseGives
  <2>4. Rem(r) = m
    BY <1>3, <2>3 DEF Rem
  <2>5. Rem(r)' = m - s
    <3>1. CASE s = count[r] /\ ~Rests(r)'
      BY <1>2, <1>3, <1>10, <2>1, <2>3, <3>1 DEF Rem
    <3>2. CASE count' = [count EXCEPT ![r] = count[r] - s] /\ Rests(r)'
      <4>1. count \in [OrderId -> 0 .. Modulus - 1]
        BY BaseGives DEF TypeOK
      <4>2. count'[r] = m - s
        BY <2>3, <3>2, <4>1
      <4> QED
        BY <1>2, <1>3, <3>2, <4>2 DEF Rem
    <3> QED
      BY <1>2, <1>3, <3>1, <3>2
  <2>6. Due(r)' = Due(r)
    <3>1. PICK x \in Nat, y \in Nat : x = Cardinality(LineUnits(r)) /\ y = Cardinality(PlanUnits(r))
      BY <1>10, UnitsCounted
    <3>2. Due(r)' = (x + s) + y + (m - s)
      BY <1>13, <2>2, <2>5, <3>1 DEF Due
    <3>3. Due(r) = x + y + m
      BY <2>4, <3>1 DEF Due
    <3>4. (x + s) + y + (m - s) = x + y + m
      OBVIOUS
    <3> QED
      BY <3>2, <3>3, <3>4
  <2>7. StateOf(r)' = StateOf(r)
    BY <1>10 DEF StateOf
  <2>8. PICK H, w : H = Hits(r) /\ w = <<c, i>>
    OBVIOUS
  <2>9. Hits(r)' = H \cup {w} /\ w \notin H
    BY <1>6, <1>9, <2>8 DEF Changes
  <2>10. PICK K : K = H \cup {w}
    OBVIOUS
  <2>11. /\ IsFiniteSet(K) /\ Cardinality(K) = Cardinality(H) + 1
         /\ Cardinality(H) \in Nat
    <3>1. IsFiniteSet(H)
      BY <1>10, <2>8 DEF Account
    <3> QED
      BY <2>9, <2>10, <3>1, FS_AddElement, FS_CardinalityType
  <2>12. Alive(r)' => status[r].execs + Cardinality(K) + 1 = executionId'[r]
    <3> SUFFICES ASSUME Alive(r)' PROVE status[r].execs + Cardinality(K) + 1 = executionId'[r]
      OBVIOUS
    <3>1. Rests(r)'
      BY <1>2, <1>3 DEF Alive
    <3>2. executionId' = [executionId EXCEPT ![r] = executionId[r] + 1]
      BY <1>2, <3>1
    <3>3. executionId'[r] = executionId[r] + 1
      <4>1. executionId \in [OrderId -> Nat \ {0}]
        BY BaseGives DEF TypeOK
      <4> QED
        BY <3>2, <4>1
    <3>4. status[r].execs + Cardinality(H) + 1 = executionId[r]
      BY <1>3, <1>10, <2>8 DEF Account, Alive
    <3>5. PICK h \in Nat, x \in Nat : h = Cardinality(H) /\ x = status[r].execs
      BY <2>11, TypedStatus
    <3>6. x + (h + 1) + 1 = (x + h + 1) + 1
      OBVIOUS
    <3> QED
      BY <2>11, <3>3, <3>4, <3>5, <3>6
  <2>13. IsFiniteSet(LineUnits(r)')
    BY <1>13
  <2>14. rId'[r] = rId[r] /\ Hits(r)' = K
    BY <1>2, <2>9, <2>10
  <2> QED
    BY <1>10, <2>1, <2>2, <2>6, <2>7, <2>11, <2>12, <2>13, <2>14 DEF Account
<1> QED
  BY <1>14, <1>15, <1>16 DEF Accounts

(* An order is read: nothing has been said of it. *)
LEMMA ReadAccounts ==
  ASSUME Base, OutInv, Accounts, E!TypeOK, NEW c \in Client, NEW o \in OrderId,
         ReadOrder(c, o), status' = [status EXCEPT ![o] = Received(o)], lines' = lines
  PROVE  Accounts' /\ E!TypeOK'
<1> USE HeadsAreNodes
<1>1. pc[o] = "unread"
  BY BaseGives, Reading DEF ReadOrder, Reads
<1>2. /\ pc'[o] = "lock sgl" /\ \A p \in OrderId : p # o => pc'[p] = pc[p]
      /\ rId'[o] = c /\ \A p \in OrderId : p # o => rId'[p] = rId[p]
      /\ count'[o] = Terms[o].count /\ \A p \in OrderId : p # o => count'[p] = count[p]
  <2>1. /\ pc' = [pc EXCEPT ![o] = "lock sgl"] /\ rId' = [rId EXCEPT ![o] = c]
        /\ count' = [count EXCEPT ![o] = Terms[o].count]
    BY DEF ReadOrder, Goto
  <2>2. /\ pc \in [Command -> {"unread", "done"} \cup OrderPc \cup CancelPc]
        /\ rId \in [OrderId -> Client \cup {Nil}] /\ count \in [OrderId -> 0 .. Modulus - 1]
    BY BaseGives DEF TypeOK
  <2> QED
    BY <2>1, <2>2
<1>3. /\ executionId' = executionId /\ v' = v /\ outputs' = outputs /\ queue' = queue
      /\ executors' = executors /\ volume' = volume /\ taken' = taken /\ shown' = shown
  BY DEF ReadOrder, bookVars, outVars
<1>4. SameUnits /\ \A p \in OrderId : Rests(p)' <=> Rests(p)
  <2>1. SameLines
    BY <1>3 DEF SameLines, IsLine, At
  <2> QED
    BY <1>3, <2>1, SameLinesUnits DEF Rests, Printed
<1>5. \A p \in OrderId : PlanUnits(p)' = PlanUnits(p)
  BY <1>3, SamePlans DEF SameVolumes
<1>6. /\ Terms[o].count \in Nat /\ Terms[o].count > 0 /\ Terms[o].price \in Nat
      /\ Terms[o].side \in Side
  <2>1. Terms[o] \in [side : Side, price : 0 .. Modulus - 1, count : 1 .. Modulus - 1]
    BY GoBookAssumption
  <2>2. /\ Terms[o].side \in Side /\ Terms[o].price \in 0 .. Modulus - 1
        /\ Terms[o].count \in 1 .. Modulus - 1
    BY <2>1
  <2> QED
    BY <2>2, TermsInRange
<1>7. PICK f : f = Received(o)
  OBVIOUS
<1>8. /\ f.state = "Active" /\ f.count = Terms[o].count /\ f.filled = 0 /\ f.execs = 0
      /\ f \in E!OrderStatus
  BY <1>6, <1>7, TermsInRange DEF Received, E!Fresh, E!OrderStatus, E!States, E!Sides, Side
<1>9. /\ status'[o] = f /\ \A p \in OrderId : p # o => status'[p] = status[p]
      /\ E!TypeOK'
  BY <1>7, <1>8 DEF E!TypeOK
<1>10. ASSUME NEW p \in OrderId, p # o PROVE Account(p)'
  <2>1. /\ LineUnits(p)' = LineUnits(p) /\ Hits(p)' = Hits(p)
        /\ Ended(p)' <=> Ended(p)
        /\ Gone(p)' <=> Gone(p)
        /\ Booked(p)' <=> Booked(p)
    BY <1>4 DEF SameUnits
  <2>2. PlanUnits(p)' = PlanUnits(p)
    BY <1>5
  <2>3. pc'[p] = pc[p] /\ Left(p)' = Left(p)
    BY <1>2, <1>3, <1>10 DEF Left
  <2>4. Rem(p)' = Rem(p) /\ (Alive(p)' => Alive(p))
    BY <1>2, <1>4, <1>10, <2>1, <2>3 DEF Rem, Alive
  <2>5. Account(p)
    BY DEF Accounts
  <2>6. Ended(p)' => count'[p] > 0
    BY <1>2, <1>10, <2>1, <2>5 DEF Account
  <2>7. rId'[p] = rId[p] /\ executionId'[p] = executionId[p] /\ status'[p] = status[p]
    BY <1>2, <1>3, <1>9, <1>10
  <2> QED
    BY <2>1, <2>2, <2>3, <2>4, <2>5, <2>6, <2>7, SameAccount
<1>11. Account(o)'
  <2>1. \A ch, i : /\ ~EndLine(o, ch, i) /\ ~HitLine(o, ch, i) /\ ~AddLine(o, ch, i)
                   /\ \A r, n : ~TradeLine(o, r, n, ch, i)
    BY <1>1 DEF OutInv, AddLines, TradeLines, TouchLines, Touches
  <2>2. \A ch, i : ~TradeWaits(o, ch, i) /\ ~HitWaits(o, ch, i)
    <3>1. ASSUME NEW ch, NEW i, TradeWaits(o, ch, i) \/ HitWaits(o, ch, i) PROVE FALSE
      <4>1. IsLine(ch, i) /\ At(ch, i).kind = "executed" /\ o \in {At(ch, i).id, At(ch, i).resting}
        BY <3>1 DEF TradeWaits, HitWaits
      <4>2. CASE o = At(ch, i).id
        <5>1. TradeLine(o, At(ch, i).resting, At(ch, i).count, ch, i)
          BY <4>1, <4>2 DEF TradeLine
        <5> QED
          BY <2>1, <5>1
      <4>3. CASE o = At(ch, i).resting
        <5>1. TradeLine(At(ch, i).id, o, At(ch, i).count, ch, i)
          BY <4>1, <4>3 DEF TradeLine
        <5>2. HitLine(o, ch, i)
          BY <5>1 DEF HitLine
        <5> QED
          BY <2>1, <5>2
      <4> QED
        BY <4>1, <4>2, <4>3
    <3> QED
      BY <3>1
  <2>3. LineUnits(o) = {} /\ Hits(o) = {} /\ ~Ended(o) /\ ~Gone(o) /\ ~Booked(o)
    BY <2>1, <2>2 DEF LineUnits, Hits, Ended, Gone, Booked
  <2>4. PlanUnits(o) = {}
    <3>1. \A e \in executors : e.order # o
      BY <1>1 DEF OutInv, Traders
    <3> QED
      BY <3>1 DEF PlanUnits
  <2>5. /\ LineUnits(o)' = {} /\ Hits(o)' = {} /\ ~Ended(o)' /\ ~Gone(o)' /\ ~Booked(o)'
        /\ PlanUnits(o)' = {}
    BY <1>4, <1>5, <2>3, <2>4 DEF SameUnits
  <2>6. IsFiniteSet({}) /\ Cardinality({}) = 0
    BY FS_EmptySet
  <2>7. Rem(o)' = Terms[o].count
    BY <1>2 DEF Rem, Left, Matching
  <2>8. Due(o)' = Terms[o].count
    <3>1. Due(o)' = 0 + 0 + Terms[o].count
      BY <2>5, <2>6, <2>7 DEF Due
    <3> QED
      BY <1>6, <3>1
  <2>9. StateOf(o)' = "Active"
    BY <1>6, <1>8, <1>9, <2>5 DEF StateOf
  <2>10. executionId[o] = 1
    <3>1. Account(o) /\ Alive(o) /\ rId[o] = Nil
      BY <1>1 DEF Accounts, Account, Alive
    <3>2. status[o] = E!Absent
      BY <3>1 DEF Account
    <3>3. status[o].execs = 0
      BY <3>2 DEF E!Absent, E!Fresh
    <3>4. status[o].execs + Cardinality(Hits(o)) + 1 = executionId[o]
      BY <3>1 DEF Account
    <3> QED
      BY <2>3, <2>6, <3>3, <3>4
  <2>11. c # Nil
    BY GoBookAssumption
  <2>12. status'[o].filled + Due(o)' = status'[o].count
    BY <1>6, <1>8, <1>9, <2>8
  <2>13. status'[o].execs + Cardinality(Hits(o))' + 1 = executionId'[o]
    BY <1>3, <1>8, <1>9, <2>5, <2>6, <2>10
  <2>14. rId'[o] # Nil /\ pc'[o] # "unread" /\ status'[o].count = Terms[o].count
         /\ status'[o].state = StateOf(o)'
    BY <1>2, <1>8, <1>9, <2>9, <2>11
  <2> QED
    BY <2>5, <2>6, <2>12, <2>13, <2>14 DEF Account
<1> QED
  BY <1>9, <1>10, <1>11 DEF Accounts

-----------------------------------------------------------------------------
(* A line is printed. *)
LEMMA PrintDoes ==
  ASSUME Base, OutInv, PrintLine
  PROVE  \E c \in Nat, j \in Nat, line \in Line :
           /\ line = NextLine /\ IsLine(c, j) /\ At(c, j) = line /\ ~Printed(c, j)
           /\ c = taken
           /\ SameLines
           /\ \A ch, i : IsLine(ch, i) =>
                (Printed(ch, i)' <=> (Printed(ch, i) \/ (ch = c /\ i = j)))
<1>1. taken \in Nat /\ shown \in Nat /\ taken <= Len(outputs)
  BY DEF OutInv, InPrint
<1>2. /\ taken > 0 /\ shown < Len(outputs[taken].lines) /\ shown' = shown + 1
      /\ taken' = taken /\ outputs' = outputs
  BY DEF PrintLine, outVars
<1>3. PICK c \in Nat, j \in Nat : c = taken /\ j = shown + 1
  BY <1>1
<1>4. IsLine(c, j)
  <2>1. c \in DOMAIN outputs
    BY <1>1, <1>2, <1>3, BaseGives
  <2>2. /\ DOMAIN outputs[c].lines = 1 .. Len(outputs[c].lines)
        /\ Len(outputs[c].lines) \in Nat
    BY <2>1, BaseGives, LinesAreTyped
  <2>3. j \in 1 .. Len(outputs[c].lines)
    BY <1>1, <1>2, <1>3, <2>2
  <2> QED
    BY <2>1, <2>2, <2>3 DEF IsLine
<1>5. At(c, j) = NextLine /\ At(c, j) \in Line
  BY <1>3, <1>4, BaseGives, LinesAreTyped DEF At, NextLine
<1>6. ~Printed(c, j)
  BY <1>1, <1>3 DEF Printed
<1>7. SameLines
  BY <1>2 DEF SameLines, IsLine, At
<1>8. ASSUME NEW ch, NEW i, IsLine(ch, i)
      PROVE  Printed(ch, i)' <=> (Printed(ch, i) \/ (ch = c /\ i = j))
  <2>1. ch \in Nat /\ i \in Nat
    BY <1>8, BaseGives, LinesAreTyped
  <2>2. Printed(ch, i)' <=> ch < c \/ (ch = c /\ i <= j)
    BY <1>2, <1>3 DEF Printed
  <2>3. Printed(ch, i) <=> ch < c \/ (ch = c /\ i <= shown)
    BY <1>3 DEF Printed
  <2>4. i <= j <=> i <= shown \/ i = j
    BY <1>1, <1>3, <2>1
  <2> QED
    BY <2>2, <2>3, <2>4
<1> QED
  BY <1>3, <1>4, <1>5, <1>6, <1>7, <1>8

(* What it does to the units of an order. *)
Settles(o, c, j, line) ==
  /\ line.kind = "executed" /\ o \in {line.id, line.resting} /\ line.count \in Nat
       => /\ LineBlock(c, j, line.count) \subseteq LineUnits(o)
          /\ LineUnits(o)' = LineUnits(o) \ LineBlock(c, j, line.count)
  /\ ~(line.kind = "executed" /\ o \in {line.id, line.resting})
       => LineUnits(o)' = LineUnits(o)
  /\ line.kind = "executed" /\ o = line.resting
       => <<c, j>> \in Hits(o) /\ Hits(o)' = Hits(o) \ {<<c, j>>}
  /\ ~(line.kind = "executed" /\ o = line.resting) => Hits(o)' = Hits(o)
  /\ Ended(o)' <=> Ended(o)
  /\ Gone(o)' <=> \/ Gone(o)
                  \/ line.kind = "deleted" /\ line.accepted /\ line.id = o
  /\ Booked(o)' <=> \/ Booked(o)
                    \/ line.kind = "added" /\ line.id = o

LEMMA PrintSettles ==
  ASSUME NEW c \in Nat, NEW j \in Nat, NEW line, SameLines,
         IsLine(c, j), At(c, j) = line, ~Printed(c, j),
         \A ch, i : IsLine(ch, i) => (Printed(ch, i)' <=> (Printed(ch, i) \/ (ch = c /\ i = j))),
         NEW o \in OrderId
  PROVE  Settles(o, c, j, line)
<1>1. \A ch, i : /\ TradeWaits(o, ch, i)' <=> TradeWaits(o, ch, i) /\ ~(ch = c /\ i = j)
                 /\ HitWaits(o, ch, i)' <=> HitWaits(o, ch, i) /\ ~(ch = c /\ i = j)
                 /\ TradeWaits(o, ch, i) => At(ch, i)' = At(ch, i)
                 /\ EndLine(o, ch, i)' <=> EndLine(o, ch, i)
                 /\ AddLine(o, ch, i)' <=> AddLine(o, ch, i)
  BY DEF SameLines, TradeWaits, HitWaits, EndLine, AddLine
<1>2. \A ch, i : /\ EndLine(o, ch, i) =>
                      (Printed(ch, i)' <=> (Printed(ch, i) \/ (ch = c /\ i = j)))
                 /\ AddLine(o, ch, i) =>
                      (Printed(ch, i)' <=> (Printed(ch, i) \/ (ch = c /\ i = j)))
  BY DEF EndLine, AddLine
<1>3. /\ TradeWaits(o, c, j) <=> line.kind = "executed" /\ o \in {line.id, line.resting}
      /\ HitWaits(o, c, j) <=> line.kind = "executed" /\ line.resting = o
      /\ EndLine(o, c, j) <=> line.kind = "deleted" /\ line.accepted /\ line.id = o
      /\ AddLine(o, c, j) <=> line.kind = "added" /\ line.id = o
  BY DEF TradeWaits, HitWaits, EndLine, AddLine
<1>4. Ended(o)' <=> Ended(o)
  BY <1>1 DEF Ended
<1>5. Gone(o)' <=> Gone(o) \/ (line.kind = "deleted" /\ line.accepted /\ line.id = o)
  <2>1. \A ch, i : EndLine(o, ch, i)' /\ Printed(ch, i)' <=>
                     \/ EndLine(o, ch, i) /\ Printed(ch, i)
                     \/ EndLine(o, ch, i) /\ ch = c /\ i = j
    BY <1>1, <1>2
  <2> QED
    BY <1>3, <2>1 DEF Gone
<1>6. Booked(o)' <=> Booked(o) \/ (line.kind = "added" /\ line.id = o)
  <2>1. \A ch, i : AddLine(o, ch, i)' /\ Printed(ch, i)' <=>
                     \/ AddLine(o, ch, i) /\ Printed(ch, i)
                     \/ AddLine(o, ch, i) /\ ch = c /\ i = j
    BY <1>1, <1>2
  <2> QED
    BY <1>3, <2>1 DEF Booked
<1>7. ASSUME ~(line.kind = "executed" /\ o = line.resting) PROVE Hits(o)' = Hits(o)
  <2>1. \A ch, i : HitWaits(o, ch, i)' <=> HitWaits(o, ch, i)
    BY <1>1, <1>3, <1>7
  <2> QED
    BY <2>1 DEF Hits
<1>8. ASSUME line.kind = "executed", o = line.resting
      PROVE  <<c, j>> \in Hits(o) /\ Hits(o)' = Hits(o) \ {<<c, j>>}
  <2>1. <<c, j>> \in Hits(o)
    <3>1. <<c, j>> \in Nat \X Nat /\ <<c, j>>[1] = c /\ <<c, j>>[2] = j
      OBVIOUS
    <3> QED
      BY <1>3, <1>8, <3>1 DEF Hits
  <2>2. ASSUME NEW w PROVE w \in Hits(o)' <=> w \in Hits(o) \ {<<c, j>>}
    <3>1. w \in Nat \X Nat => (w = <<c, j>> <=> w[1] = c /\ w[2] = j)
      OBVIOUS
    <3>2. w \in Hits(o)' <=> w \in Nat \X Nat /\ HitWaits(o, w[1], w[2])'
      BY DEF Hits
    <3>3. w \in Hits(o) <=> w \in Nat \X Nat /\ HitWaits(o, w[1], w[2])
      BY DEF Hits
    <3> QED
      BY <1>1, <3>1, <3>2, <3>3
  <2> QED
    BY <2>1, <2>2
<1>9. ASSUME ~(line.kind = "executed" /\ o \in {line.id, line.resting})
      PROVE  LineUnits(o)' = LineUnits(o)
  <2>1. \A ch, i : /\ TradeWaits(o, ch, i)' <=> TradeWaits(o, ch, i)
                   /\ TradeWaits(o, ch, i) => At(ch, i)' = At(ch, i)
    BY <1>1, <1>3, <1>9
  <2> QED
    BY <2>1 DEF LineUnits
<1>10. ASSUME line.kind = "executed" /\ o \in {line.id, line.resting}, line.count \in Nat
       PROVE  /\ LineBlock(c, j, line.count) \subseteq LineUnits(o)
              /\ LineUnits(o)' = LineUnits(o) \ LineBlock(c, j, line.count)
  <2>1. ASSUME NEW w
        PROVE  w \in LineBlock(c, j, line.count) <=>
                 w \in Nat \X Nat \X Nat /\ w[1] = c /\ w[2] = j /\ w[3] \in 1 .. line.count
    BY <1>10 DEF LineBlock
  <2>2. ASSUME NEW w
        PROVE  w \in LineUnits(o) <=>
                 /\ w \in Nat \X Nat \X Nat /\ TradeWaits(o, w[1], w[2])
                 /\ w[3] \in 1 .. At(w[1], w[2]).count
    BY DEF LineUnits
  <2>3. ASSUME NEW w
        PROVE  w \in LineUnits(o)' <=>
                 /\ w \in Nat \X Nat \X Nat /\ TradeWaits(o, w[1], w[2])'
                 /\ w[3] \in 1 .. At(w[1], w[2])'.count
    BY DEF LineUnits
  <2>4. TradeWaits(o, c, j) /\ At(c, j) = line
    BY <1>3, <1>10
  <2>5. ASSUME NEW w, w \in LineBlock(c, j, line.count) PROVE w \in LineUnits(o)
    <3>1. At(w[1], w[2]) = line /\ TradeWaits(o, w[1], w[2])
      BY <2>1, <2>4, <2>5
    <3> QED
      BY <2>1, <2>2, <2>5, <3>1
  <2>6. ASSUME NEW w PROVE w \in LineUnits(o)' <=> w \in LineUnits(o) \ LineBlock(c, j, line.count)
    <3>1. CASE w[1] = c /\ w[2] = j
      <4>1. ~TradeWaits(o, w[1], w[2])' /\ At(w[1], w[2]) = line
        BY <1>1, <2>4, <3>1
      <4> QED
        BY <2>1, <2>2, <2>3, <3>1, <4>1
    <3>2. CASE ~(w[1] = c /\ w[2] = j)
      <4>1. /\ TradeWaits(o, w[1], w[2])' <=> TradeWaits(o, w[1], w[2])
            /\ TradeWaits(o, w[1], w[2]) => At(w[1], w[2])' = At(w[1], w[2])
        BY <1>1, <3>2
      <4> QED
        BY <2>1, <2>2, <2>3, <3>2, <4>1
    <3> QED
      BY <3>1, <3>2
  <2> QED
    BY <2>5, <2>6
<1> QED
  BY <1>4, <1>5, <1>6, <1>7, <1>8, <1>9, <1>10 DEF Settles

(* An order has something left when it is printed that it was booked.       *)
LEMMA AddedHasMore ==
  ASSUME Base, OutInv, NEW o \in OrderId, Account(o), NEW c, NEW j, c = taken, AddLine(o, c, j)
  PROVE  ~Gone(o) /\ pc[o] = "done" /\ Due(o) \in Nat /\ Due(o) > 0
<1> USE HeadsAreNodes
<1>1. /\ pc[o] = "done" /\ mine[o] = c /\ c \in Nat /\ c > 0
  <2>1. c \in Nat /\ c > 0
    BY BaseGives, LinesAreTyped DEF AddLine
  <2> QED
    BY <2>1 DEF OutInv, AddLines
<1>2. \A ch, i : Touches(o, ch, i) => ch \in Nat /\ i \in Nat /\ ~Printed(ch, i)
  <2>1. ASSUME NEW ch, NEW i, Touches(o, ch, i) PROVE ch \in Nat /\ i \in Nat /\ ~Printed(ch, i)
    <3>1. ch \in Nat /\ i \in Nat
      BY <2>1, BaseGives, LineOrders
    <3>2. c < ch
      BY <1>1, <2>1 DEF OutInv, TouchLines
    <3> QED
      BY <1>1, <3>1, <3>2 DEF Printed
  <2> QED
    BY <2>1
<1>3. ~Gone(o)
  BY <1>2 DEF Gone, Touches
<1>4. PICK x \in Nat, y \in Nat, z \in Nat :
        x = Cardinality(LineUnits(o)) /\ y = Cardinality(PlanUnits(o)) /\ z = Rem(o)
  BY UnitsCounted, RemIsNat
<1>5. Due(o) = x + y + z
  BY <1>4 DEF Due
<1>6. x > 0 \/ z > 0
  <2>1. CASE Rests(o)
    <3>1. Rem(o) = count[o] /\ count[o] > 0
      BY <1>1, <2>1, BaseGives DEF Rem
    <3> QED
      BY <1>4, <3>1
  <2>2. CASE Ended(o)
    <3>1. Rem(o) = count[o] /\ count[o] > 0
      BY <1>1, <2>2 DEF Rem, Account
    <3> QED
      BY <1>4, <3>1
  <2>3. CASE ~Rests(o) /\ ~Ended(o)
    <3>1. PICK ch, i : Touches(o, ch, i)
      BY <1>1, <2>3 DEF OutInv, LeaveLines
    <3>2. HitLine(o, ch, i)
      BY <2>3, <3>1 DEF Touches, Ended
    <3>3. PICK p, n : TradeLine(p, o, n, ch, i)
      BY <3>2 DEF HitLine
    <3>4. n > 0 /\ n \in Nat /\ ch \in Nat /\ i \in Nat /\ ~Printed(ch, i)
      BY <1>2, <3>1, <3>3, BaseGives, LineOrders DEF OutInv, TradeLines
    <3>5. TradeWaits(o, ch, i) /\ At(ch, i).count = n
      BY <3>3, <3>4 DEF TradeWaits, TradeLine
    <3>6. PICK w : w = <<ch, i, 1>>
      OBVIOUS
    <3>7. w \in Nat \X Nat \X Nat /\ w[1] = ch /\ w[2] = i /\ w[3] = 1
      BY <3>4, <3>6
    <3>8. w[3] \in 1 .. n
      BY <3>4, <3>7
    <3>9. w \in LineUnits(o)
      BY <3>5, <3>7, <3>8 DEF LineUnits
    <3>10. LineUnits(o) # {} /\ IsFiniteSet(LineUnits(o))
      BY <3>9 DEF Account
    <3>11. x # 0
      BY <1>4, <3>10, FS_EmptySet
    <3> QED
      BY <3>11
  <2> QED
    BY <2>1, <2>2, <2>3
<1> QED
  BY <1>1, <1>3, <1>4, <1>5, <1>6

LEMMA PrintAccounts ==
  ASSUME Base, OutInv, Accounts, E!TypeOK, PrintLine,
         IF IsForeign(NextLine)
         THEN UNCHANGED <<status, lines>>
         ELSE /\ lines' = lines + 1
              /\ status' = E!After(status, NextLine, lines')
  PROVE  Accounts' /\ E!TypeOK'
<1> USE HeadsAreNodes
<1>1. PICK c \in Nat, j \in Nat, line \in Line :
           /\ line = NextLine /\ IsLine(c, j) /\ At(c, j) = line /\ ~Printed(c, j)
           /\ c = taken
           /\ SameLines
           /\ \A ch, i : IsLine(ch, i) =>
                (Printed(ch, i)' <=> (Printed(ch, i) \/ (ch = c /\ i = j)))
  BY PrintDoes
<1>2. \A o \in OrderId : Settles(o, c, j, line)
  BY <1>1, PrintSettles
<1>3. /\ count' = count /\ executionId' = executionId /\ rId' = rId /\ pc' = pc /\ v' = v
      /\ executors' = executors /\ volume' = volume /\ queue' = queue
  BY DEF PrintLine, orderVars, bookVars, locals
<1>4. line.kind = "executed" =>
        /\ TradeLine(line.id, line.resting, line.count, c, j)
        /\ HitLine(line.resting, c, j)
        /\ line.id # line.resting /\ line.count \in Nat /\ line.count > 0
        /\ line.id \in OrderId /\ line.resting \in OrderId
  <2> SUFFICES ASSUME line.kind = "executed"
               PROVE  /\ TradeLine(line.id, line.resting, line.count, c, j)
                      /\ HitLine(line.resting, c, j)
                      /\ line.id # line.resting /\ line.count \in Nat /\ line.count > 0
                      /\ line.id \in OrderId /\ line.resting \in OrderId
    OBVIOUS
  <2>1. TradeLine(line.id, line.resting, line.count, c, j)
    BY <1>1 DEF TradeLine
  <2>2. HitLine(line.resting, c, j)
    BY <2>1 DEF HitLine
  <2>3. line.id # line.resting /\ line.count > 0
    BY <2>1 DEF OutInv, TradeLines
  <2>4. line.count \in Nat /\ line.id \in OrderId /\ line.resting \in OrderId
    BY <2>1, BaseGives, LineOrders
  <2> QED
    BY <2>1, <2>2, <2>3, <2>4
<1>5. E!TypeOK' /\ \A o \in OrderId : Replays(line, o)
  <2>1. CASE IsForeign(line)
    <3>1. status' = status /\ lines' = lines
      BY <1>1, <2>1
    <3>2. E!TypeOK'
      BY <3>1 DEF E!TypeOK
    <3>3. line.kind = "deleted" /\ ~line.accepted
      BY <2>1 DEF IsForeign
    <3> QED
      BY <3>1, <3>2, <3>3 DEF Replays
  <2>2. CASE ~IsForeign(line)
    <3>1. lines' = lines + 1 /\ status' = E!After(status, line, lines')
      BY <1>1, <2>2
    <3> QED
      BY <1>4, <3>1, ReplayDoes
  <2> QED
    BY <2>1, <2>2
<1> SUFFICES ASSUME NEW o \in OrderId PROVE Account(o)'
  BY <1>5 DEF Accounts
<1>6. /\ Settles(o, c, j, line) /\ Replays(line, o) /\ Account(o)
  BY <1>2, <1>5 DEF Accounts
<1>7. Ended(o)' <=> Ended(o)
  BY <1>6 DEF Settles
<1>8. Rem(o)' = Rem(o) /\ (Alive(o)' <=> Alive(o)) /\ Rem(o) \in Nat
  <2>1. (Rests(o)' <=> Rests(o)) /\ Left(o)' = Left(o)
    BY <1>3 DEF Rests, Left
  <2> QED
    BY <1>3, <1>7, <2>1, RemIsNat DEF Rem, Alive
<1>9. PlanUnits(o)' = PlanUnits(o)
  BY <1>3, SamePlans DEF SameVolumes
<1>10. Ended(o)' => count'[o] > 0
  BY <1>3, <1>6, <1>7 DEF Account
<1>11. PICK x \in Nat, y \in Nat, z \in Nat, h \in Nat :
         /\ x = Cardinality(LineUnits(o)) /\ y = Cardinality(PlanUnits(o)) /\ z = Rem(o)
         /\ h = Cardinality(Hits(o))
  BY <1>6, <1>8, UnitsCounted
<1>12. Due(o) = x + y + z
  BY <1>11 DEF Due
<1>13. PICK f \in Nat, m \in Nat, g \in Nat :
         f = status[o].filled /\ m = status[o].count /\ g = status[o].execs
  BY TypedStatus
<1>14. CASE line.kind = "added" /\ line.id = o
  <2>1. AddLine(o, c, j)
    BY <1>1, <1>14 DEF AddLine
  <2>2. ~Gone(o) /\ pc[o] = "done" /\ Due(o) > 0
    BY <1>1, <1>6, <2>1, AddedHasMore
  <2>3. rId[o] # Nil /\ f + Due(o) = m
    BY <1>6, <1>13, <2>2 DEF Account
  <2>4. f # m
    BY <1>11, <1>12, <2>2, <2>3
  <2>5. /\ LineUnits(o)' = LineUnits(o) /\ Hits(o)' = Hits(o)
        /\ Gone(o)' <=> Gone(o)
        /\ Booked(o)'
    BY <1>6, <1>14 DEF Settles
  <2>6. /\ status'[o].state = "Booked" /\ status'[o].count = m /\ status'[o].filled = f
        /\ status'[o].execs = g
    <3>1. status'[o] = [status[o] EXCEPT !.state = "Booked", !.stamp = lines']
      BY <1>6, <1>14 DEF Replays
    <3>2. status[o] \in E!OrderStatus
      BY TypedStatus
    <3> QED
      BY <1>13, <3>1, <3>2 DEF E!OrderStatus
  <2>7. StateOf(o)' = "Booked"
    BY <2>4, <2>5, <2>6 DEF StateOf
  <2>8. Due(o)' = Due(o)
    BY <1>8, <1>9, <2>5 DEF Due
  <2> QED
    BY <1>3, <1>6, <1>8, <1>9, <1>10, <1>13, <2>2, <2>3, <2>5, <2>6, <2>7, <2>8 DEF Account
<1>15. CASE line.kind = "executed" /\ o \in {line.id, line.resting}
  <2>1. PICK n \in Nat : n = line.count /\ n > 0
    BY <1>4, <1>15
  <2>2. pc[o] # "unread"
    <3>1. CASE o = line.id
      BY <1>4, <1>15, <3>1 DEF OutInv, TradeLines
    <3>2. CASE o = line.resting
      <4>1. Touches(o, c, j)
        BY <1>4, <1>15, <3>2 DEF Touches
      <4> QED
        BY <4>1 DEF OutInv, TouchLines
    <3> QED
      BY <1>15, <3>1, <3>2
  <2>3. rId[o] # Nil
    BY <1>6, <2>2 DEF Account
  <2>4. PICK S, T : S = LineUnits(o) /\ T = LineBlock(c, j, n)
    OBVIOUS
  <2>5. T \subseteq S /\ LineUnits(o)' = S \ T /\ IsFiniteSet(S)
    BY <1>6, <1>15, <2>1, <2>4 DEF Settles, Account
  <2>6. Cardinality(T) = n
    BY <2>1, <2>4, LineBlockSize
  <2>7. PICK R : R = S \ T
    OBVIOUS
  <2>8. IsFiniteSet(R) /\ Cardinality(R) + n = x /\ Cardinality(R) \in Nat
    BY <1>11, <2>4, <2>5, <2>6, <2>7, TakenOut
  <2>9. PICK u \in Nat : u = Cardinality(R) /\ u + n = x
    BY <2>8
  <2>10. Due(o)' = u + y + z
    BY <1>8, <1>9, <1>11, <2>5, <2>7, <2>9 DEF Due
  <2>11. PICK p \in Nat :
            /\ p = E!FilledAfter(status[o], n)
            /\ status'[o].filled = p /\ status'[o].count = m
            /\ status'[o].state = IF p = m THEN "Filled" ELSE status[o].state
    <3>1. E!FilledAfter(status[o], n) \in Nat
      BY TypedStatus, FilledAfterFits
    <3> QED
      BY <1>6, <1>13, <1>15, <2>1, <3>1 DEF Replays, Fills
  <2>12. /\ Gone(o)' <=> Gone(o)
         /\ Booked(o)' <=> Booked(o)
    BY <1>6, <1>15 DEF Settles
  <2>13. ~Gone(o) => /\ status'[o].filled + Due(o)' = status'[o].count
                     /\ status'[o].state = StateOf(o)'
    <3> SUFFICES ASSUME ~Gone(o)
                 PROVE  /\ status'[o].filled + Due(o)' = status'[o].count
                        /\ status'[o].state = StateOf(o)'
      OBVIOUS
    <3>1. f + (x + y + z) = m /\ status[o].state = StateOf(o)
      BY <1>6, <1>12, <1>13, <2>3 DEF Account
    <3>2. (f + n) + (u + y + z) = m
      <4>1. (f + n) + (u + y + z) = f + ((u + n) + y + z)
        OBVIOUS
      <4> QED
        BY <2>9, <3>1, <4>1
    <3>3. f # m /\ p = f + n
      <4>1. f # m /\ f + n <= m
        BY <2>1, <2>9, <3>1, <3>2
      <4>2. m < Modulus /\ Modulus \in Nat
        BY <1>13, TypedStatus, TermsInRange DEF E!OrderStatus
      <4>3. f + n < Modulus
        BY <4>1, <4>2
      <4> QED
        BY <1>13, <2>11, <4>1, <4>3, TypedStatus, FilledAfterFits
    <3>4. status[o].state = IF Booked(o) THEN "Booked" ELSE "Active"
      BY <1>13, <3>1, <3>3 DEF StateOf
    <3>5. StateOf(o)' = IF p = m THEN "Filled" ELSE IF Booked(o) THEN "Booked" ELSE "Active"
      BY <2>11, <2>12 DEF StateOf
    <3> QED
      BY <2>10, <2>11, <3>2, <3>3, <3>4, <3>5
  <2>14. Gone(o) => status'[o].state = "Filled"
    BY <1>6, <2>11 DEF Account
  <2>15. /\ IsFiniteSet(Hits(o)')
         /\ Alive(o)' => status'[o].execs + Cardinality(Hits(o)') + 1 = executionId'[o]
    <3>1. CASE o = line.resting
      <4>1. PICK H, K, w : H = Hits(o) /\ w = <<c, j>> /\ K = H \ {w}
        OBVIOUS
      <4>2. w \in H /\ Hits(o)' = K /\ IsFiniteSet(H)
        BY <1>6, <1>15, <3>1, <4>1 DEF Settles, Account
      <4>3. IsFiniteSet(K) /\ Cardinality(K) + 1 = h
        <5>1. IsFiniteSet({w}) /\ Cardinality({w}) = 1
          BY FS_Singleton
        <5>2. {w} \subseteq H
          BY <4>2
        <5> QED
          BY <1>11, <4>1, <4>2, <5>1, <5>2, TakenOut
      <4>4. status'[o].execs = g + 1
        <5>1. o # line.id
          BY <1>4, <1>15, <3>1
        <5> QED
          BY <1>6, <1>13, <1>15, <3>1, <5>1 DEF Replays
      <4>5. Alive(o) => g + h + 1 = executionId[o]
        BY <1>6, <1>11, <1>13 DEF Account
      <4>6. Cardinality(K) \in Nat
        BY <4>3, FS_CardinalityType
      <4>7. PICK k \in Nat : k = Cardinality(K) /\ k + 1 = h
        BY <4>3, <4>6
      <4>8. (g + 1) + k + 1 = g + h + 1
        BY <4>7
      <4> QED
        BY <1>3, <1>8, <4>2, <4>3, <4>4, <4>5, <4>7, <4>8
    <3>2. CASE o # line.resting
      <4>1. Hits(o)' = Hits(o)
        BY <1>6, <3>2 DEF Settles
      <4>2. status'[o].execs = status[o].execs
        BY <1>6, <1>15, <3>2 DEF Replays
      <4> QED
        BY <1>3, <1>6, <1>8, <4>1, <4>2 DEF Account
    <3> QED
      BY <3>1, <3>2
  <2>16. IsFiniteSet(LineUnits(o)')
    BY <2>5, <2>7, <2>8
  <2> QED
    BY <1>3, <1>6, <1>9, <1>10, <1>13, <2>2, <2>3, <2>11, <2>12, <2>13, <2>14, <2>15, <2>16
    DEF Account
<1>16. CASE line.kind = "deleted" /\ line.accepted /\ line.id = o
  <2>1. EndLine(o, c, j)
    BY <1>1, <1>16 DEF EndLine
  <2>2. pc[o] = "done"
    BY <2>1 DEF OutInv, TouchLines, Touches
  <2>3. /\ LineUnits(o)' = LineUnits(o) /\ Hits(o)' = Hits(o) /\ Gone(o)'
    BY <1>6, <1>16 DEF Settles
  <2>4. /\ status'[o].state = "Filled" /\ status'[o].count = status[o].count
        /\ status'[o].execs = status[o].execs
    BY <1>6, <1>16 DEF Replays
  <2> QED
    BY <1>3, <1>6, <1>8, <1>9, <1>10, <2>2, <2>3, <2>4 DEF Account
<1>17. CASE /\ ~(line.kind = "added" /\ line.id = o)
            /\ ~(line.kind = "executed" /\ o \in {line.id, line.resting})
            /\ ~(line.kind = "deleted" /\ line.accepted /\ line.id = o)
  <2>1. status'[o] = status[o]
    BY <1>6, <1>17 DEF Replays
  <2>2. /\ LineUnits(o)' = LineUnits(o) /\ Hits(o)' = Hits(o)
        /\ Gone(o)' <=> Gone(o)
        /\ Booked(o)' <=> Booked(o)
    BY <1>6, <1>17 DEF Settles
  <2> QED
    BY <1>3, <1>6, <1>8, <1>9, <1>10, <2>1, <2>2, SameAccount
<1> QED
  BY <1>14, <1>15, <1>16, <1>17

-----------------------------------------------------------------------------
(* The accounts are right at first and after every step. *)
LEMMA InitAccounts == GInit => Accounts /\ E!TypeOK
<1> SUFFICES ASSUME GInit PROVE Accounts /\ E!TypeOK
  OBVIOUS
<1> USE HeadsAreNodes
<1>1. Init /\ E!Init
  BY DEF GInit
<1>2. E!TypeOK
  <2>1. E!Absent \in E!OrderStatus
    BY TermsInRange DEF E!Absent, E!Fresh, E!OrderStatus, E!States, E!Sides
  <2> QED
    BY <1>1, <2>1 DEF E!Init, E!TypeOK
<1>3. ASSUME NEW o \in OrderId PROVE Account(o)
  <2>1. \A ch, i : ~IsLine(ch, i)
    <3>1. outputs = <<>> /\ DOMAIN <<>> = {}
      BY <1>1 DEF Init
    <3> QED
      BY <3>1 DEF IsLine
  <2>2. /\ LineUnits(o) = {} /\ Hits(o) = {} /\ ~Ended(o) /\ ~Gone(o)
    BY <2>1 DEF LineUnits, TradeWaits, Hits, HitWaits, Ended, Gone, EndLine
  <2>3. PlanUnits(o) = {}
    BY <1>1 DEF Init, PlanUnits
  <2>4. IsFiniteSet({}) /\ Cardinality({}) = 0
    BY FS_EmptySet
  <2>5. rId[o] = Nil /\ pc[o] = "unread" /\ executionId[o] = 1
    BY <1>1 DEF Init
  <2>6. status[o] = E!Absent
    BY <1>1 DEF E!Init
  <2>7. status[o].execs = 0
    BY <2>6 DEF E!Absent, E!Fresh
  <2> QED
    BY <2>2, <2>3, <2>4, <2>5, <2>6, <2>7 DEF Account
<1> QED
  BY <1>2, <1>3 DEF Accounts

LEMMA AccountsStep ==
  ASSUME Base, OutInv, Accounts, E!TypeOK, GNext
  PROVE  Accounts' /\ E!TypeOK'
<1>1. ASSUME NEW c \in Client, NEW o \in OrderId, ReadOrder(c, o),
             status' = [status EXCEPT ![o] = Received(o)], UNCHANGED lines
      PROVE  Accounts' /\ E!TypeOK'
  BY <1>1, ReadAccounts
<1>2. ASSUME PrintLine,
             IF IsForeign(NextLine)
             THEN UNCHANGED <<status, lines>>
             ELSE /\ lines' = lines + 1
                  /\ status' = E!After(status, NextLine, lines')
      PROVE  Accounts' /\ E!TypeOK'
  BY <1>2, PrintAccounts
<1>3. ASSUME UNCHANGED <<status, lines>>, Other \/ NextChannel
      PROVE  Accounts' /\ E!TypeOK'
  <2>1. E!TypeOK'
    BY <1>3 DEF E!TypeOK
  <2>2. status' = status
    BY <1>3
  <2>3. ASSUME NEW e \in executors, NEW r \in OrderId, NEW s \in Nat, NEW i, TradesWith(e, r, s, i)
        PROVE  Accounts'
    BY <2>2, <2>3, TradeAccounts
  <2>4. ASSUME NEW o \in OrderId, NEW e, Starts(o, e) PROVE Accounts'
    BY <2>2, <2>4, StartAccounts
  <2>5. ASSUME NEW x \in CancelId, NEW accepted \in BOOLEAN, Answers(x, accepted) PROVE Accounts'
    BY <2>2, <2>5, AnswerAccounts
  <2>6. \A o \in OrderId : Appends(o) => Accounts'
    BY <2>2, AppendAccounts
  <2>7. \A x \in CancelId : Rejects(x) => Accounts'
    BY <2>2, RejectAccounts
  <2>8. /\ Still /\ Kept => Accounts'
        /\ \A e \in executors : Ends(e) => Accounts'
        /\ \A o \in OrderId : StartAdd(o) /\ Joins(o) => Accounts'
        /\ \A x \in CancelId : QueueCancel(x) /\ Joins(x) => Accounts'
        /\ NextChannel => Accounts'
    BY <2>2, UntouchedAccounts
  <2>9. Other => Accounts'
    BY <2>3, <2>4, <2>5, <2>6, <2>7, <2>8, OtherKinds
  <2> QED
    BY <1>3, <2>1, <2>8, <2>9
<1>4. \/ \E c \in Client, o \in OrderId :
           ReadOrder(c, o) /\ status' = [status EXCEPT ![o] = Received(o)] /\ UNCHANGED lines
      \/ /\ PrintLine
         /\ IF IsForeign(NextLine)
            THEN UNCHANGED <<status, lines>>
            ELSE /\ lines' = lines + 1
                 /\ status' = E!After(status, NextLine, lines')
      \/ UNCHANGED <<status, lines>> /\ (Other \/ NextChannel)
  BY DEF GNext, Other
<1> QED
  BY <1>1, <1>2, <1>3, <1>4

(* A step of the engine with its ghosts is a step of the engine. *)
LEMMA GStep == [GNext]_gvars => [Next]_vars
<1>1. GNext => Next
  BY DEF GNext, Next, Goroutines, HandleConn, Printer
<1> QED
  BY <1>1 DEF gvars

LEMMA GHasBook == GSpec => Spec
<1>1. GInit => Init
  BY DEF GInit
<1> QED
  BY <1>1, GStep, PTL DEF GSpec, Spec

(* What is known of every state, under the sizes that keep volumes from     *)
(* wrapping.                                                                *)
LEMMA BaseHolds == FewAndSmall => (GSpec => []Base)
<1>1. FewAndSmall => (Spec => []SoFar)
  BY ListInvHolds, FewOrdersSumUp, LockInvHolds, VolumeInvHolds, PTL DEF SoFar
<1>2. FewAndSmall => (Spec => []LossInv)
  BY <1>1, InitLoss, LossStep, PTL DEF Spec
<1>3. FewAndSmall => (Spec => []Base)
  BY <1>1, <1>2, RegisteredHolds, PTL DEF Base
<1> QED
  BY <1>3, GHasBook, PTL

LEMMA OutHolds == FewAndSmall => (GSpec => []OutInv)
<1>1. Base /\ OutInv /\ [Next]_vars => OutInv'
  <2>1. ASSUME Base, OutInv, UNCHANGED vars PROVE OutInv'
    <3>1. Still
      BY <2>1 DEF vars, outVars, bookVars, locals, Still, Writes
    <3> QED
      BY <2>1, <3>1, StillOut
  <2> QED
    BY <2>1, OutStep
<1>2. GInit => OutInv
  BY InitOut DEF GInit
<1> QED
  BY <1>1, <1>2, GStep, BaseHolds, PTL DEF GSpec

LEMMA AccountsHold == FewAndSmall => (GSpec => [](Accounts /\ E!TypeOK))
<1>1. Base /\ OutInv /\ (Accounts /\ E!TypeOK) /\ [GNext]_gvars => (Accounts /\ E!TypeOK)'
  <2>1. ASSUME Accounts, E!TypeOK, UNCHANGED gvars PROVE Accounts' /\ E!TypeOK'
    <3>1. /\ UNCHANGED <<outputs, pc, rId, count, executionId, executors, queue, volume, v>>
          /\ UNCHANGED <<taken, shown, status, lines>>
      BY <2>1 DEF gvars, vars, orderVars, bookVars, locals, outVars
    <3>2. E!TypeOK'
      BY <2>1, <3>1 DEF E!TypeOK
    <3>3. ASSUME NEW o \in OrderId PROVE Account(o)'
      <4>1. \A ch, i : Printed(ch, i)' <=> Printed(ch, i)
        BY <3>1 DEF Printed
      <4>2. \A ch, i : /\ TradeWaits(o, ch, i)' <=> TradeWaits(o, ch, i)
                       /\ HitWaits(o, ch, i)' <=> HitWaits(o, ch, i)
                       /\ EndLine(o, ch, i)' <=> EndLine(o, ch, i)
                       /\ AddLine(o, ch, i)' <=> AddLine(o, ch, i)
                       /\ At(ch, i)' = At(ch, i)
        BY <3>1, <4>1 DEF TradeWaits, HitWaits, EndLine, AddLine, IsLine, At
      <4>3. /\ LineUnits(o)' = LineUnits(o) /\ Hits(o)' = Hits(o)
            /\ Ended(o)' <=> Ended(o)
            /\ Gone(o)' <=> Gone(o)
            /\ Booked(o)' <=> Booked(o)
        BY <4>1, <4>2 DEF LineUnits, Hits, Ended, Gone, Booked
      <4>4. PlanUnits(o)' = PlanUnits(o)
        BY <3>1, SamePlans DEF SameVolumes
      <4>5. (Rests(o)' <=> Rests(o)) /\ Left(o)' = Left(o)
        BY <3>1 DEF Rests, Left
      <4>6. Rem(o)' = Rem(o) /\ (Alive(o)' => Alive(o))
        BY <3>1, <4>3, <4>5 DEF Rem, Alive
      <4>7. Account(o)
        BY <2>1 DEF Accounts
      <4>8. Ended(o)' => count'[o] > 0
        BY <3>1, <4>3, <4>7 DEF Account
      <4> QED
        BY <3>1, <4>3, <4>4, <4>6, <4>7, <4>8, SameAccount
    <3> QED
      BY <3>2, <3>3 DEF Accounts
  <2> QED
    BY <2>1, AccountsStep
<1> QED
  BY <1>1, InitAccounts, BaseHolds, OutHolds, PTL DEF GSpec

-----------------------------------------------------------------------------
(* When all is quiet no unit waits. *)
LEMMA QuietAccounts ==
  ASSUME Base, OutInv, Quiet, NEW o \in OrderId
  PROVE  /\ \A ch, i : IsLine(ch, i) => Printed(ch, i)
         /\ LineUnits(o) = {} /\ PlanUnits(o) = {} /\ Hits(o) = {}
         /\ pc[o] \in {"unread", "done"}
<1>1. /\ executors = {} /\ pc[o] \in {"unread", "done"} /\ taken = Len(outputs)
      /\ taken > 0 => shown = Len(outputs[taken].lines)
  BY HeadsAreNodes DEF Quiet
<1>2. ASSUME NEW ch, NEW i, IsLine(ch, i) PROVE Printed(ch, i)
  <2>1. ch \in Nat /\ ch > 0 /\ ch <= taken /\ taken \in Nat /\ i \in Nat
    BY <1>1, <1>2, BaseGives, LinesAreTyped
  <2>2. CASE ch = taken
    <3>1. ch \in DOMAIN outputs /\ i \in DOMAIN outputs[ch].lines
      BY <1>2 DEF IsLine
    <3>2. /\ DOMAIN outputs[ch].lines = 1 .. Len(outputs[ch].lines)
          /\ Len(outputs[ch].lines) \in Nat
      BY <3>1, BaseGives, LinesAreTyped
    <3>3. shown = Len(outputs[ch].lines)
      BY <1>1, <2>1, <2>2
    <3> QED
      BY <2>2, <3>1, <3>2, <3>3 DEF Printed
  <2>3. CASE ch # taken
    BY <2>1, <2>3 DEF Printed
  <2> QED
    BY <2>2, <2>3
<1>3. LineUnits(o) = {} /\ Hits(o) = {}
  BY <1>2 DEF LineUnits, Hits, TradeWaits, HitWaits
<1>4. PlanUnits(o) = {}
  BY <1>1 DEF PlanUnits
<1> QED
  BY <1>1, <1>2, <1>3, <1>4

(* Nothing rests in a level that is not in a list. *)
LEMMA QuietRests ==
  ASSUME Base, BooksSorted, NothingIsLost, Quiet, NEW o \in OrderId
  PROVE  (\E n \in Linked \cap OrderId : o \in ToSet(queue[n])) <=> Rests(o)
<1> USE HeadsAreNodes
<1>1. queue \in [Node -> Seq(OrderId)] /\ executors = {}
  BY BaseGives DEF TypeOK, Quiet
<1>2. ASSUME NEW n \in Linked \cap OrderId, o \in ToSet(queue[n]) PROVE Rests(o)
  <2>1. PICK i \in DOMAIN queue[n] : queue[n][i] = o
    BY <1>2 DEF ToSet
  <2>2. n \in Node
    BY DEF Node
  <2> QED
    BY <2>1, <2>2 DEF Rests
<1>3. ASSUME Rests(o) PROVE \E n \in Linked \cap OrderId : o \in ToSet(queue[n])
  <2>1. PICK n \in Node : \E i \in DOMAIN queue[n] : queue[n][i] = o
    BY <1>3 DEF Rests
  <2>2. PICK i \in DOMAIN queue[n] : queue[n][i] = o
    BY <2>1
  <2>3. queue[n] # <<>>
    <3>1. DOMAIN <<>> = {}
      OBVIOUS
    <3> QED
      BY <2>2, <3>1
  <2>4. n \in OrderId
    BY <2>3 DEF BooksSorted, Node
  <2>5. n \in Linked
    BY <1>1, <2>3, <2>4 DEF NothingIsLost
  <2> QED
    BY <2>2, <2>4, <2>5 DEF ToSet
<1> QED
  BY <1>2, <1>3

LEMMA AccountsClose ==
  ASSUME Base, OutInv, Accounts, E!TypeOK, Quiet, NEW o \in OrderId
  PROVE  /\ Rests(o) <=> status[o].state = "Booked"
         /\ Rests(o) => /\ count[o] = status[o].count - status[o].filled
                        /\ executionId[o] = status[o].execs + 1
<1> USE HeadsAreNodes
<1>1. /\ \A ch, i : IsLine(ch, i) => Printed(ch, i)
      /\ LineUnits(o) = {} /\ PlanUnits(o) = {} /\ Hits(o) = {}
      /\ pc[o] \in {"unread", "done"}
  BY QuietAccounts
<1>2. Account(o) /\ IsFiniteSet({}) /\ Cardinality({}) = 0
  BY FS_EmptySet DEF Accounts
<1>3. PICK f \in Nat, m \in Nat, g \in Nat, z \in Nat, k \in Nat :
        /\ f = status[o].filled /\ m = status[o].count /\ g = status[o].execs
        /\ z = Rem(o) /\ k = count[o]
  BY TypedStatus, RemIsNat, BaseGives
<1>4. Due(o) = z
  BY <1>1, <1>2, <1>3 DEF Due
<1>5. Ended(o) => Gone(o)
  BY <1>1 DEF Ended, Gone, EndLine
<1>6. ASSUME Rests(o)
      PROVE  /\ status[o].state = "Booked" /\ count[o] = m - f /\ executionId[o] = g + 1
  <2>1. pc[o] = "done" /\ k > 0 /\ z = k
    BY <1>3, <1>6, BaseGives DEF Rem
  <2>2. ~Gone(o) /\ rId[o] # Nil
    BY <1>2, <1>6, <2>1 DEF OutInv, TouchLines, Gone, Account
  <2>3. Booked(o)
    <3>1. mine[o] # 0
      BY <1>6 DEF OutInv, TouchLines
    <3>2. AddLine(o, mine[o], 1)
      BY <2>1, <3>1 DEF OutInv, AddLines
    <3> QED
      BY <1>1, <3>2 DEF Booked, AddLine
  <2>4. f + k = m /\ status[o].state = StateOf(o)
    BY <1>2, <1>3, <1>4, <2>1, <2>2 DEF Account
  <2>5. f # m /\ k = m - f
    BY <2>1, <2>4
  <2>6. status[o].state = "Booked"
    BY <1>3, <2>3, <2>4, <2>5 DEF StateOf
  <2>7. g + 0 + 1 = executionId[o]
    BY <1>1, <1>2, <1>3, <1>6 DEF Account, Alive
  <2> QED
    BY <1>3, <2>5, <2>6, <2>7
<1>7. ASSUME ~Rests(o) PROVE status[o].state # "Booked"
  <2>1. CASE rId[o] = Nil
    <3>1. status[o] = E!Absent
      BY <1>2, <2>1 DEF Account
    <3>2. status[o].state = "Unknown"
      BY <3>1 DEF E!Absent, E!Fresh
    <3> QED
      BY <3>2
  <2>2. CASE Gone(o)
    BY <1>2, <2>2 DEF Account
  <2>3. CASE rId[o] # Nil /\ ~Gone(o)
    <3>1. pc[o] = "done" /\ ~Ended(o)
      BY <1>1, <1>2, <1>5, <2>3 DEF Account
    <3>2. z = 0
      BY <1>3, <1>7, <3>1 DEF Rem
    <3>3. f + z = m /\ status[o].state = StateOf(o)
      BY <1>2, <1>3, <1>4, <2>3 DEF Account
    <3>4. f = m
      BY <3>2, <3>3
    <3> QED
      BY <1>3, <3>3, <3>4 DEF StateOf
  <2> QED
    BY <2>1, <2>2, <2>3
<1> QED
  BY <1>3, <1>6, <1>7

LEMMA QuietIsPrinted ==
  Base /\ OutInv /\ (Accounts /\ E!TypeOK) /\ BooksSorted /\ NothingIsLost
    => QuietBookIsPrinted
<1> SUFFICES ASSUME Base, OutInv, Accounts, E!TypeOK, BooksSorted, NothingIsLost, Quiet,
                    NEW o \in OrderId
             PROVE  LET rests == \E n \in Linked \cap OrderId : o \in ToSet(queue[n]) IN
                    /\ rests <=> status[o].state = "Booked"
                    /\ rests => /\ count[o] = status[o].count - status[o].filled
                                /\ executionId[o] = status[o].execs + 1
  BY DEF QuietBookIsPrinted
<1> QED
  BY QuietRests, AccountsClose

(* When all is quiet the book is what the printed lines say: an order rests *)
(* in a list exactly if the lines left it booked, with the size that they   *)
(* left of it and the number of its executions.  Trades, adds and cancels   *)
(* are written by goroutines that run at the same time, into channels that  *)
(* are printed in the order in which they were queued, which is not that of *)
(* the writes.  Prices are above 0, since an order of price 0 is put into   *)
(* the head of its list, and the sizes are such that no volume wraps.       *)
THEOREM QuietBooksArePrinted ==
  FewAndSmall /\ PricesAboveZero => (GSpec => []QuietBookIsPrinted)
<1>1. FewAndSmall => (GSpec => []NothingIsLost)
  BY NothingLeavesWithALevel, GHasBook, PTL
<1>2. PricesAboveZero => (GSpec => []BooksSorted)
  BY ListsAreSorted, GHasBook, PTL
<1> QED
  BY <1>1, <1>2, BaseHolds, OutHolds, AccountsHold, QuietIsPrinted, PTL
=============================================================================
