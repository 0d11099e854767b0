------------------------ MODULE GraderSessionProofs ------------------------
(***************************************************************************)
(* The grader knows that all output has arrived when nothing it sent is    *)
(* active any more.  What is active is an account per command: it opens    *)
(* before the command is sent, every line that is read settles some of it, *)
(* and what the lines still unread do not settle the engine still owes.    *)
(* So an account without a balance has no line and no command behind it.   *)
(* All of this is true of commands that are sent only once: orders are, by *)
(* validate_commands, and cancels have to be.                              *)
(***************************************************************************)
EXTENDS GraderSession, SequenceTheorems, FiniteSetTheorems, TLAPS

Cmd == [type : {"new", "cancel"}, order : OrderId]
Line == [kind : {"added", "executed", "deleted"}, order : OrderId, count : Nat]

(* The commands that no plan sends twice. *)
Tracked ==
  {c \in Cmd : \A plan \in Plans : \A t, u \in Thread :
     \A i \in DOMAIN plan[t], j \in DOMAIN plan[u] :
       plan[t][i] = c /\ plan[u][j] = c => t = u /\ i = j}

(* No client cancels an order twice, which nothing in the grader asserts.  *)
CancelledOnce == Cmd \subseteq Tracked

-----------------------------------------------------------------------------
(* What one line settles of the account of a command: a of it before, b    *)
(* afterwards.                                                             *)
About(line, c) ==
  line.order = c.order /\ (line.kind = "deleted" <=> c.type = "cancel")

Settles(line, c, a, b) ==
  IF ~About(line, c) THEN b = a
  ELSE IF line.kind = "executed" THEN line.count \in 1 .. a /\ b = a - line.count
  ELSE a > 0 /\ b = 0

Ledger(g, c, lines, a, b) ==
  /\ g \in [0 .. Len(lines) -> Nat]
  /\ g[0] = a /\ g[Len(lines)] = b
  /\ \A i \in 1 .. Len(lines) : Settles(lines[i], c, g[i - 1], g[i])
  /\ \A i, j \in 0 .. Len(lines) : i <= j => g[j] <= g[i]

Balanced(c, lines, a, b) == \E g : Ledger(g, c, lines, a, b)

(* Where a command is: not registered yet, or registered and not answered. *)
Unsent(c) ==
  \E t \in Thread : \E i \in DOMAIN commands[t] :
    commands[t][i] = c /\ ~(i = 1 /\ clientPc[t] = "write")

OnWire(c) == \E t \in Thread : \E i \in DOMAIN wire[t] : wire[t][i] = c
Open(c) ==
  OnWire(c) \/ \E t \in Thread : clientPc[t] = "write" /\ Head(commands[t]) = c

Counted(c) ==
  IF c.type = "new"
  THEN IF active_buysell_count[c.order] = Nil THEN 0 ELSE active_buysell_count[c.order]
  ELSE IF c.order \in active_cancel THEN 1 ELSE 0

Remains(c) == IF c.type = "new" THEN left[c.order] ELSE 1
Owed(c) == IF Open(c) THEN Remains(c) ELSE 0

Accounts == \A c \in Tracked : Balanced(c, stdout, Counted(c), Owed(c))

(* A command is in one place. *)
SentOnce ==
  \A c \in Tracked : \A t, u \in Thread :
    /\ \A i \in DOMAIN commands[t], j \in DOMAIN commands[u] :
         commands[t][i] = c /\ commands[u][j] = c => t = u /\ i = j
    /\ \A i \in DOMAIN wire[t], j \in DOMAIN wire[u] :
         wire[t][i] = c /\ wire[u][j] = c => t = u /\ i = j
    /\ \A i \in DOMAIN commands[t], j \in DOMAIN wire[u] :
         commands[t][i] = c => wire[u][j] # c

UnsentFresh ==
  \A c \in Tracked : Unsent(c) =>
    Counted(c) = 0 /\ (c.type = "new" => left[c.order] = Count[c.order])

OpenRemains == \A c \in Tracked : Open(c) => Remains(c) > 0

Finished == {t \in Thread : clientPc[t] \in {"notify output", "notify run", "done"}}

ClientTypes ==
  /\ commands \in [Thread -> Seq(Input)]
  /\ clientPc \in [Thread -> {"next", "write", "arrived", "notify output",
                              "notify run", "done"}]
  /\ wire \in [Thread -> Seq(Cmd)]
  /\ \A t \in Thread : clientPc[t] = "write" =>
       commands[t] # <<>> /\ Head(commands[t]) \in Cmd
  /\ \A t \in Finished : commands[t] = <<>>
  /\ arrived = {t \in Thread : clientPc[t] = "arrived"}
  /\ num_threads_done = Cardinality(Finished)

DataTypes ==
  /\ left \in [OrderId -> Nat]
  /\ stdout \in Seq(Line)
  /\ active_buysell_count \in [OrderId -> {Nil} \cup (Nat \ {0})]
  /\ active_cancel \subseteq OrderId
  /\ permits \in [OrderId -> Nat]
  /\ {output_thread_done, failed, dead} \subseteq BOOLEAN
  /\ outPc \in {"read", "check", "threads", "sleep", "asleep", "leave", "judge",
                "accepted", "rejected", "failed"}
  /\ runPc \in {"check", "asleep", "exit 0", "exit 1"}

(* The verdict comes when nothing is active and every client is done.      *)
VerdictLast ==
  outPc \in {"judge", "accepted", "rejected"} => NothingActive /\ AllDone

Ledgers == UnsentFresh /\ OpenRemains /\ Accounts

IInv == ClientTypes /\ DataTypes /\ SentOnce /\ Ledgers /\ VerdictLast

-----------------------------------------------------------------------------
(* Accounts of any command over any lines. *)
LEMMA SettlesDown ==
  ASSUME NEW c, NEW line, NEW a \in Nat, NEW b, Settles(line, c, a, b)
  PROVE  b \in Nat /\ b <= a
BY DEF Settles

(* One more line is printed. *)
LEMMA OneMoreLine ==
  ASSUME NEW c, NEW lines \in Seq(Line), NEW line \in Line, NEW a, NEW b, NEW m,
         Balanced(c, lines, a, b), Settles(line, c, b, m)
  PROVE  Balanced(c, Append(lines, line), a, m)
<1>1. PICK g : Ledger(g, c, lines, a, b)
  BY DEF Balanced
<1> DEFINE n == Len(lines)
           more == Append(lines, line)
           h == [i \in 0 .. n + 1 |-> IF i <= n THEN g[i] ELSE m]
<1>2. /\ n \in Nat /\ Len(more) = n + 1
      /\ \A i \in 1 .. n : more[i] = lines[i]
      /\ more[n + 1] = line
  BY LenProperties, AppendProperties
<1> HIDE DEF more, n
<1>3. /\ g \in [0 .. n -> Nat] /\ g[0] = a /\ g[n] = b
      /\ \A i \in 1 .. n : Settles(lines[i], c, g[i - 1], g[i])
      /\ \A i, j \in 0 .. n : i <= j => g[j] <= g[i]
  BY <1>1 DEF Ledger, n
<1>4. b \in Nat
  BY <1>2, <1>3
<1>5. m \in Nat /\ m <= b
  BY <1>4, SettlesDown
<1>6. h \in [0 .. n + 1 -> Nat] /\ h[0] = a /\ h[n + 1] = m
  BY <1>2, <1>3, <1>5
<1>7. \A i \in 1 .. n + 1 : Settles(more[i], c, h[i - 1], h[i])
  <2> SUFFICES ASSUME NEW i \in 1 .. n + 1 PROVE Settles(more[i], c, h[i - 1], h[i])
    OBVIOUS
  <2>1. CASE i \in 1 .. n
    <3>1. h[i - 1] = g[i - 1] /\ h[i] = g[i]
      BY <1>2, <2>1
    <3> QED
      BY <1>2, <1>3, <2>1, <3>1
  <2>2. CASE i = n + 1
    <3>1. h[i - 1] = b /\ h[i] = m
      BY <1>2, <1>3, <2>2
    <3> QED
      BY <1>2, <2>2, <3>1
  <2> QED
    BY <1>2, <2>1, <2>2
<1>8. \A i, j \in 0 .. n + 1 : i <= j => h[j] <= h[i]
  <2> SUFFICES ASSUME NEW i \in 0 .. n + 1, NEW j \in 0 .. n + 1, i <= j
               PROVE  h[j] <= h[i]
    OBVIOUS
  <2>1. CASE j \in 0 .. n
    BY <1>2, <1>3, <2>1
  <2>2. CASE i \in 0 .. n /\ j = n + 1
    <3>1. n \in 0 .. n /\ i <= n /\ ~(j <= n)
      BY <1>2, <2>2
    <3>2. g[n] <= g[i] /\ g[i] \in Nat
      BY <1>3, <2>2, <3>1
    <3>3. h[i] = g[i] /\ h[j] = m
      BY <3>1
    <3> QED
      BY <1>3, <1>4, <1>5, <3>2, <3>3
  <2>3. CASE i = n + 1 /\ j = n + 1
    BY <1>5, <1>6, <2>3
  <2> QED
    BY <1>2, <2>1, <2>2, <2>3
<1> HIDE DEF h
<1>9. Ledger(h, c, more, a, m)
  BY <1>2, <1>6, <1>7, <1>8 DEF Ledger
<1> QED
  BY <1>9 DEF Balanced, more

(* The first line is read. *)
LEMMA OneLineLess ==
  ASSUME NEW c, NEW lines \in Seq(Line), lines # <<>>, NEW a, NEW b,
         Balanced(c, lines, a, b)
  PROVE  \E m \in Nat : Settles(Head(lines), c, a, m) /\ Balanced(c, Tail(lines), m, b)
<1>1. PICK g : Ledger(g, c, lines, a, b)
  BY DEF Balanced
<1> DEFINE n == Len(lines)
           rest == Tail(lines)
           h == [i \in 0 .. n - 1 |-> g[i + 1]]
<1>2. /\ n \in Nat \ {0} /\ Len(rest) = n - 1
      /\ \A i \in 1 .. n - 1 : rest[i] = lines[i + 1]
      /\ Head(lines) = lines[1]
  BY LenProperties, EmptySeq, HeadTailProperties
<1> HIDE DEF rest, n
<1>3. /\ g \in [0 .. n -> Nat] /\ g[0] = a /\ g[n] = b
      /\ \A i \in 1 .. n : Settles(lines[i], c, g[i - 1], g[i])
      /\ \A i, j \in 0 .. n : i <= j => g[j] <= g[i]
  BY <1>1 DEF Ledger, n
<1>4. g[1] \in Nat /\ Settles(lines[1], c, a, g[1])
  <2>1. 1 \in 1 .. n /\ 1 \in 0 .. n /\ 1 - 1 = 0
    BY <1>2
  <2>2. Settles(lines[1], c, g[1 - 1], g[1])
    BY <1>3, <2>1
  <2> QED
    BY <1>3, <2>1, <2>2
<1>5. h \in [0 .. n - 1 -> Nat] /\ h[0] = g[1] /\ h[n - 1] = b
  BY <1>2, <1>3
<1>6. \A i \in 1 .. n - 1 : Settles(rest[i], c, h[i - 1], h[i])
  <2> SUFFICES ASSUME NEW i \in 1 .. n - 1 PROVE Settles(rest[i], c, h[i - 1], h[i])
    OBVIOUS
  <2>1. /\ i + 1 \in 1 .. n /\ h[i - 1] = g[(i + 1) - 1] /\ h[i] = g[i + 1]
        /\ rest[i] = lines[i + 1]
    BY <1>2
  <2>2. Settles(lines[i + 1], c, g[(i + 1) - 1], g[i + 1])
    BY <1>3, <2>1
  <2> QED
    BY <2>1, <2>2
<1>7. \A i, j \in 0 .. n - 1 : i <= j => h[j] <= h[i]
  BY <1>2, <1>3
<1> HIDE DEF h
<1>8. Ledger(h, c, rest, g[1], b)
  BY <1>2, <1>5, <1>6, <1>7 DEF Ledger
<1> QED
  BY <1>2, <1>4, <1>8 DEF Balanced, rest

(* An account never grows, and one without balance has no lines. *)
LEMMA BalanceFalls ==
  ASSUME NEW c, NEW lines \in Seq(Line), NEW a, NEW b, Balanced(c, lines, a, b)
  PROVE  a \in Nat /\ b \in Nat /\ b <= a
<1>1. PICK g : Ledger(g, c, lines, a, b)
  BY DEF Balanced
<1> QED
  BY <1>1, LenProperties DEF Ledger

LEMMA NothingToSettle ==
  ASSUME NEW c, NEW lines \in Seq(Line), NEW b, Balanced(c, lines, 0, b)
  PROVE  b = 0 /\ \A i \in 1 .. Len(lines) : ~About(lines[i], c)
<1>1. PICK g : Ledger(g, c, lines, 0, b)
  BY DEF Balanced
<1>2. Len(lines) \in Nat
  BY LenProperties
<1>3. \A i \in 0 .. Len(lines) : g[i] = 0
  <2> SUFFICES ASSUME NEW i \in 0 .. Len(lines) PROVE g[i] = 0
    OBVIOUS
  <2>1. g[i] <= g[0] /\ g[0] = 0 /\ g[i] \in Nat
    BY <1>1, <1>2 DEF Ledger
  <2> QED
    BY <2>1
<1>4. b = 0
  BY <1>1, <1>2, <1>3 DEF Ledger
<1>5. ASSUME NEW i \in 1 .. Len(lines) PROVE ~About(lines[i], c)
  <2>1. Settles(lines[i], c, 0, 0)
    <3>1. Settles(lines[i], c, g[i - 1], g[i])
      BY <1>1 DEF Ledger
    <3>2. i - 1 \in 0 .. Len(lines) /\ i \in 0 .. Len(lines)
      BY <1>2
    <3> QED
      BY <1>3, <3>1, <3>2
  <2> QED
    BY <2>1 DEF Settles
<1> QED
  BY <1>4, <1>5

LEMMA Unmentioned ==
  ASSUME NEW c, NEW lines \in Seq(Line), NEW a \in Nat,
         \A i \in 1 .. Len(lines) : ~About(lines[i], c)
  PROVE  Balanced(c, lines, a, a)
<1> DEFINE g == [i \in 0 .. Len(lines) |-> a]
<1>1. Len(lines) \in Nat
  BY LenProperties
<1>2. g \in [0 .. Len(lines) -> Nat] /\ g[0] = a /\ g[Len(lines)] = a
  BY <1>1
<1>3. \A i \in 1 .. Len(lines) : Settles(lines[i], c, g[i - 1], g[i])
  BY <1>1 DEF Settles
<1>4. \A i, j \in 0 .. Len(lines) : i <= j => g[j] <= g[i]
  BY <1>1
<1>5. Ledger(g, c, lines, a, a)
  BY <1>2, <1>3, <1>4 DEF Ledger
<1> QED
  BY <1>5 DEF Balanced


-----------------------------------------------------------------------------
(* Where the commands are. *)
LEMMA TailPlaces ==
  ASSUME NEW S, NEW s \in Seq(S), s # <<>>
  PROVE  /\ 1 \in DOMAIN s /\ Head(s) = s[1] /\ Head(s) \in S
         /\ Tail(s) \in Seq(S) /\ DOMAIN s \subseteq Nat
         /\ \A i \in DOMAIN Tail(s) :
              i + 1 \in DOMAIN s /\ i + 1 # 1 /\ Tail(s)[i] = s[i + 1]
         /\ \A j \in DOMAIN s \ {1} : \E i \in DOMAIN Tail(s) : Tail(s)[i] = s[j]
<1>1. /\ Len(s) \in Nat \ {0} /\ DOMAIN s = 1 .. Len(s)
      /\ Tail(s) \in Seq(S) /\ Len(Tail(s)) = Len(s) - 1
      /\ DOMAIN Tail(s) = 1 .. Len(s) - 1
      /\ \A i \in 1 .. Len(s) - 1 : Tail(s)[i] = s[i + 1]
      /\ Head(s) = s[1] /\ Head(s) \in S
  BY LenProperties, EmptySeq, HeadTailProperties
<1>2. ASSUME NEW j \in DOMAIN s \ {1} PROVE \E i \in DOMAIN Tail(s) : Tail(s)[i] = s[j]
  <2>1. j - 1 \in 1 .. Len(s) - 1 /\ (j - 1) + 1 = j
    BY <1>1
  <2>2. Tail(s)[j - 1] = s[j]
    BY <1>1, <2>1
  <2> QED
    BY <1>1, <2>1, <2>2
<1> QED
  BY <1>1, <1>2

LEMMA AppendPlaces ==
  ASSUME NEW S, NEW s \in Seq(S), NEW e \in S
  PROVE  /\ Append(s, e) \in Seq(S)
         /\ \A i \in DOMAIN Append(s, e) :
              \/ i \in DOMAIN s /\ Append(s, e)[i] = s[i]
              \/ i = Len(s) + 1 /\ Append(s, e)[i] = e
         /\ \A i \in DOMAIN s : i \in DOMAIN Append(s, e) /\ Append(s, e)[i] = s[i]
         /\ Len(s) + 1 \in DOMAIN Append(s, e) /\ Append(s, e)[Len(s) + 1] = e
         /\ Len(s) + 1 \notin DOMAIN s
BY LenProperties, AppendProperties

LEMMA UpcomingPlace ==
  ASSUME ClientTypes, NEW t \in Thread, commands[t] # <<>>
  PROVE  /\ 1 \in DOMAIN commands[t] /\ Upcoming(t) = commands[t][1]
         /\ Upcoming(t) \in Input
         /\ Upcoming(t).type \in {"new", "cancel"} => Upcoming(t) \in Cmd
         /\ Upcoming(t).type = "wait" => Upcoming(t).order \in OrderId
<1>1. PICK s \in Seq(Input) : s = commands[t] /\ s # <<>>
  BY DEF ClientTypes
<1>2. 1 \in DOMAIN s /\ Head(s) = s[1] /\ Head(s) \in Input
  BY <1>1, TailPlaces
<1>3. 1 \in DOMAIN commands[t] /\ Upcoming(t) = commands[t][1] /\ Upcoming(t) \in Input
  BY <1>1, <1>2 DEF Upcoming
<1> QED
  BY <1>3 DEF Input, Cmd

LEMMA DidPlaces ==
  ASSUME ClientTypes, NEW t \in Thread, commands[t] # <<>>, Did(t)
  PROVE  /\ commands' \in [Thread -> Seq(Input)]
         /\ \A u \in Thread \ {t} : commands'[u] = commands[u]
         /\ commands'[t] = Tail(commands[t])
         /\ \A i \in DOMAIN commands'[t] :
              i + 1 \in DOMAIN commands[t] /\ i + 1 # 1
              /\ commands'[t][i] = commands[t][i + 1]
         /\ DOMAIN commands'[t] \subseteq Nat
<1>1. commands' = [commands EXCEPT ![t] = Tail(commands[t])]
  BY DEF Did
<1>2. commands \in [Thread -> Seq(Input)]
  BY DEF ClientTypes
<1>3. PICK s \in Seq(Input) : s = commands[t] /\ s # <<>>
  BY <1>2
<1>4. /\ Tail(s) \in Seq(Input)
      /\ \A i \in DOMAIN Tail(s) :
           i + 1 \in DOMAIN s /\ i + 1 # 1 /\ Tail(s)[i] = s[i + 1]
  BY <1>3, TailPlaces
<1>5. commands'[t] = Tail(s) /\ DOMAIN Tail(s) \subseteq Nat
  BY <1>1, <1>2, <1>3, <1>4, LenProperties
<1> QED
  BY <1>1, <1>2, <1>3, <1>4, <1>5

LEMMA AnsweredPlaces ==
  ASSUME ClientTypes, NEW t \in Thread, wire[t] # <<>>, Answered(t)
  PROVE  /\ wire' \in [Thread -> Seq(Cmd)]
         /\ \A u \in Thread \ {t} : wire'[u] = wire[u]
         /\ 1 \in DOMAIN wire[t] /\ Head(wire[t]) = wire[t][1] /\ Head(wire[t]) \in Cmd
         /\ \A i \in DOMAIN wire'[t] :
              i + 1 \in DOMAIN wire[t] /\ i + 1 # 1
              /\ wire'[t][i] = wire[t][i + 1]
         /\ DOMAIN wire'[t] \subseteq Nat
         /\ \A j \in DOMAIN wire[t] \ {1} :
              \E i \in DOMAIN wire'[t] : wire'[t][i] = wire[t][j]
<1>1. wire' = [wire EXCEPT ![t] = Tail(wire[t])]
  BY DEF Answered
<1>2. wire \in [Thread -> Seq(Cmd)]
  BY DEF ClientTypes
<1>3. PICK s \in Seq(Cmd) : s = wire[t] /\ s # <<>>
  BY <1>2
<1>4. /\ 1 \in DOMAIN s /\ Head(s) = s[1] /\ Head(s) \in Cmd
      /\ Tail(s) \in Seq(Cmd)
      /\ \A i \in DOMAIN Tail(s) :
           i + 1 \in DOMAIN s /\ i + 1 # 1 /\ Tail(s)[i] = s[i + 1]
      /\ \A j \in DOMAIN s \ {1} : \E i \in DOMAIN Tail(s) : Tail(s)[i] = s[j]
  BY SMTT(30), <1>3, TailPlaces
<1>5. wire'[t] = Tail(s) /\ DOMAIN Tail(s) \subseteq Nat
  BY <1>1, <1>2, <1>3, <1>4, LenProperties
<1> QED
  BY <1>1, <1>2, <1>3, <1>4, <1>5

LEMMA WritePlaces ==
  ASSUME ClientTypes, NEW t \in Thread, Write(t), NEW u \in Thread
  PROVE  /\ u # t => wire'[u] = wire[u]
         /\ wire'[u] \in Seq(Cmd)
         /\ commands[t] # <<>> /\ Upcoming(t) = commands[t][1] /\ 1 \in DOMAIN commands[t]
         /\ Upcoming(t) \in Cmd
         /\ \A i \in DOMAIN wire'[u] :
              \/ i \in DOMAIN wire[u] /\ wire'[u][i] = wire[u][i]
              \/ u = t /\ i = Len(wire[t]) + 1 /\ wire'[u][i] = Upcoming(t)
         /\ \A i \in DOMAIN wire[u] : i \in DOMAIN wire'[u] /\ wire'[u][i] = wire[u][i]
         /\ Len(wire[t]) + 1 \in DOMAIN wire'[t]
         /\ wire'[t][Len(wire[t]) + 1] = Upcoming(t)
<1>1. wire' = [wire EXCEPT ![t] = Append(wire[t], Upcoming(t))]
  BY DEF Write
<1>2. /\ wire \in [Thread -> Seq(Cmd)]
      /\ commands[t] # <<>> /\ Upcoming(t) \in Cmd
  BY DEF ClientTypes, Write, Upcoming
<1>3. PICK s \in Seq(Cmd) : s = wire[t] /\ wire'[t] = Append(s, Upcoming(t))
  BY <1>1, <1>2
<1>4. Upcoming(t) = commands[t][1] /\ 1 \in DOMAIN commands[t]
  BY <1>2, UpcomingPlace
<1>5. CASE u # t
  BY <1>1, <1>2, <1>3, <1>4, <1>5, AppendPlaces
<1>6. CASE u = t
  <2>1. PICK e \in Cmd : e = Upcoming(t)
    BY <1>2
  <2>2. /\ Append(s, e) \in Seq(Cmd)
        /\ \A i \in DOMAIN Append(s, e) :
             \/ i \in DOMAIN s /\ Append(s, e)[i] = s[i]
             \/ i = Len(s) + 1 /\ Append(s, e)[i] = e
        /\ \A i \in DOMAIN s : i \in DOMAIN Append(s, e) /\ Append(s, e)[i] = s[i]
        /\ Len(s) + 1 \in DOMAIN Append(s, e) /\ Append(s, e)[Len(s) + 1] = e
    BY AppendPlaces
  <2> QED
    BY <1>2, <1>3, <1>4, <1>6, <2>1, <2>2
<1> QED
  BY <1>5, <1>6


------------------------------------------------------------------

-----------------------------------------------------------------------------
(* What a step does with the commands: a client takes one that is not for  *)
(* the engine, registers one or writes it, or the engine answers one.      *)
SamePlaces ==
  /\ UNCHANGED <<commands, wire>>
  /\ \A u \in Thread : clientPc'[u] = "write" <=> clientPc[u] = "write"

Skips(t) ==
  /\ commands[t] # <<>> /\ clientPc[t] # "write" /\ Did(t) /\ UNCHANGED wire
  /\ \A u \in Thread : clientPc'[u] = "write" <=> clientPc[u] = "write"

Registers(t) ==
  /\ commands[t] # <<>> /\ clientPc[t] = "next" /\ GoClient(t, "write")
  /\ UNCHANGED <<commands, wire>>

Replies(t) == wire[t] # <<>> /\ Answered(t) /\ UNCHANGED <<commands, clientPc>>

LEMMA NothingMoves ==
  ASSUME SamePlaces
  PROVE  /\ SentOnce => SentOnce'
         /\ \A c : Unsent(c)' = Unsent(c) /\ Open(c)' = Open(c)
BY DEF SamePlaces, SentOnce, Unsent, Open, OnWire

LEMMA SentOnceHolds ==
  ASSUME ClientTypes, SentOnce, NEW t \in Thread,
         Skips(t) \/ Registers(t) \/ Write(t) \/ Replies(t)
  PROVE  SentOnce'
<1>1. CASE Registers(t)
  BY <1>1 DEF Registers, SentOnce
<1>2. CASE Skips(t)
  <2>1. /\ \A u \in Thread \ {t} : commands'[u] = commands[u]
        /\ \A i \in DOMAIN commands'[t] :
              i + 1 \in DOMAIN commands[t] /\ commands'[t][i] = commands[t][i + 1]
        /\ DOMAIN commands'[t] \subseteq Nat /\ wire' = wire
    BY <1>2, DidPlaces DEF Skips
  <2> SUFFICES ASSUME NEW c \in Tracked, NEW u \in Thread, NEW v \in Thread
               PROVE  /\ \A i \in DOMAIN commands'[u], j \in DOMAIN commands'[v] :
                           commands'[u][i] = c /\ commands'[v][j] = c => u = v /\ i = j
                      /\ \A i \in DOMAIN commands'[u], j \in DOMAIN wire[v] :
                           commands'[u][i] = c => wire[v][j] # c
    BY <2>1 DEF SentOnce
  <2>2. ASSUME NEW i \in DOMAIN commands'[u], NEW j \in DOMAIN commands'[v],
               commands'[u][i] = c, commands'[v][j] = c
        PROVE  u = v /\ i = j
    <3>1. CASE u = t /\ v = t
      <4>1. i + 1 = j + 1
        BY <2>1, <2>2, <3>1 DEF SentOnce
      <4> QED
        BY <2>1, <2>2, <3>1, <4>1
    <3>2. CASE u = t /\ v # t
      BY <2>1, <2>2, <3>2 DEF SentOnce
    <3>3. CASE u # t /\ v = t
      BY <2>1, <2>2, <3>3 DEF SentOnce
    <3>4. CASE u # t /\ v # t
      BY <2>1, <2>2, <3>4 DEF SentOnce
    <3> QED
      BY <3>1, <3>2, <3>3, <3>4
  <2>3. ASSUME NEW i \in DOMAIN commands'[u], NEW j \in DOMAIN wire[v],
               commands'[u][i] = c
        PROVE  wire[v][j] # c
    BY <2>1, <2>3 DEF SentOnce
  <2> QED
    BY <2>2, <2>3
<1>3. CASE Write(t)
  <2>1. commands[t] # <<>> /\ Did(t)
    BY <1>3 DEF Write, ClientTypes
  <2>2. /\ \A u \in Thread \ {t} : commands'[u] = commands[u]
        /\ \A i \in DOMAIN commands'[t] :
              /\ i + 1 \in DOMAIN commands[t] /\ i + 1 # 1
              /\ commands'[t][i] = commands[t][i + 1]
        /\ DOMAIN commands'[t] \subseteq Nat
    BY <2>1, DidPlaces
  <2>3. /\ Upcoming(t) = commands[t][1] /\ 1 \in DOMAIN commands[t]
        /\ \A u \in Thread : \A i \in DOMAIN wire'[u] :
             \/ i \in DOMAIN wire[u] /\ wire'[u][i] = wire[u][i]
             \/ u = t /\ i = Len(wire[t]) + 1 /\ wire'[u][i] = Upcoming(t)
    BY <1>3, WritePlaces
  <2> SUFFICES ASSUME NEW c \in Tracked, NEW u \in Thread, NEW v \in Thread
               PROVE  /\ \A i \in DOMAIN commands'[u], j \in DOMAIN commands'[v] :
                           commands'[u][i] = c /\ commands'[v][j] = c => u = v /\ i = j
                      /\ \A i \in DOMAIN wire'[u], j \in DOMAIN wire'[v] :
                           wire'[u][i] = c /\ wire'[v][j] = c => u = v /\ i = j
                      /\ \A i \in DOMAIN commands'[u], j \in DOMAIN wire'[v] :
                           commands'[u][i] = c => wire'[v][j] # c
    BY DEF SentOnce
  <2>4. ASSUME NEW i \in DOMAIN commands'[u], NEW j \in DOMAIN commands'[v],
               commands'[u][i] = c, commands'[v][j] = c
        PROVE  u = v /\ i = j
    <3>1. CASE u = t /\ v = t
      <4>1. i + 1 = j + 1
        BY <2>2, <2>4, <3>1 DEF SentOnce
      <4> QED
        BY <2>2, <2>4, <3>1, <4>1
    <3>2. CASE u = t /\ v # t
      BY <2>2, <2>4, <3>2 DEF SentOnce
    <3>3. CASE u # t /\ v = t
      BY <2>2, <2>4, <3>3 DEF SentOnce
    <3>4. CASE u # t /\ v # t
      BY <2>2, <2>4, <3>4 DEF SentOnce
    <3> QED
      BY <3>1, <3>2, <3>3, <3>4
  <2>5. ASSUME NEW i \in DOMAIN wire'[u], NEW j \in DOMAIN wire'[v],
               wire'[u][i] = c, wire'[v][j] = c
        PROVE  u = v /\ i = j
    BY <2>3, <2>5 DEF SentOnce
  <2>6. ASSUME NEW i \in DOMAIN commands'[u], NEW j \in DOMAIN wire'[v],
               commands'[u][i] = c
        PROVE  wire'[v][j] # c
    <3>1. PICK m \in DOMAIN commands[u] : commands[u][m] = c /\ ~(u = t /\ m = 1)
      BY <2>2, <2>6
    <3>2. ~(commands[t][1] = c)
      BY <2>3, <3>1 DEF SentOnce
    <3>3. ~(j \in DOMAIN wire[v] /\ wire[v][j] = c)
      BY <3>1 DEF SentOnce
    <3> QED
      BY <2>3, <3>2, <3>3
  <2> QED
    BY <2>4, <2>5, <2>6
<1>4. CASE Replies(t)
  <2>1. /\ \A u \in Thread \ {t} : wire'[u] = wire[u]
        /\ \A i \in DOMAIN wire'[t] :
              i + 1 \in DOMAIN wire[t] /\ wire'[t][i] = wire[t][i + 1]
        /\ DOMAIN wire'[t] \subseteq Nat /\ commands' = commands
    BY <1>4, AnsweredPlaces DEF Replies
  <2> SUFFICES ASSUME NEW c \in Tracked, NEW u \in Thread, NEW v \in Thread
               PROVE  /\ \A i \in DOMAIN wire'[u], j \in DOMAIN wire'[v] :
                           wire'[u][i] = c /\ wire'[v][j] = c => u = v /\ i = j
                      /\ \A i \in DOMAIN commands[u], j \in DOMAIN wire'[v] :
                           commands[u][i] = c => wire'[v][j] # c
    BY <2>1 DEF SentOnce
  <2>2. ASSUME NEW i \in DOMAIN wire'[u], NEW j \in DOMAIN wire'[v],
               wire'[u][i] = c, wire'[v][j] = c
        PROVE  u = v /\ i = j
    <3>1. CASE u = t /\ v = t
      <4>1. i + 1 = j + 1
        BY <2>1, <2>2, <3>1 DEF SentOnce
      <4> QED
        BY <2>1, <2>2, <3>1, <4>1
    <3>2. CASE u = t /\ v # t
      BY <2>1, <2>2, <3>2 DEF SentOnce
    <3>3. CASE u # t /\ v = t
      BY <2>1, <2>2, <3>3 DEF SentOnce
    <3>4. CASE u # t /\ v # t
      BY <2>1, <2>2, <3>4 DEF SentOnce
    <3> QED
      BY <3>1, <3>2, <3>3, <3>4
  <2>3. ASSUME NEW i \in DOMAIN commands[u], NEW j \in DOMAIN wire'[v],
               commands[u][i] = c
        PROVE  wire'[v][j] # c
    BY <2>1, <2>3 DEF SentOnce
  <2> QED
    BY <2>2, <2>3
<1> QED
  BY <1>1, <1>2, <1>3, <1>4

(* Nothing becomes unsent. *)
LEMMA UnsentLess ==
  ASSUME ClientTypes, NEW t \in Thread, NEW c,
         Skips(t) \/ Registers(t) \/ Write(t) \/ Replies(t),
         Unsent(c)'
  PROVE  Unsent(c)
<1>1. PICK u \in Thread : \E i \in DOMAIN commands'[u] :
        commands'[u][i] = c /\ ~(i = 1 /\ clientPc'[u] = "write")
  BY DEF Unsent
<1>2. CASE Replies(t)
  BY <1>1, <1>2 DEF Replies, Unsent
<1>3. CASE Registers(t)
  BY <1>1, <1>3 DEF Registers, GoClient, ClientTypes, Unsent
<1>4. CASE Skips(t) \/ Write(t)
  <2>1. commands[t] # <<>> /\ Did(t)
    BY <1>4 DEF Skips, Write, ClientTypes
  <2>2. /\ \A v \in Thread \ {t} : commands'[v] = commands[v]
        /\ \A j \in DOMAIN commands'[t] :
              /\ j + 1 \in DOMAIN commands[t] /\ j + 1 # 1
              /\ commands'[t][j] = commands[t][j + 1]
    BY <2>1, DidPlaces
  <2>3. \A v \in Thread \ {t} : clientPc'[v] = "write" <=> clientPc[v] = "write"
    BY <1>4 DEF Skips, Write, GoClient, ClientTypes
  <2> QED
    BY <1>1, <2>2, <2>3 DEF Unsent
<1> QED
  BY <1>2, <1>3, <1>4

(* What is open. *)
LEMMA OpenSame ==
  ASSUME ClientTypes, NEW t \in Thread, NEW c,
         Skips(t) \/ Write(t)
  PROVE  Open(c)' = Open(c)
<1>1. CASE Skips(t)
  <2>1. \A v \in Thread \ {t} : commands'[v] = commands[v]
    BY <1>1, DidPlaces DEF Skips
  <2> QED
    BY <1>1, <2>1 DEF Skips, Open, OnWire
<1>2. CASE Write(t)
  <2>1. commands[t] # <<>> /\ Did(t) /\ clientPc[t] = "write"
        /\ \A u \in Thread : clientPc'[u] = IF u = t THEN "next" ELSE clientPc[u]
    BY <1>2 DEF Write, GoClient, ClientTypes
  <2>2. \A v \in Thread \ {t} : commands'[v] = commands[v]
    BY <2>1, DidPlaces
  <2>3. \A u \in Thread : \A i \in DOMAIN wire'[u] :
             \/ i \in DOMAIN wire[u] /\ wire'[u][i] = wire[u][i]
             \/ wire'[u][i] = Head(commands[t])
    BY <1>2, WritePlaces DEF Upcoming
  <2>4. /\ \A u \in Thread : \A i \in DOMAIN wire[u] :
             i \in DOMAIN wire'[u] /\ wire'[u][i] = wire[u][i]
        /\ \E i \in DOMAIN wire'[t] : wire'[t][i] = Head(commands[t])
    BY <1>2, WritePlaces DEF Upcoming
  <2>5. Open(c)' => Open(c)
    BY <2>1, <2>2, <2>3 DEF Open, OnWire
  <2>6. Open(c) => Open(c)'
    BY <2>1, <2>2, <2>4 DEF Open, OnWire
  <2> QED
    BY <2>5, <2>6 DEF Open, OnWire
<1> QED
  BY <1>1, <1>2

LEMMA OpenMore ==
  ASSUME ClientTypes, NEW t \in Thread, Registers(t), NEW c
  PROVE  /\ c # Upcoming(t) => Open(c)' = Open(c)
         /\ c = Upcoming(t) => Open(c)'
<1>1. /\ commands' = commands /\ wire' = wire /\ clientPc[t] # "write"
      /\ \A u \in Thread : clientPc'[u] = IF u = t THEN "write" ELSE clientPc[u]
  BY DEF Registers, GoClient, ClientTypes
<1> QED
  BY <1>1 DEF Open, OnWire, Upcoming

LEMMA OpenLess ==
  ASSUME ClientTypes, SentOnce, NEW t \in Thread, Replies(t), NEW c \in Tracked
  PROVE  /\ c # Head(wire[t]) => Open(c)' = Open(c)
         /\ c = Head(wire[t]) => Open(c) /\ ~Open(c)' /\ ~Unsent(c)
<1>1. /\ commands' = commands /\ clientPc' = clientPc
      /\ \A u \in Thread \ {t} : wire'[u] = wire[u]
      /\ 1 \in DOMAIN wire[t] /\ Head(wire[t]) = wire[t][1]
      /\ \A i \in DOMAIN wire'[t] :
              i + 1 \in DOMAIN wire[t] /\ i + 1 # 1 /\ wire'[t][i] = wire[t][i + 1]
      /\ \A j \in DOMAIN wire[t] \ {1} :
              \E i \in DOMAIN wire'[t] : wire'[t][i] = wire[t][j]
  BY AnsweredPlaces DEF Replies
<1>2. CASE c # Head(wire[t])
  <2>1. OnWire(c)' => OnWire(c)
    BY <1>1 DEF OnWire
  <2>2. OnWire(c) => OnWire(c)'
    BY <1>1, <1>2 DEF OnWire
  <2> QED
    BY <1>1, <1>2, <2>1, <2>2 DEF Open
<1>3. CASE c = Head(wire[t])
  <2>1. OnWire(c)
    BY <1>1, <1>3 DEF OnWire
  <2>2. ~OnWire(c)'
    BY <1>1, <1>3 DEF OnWire, SentOnce
  <2>3. \A u \in Thread : \A i \in DOMAIN commands[u] : commands[u][i] # c
    BY <1>1, <1>3 DEF SentOnce
  <2>4. \A u \in Thread : ~(clientPc[u] = "write" /\ Head(commands[u]) = c)
    BY <2>3, UpcomingPlace DEF ClientTypes, Upcoming
  <2> QED
    BY <1>1, <1>3, <2>1, <2>2, <2>3, <2>4 DEF Open, Unsent
<1> QED
  BY <1>2, <1>3


-----------------------------------------------------------------------------
(* The types of the clients' side. *)
ClientsIdle == UNCHANGED <<commands, clientPc, wire, arrived, num_threads_done>>

LEMMA ClientsIdleTypes ==
  ASSUME ClientTypes, ClientsIdle
  PROVE  ClientTypes'
<1>1. Finished' = Finished
  BY DEF ClientsIdle, Finished
<1> QED
  BY <1>1 DEF ClientTypes, ClientsIdle

LEMMA ClientStepTypes ==
  ASSUME ClientTypes, NEW t \in Thread, Client(t)
  PROVE  ClientTypes'
<1>1. /\ commands \in [Thread -> Seq(Input)] /\ wire \in [Thread -> Seq(Cmd)]
      /\ clientPc \in [Thread -> {"next", "write", "arrived", "notify output",
                                  "notify run", "done"}]
      /\ \A u \in Thread : clientPc[u] = "write" =>
           commands[u] # <<>> /\ Head(commands[u]) \in Cmd
      /\ \A u \in Finished : commands[u] = <<>>
      /\ arrived = {u \in Thread : clientPc[u] = "arrived"}
      /\ num_threads_done = Cardinality(Finished)
  BY DEF ClientTypes
<1>2. CASE Register(t)
  <2>1. /\ clientPc' = [clientPc EXCEPT ![t] = "write"]
        /\ UNCHANGED <<commands, wire, arrived, num_threads_done>>
        /\ clientPc[t] = "next" /\ commands[t] # <<>>
        /\ Upcoming(t).type \in {"new", "cancel"}
    BY <1>2 DEF Register, At, GoClient, engineVars, exitVars
  <2>2. Head(commands[t]) \in Cmd
    BY <2>1, UpcomingPlace DEF Upcoming
  <2>3. Finished' = Finished
    BY <1>1, <2>1 DEF Finished
  <2>4. arrived' = {u \in Thread : clientPc'[u] = "arrived"}
    BY <1>1, <2>1
  <2> QED
    BY <1>1, <2>1, <2>2, <2>3, <2>4 DEF ClientTypes
<1>3. CASE Write(t)
  <2>1. /\ clientPc' = [clientPc EXCEPT ![t] = "next"]
        /\ UNCHANGED <<arrived, num_threads_done>>
        /\ clientPc[t] = "write" /\ commands[t] # <<>> /\ Did(t)
    BY <1>1, <1>3 DEF Write, GoClient, exitVars
  <2>2. /\ commands' \in [Thread -> Seq(Input)]
        /\ \A u \in Thread \ {t} : commands'[u] = commands[u]
    BY <2>1, DidPlaces
  <2>3. Finished' = Finished /\ t \notin Finished
    BY <1>1, <2>1 DEF Finished
  <2>4. arrived' = {u \in Thread : clientPc'[u] = "arrived"}
    BY <1>1, <2>1
  <2>5. wire' \in [Thread -> Seq(Cmd)]
    <3>1. wire' = [wire EXCEPT ![t] = Append(wire[t], Upcoming(t))]
      BY <1>3 DEF Write
    <3>2. wire'[t] \in Seq(Cmd)
      BY <1>3, WritePlaces
    <3> QED
      BY <1>1, <3>1, <3>2
  <2> QED
    BY <1>1, <2>1, <2>2, <2>3, <2>4, <2>5 DEF ClientTypes, Finished
<1>4. CASE Wait(t)
  <2>1. /\ UNCHANGED <<arrived, num_threads_done, clientPc, wire>>
        /\ clientPc[t] = "next" /\ commands[t] # <<>> /\ Did(t)
    BY <1>4 DEF Wait, At, engineVars, exitVars
  <2>2. /\ commands' \in [Thread -> Seq(Input)]
        /\ \A u \in Thread \ {t} : commands'[u] = commands[u]
    BY <2>1, DidPlaces
  <2>3. Finished' = Finished /\ t \notin Finished
    BY <1>1, <2>1 DEF Finished
  <2> QED
    BY <1>1, <2>1, <2>2, <2>3 DEF ClientTypes, Finished
<1>5. CASE Arrive(t)
  <2>1. /\ UNCHANGED <<num_threads_done, wire>>
        /\ clientPc[t] = "next" /\ commands[t] # <<>> /\ Did(t)
        /\ arrived' = IF arrived \cup {t} = Thread THEN {} ELSE arrived \cup {t}
        /\ clientPc' = IF arrived \cup {t} = Thread
                       THEN [u \in Thread |-> "next"]
                       ELSE [clientPc EXCEPT ![t] = "arrived"]
    BY <1>5 DEF Arrive, At, engineVars, exitVars
  <2>2. /\ commands' \in [Thread -> Seq(Input)]
        /\ \A u \in Thread \ {t} : commands'[u] = commands[u]
    BY <2>1, DidPlaces
  <2>3. CASE arrived \cup {t} = Thread
    <3>1. \A u \in Thread : clientPc[u] \in {"next", "arrived"}
      BY <1>1, <2>1, <2>3
    <3>2. Finished = {} /\ Finished' = {}
      BY <2>1, <2>3, <3>1 DEF Finished
    <3> QED
      BY <1>1, <2>1, <2>2, <2>3, <3>2 DEF ClientTypes
  <2>4. CASE arrived \cup {t} # Thread
    <3>1. Finished' = Finished /\ t \notin Finished
      BY <1>1, <2>1, <2>4 DEF Finished
    <3>2. arrived' = {u \in Thread : clientPc'[u] = "arrived"}
      BY <1>1, <2>1, <2>4
    <3> QED
      BY <1>1, <2>1, <2>2, <2>4, <3>1, <3>2 DEF ClientTypes, Finished
  <2> QED
    BY <2>3, <2>4
<1>6. CASE Finish(t)
  <2>1. /\ clientPc' = [clientPc EXCEPT ![t] = "notify output"]
        /\ num_threads_done' = num_threads_done + 1
        /\ UNCHANGED <<commands, wire, arrived>>
        /\ clientPc[t] = "next" /\ commands[t] = <<>>
    BY <1>6 DEF Finish, OneDone, GoClient, engineVars
  <2>2. Finished' = Finished \cup {t} /\ t \notin Finished
    BY <1>1, <2>1 DEF Finished
  <2>3. IsFiniteSet(Finished)
    BY SessionAssumption, FS_Subset DEF Finished
  <2>4. num_threads_done' = Cardinality(Finished')
    BY <1>1, <2>1, <2>2, <2>3, FS_AddElement
  <2>5. arrived' = {u \in Thread : clientPc'[u] = "arrived"}
    BY <1>1, <2>1
  <2> QED
    BY <1>1, <2>1, <2>2, <2>4, <2>5 DEF ClientTypes
<1>7. CASE NotifyOutput(t) \/ NotifyRun(t)
  <2>1. PICK label \in {"notify run", "done"} :
             clientPc' = [clientPc EXCEPT ![t] = label]
    BY <1>7 DEF NotifyOutput, NotifyRun, GoClient
  <2>2. /\ UNCHANGED <<commands, wire, arrived, num_threads_done>>
        /\ clientPc[t] \in {"notify output", "notify run"}
    BY <1>7 DEF NotifyOutput, NotifyRun, engineVars, exitVars
  <2>3. Finished' = Finished
    BY <1>1, <2>1, <2>2 DEF Finished
  <2>4. arrived' = {u \in Thread : clientPc'[u] = "arrived"}
    BY <1>1, <2>1, <2>2
  <2> QED
    BY <1>1, <2>1, <2>2, <2>3, <2>4 DEF ClientTypes
<1> QED
  BY <1>2, <1>3, <1>4, <1>5, <1>6, <1>7 DEF Client

LEMMA EngineStepTypes ==
  ASSUME ClientTypes, NEW t \in Thread,
         EngineExecutes(t) \/ EngineAdds(t) \/ EngineDeletes(t)
  PROVE  ClientTypes' /\ (Replies(t) \/ ClientsIdle)
<1>1. /\ wire[t] # <<>> /\ (Answered(t) \/ wire' = wire)
      /\ UNCHANGED <<commands, clientPc, arrived, num_threads_done>>
  BY DEF EngineExecutes, EngineAdds, EngineDeletes, Reads, engineElse, clientVars, exitVars
<1>2. CASE Answered(t)
  <2>1. wire' \in [Thread -> Seq(Cmd)]
    BY <1>1, <1>2, AnsweredPlaces
  <2>2. Finished' = Finished
    BY <1>1 DEF Finished
  <2> QED
    BY <1>1, <1>2, <2>1, <2>2 DEF ClientTypes, Replies
<1>3. CASE wire' = wire
  BY <1>1, <1>3, ClientsIdleTypes DEF ClientsIdle
<1> QED
  BY <1>1, <1>2, <1>3

(* A client that does not register a command leaves the accounts alone.    *)
SameAccounts == UNCHANGED <<stdout, left, active_buysell_count, active_cancel>>

LEMMA ClientMoves ==
  ASSUME ClientTypes, NEW t \in Thread, Client(t)
  PROVE  \/ Register(t) /\ Registers(t)
         \/ SameAccounts /\ (SamePlaces \/ Skips(t) \/ Write(t))
<1>1. CASE Register(t)
  BY <1>1 DEF Register, Registers, At, engineVars
<1>2. CASE Write(t)
  BY <1>2 DEF Write, SameAccounts, activeVars
<1>3. CASE Wait(t)
  BY <1>3 DEF Wait, At, SameAccounts, activeVars, engineVars, Skips
<1>4. CASE Arrive(t)
  <2>1. SameAccounts /\ wire' = wire /\ commands[t] # <<>> /\ clientPc[t] = "next" /\ Did(t)
    BY <1>4 DEF Arrive, At, SameAccounts, activeVars, engineVars
  <2>2. \A u \in Thread : clientPc'[u] = "write" <=> clientPc[u] = "write"
    <3>1. CASE arrived \cup {t} = Thread
      <4>1. \A u \in Thread : clientPc[u] \in {"next", "arrived"}
        BY <2>1, <3>1 DEF ClientTypes
      <4>2. \A u \in Thread : clientPc'[u] = "next"
        BY <1>4, <3>1 DEF Arrive
      <4> QED
        BY <4>1, <4>2
    <3>2. CASE arrived \cup {t} # Thread
      BY <1>4, <2>1, <3>2 DEF Arrive, ClientTypes
    <3> QED
      BY <3>1, <3>2
  <2> QED
    BY <2>1, <2>2 DEF Skips
<1>5. CASE Finish(t) \/ NotifyOutput(t) \/ NotifyRun(t)
  <2>1. PICK label \in {"notify output", "notify run", "done"} :
             clientPc' = [clientPc EXCEPT ![t] = label]
    BY <1>5 DEF Finish, NotifyOutput, NotifyRun, GoClient
  <2>2. clientPc[t] # "write" /\ SameAccounts /\ UNCHANGED <<commands, wire>>
    BY <1>5 DEF Finish, NotifyOutput, NotifyRun, SameAccounts, activeVars, engineVars
  <2> QED
    BY <2>1, <2>2 DEF SamePlaces, ClientTypes
<1> QED
  BY <1>1, <1>2, <1>3, <1>4, <1>5 DEF Client


-----------------------------------------------------------------------------
(* The accounts.  Every order is sent once. *)
LEMMA OrdersTracked == \A o \in OrderId : [type |-> "new", order |-> o] \in Tracked
<1> SUFFICES ASSUME NEW o \in OrderId, NEW plan \in Plans,
                    NEW t \in Thread, NEW u \in Thread,
                    NEW i \in DOMAIN plan[t], NEW j \in DOMAIN plan[u],
                    plan[t][i] = [type |-> "new", order |-> o],
                    plan[u][j] = [type |-> "new", order |-> o]
             PROVE  t = u /\ i = j
  BY DEF Tracked, Cmd
<1>1. Valid(plan)
  BY SessionAssumption
<1>2. plan[t][i].type = "new" /\ plan[t][i].order = o
  OBVIOUS
<1>3. plan[u][j].type = "new" /\ plan[u][j].order = o
  OBVIOUS
<1>4. o \in Orders(plan[t], "new") /\ o \in Orders(plan[u], "new")
  BY <1>2, <1>3 DEF Orders
<1>5. t = u
  BY <1>1, <1>4 DEF Valid
<1>6. plan[t][j] = plan[t][i]
  BY <1>5
<1>7. i = j
  BY <1>1, <1>2, <1>5, <1>6 DEF Valid
<1> QED
  BY <1>5, <1>7

LEMMA CountedTypes ==
  ASSUME DataTypes, NEW c \in Cmd
  PROVE  Counted(c) \in Nat /\ Remains(c) \in Nat
BY DEF DataTypes, Cmd, Counted, Remains

LEMMA QuietLedgers ==
  ASSUME Ledgers, SameAccounts,
         \A c \in Tracked : (Unsent(c)' => Unsent(c)) /\ Open(c)' = Open(c)
  PROVE  Ledgers'
<1>1. \A c : Counted(c)' = Counted(c) /\ Remains(c)' = Remains(c)
  BY DEF SameAccounts, Counted, Remains
<1>2. \A c \in Tracked : Owed(c)' = Owed(c)
  BY <1>1 DEF Owed
<1>3. Accounts'
  BY <1>1, <1>2 DEF Ledgers, Accounts, SameAccounts
<1> QED
  BY <1>1, <1>3 DEF Ledgers, UnsentFresh, OpenRemains, SameAccounts

LEMMA RegisterLedgers ==
  ASSUME ClientTypes, DataTypes, SentOnce, Ledgers,
         NEW t \in Thread, Register(t), Registers(t)
  PROVE  Ledgers'
<1>1. /\ commands[t] # <<>> /\ clientPc[t] = "next" /\ 1 \in DOMAIN commands[t]
      /\ Upcoming(t) = commands[t][1] /\ Upcoming(t) \in Cmd
      /\ stdout' = stdout /\ left' = left
  BY UpcomingPlace DEF Registers, Register, At, engineVars
<1>2. PICK x \in Cmd : x = Upcoming(t)
  BY <1>1
<1>3. ASSUME NEW c \in Tracked, c # x
      PROVE  /\ Counted(c)' = Counted(c) /\ Remains(c)' = Remains(c)
             /\ Owed(c)' = Owed(c) /\ Open(c)' = Open(c)
  <2>1. Counted(c)' = Counted(c)
    <3>1. c.type # x.type \/ c.order # x.order
      BY <1>3 DEF Cmd, Tracked
    <3>2. c.type = "new" => active_buysell_count'[c.order] = active_buysell_count[c.order]
      BY <1>1, <1>2, <3>1 DEF Register, At, DataTypes, Cmd, Tracked
    <3>3. c.type # "new" => (c.order \in active_cancel' <=> c.order \in active_cancel)
      BY <1>1, <1>2, <3>1 DEF Register, At, Cmd, Tracked
    <3> QED
      BY <3>2, <3>3 DEF Counted
  <2>2. Open(c)' = Open(c) /\ Remains(c)' = Remains(c)
    BY <1>1, <1>2, <1>3, OpenMore DEF Remains
  <2> QED
    BY <2>1, <2>2 DEF Owed
<1>4. ASSUME x \in Tracked
      PROVE  /\ Balanced(x, stdout, Counted(x), Owed(x))'
             /\ ~Unsent(x)' /\ Remains(x)' > 0
  <2>1. Unsent(x)
    BY <1>1, <1>2 DEF Unsent
  <2>2. Counted(x) = 0 /\ (x.type = "new" => left[x.order] = Count[x.order])
    BY <1>4, <2>1 DEF Ledgers, UnsentFresh
  <2>3. \A i \in 1 .. Len(stdout) : ~About(stdout[i], x)
    BY <1>4, <2>2, NothingToSettle DEF Ledgers, Accounts, DataTypes
  <2>4. Counted(x)' = Remains(x)' /\ Remains(x)' \in Nat \ {0}
    <3>1. CASE x.type = "new"
      <4>1. Count[x.order] \in Nat \ {0} /\ Count[x.order] # Nil /\ x.order \in OrderId
        BY SessionAssumption DEF Cmd
      <4>2. active_buysell_count'[x.order] = Count[x.order]
        BY <1>1, <1>2, <3>1, <4>1 DEF Register, At, DataTypes
      <4> QED
        BY <1>1, <2>2, <3>1, <4>1, <4>2 DEF Counted, Remains
    <3>2. CASE x.type = "cancel"
      <4>1. x.order \in active_cancel'
        BY <1>1, <1>2, <3>2 DEF Register, At
      <4> QED
        BY <3>2, <4>1 DEF Counted, Remains
    <3> QED
      BY <3>1, <3>2 DEF Cmd
  <2>5. Open(x)'
    BY <1>2, OpenMore
  <2>6. Owed(x)' = Remains(x)'
    BY <2>5 DEF Owed
  <2>7. PICK n \in Nat : n = Remains(x)'
    BY <2>4
  <2>8. Balanced(x, stdout, n, n)
    BY <2>3, Unmentioned DEF DataTypes
  <2>9. ~Unsent(x)'
    <3>1. commands' = commands /\ clientPc'[t] = "write"
      BY DEF Registers, GoClient, ClientTypes
    <3>2. \A u \in Thread : \A i \in DOMAIN commands[u] :
            commands[u][i] = x => u = t /\ i = 1
      BY <1>1, <1>2, <1>4 DEF SentOnce
    <3> QED
      BY <3>1, <3>2 DEF Unsent
  <2> QED
    BY <1>1, <2>4, <2>6, <2>7, <2>8, <2>9
<1>5. \A c \in Tracked : Unsent(c)' => Unsent(c)
  BY UnsentLess
<1>6. UnsentFresh'
  BY <1>1, <1>3, <1>4, <1>5 DEF Ledgers, UnsentFresh
<1>7. OpenRemains'
  BY <1>3, <1>4 DEF Ledgers, OpenRemains
<1>8. ASSUME NEW c \in Tracked PROVE Balanced(c, stdout, Counted(c), Owed(c))'
  <2>1. CASE c = x
    BY <1>4, <2>1
  <2>2. CASE c # x
    BY <1>1, <1>3, <2>2 DEF Ledgers, Accounts
  <2> QED
    BY <2>1, <2>2
<1> QED
  BY <1>6, <1>7, <1>8 DEF Ledgers, Accounts


(* What the engine prints settles the account of the command it answers,   *)
(* and is not about any other.                                             *)
LEMMA OtherLine ==
  ASSUME NEW c \in Cmd, NEW x \in Cmd, c # x, NEW line,
         line.order = x.order, line.kind = "deleted" <=> x.type = "cancel"
  PROVE  ~About(line, c)
<1>1. c.type # x.type \/ c.order # x.order
  BY DEF Cmd
<1> QED
  BY <1>1 DEF About, Cmd

LEMMA PrintLedgers ==
  ASSUME ClientTypes, DataTypes, SentOnce, Ledgers,
         UNCHANGED activeVars,
         NEW t \in Thread, NEW x \in Cmd, NEW line \in Line,
         stdout' = Append(stdout, line),
         line.order = x.order, line.kind = "deleted" <=> x.type = "cancel",
         \A c \in Tracked : Unsent(c)' => Unsent(c),
         \A c \in Tracked : c # x => Open(c)' = Open(c) /\ Remains(c)' = Remains(c),
         x \in Tracked =>
           /\ Open(x) /\ ~Unsent(x)
           /\ Settles(line, x, Remains(x), Owed(x)') /\ (Open(x)' => Remains(x)' > 0)
  PROVE  Ledgers'
<1>1. \A c : Counted(c)' = Counted(c)
  BY DEF activeVars, Counted
<1>2. Tracked \subseteq Cmd /\ stdout \in Seq(Line)
  BY DEF Tracked, DataTypes
<1>3. ASSUME NEW c \in Tracked
      PROVE  Balanced(c, stdout, Counted(c), Owed(c))'
  <2>1. Balanced(c, stdout, Counted(c), Owed(c))
    BY DEF Ledgers, Accounts
  <2>2. PICK a, b, m : a = Counted(c) /\ b = Owed(c) /\ m = Owed(c)'
    OBVIOUS
  <2>3. Settles(line, c, b, m)
    <3>1. CASE c = x
      BY <2>2, <3>1 DEF Owed
    <3>2. CASE c # x
      <4>1. ~About(line, c)
        BY <1>2, <3>2, OtherLine
      <4>2. m = b
        BY <2>2, <3>2 DEF Owed
      <4> QED
        BY <4>1, <4>2 DEF Settles
    <3> QED
      BY <3>1, <3>2
  <2>4. Balanced(c, Append(stdout, line), a, m)
    BY <1>2, <2>1, <2>2, <2>3, OneMoreLine
  <2> QED
    BY <1>1, <2>2, <2>4
<1>4. ASSUME NEW c \in Tracked, Unsent(c)'
      PROVE  Counted(c)' = 0 /\ (c.type = "new" => left'[c.order] = Count[c.order])
  <2>1. Unsent(c)
    BY <1>4
  <2>2. c # x /\ Remains(c)' = Remains(c)
    BY <2>1
  <2> QED
    BY <1>1, <2>1, <2>2 DEF Ledgers, UnsentFresh, Remains
<1>5. OpenRemains'
  BY DEF Ledgers, OpenRemains
<1> QED
  BY <1>3, <1>4, <1>5 DEF Ledgers, Accounts, UnsentFresh

LEMMA EngineLedgers ==
  ASSUME ClientTypes, DataTypes, SentOnce, Ledgers, NEW t \in Thread,
         EngineExecutes(t) \/ EngineAdds(t) \/ EngineDeletes(t)
  PROVE  Ledgers' /\ stdout' \in Seq(Line) /\ left' \in [OrderId -> Nat]
<1>1. /\ wire[t] # <<>> /\ UNCHANGED activeVars /\ UNCHANGED <<commands, clientPc>>
  BY DEF EngineExecutes, EngineAdds, EngineDeletes, Reads, engineElse, clientVars
<1>2. Head(wire[t]) \in Cmd /\ 1 \in DOMAIN wire[t] /\ Head(wire[t]) = wire[t][1]
  <2>1. PICK s \in Seq(Cmd) : s = wire[t] /\ s # <<>>
    BY <1>1 DEF ClientTypes
  <2>2. 1 \in DOMAIN s /\ Head(s) = s[1] /\ Head(s) \in Cmd
    BY <2>1, TailPlaces
  <2> QED
    BY <2>1, <2>2
<1>3. PICK x \in Cmd : x = Head(wire[t])
  BY <1>2
<1>4. x.order \in OrderId /\ left[x.order] \in Nat /\ x.type \in {"new", "cancel"}
      /\ left \in [OrderId -> Nat] /\ stdout \in Seq(Line) /\ Tracked \subseteq Cmd
  BY DEF Cmd, DataTypes, Tracked
<1>5. Open(x)
  BY <1>2, <1>3 DEF Open, OnWire
<1>6. ASSUME x \in Tracked PROVE ~Unsent(x)
  <2>1. \A u \in Thread : \A i \in DOMAIN commands[u] : commands[u][i] # x
    BY <1>2, <1>3, <1>6 DEF SentOnce
  <2> QED
    BY <2>1 DEF Unsent
<1>7. x \in Tracked => Remains(x) > 0
  BY <1>5 DEF Ledgers, OpenRemains
<1>8. Replies(t) =>
        /\ \A c \in Tracked : Unsent(c)' => Unsent(c)
        /\ \A c \in Tracked : c # x => Open(c)' = Open(c)
        /\ x \in Tracked => ~Open(x)'
  BY <1>3, UnsentLess, OpenLess
<1>9. CASE EngineExecutes(t)
  <2>1. PICK n \in 1 .. left[x.order] :
          /\ left' = [left EXCEPT ![x.order] = left[x.order] - n]
          /\ stdout' = Append(stdout, [kind |-> "executed", order |-> x.order, count |-> n])
          /\ IF n = left[x.order] THEN Answered(t) ELSE wire' = wire
    BY <1>3, <1>9 DEF EngineExecutes, Prints
  <2>2. x.type = "new" /\ n \in Nat /\ n > 0
    BY <1>3, <1>4, <1>9, <2>1 DEF EngineExecutes, Reads
  <2>3. PICK line \in Line :
          /\ line = [kind |-> "executed", order |-> x.order, count |-> n]
          /\ line.kind = "executed" /\ line.order = x.order /\ line.count = n
    <3>1. PICK o \in OrderId : o = x.order
      BY <1>4
    <3>2. [kind |-> "executed", order |-> o, count |-> n] \in Line
      BY <2>2 DEF Line
    <3> QED
      BY <3>1, <3>2
  <2>4. \A c \in Tracked : c # x => Remains(c)' = Remains(c)
    <3> SUFFICES ASSUME NEW c \in Tracked, c # x PROVE Remains(c)' = Remains(c)
      OBVIOUS
    <3>1. c.type # "new" \/ c.order # x.order
      BY <1>4, <2>2 DEF Cmd
    <3> QED
      BY <1>4, <2>1, <3>1 DEF Remains, Cmd
  <2>5. Remains(x) = left[x.order] /\ Remains(x)' = left[x.order] - n
    BY <1>4, <2>1, <2>2 DEF Remains
  <2>6. left' \in [OrderId -> Nat]
    BY <1>4, <2>1
  <2>7. CASE n = left[x.order]
    <3>1. Replies(t)
      BY <1>1, <2>1, <2>7 DEF Replies
    <3>2. x \in Tracked => Owed(x)' = 0
      BY <1>8, <3>1 DEF Owed
    <3>3. x \in Tracked => Settles(line, x, Remains(x), Owed(x)')
      BY <1>4, <2>2, <2>3, <2>5, <2>7, <3>2 DEF Settles, About
    <3> QED
      BY <1>1, <1>4, <1>5, <1>6, <1>8, <2>1, <2>2, <2>3, <2>4, <2>6, <3>1, <3>3,
         PrintLedgers, AppendProperties
  <2>8. CASE n # left[x.order]
    <3>1. SamePlaces
      BY <1>1, <2>1, <2>8 DEF SamePlaces
    <3>2. \A c : Unsent(c)' = Unsent(c) /\ Open(c)' = Open(c)
      BY <3>1, NothingMoves
    <3>3. Owed(x)' = left[x.order] - n
      BY <1>5, <2>5, <3>2 DEF Owed
    <3>4. Settles(line, x, Remains(x), Owed(x)') /\ Remains(x)' > 0
      BY <1>4, <2>1, <2>2, <2>3, <2>5, <2>8, <3>3 DEF Settles, About
    <3> QED
      BY <1>1, <1>4, <1>5, <1>6, <2>1, <2>2, <2>3, <2>4, <2>6, <3>2, <3>4,
         PrintLedgers, AppendProperties
  <2> QED
    BY <2>7, <2>8
<1>10. CASE EngineAdds(t) \/ EngineDeletes(t)
  <2>1. /\ Replies(t) /\ left' = left
        /\ \E line \in Line :
             /\ stdout' = Append(stdout, line) /\ line.order = x.order
             /\ line.kind # "executed"
             /\ line.kind = "deleted" <=> x.type = "cancel"
    <3>1. Answered(t) /\ left' = left
      BY <1>10 DEF EngineAdds, EngineDeletes
    <3>2. CASE EngineAdds(t)
      <4>1. [kind |-> "added", order |-> x.order, count |-> left[x.order]] \in Line
        BY <1>4 DEF Line
      <4>2. x.type = "new"
        BY <1>3, <3>2 DEF EngineAdds, Reads
      <4> QED
        BY <1>1, <1>3, <3>1, <3>2, <4>1, <4>2 DEF EngineAdds, Prints, Replies
    <3>3. CASE EngineDeletes(t)
      <4>1. [kind |-> "deleted", order |-> x.order, count |-> 0] \in Line
        BY <1>4 DEF Line
      <4>2. x.type = "cancel"
        BY <1>3, <3>3 DEF EngineDeletes, Reads
      <4> QED
        BY <1>1, <1>3, <3>1, <3>3, <4>1, <4>2 DEF EngineDeletes, Prints, Replies
    <3> QED
      BY <1>10, <3>2, <3>3
  <2>2. PICK line \in Line :
             /\ stdout' = Append(stdout, line) /\ line.order = x.order
             /\ line.kind # "executed"
             /\ line.kind = "deleted" <=> x.type = "cancel"
    BY <2>1
  <2>3. \A c : Remains(c)' = Remains(c)
    BY <2>1 DEF Remains
  <2>4. x \in Tracked => Settles(line, x, Remains(x), Owed(x)') /\ ~Open(x)'
    BY <1>7, <1>8, <2>1, <2>2 DEF Settles, Owed, About
  <2> QED
    BY <1>1, <1>4, <1>5, <1>6, <1>8, <2>1, <2>2, <2>3, <2>4, PrintLedgers,
       AppendProperties
<1> QED
  BY <1>9, <1>10


(* A line that is read is expected, and settles what is counted.           *)
LEMMA ReadSettles ==
  ASSUME DataTypes, Ledgers, ReadLine
  PROVE  /\ Head(stdout) \in Line
         /\ \A c \in Tracked : Settles(Head(stdout), c, Counted(c), Counted(c)')
         /\ active_buysell_count' \in [OrderId -> {Nil} \cup (Nat \ {0})]
         /\ active_cancel' \subseteq OrderId /\ permits' \in [OrderId -> Nat]
         /\ CancelledOnce => GoOn
<1>1. stdout # <<>> /\ stdout \in Seq(Line)
  BY DEF ReadLine, DataTypes
<1>2. PICK line \in Line : line = Head(stdout)
  BY <1>1, HeadTailProperties
<1>3. PICK o \in OrderId : o = line.order
  BY DEF Line
<1>4. line.kind \in {"added", "executed", "deleted"} /\ line.count \in Nat
  BY DEF Line
<1>5. /\ active_buysell_count \in [OrderId -> {Nil} \cup (Nat \ {0})]
      /\ active_cancel \subseteq OrderId /\ permits \in [OrderId -> Nat]
      /\ Cardinality(Thread) \in Nat /\ Tracked \subseteq Cmd /\ Nil \notin Nat
  BY SessionAssumption, FS_CardinalityType DEF DataTypes, Tracked
<1>6. ASSUME NEW c \in Tracked PROVE \E m : Settles(line, c, Counted(c), m)
  BY <1>1, <1>2, OneLineLess DEF Ledgers, Accounts
<1>7. CASE line.kind # "deleted"
  <2>1. PICK x \in Tracked : x = [type |-> "new", order |-> o]
    BY OrdersTracked
  <2>2. x.type = "new" /\ x.order = o /\ About(line, x)
    BY <1>3, <1>7, <2>1 DEF About
  <2>3. Counted(x) > 0 /\ (line.kind = "executed" => line.count \in 1 .. Counted(x))
    <3>1. Counted(x) \in Nat
      BY <1>5, <2>2 DEF Counted
    <3> QED
      BY <1>6, <2>2, <3>1 DEF Settles
  <2>4. active_buysell_count[o] # Nil /\ active_buysell_count[o] \in Nat \ {0}
        /\ Counted(x) = active_buysell_count[o]
    BY <1>5, <2>2, <2>3 DEF Counted
  <2>5. /\ GoOn /\ active_cancel' = active_cancel
        /\ \/ /\ Erase(o) /\ Release(o)
              /\ line.kind = "executed" => line.count = active_buysell_count[o]
           \/ /\ line.kind = "executed" /\ line.count # active_buysell_count[o]
              /\ active_buysell_count' =
                   [active_buysell_count EXCEPT ![o] = active_buysell_count[o] - line.count]
              /\ permits' = permits
    <3>1. CASE line.kind = "added"
      BY <1>2, <1>3, <2>4, <3>1 DEF ReadLine, TakeAdded
    <3>2. CASE line.kind = "executed"
      <4>1. TakeExecuted(o, line.count)
        BY <1>2, <1>3, <3>2 DEF ReadLine
      <4> QED
        BY <2>4, <3>2, <4>1 DEF TakeExecuted
    <3> QED
      BY <1>4, <1>7, <3>1, <3>2
  <2>6. PICK v \in {Nil} \cup (Nat \ {0}) :
          /\ active_buysell_count' = [active_buysell_count EXCEPT ![o] = v]
          /\ line.kind = "added" => v = Nil
          /\ line.kind = "executed" =>
               IF line.count = active_buysell_count[o] THEN v = Nil
               ELSE v = active_buysell_count[o] - line.count
    BY <1>4, <1>7, <2>3, <2>4, <2>5 DEF Erase
  <2>7. permits' \in [OrderId -> Nat]
    BY <1>5, <2>5 DEF Release
  <2>8. Settles(line, x, Counted(x), Counted(x)')
    <3>1. active_buysell_count'[o] = v
      BY <1>5, <2>6
    <3>2. Counted(x)' = IF v = Nil THEN 0 ELSE v
      BY <2>2, <3>1 DEF Counted
    <3> QED
      BY <1>4, <1>5, <1>7, <2>2, <2>3, <2>4, <2>6, <3>2 DEF Settles
  <2>9. ASSUME NEW c \in Tracked, c # x
        PROVE  Settles(line, c, Counted(c), Counted(c)')
    <3>1. ~About(line, c)
      BY <1>3, <1>5, <1>7, <2>2, <2>9, OtherLine
    <3>2. c.type = "new" => c.order \in OrderId /\ c.order # o
      BY <1>3, <1>5, <1>7, <3>1 DEF About, Cmd
    <3>3. Counted(c)' = Counted(c)
      BY <1>5, <2>5, <2>6, <3>2 DEF Counted
    <3> QED
      BY <3>1, <3>3 DEF Settles
  <2>10. active_buysell_count' \in [OrderId -> {Nil} \cup (Nat \ {0})]
    BY <1>5, <2>6
  <2> QED
    BY <1>2, <1>5, <2>5, <2>7, <2>8, <2>9, <2>10
<1>8. CASE line.kind = "deleted"
  <2>1. TakeDeleted(o)
    BY <1>2, <1>3, <1>8 DEF ReadLine
  <2>2. /\ active_cancel' = active_cancel \ {o}
        /\ active_buysell_count' = active_buysell_count /\ permits' = permits
        /\ o \in active_cancel => GoOn
    BY <2>1 DEF TakeDeleted
  <2>3. PICK x \in Cmd : x.type = "cancel" /\ x.order = o
    <3>1. [type |-> "cancel", order |-> o] \in Cmd
      BY DEF Cmd
    <3> QED
      BY <3>1
  <2>4. About(line, x)
    BY <1>3, <1>8, <2>3 DEF About
  <2>5. ASSUME x \in Tracked PROVE o \in active_cancel
    <3>1. Counted(x) > 0
      BY <1>6, <1>8, <2>4, <2>5 DEF Settles
    <3> QED
      BY <2>3, <3>1 DEF Counted
  <2>6. ASSUME x \in Tracked PROVE Settles(line, x, Counted(x), Counted(x)')
    BY <1>8, <2>2, <2>3, <2>4, <2>5, <2>6 DEF Counted, Settles
  <2>7. ASSUME NEW c \in Tracked, c # x
        PROVE  Settles(line, c, Counted(c), Counted(c)')
    <3>1. ~About(line, c)
      BY <1>3, <1>5, <1>8, <2>3, <2>7, OtherLine
    <3>2. c.type # "new" => c.order # o
      BY <1>3, <1>5, <1>8, <3>1 DEF About, Cmd
    <3>3. Counted(c)' = Counted(c)
      BY <2>2, <3>2 DEF Counted
    <3> QED
      BY <3>1, <3>3 DEF Settles
  <2>8. CancelledOnce => GoOn
    BY <2>2, <2>5 DEF CancelledOnce
  <2> QED
    BY <1>2, <1>5, <2>2, <2>6, <2>7, <2>8
<1> QED
  BY <1>7, <1>8

LEMMA SettlesOneWay ==
  ASSUME NEW c, NEW line, NEW a, NEW b, NEW m, Settles(line, c, a, b), Settles(line, c, a, m)
  PROVE  b = m
BY DEF Settles

LEMMA ReadLedgers ==
  ASSUME DataTypes, Ledgers, ReadLine
  PROVE  Ledgers' /\ stdout' \in Seq(Line)
<1>1. /\ stdout # <<>> /\ stdout \in Seq(Line) /\ stdout' = Tail(stdout)
      /\ UNCHANGED <<commands, clientPc, wire, left>>
  BY DEF ReadLine, DataTypes, outElse, clientVars
<1>2. \A c : Unsent(c)' = Unsent(c) /\ Open(c)' = Open(c)
  BY <1>1, NothingMoves DEF SamePlaces
<1>3. \A c : Remains(c)' = Remains(c) /\ Owed(c)' = Owed(c)
  BY <1>1, <1>2 DEF Remains, Owed
<1>4. ASSUME NEW c \in Tracked
      PROVE  /\ Balanced(c, stdout, Counted(c), Owed(c))'
             /\ Counted(c)' \in Nat /\ (Counted(c) = 0 => Counted(c)' = 0)
  <2>1. PICK m \in Nat : /\ Settles(Head(stdout), c, Counted(c), m)
                         /\ Balanced(c, Tail(stdout), m, Owed(c))
    BY <1>1, OneLineLess DEF Ledgers, Accounts
  <2>2. m = Counted(c)'
    BY <2>1, ReadSettles, SettlesOneWay
  <2>3. Counted(c) = 0 => m = 0
    BY <2>1, SettlesDown
  <2> QED
    BY <1>1, <1>3, <2>1, <2>2, <2>3
<1>5. UnsentFresh'
  BY <1>1, <1>2, <1>4 DEF Ledgers, UnsentFresh
<1>6. OpenRemains'
  BY <1>2, <1>3 DEF Ledgers, OpenRemains
<1>7. stdout' \in Seq(Line)
  BY <1>1, HeadTailProperties
<1> QED
  BY <1>4, <1>5, <1>6, <1>7 DEF Ledgers, Accounts


-----------------------------------------------------------------------------
(* Steps that neither send, answer nor read anything. *)
Quiet ==
  \/ CheckActive \/ CheckThreads \/ Sleep \/ WakeForNothing \/ Leave
  \/ EndOfFile \/ Judge \/ Run \/ EngineDies \/ UNCHANGED vars

LEMMA QuietSteps ==
  ASSUME DataTypes, Quiet
  PROVE  ClientsIdle /\ SameAccounts /\ DataTypes'
<1>1. CASE CheckActive \/ CheckThreads \/ Sleep \/ WakeForNothing \/ Leave
  <2>1. /\ outPc' \in {"check", "threads", "sleep", "asleep", "leave", "judge", "read"}
        /\ UNCHANGED <<clientVars, engineVars, activeVars, permits, exitVars, runPc>>
    BY <1>1 DEF CheckActive, CheckThreads, Sleep, WakeForNothing, Leave, GoOut
  <2> QED
    BY <2>1 DEF ClientsIdle, SameAccounts, DataTypes, clientVars, engineVars, activeVars,
       exitVars
<1>2. CASE EndOfFile
  <2>1. /\ outPc' \in {"judge", "failed"} /\ failed' \in BOOLEAN
        /\ runPc' \in {"check", "asleep", "exit 0", "exit 1"}
        /\ UNCHANGED <<outElse, stdout, activeVars, permits>>
    BY <1>2 DEF EndOfFile, Fail, WakeRun, DataTypes
  <2> QED
    BY <2>1 DEF ClientsIdle, SameAccounts, DataTypes, clientVars, outElse, activeVars
<1>3. CASE Judge
  <2>1. /\ outPc' \in {"accepted", "rejected"} /\ failed' \in BOOLEAN
        /\ output_thread_done' \in BOOLEAN
        /\ runPc' \in {"check", "asleep", "exit 0", "exit 1"}
        /\ UNCHANGED <<clientVars, engineVars, activeVars, permits, num_threads_done>>
    BY <1>3 DEF Judge, WakeRun, DataTypes
  <2> QED
    BY <2>1 DEF ClientsIdle, SameAccounts, DataTypes, clientVars, engineVars, activeVars
<1>4. CASE Run
  <2>1. /\ runPc' \in {"check", "asleep", "exit 0", "exit 1"}
        /\ UNCHANGED <<clientVars, engineVars, activeVars, permits, exitVars, outPc>>
    <3>1. runPc' = IF failed THEN "exit 1"
                   ELSE IF AllDone /\ output_thread_done THEN "exit 0" ELSE "asleep"
      BY <1>4 DEF Run
    <3> QED
      BY <1>4, <3>1 DEF Run
  <2> QED
    BY <2>1 DEF ClientsIdle, SameAccounts, DataTypes, clientVars, engineVars, activeVars,
       exitVars
<1>5. CASE EngineDies
  BY <1>5 DEF EngineDies, engineElse, ClientsIdle, SameAccounts, DataTypes, clientVars,
     activeVars, exitVars
<1>6. CASE UNCHANGED vars
  BY <1>6 DEF vars, ClientsIdle, SameAccounts, DataTypes, clientVars, engineVars,
     activeVars, exitVars
<1> QED
  BY <1>1, <1>2, <1>3, <1>4, <1>5, <1>6 DEF Quiet

LEMMA SessionKinds ==
  ASSUME [Next]_vars
  PROVE  \/ \E t \in Thread : Client(t)
         \/ \E t \in Thread : EngineExecutes(t) \/ EngineAdds(t) \/ EngineDeletes(t)
         \/ ReadLine \/ Quiet
BY DEF Next, Engine, OutputThread, Quiet

LEMMA ClientDataTypes ==
  ASSUME ClientTypes, DataTypes, NEW t \in Thread, Client(t)
  PROVE  DataTypes'
<1>1. /\ UNCHANGED <<left, stdout, dead, output_thread_done, failed>>
      /\ outPc' \in {outPc, "check"} /\ runPc' \in {runPc, "check"}
  BY DEF Client, Register, Write, Wait, Arrive, Finish, NotifyOutput, NotifyRun,
     WakeOutput, WakeRun, engineVars, exitVars
<1>2. CASE Register(t)
  <2>1. Upcoming(t).order \in OrderId /\ permits' = permits
    <3>1. commands[t] # <<>> /\ Upcoming(t).type \in {"new", "cancel"}
      BY <1>2 DEF Register, At
    <3> QED
      BY <1>2, <3>1, UpcomingPlace DEF Cmd, Register
  <2>2. Count[Upcoming(t).order] \in Nat \ {0}
    BY <2>1, SessionAssumption
  <2>3. /\ active_buysell_count' \in [OrderId -> {Nil} \cup (Nat \ {0})]
        /\ active_cancel' \subseteq OrderId
    BY <1>2, <2>1, <2>2 DEF Register, DataTypes
  <2> QED
    BY <1>1, <2>1, <2>3 DEF DataTypes
<1>3. CASE Wait(t)
  <2>1. Upcoming(t).order \in OrderId
    BY <1>3, UpcomingPlace DEF Wait, At
  <2>2. PICK o \in OrderId : o = Upcoming(t).order
    BY <2>1
  <2>3. permits[o] > 0 /\ permits' = [permits EXCEPT ![o] = permits[o] - 1]
    BY <1>3, <2>2 DEF Wait
  <2>4. permits' \in [OrderId -> Nat]
    <3>1. permits \in [OrderId -> Nat] /\ permits[o] \in Nat
      BY DEF DataTypes
    <3>2. permits[o] - 1 \in Nat
      BY <2>3, <3>1
    <3> QED
      BY <2>3, <3>1, <3>2
  <2> QED
    BY <1>1, <1>3, <2>4 DEF Wait, DataTypes, activeVars
<1>4. CASE ~Register(t) /\ ~Wait(t)
  <2>1. UNCHANGED activeVars /\ permits' = permits
    BY <1>4 DEF Client, Write, Arrive, Finish, NotifyOutput, NotifyRun
  <2> QED
    BY <1>1, <2>1 DEF DataTypes, activeVars
<1> QED
  BY <1>2, <1>3, <1>4

(* When all threads are done none registers anything any more. *)
LEMMA AllFinished ==
  ASSUME ClientTypes, AllDone
  PROVE  Finished = Thread
<1>1. Finished \in SUBSET Thread /\ IsFiniteSet(Thread)
  BY SessionAssumption DEF Finished
<1>2. Cardinality(Thread) = Cardinality(Finished)
  BY DEF ClientTypes, AllDone
<1> QED
  BY <1>1, <1>2, FS_Subset

LEMMA LineTaken ==
  ASSUME DataTypes, ReadLine
  PROVE  GoOn \/ Fail
<1>1. PICK line : line = Head(stdout)
  OBVIOUS
<1>2. line \in Line
  BY <1>1, HeadTailProperties DEF ReadLine, DataTypes
<1>3. line.kind \in {"added", "executed", "deleted"}
  BY <1>2 DEF Line
<1>4. \/ TakeAdded(line.order) \/ TakeExecuted(line.order, line.count)
      \/ TakeDeleted(line.order)
  BY <1>1, <1>3 DEF ReadLine
<1> QED
  BY <1>4 DEF TakeAdded, TakeExecuted, TakeDeleted

LEMMA VerdictLastHolds ==
  ASSUME ClientTypes, DataTypes, VerdictLast, [Next]_vars
  PROVE  VerdictLast'
<1> DEFINE Judged == outPc \in {"judge", "accepted", "rejected"}
<1>1. CASE \E t \in Thread : Client(t)
  <2>1. PICK t \in Thread : Client(t)
    BY <1>1
  <2>2. outPc' \in {outPc, "check"}
    BY <2>1 DEF Client, Register, Write, Wait, Arrive, Finish, NotifyOutput, NotifyRun,
       WakeOutput
  <2>3. ASSUME Judged PROVE NothingActive' /\ AllDone'
    <3>1. NothingActive /\ AllDone
      BY <2>3 DEF VerdictLast
    <3>2. t \in Finished
      BY <3>1, AllFinished
    <3>3. clientPc[t] \in {"notify output", "notify run", "done"}
      BY <3>2 DEF Finished
    <3>4. NotifyOutput(t) \/ NotifyRun(t)
      BY <2>1, <3>3 DEF Client, Register, Write, Wait, Arrive, Finish, At
    <3>5. UNCHANGED <<activeVars, exitVars>>
      BY <3>4 DEF NotifyOutput, NotifyRun
    <3> QED
      BY <3>1, <3>5 DEF NothingActive, AllDone, activeVars, exitVars
  <2> QED
    BY <2>2, <2>3 DEF VerdictLast
<1>2. CASE \E t \in Thread : EngineExecutes(t) \/ EngineAdds(t) \/ EngineDeletes(t)
  BY <1>2 DEF EngineExecutes, EngineAdds, EngineDeletes, engineElse, VerdictLast,
     NothingActive, AllDone, activeVars, exitVars
<1>3. CASE ReadLine
  <2>1. outPc' \in {"check", "failed"}
    BY <1>3, LineTaken DEF GoOn, Fail
  <2> QED
    BY <2>1 DEF VerdictLast
<1>4. CASE Quiet
  <2>1. NothingActive' = NothingActive /\ AllDone' = AllDone
    BY <1>4, QuietSteps DEF ClientsIdle, SameAccounts, NothingActive, AllDone
  <2>2. CASE Judge \/ Run \/ EngineDies \/ UNCHANGED vars
    <3>1. Judged' => Judged
      BY <2>2 DEF Judge, Run, EngineDies, engineElse, vars
    <3> QED
      BY <2>1, <3>1 DEF VerdictLast
  <2>3. CASE CheckActive \/ CheckThreads \/ Sleep \/ WakeForNothing \/ Leave \/ EndOfFile
    <3>1. outPc' \in {"judge", "accepted", "rejected"} => NothingActive /\ AllDone
      BY <2>3 DEF CheckActive, CheckThreads, Sleep, WakeForNothing, Leave, EndOfFile, GoOut,
         Fail
    <3> QED
      BY <2>1, <3>1 DEF VerdictLast
  <2> QED
    BY <1>4, <2>2, <2>3 DEF Quiet
<1> QED
  BY <1>1, <1>2, <1>3, <1>4, SessionKinds


-----------------------------------------------------------------------------
LEMMA InitHolds == Init => IInv
<1> SUFFICES ASSUME Init PROVE IInv
  OBVIOUS
<1>1. /\ commands \in Plans /\ commands \in [Thread -> Seq(Input)]
      /\ clientPc = [t \in Thread |-> "next"] /\ arrived = {}
      /\ wire = [t \in Thread |-> <<>>] /\ num_threads_done = 0
  BY SessionAssumption DEF Init
<1>2. Finished = {}
  BY <1>1 DEF Finished
<1>3. \A S : <<>> \in Seq(S)
  BY EmptySeq
<1>4. ClientTypes
  BY <1>1, <1>2, <1>3, FS_EmptySet DEF ClientTypes
<1>5. DataTypes
  <2>1. Count \in [OrderId -> Nat]
    BY SessionAssumption
  <2> QED
    BY <1>3, <2>1 DEF Init, DataTypes
<1>6. SentOnce
  BY <1>1 DEF SentOnce, Tracked
<1>7. \A c : ~Open(c)
  BY <1>1 DEF Open, OnWire
<1>8. \A c \in Tracked : Counted(c) = 0
  BY DEF Init, Tracked, Cmd, Counted
<1>9. UnsentFresh /\ OpenRemains
  BY <1>7, <1>8 DEF Init, UnsentFresh, OpenRemains
<1>10. stdout = <<>> /\ stdout \in Seq(Line) /\ Len(stdout) = 0
  BY <1>3, EmptySeq DEF Init
<1>11. \A c : Balanced(c, stdout, 0, 0)
  <2> SUFFICES ASSUME NEW c PROVE Balanced(c, stdout, 0, 0)
    OBVIOUS
  <2>1. \A i \in 1 .. Len(stdout) : ~About(stdout[i], c)
    BY <1>10
  <2> QED
    BY <1>10, <2>1, Unmentioned
<1>12. Accounts
  BY <1>7, <1>8, <1>11 DEF Accounts, Owed
<1> QED
  BY <1>4, <1>5, <1>6, <1>9, <1>12 DEF Init, IInv, Ledgers, VerdictLast

LEMMA NextHolds == IInv /\ [Next]_vars => IInv'
<1> SUFFICES ASSUME IInv, [Next]_vars PROVE IInv'
  OBVIOUS
<1>1. ClientTypes /\ DataTypes /\ SentOnce /\ Ledgers /\ VerdictLast
  BY DEF IInv
<1>2. VerdictLast'
  BY <1>1, VerdictLastHolds
<1>3. CASE \E t \in Thread : Client(t)
  <2>1. PICK t \in Thread : Client(t)
    BY <1>3
  <2>2. ClientTypes' /\ DataTypes'
    BY <1>1, <2>1, ClientStepTypes, ClientDataTypes
  <2>3. CASE Register(t) /\ Registers(t)
    BY <1>1, <1>2, <2>2, <2>3, SentOnceHolds, RegisterLedgers DEF IInv
  <2>4. CASE SameAccounts /\ SamePlaces
    BY <1>1, <1>2, <2>2, <2>4, NothingMoves, QuietLedgers DEF IInv
  <2>5. CASE SameAccounts /\ (Skips(t) \/ Write(t))
    <3>1. SentOnce' /\ \A c \in Tracked : (Unsent(c)' => Unsent(c)) /\ Open(c)' = Open(c)
      BY <1>1, <2>5, SentOnceHolds, UnsentLess, OpenSame
    <3> QED
      BY <1>1, <1>2, <2>2, <2>5, <3>1, QuietLedgers DEF IInv
  <2> QED
    BY <1>1, <2>1, <2>3, <2>4, <2>5, ClientMoves
<1>4. CASE \E t \in Thread : EngineExecutes(t) \/ EngineAdds(t) \/ EngineDeletes(t)
  <2>1. PICK t \in Thread : EngineExecutes(t) \/ EngineAdds(t) \/ EngineDeletes(t)
    BY <1>4
  <2>2. ClientTypes' /\ (Replies(t) \/ ClientsIdle)
    BY <1>1, <2>1, EngineStepTypes
  <2>3. SentOnce'
    BY <1>1, <2>2, SentOnceHolds, NothingMoves DEF ClientsIdle, SamePlaces
  <2>4. Ledgers' /\ stdout' \in Seq(Line) /\ left' \in [OrderId -> Nat]
    BY <1>1, <2>1, EngineLedgers
  <2>5. UNCHANGED <<activeVars, permits, exitVars, outPc, runPc, dead>>
    BY <2>1 DEF EngineExecutes, EngineAdds, EngineDeletes, engineElse
  <2>6. DataTypes'
    BY <1>1, <2>4, <2>5 DEF DataTypes, activeVars, exitVars
  <2> QED
    BY <1>2, <2>2, <2>3, <2>4, <2>6 DEF IInv
<1>5. CASE ReadLine
  <2>1. ClientsIdle /\ UNCHANGED <<left, dead, output_thread_done>>
    BY <1>5 DEF ReadLine, outElse, clientVars, ClientsIdle
  <2>2. ClientTypes' /\ SentOnce'
    BY <1>1, <2>1, ClientsIdleTypes, NothingMoves DEF ClientsIdle, SamePlaces
  <2>3. Ledgers' /\ stdout' \in Seq(Line)
    BY <1>1, <1>5, ReadLedgers
  <2>4. /\ active_buysell_count' \in [OrderId -> {Nil} \cup (Nat \ {0})]
        /\ active_cancel' \subseteq OrderId /\ permits' \in [OrderId -> Nat]
    BY <1>1, <1>5, ReadSettles
  <2>5. GoOn \/ Fail
    BY <1>1, <1>5, LineTaken
  <2>6. /\ failed' \in BOOLEAN /\ outPc' \in {"check", "failed"}
        /\ runPc' \in {"check", "asleep", "exit 0", "exit 1"}
    BY <1>1, <2>5 DEF GoOn, Fail, WakeRun, DataTypes
  <2>7. DataTypes'
    BY <1>1, <2>1, <2>3, <2>4, <2>6 DEF DataTypes
  <2> QED
    BY <1>2, <2>2, <2>3, <2>7 DEF IInv
<1>6. CASE Quiet
  <2>1. ClientsIdle /\ SameAccounts /\ DataTypes'
    BY <1>1, <1>6, QuietSteps
  <2>2. SamePlaces
    BY <2>1 DEF ClientsIdle, SamePlaces
  <2> QED
    BY <1>1, <1>2, <2>1, <2>2, ClientsIdleTypes, NothingMoves, QuietLedgers DEF IInv
<1> QED
  BY <1>3, <1>4, <1>5, <1>6, SessionKinds

LEMMA Invariant == Spec => []IInv
BY InitHolds, NextHolds, PTL DEF Spec

(* Everything in the session has its type: what is active of an order      *)
(* never falls to zero or below without the order being erased, although   *)
(* output_thread subtracts executions from an unsigned count.              *)
THEOREM SessionTypes == Spec => []TypeOK
<1>1. IInv => TypeOK
  <2> SUFFICES ASSUME IInv PROVE TypeOK
    OBVIOUS
  <2>1. Cmd \subseteq Input
    BY DEF Cmd, Input
  <2>2. wire \in [Thread -> Seq(Input)]
    <3>1. \A s \in Seq(Cmd) : s \in Seq(Input)
      BY <2>1
    <3> QED
      BY <3>1 DEF IInv, ClientTypes
  <2>3. num_threads_done \in 0 .. Cardinality(Thread)
    <3>1. Finished \in SUBSET Thread /\ IsFiniteSet(Thread) /\ IsFiniteSet(Finished)
      BY SessionAssumption, FS_Subset DEF Finished
    <3>2. /\ Cardinality(Finished) <= Cardinality(Thread)
          /\ Cardinality(Finished) \in Nat /\ Cardinality(Thread) \in Nat
      BY <3>1, FS_Subset, FS_CardinalityType
    <3>3. num_threads_done = Cardinality(Finished)
      BY DEF IInv, ClientTypes
    <3>4. PICK n, m : n = Cardinality(Finished) /\ m = Cardinality(Thread)
      OBVIOUS
    <3>5. n \in 0 .. m
      BY <3>2, <3>4
    <3> QED
      BY <3>3, <3>4, <3>5
  <2>4. arrived \subseteq Thread
    BY DEF IInv, ClientTypes
  <2> QED
    BY <2>2, <2>3, <2>4 DEF IInv, ClientTypes, DataTypes, Line, TypeOK
<1> QED
  BY <1>1, Invariant, PTL

(* If no client cancels an order twice, the replay begins only when every  *)
(* command was sent and answered and every line was read.                  *)
THEOREM JudgedOnEverything ==
  ASSUME CancelledOnce
  PROVE  Spec => []VerdictOnAllOutput
<1>1. IInv => VerdictOnAllOutput
  <2> SUFFICES ASSUME IInv, outPc \in {"judge", "accepted", "rejected"}
               PROVE  /\ \A t \in Thread : commands[t] = <<>> /\ wire[t] = <<>>
                      /\ stdout = <<>>
    BY DEF VerdictOnAllOutput
  <2>1. /\ ClientTypes /\ DataTypes /\ NothingActive /\ AllDone
        /\ OpenRemains /\ Accounts /\ stdout \in Seq(Line)
        /\ wire \in [Thread -> Seq(Cmd)]
    BY DEF IInv, VerdictLast, Ledgers, DataTypes, ClientTypes
  <2>2. \A t \in Thread : commands[t] = <<>>
    BY <2>1, AllFinished DEF ClientTypes
  <2>3. ASSUME NEW c \in Cmd
        PROVE  ~Open(c) /\ \A i \in 1 .. Len(stdout) : ~About(stdout[i], c)
    <3>1. c \in Tracked
      BY DEF CancelledOnce
    <3>2. Counted(c) = 0
      BY <2>1 DEF NothingActive, Counted, Cmd
    <3>3. Owed(c) = 0 /\ \A i \in 1 .. Len(stdout) : ~About(stdout[i], c)
      BY <2>1, <3>1, <3>2, NothingToSettle DEF Accounts
    <3>4. Open(c) => Remains(c) > 0 /\ Remains(c) \in Nat
      BY <2>1, <3>1, CountedTypes DEF OpenRemains
    <3> QED
      BY <3>3, <3>4 DEF Owed
  <2>4. ASSUME NEW t \in Thread, wire[t] # <<>> PROVE FALSE
    <3>1. PICK s \in Seq(Cmd) : s = wire[t] /\ s # <<>>
      BY <2>1, <2>4
    <3>2. 1 \in DOMAIN s /\ Head(s) = s[1] /\ Head(s) \in Cmd
      BY <3>1, TailPlaces
    <3>3. Open(Head(s))
      BY <3>1, <3>2 DEF Open, OnWire
    <3> QED
      BY <2>3, <3>2, <3>3
  <2>5. ASSUME stdout # <<>> PROVE FALSE
    <3>1. PICK s \in Seq(Line) : s = stdout /\ s # <<>>
      BY <2>1, <2>5
    <3>2. 1 \in 1 .. Len(s) /\ s[1] \in Line
      BY <3>1, EmptySeq, LenProperties, ElementOfSeq
    <3>3. PICK line \in Line : line = s[1]
      BY <3>2
    <3>4. line.order \in OrderId
      BY DEF Line
    <3>5. PICK c \in Cmd : About(line, c)
      <4>1. CASE line.kind = "deleted"
        <5>1. PICK c : c = [type |-> "cancel", order |-> line.order]
          OBVIOUS
        <5>2. c \in Cmd /\ c.type = "cancel" /\ c.order = line.order
          BY <3>4, <5>1 DEF Cmd
        <5> QED
          BY <4>1, <5>2 DEF About
      <4>2. CASE line.kind # "deleted"
        <5>1. PICK c : c = [type |-> "new", order |-> line.order]
          OBVIOUS
        <5>2. c \in Cmd /\ c.type = "new" /\ c.order = line.order
          BY <3>4, <5>1 DEF Cmd
        <5> QED
          BY <4>2, <5>2 DEF About
      <4> QED
        BY <4>1, <4>2
    <3> QED
      BY <2>3, <3>1, <3>2, <3>3, <3>5
  <2> QED
    BY <2>2, <2>4, <2>5
<1> QED
  BY <1>1, Invariant, PTL

(* If no client cancels an order twice, only a replay or its own death     *)
(* fails an engine that answers every command.                             *)
THEOREM GoodEngine ==
  ASSUME CancelledOnce
  PROVE  Spec => []GoodEngineIsJudged
<1>1. Init => GoodEngineIsJudged
  BY DEF Init, GoodEngineIsJudged
<1>2. IInv /\ GoodEngineIsJudged /\ [Next]_vars => GoodEngineIsJudged'
  <2> SUFFICES ASSUME IInv, GoodEngineIsJudged, [Next]_vars
               PROVE  GoodEngineIsJudged'
    OBVIOUS
  <2>1. DataTypes /\ Ledgers
    BY DEF IInv
  <2>2. CASE \E t \in Thread : Client(t)
    <3>1. failed' = failed /\ dead' = dead /\ (outPc = "rejected" => outPc' = "rejected")
      BY <2>2 DEF Client, Register, Write, Wait, Arrive, Finish, NotifyOutput, NotifyRun,
         WakeOutput, engineVars, exitVars
    <3> QED
      BY <3>1 DEF GoodEngineIsJudged
  <2>3. CASE \E t \in Thread : EngineExecutes(t) \/ EngineAdds(t) \/ EngineDeletes(t)
    <3>1. failed' = failed /\ dead' = dead /\ outPc' = outPc
      BY <2>3 DEF EngineExecutes, EngineAdds, EngineDeletes, engineElse, exitVars
    <3> QED
      BY <3>1 DEF GoodEngineIsJudged
  <2>4. CASE ReadLine
    <3>1. failed' = failed /\ dead' = dead /\ outPc = "read"
      BY <2>1, <2>4, ReadSettles DEF GoOn, ReadLine, outElse
    <3> QED
      BY <3>1 DEF GoodEngineIsJudged
  <2>5. CASE Quiet
    <3>1. CASE EndOfFile \/ EngineDies
      BY <3>1 DEF EndOfFile, EngineDies, outElse, GoodEngineIsJudged
    <3>2. CASE Judge
      BY <3>2 DEF Judge, engineVars, GoodEngineIsJudged
    <3>3. CASE ~EndOfFile /\ ~EngineDies /\ ~Judge
      <4>1. /\ failed' = failed /\ dead' = dead
            /\ outPc = "rejected" => outPc' = "rejected"
        BY <2>5, <3>3 DEF Quiet, CheckActive, CheckThreads, Sleep, WakeForNothing, Leave,
           GoOut, Run, vars, engineVars, exitVars
      <4> QED
        BY <4>1 DEF GoodEngineIsJudged
    <3> QED
      BY <3>1, <3>2, <3>3
  <2> QED
    BY <2>2, <2>3, <2>4, <2>5, SessionKinds
<1> QED
  BY <1>1, <1>2, Invariant, PTL DEF Spec

=============================================================================
