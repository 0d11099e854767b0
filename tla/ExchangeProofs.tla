--------------------------- MODULE ExchangeProofs ---------------------------
(***************************************************************************)
(* The book that the grader's replay accepts is well typed, uncrossed and  *)
(* consistent with the quantities, for every set of orders, prices, sizes  *)
(* and every number of lines.  NotCrossed is inductive together with the   *)
(* types because only AfterAdd puts an order into the book and MayAdd      *)
(* compares it with every resting order of the other side.  For the sizes  *)
(* it matters that filled_count, which is all the replay keeps of them, is *)
(* what was traded as long as that is below 2^32.                          *)
(***************************************************************************)
EXTENDS ExchangeSizes, TLAPS

IInv == TypeOK /\ NotCrossed

-----------------------------------------------------------------------------
(* The steps of Next, with what each line does to status spelled out.      *)
AddStep(o, time) ==
  /\ status[o].state = "Active"
  /\ status[o].filled < status[o].count
  /\ Unmatchable(status, status[o].side, status[o].price)
  /\ \E stamp \in Nat :
       status' = [status EXCEPT ![o].state = "Booked", ![o].stamp = stamp]

ExecuteStep(n, r, count) ==
  /\ status[r].state = "Booked"
  /\ status[n].state = "Active"
  /\ FilledAfter(status[r], count) <= status[r].count
  /\ FilledAfter(status[n], count) <= status[n].count
  /\ status' = [status EXCEPT ![n] = FilledBy(@, count), ![r] = FilledResting(@, count)]

DeleteStep(o) ==
  \/ UNCHANGED status
  \/ /\ status[o].state = "Booked"
     /\ status' = [status EXCEPT ![o].filled = status[o].count,
                                 ![o].state = "Filled"]

(* A step that prints a line is one of these. *)
LEMMA AddIsStep ==
  ASSUME TypeOK, NEW o \in OrderId, NEW time \in Time, Add(o, time)
  PROVE  AddStep(o, time) /\ lines' \in Nat
<1> DEFINE line == [kind |-> "added", id |-> o, side |-> status[o].side,
                    price |-> status[o].price,
                    count |-> status[o].count - status[o].filled, time |-> time]
<1>1. /\ MayAdd(status, line)
      /\ lines' = lines + 1
      /\ status' = AfterAdd(status, line, lines')
  BY DEF Add, PrintLine, Allowed, After
<1>2. lines' \in Nat /\ time \in Nat
  BY <1>1, MarketAssumption DEF TypeOK, Time
<1>3. StampOf(line, lines') \in Nat
  BY <1>2 DEF StampOf
<1>4. status' = [status EXCEPT ![o].state = "Booked",
                               ![o].stamp = StampOf(line, lines')]
  BY <1>1 DEF AfterAdd
<1>5. /\ status[o].state = "Active"
      /\ status[o].filled < status[o].count
      /\ Unmatchable(status, status[o].side, status[o].price)
  BY <1>1 DEF MayAdd
<1> QED
  BY <1>2, <1>3, <1>4, <1>5 DEF AddStep

(* The same for an execution ... *)
LEMMA ExecuteIsStep ==
  ASSUME TypeOK, NEW n \in OrderId, NEW r \in OrderId, NEW count \in LineCount,
         Execute(n, r, count)
  PROVE  ExecuteStep(n, r, count) /\ lines' \in Nat
<1> DEFINE line == [kind |-> "executed", id |-> n, resting |-> r,
                    exec |-> status[r].execs + 1, price |-> status[r].price,
                    count |-> count, time |-> 0]
<1>1. /\ MayExecute(status, line)
      /\ lines' = lines + 1
      /\ status' = AfterExecute(status, line)
  BY DEF Execute, PrintLine, Allowed, After
<1> QED
  BY <1>1 DEF MayExecute, AfterExecute, ExecuteStep, TypeOK

(* ... and for the answer to a cancel. *)
LEMMA DeleteIsStep ==
  ASSUME TypeOK, NEW o \in OrderId, NEW accepted \in BOOLEAN, Delete(o, accepted)
  PROVE  DeleteStep(o) /\ lines' \in Nat
<1> DEFINE line == [kind |-> "deleted", id |-> o, accepted |-> accepted, time |-> 0]
<1>1. /\ MayDelete(status, line)
      /\ lines' = lines + 1
      /\ status' = AfterDelete(status, line)
  BY DEF Delete, PrintLine, Allowed, After
<1> QED
  BY <1>1 DEF MayDelete, AfterDelete, DeleteStep, TypeOK

-----------------------------------------------------------------------------
(* An empty book satisfies the invariant. *)
LEMMA InitHolds == Init => IInv
<1> SUFFICES ASSUME Init PROVE IInv
  OBVIOUS
<1>1. Absent \in OrderStatus /\ Absent.state = "Unknown"
  <2>1. 0 \in 0 .. Modulus - 1
    BY ReplayAssumption
  <2> QED
    BY <2>1 DEF Absent, Fresh, OrderStatus, States, Sides
<1>2. TypeOK
  BY <1>1 DEF Init, TypeOK
<1> QED
  BY <1>1, <1>2 DEF Init, IInv, NotCrossed

(* A new command adds an Active order, which no part of NotCrossed sees. *)
LEMMA ReceiveHolds ==
  ASSUME IInv, NEW o \in OrderId, NEW side \in Sides, NEW price \in Price,
         NEW count \in Count, Receive(o, side, price, count)
  PROVE  IInv'
<1>1. /\ Fresh(side, price, count) \in OrderStatus
      /\ Fresh(side, price, count).state = "Active"
  <2>1. 0 \in 0 .. Modulus - 1
    BY ReplayAssumption
  <2> QED
    BY <2>1, MarketAssumption DEF Fresh, OrderStatus, States
<1>2. /\ status \in [OrderId -> OrderStatus]
      /\ status' = [status EXCEPT ![o] = Fresh(side, price, count)]
      /\ lines' = lines /\ lines \in Nat
  BY DEF Receive, IInv, TypeOK
<1>3. TypeOK'
  BY <1>1, <1>2 DEF TypeOK
<1>4. \A p \in OrderId : status'[p] = IF p = o THEN Fresh(side, price, count)
                                               ELSE status[p]
  BY <1>2
<1>5. NotCrossed'
  BY <1>1, <1>4 DEF IInv, NotCrossed
<1> QED
  BY <1>3, <1>5 DEF IInv

(* A booking keeps the book uncrossed because MayAdd compared it. *)
LEMMA AddHolds ==
  ASSUME IInv, NEW o \in OrderId, NEW time \in Time, AddStep(o, time), lines' \in Nat
  PROVE  IInv'
<1>1. PICK stamp \in Nat :
        status' = [status EXCEPT ![o].state = "Booked", ![o].stamp = stamp]
  BY DEF AddStep
<1>2. status \in [OrderId -> OrderStatus]
  BY DEF IInv, TypeOK
<1>3. \A p \in OrderId :
        /\ status'[p] \in OrderStatus
        /\ status'[p].side = status[p].side
        /\ status'[p].price = status[p].price
        /\ status'[p].count = status[p].count
        /\ status'[p].filled = status[p].filled
        /\ status'[p].execs = status[p].execs
        /\ status'[p].state = IF p = o THEN "Booked" ELSE status[p].state
  BY <1>1, <1>2 DEF OrderStatus, States
<1>4. TypeOK'
  BY <1>1, <1>2, <1>3 DEF TypeOK
<1>5. NotCrossed'
  <2> SUFFICES ASSUME NEW b \in OrderId, NEW s \in OrderId,
                      status'[b].state = "Booked", status'[b].side = "buy",
                      status'[s].state = "Booked", status'[s].side = "sell"
               PROVE  status'[b].price < status'[s].price
    BY DEF NotCrossed
  <2>1. CASE b # o /\ s # o
    BY <2>1, <1>3 DEF IInv, NotCrossed
  <2>2. CASE b = o
    <3>1. s # o /\ s \in InBook(status, "sell")
      BY <2>2, <1>3 DEF InBook
    <3>2. status[s].price > status[o].price
      BY <2>2, <3>1, <1>3 DEF AddStep, Unmatchable, Other
    <3> QED
      BY <2>2, <3>2, <1>2, <1>3 DEF OrderStatus
  <2>3. CASE s = o
    <3>1. b # o /\ b \in InBook(status, "buy")
      BY <2>3, <1>3 DEF InBook
    <3>2. status[b].price < status[o].price
      BY <2>3, <3>1, <1>3 DEF AddStep, Unmatchable, Other
    <3> QED
      BY <2>3, <3>2, <1>3
  <2> QED
    BY <2>1, <2>2, <2>3
<1> QED
  BY <1>4, <1>5 DEF IInv

(* uint32_t arithmetic: a sum below 2^32 is itself.                        *)
LEMMA FilledAfterFits ==
  ASSUME NEW order \in OrderStatus, NEW count \in LineCount
  PROVE  /\ FilledAfter(order, count) \in 0 .. Modulus - 1
         /\ order.filled + count < Modulus
              => FilledAfter(order, count) = order.filled + count
<1>1. order.filled + count \in Nat /\ Modulus \in Nat /\ Modulus > 0
  BY ReplayAssumption, MarketAssumption DEF OrderStatus
<1> QED
  BY <1>1, Z3T(30) DEF FilledAfter

(* What one execution does to the new order and to the resting order. *)
FieldsAfter(order, after, count, execs) ==
  /\ after \in OrderStatus
  /\ after.side = order.side
  /\ after.price = order.price
  /\ after.count = order.count
  /\ after.filled = FilledAfter(order, count)
  /\ after.state = IF FilledAfter(order, count) = order.count THEN "Filled" ELSE order.state
  /\ after.execs = execs

(* Both kinds of filled orders, field by field. *)
LEMMA FilledByFields ==
  ASSUME NEW order \in OrderStatus, NEW count \in LineCount
  PROVE  /\ FieldsAfter(order, FilledBy(order, count), count, order.execs)
         /\ FieldsAfter(order, FilledResting(order, count), count, order.execs + 1)
<1> DEFINE filled == FilledAfter(order, count)
           state == IF filled = order.count THEN "Filled" ELSE order.state
           one == FilledBy(order, count)
           two == FilledResting(order, count)
<1>1. filled \in 0 .. Modulus - 1 /\ state \in States
  BY FilledAfterFits DEF OrderStatus, States
<1>2. one = [order EXCEPT !.filled = filled, !.state = state]
  BY DEF FilledBy
<1>3. two = [one EXCEPT !.execs = order.execs + 1]
  BY DEF FilledResting
<1>4. order.execs + 1 \in Nat
  BY DEF OrderStatus
<1> SUFFICES /\ FieldsAfter(order, one, count, order.execs)
             /\ FieldsAfter(order, two, count, order.execs + 1)
  OBVIOUS
<1> HIDE DEF filled, state, one, two
<1>5. /\ one \in OrderStatus
      /\ one.side = order.side /\ one.price = order.price
      /\ one.count = order.count /\ one.filled = filled
      /\ one.state = state /\ one.execs = order.execs
  BY <1>1, <1>2 DEF OrderStatus
<1>6. /\ two \in OrderStatus
      /\ two.side = one.side /\ two.price = one.price
      /\ two.count = one.count /\ two.filled = one.filled
      /\ two.state = one.state /\ two.execs = order.execs + 1
  BY <1>3, <1>4, <1>5 DEF OrderStatus
<1> QED
  BY <1>5, <1>6 DEF FieldsAfter, filled, state

(* What an execution does to every order. *)
ExecuteFields(n, r, count) ==
  \A p \in OrderId :
    /\ status'[p] \in OrderStatus
    /\ status'[p].side = status[p].side
    /\ status'[p].price = status[p].price
    /\ status'[p].count = status[p].count
    /\ status'[p].filled = IF p \in {n, r} THEN FilledAfter(status[p], count)
                                           ELSE status[p].filled
    /\ status'[p].state =
         IF p \in {n, r} /\ FilledAfter(status[p], count) = status[p].count
         THEN "Filled" ELSE status[p].state

LEMMA ExecuteChanges ==
  ASSUME TypeOK, NEW n \in OrderId, NEW r \in OrderId, NEW count \in LineCount,
         ExecuteStep(n, r, count)
  PROVE  n # r /\ ExecuteFields(n, r, count)
<1>1. status \in [OrderId -> OrderStatus] /\ n # r
  BY DEF TypeOK, ExecuteStep
<1> SUFFICES ASSUME NEW p \in OrderId
             PROVE  /\ status'[p] \in OrderStatus
                    /\ status'[p].side = status[p].side
                    /\ status'[p].price = status[p].price
                    /\ status'[p].count = status[p].count
                    /\ status'[p].filled = IF p \in {n, r}
                                           THEN FilledAfter(status[p], count)
                                           ELSE status[p].filled
                    /\ status'[p].state =
                         IF p \in {n, r} /\ FilledAfter(status[p], count) = status[p].count
                         THEN "Filled" ELSE status[p].state
  BY <1>1 DEF ExecuteFields
<1>2. status' = [status EXCEPT ![n] = FilledBy(@, count), ![r] = FilledResting(@, count)]
  BY DEF ExecuteStep
<1>3. status[p] \in OrderStatus
  BY <1>1
<1>4. CASE p = n
  <2>1. status'[p] = FilledBy(status[p], count) /\ p \in {n, r}
    BY <1>2, <1>4, <1>1
  <2>2. FieldsAfter(status[p], status'[p], count, status[p].execs)
    BY <2>1, <1>3, <1>1, FilledByFields
  <2> QED
    BY <2>1, <2>2 DEF FieldsAfter
<1>5. CASE p = r
  <2>1. status'[p] = FilledResting(status[p], count) /\ p \in {n, r}
    BY <1>2, <1>5, <1>1
  <2>2. FieldsAfter(status[p], status'[p], count, status[p].execs + 1)
    BY <2>1, <1>3, <1>1, FilledByFields
  <2> QED
    BY <2>1, <2>2 DEF FieldsAfter
<1>6. CASE p \notin {n, r}
  BY <1>2, <1>3, <1>6, <1>1
<1> QED
  BY <1>4, <1>5, <1>6

(* An execution books nothing. *)
LEMMA ExecuteHolds ==
  ASSUME IInv, NEW n \in OrderId, NEW r \in OrderId, NEW count \in LineCount,
         ExecuteStep(n, r, count), lines' \in Nat
  PROVE  IInv'
<1>1. status \in [OrderId -> OrderStatus] /\ ExecuteFields(n, r, count)
  BY ExecuteChanges DEF IInv, TypeOK
<1>2. TypeOK'
  BY <1>1 DEF TypeOK, ExecuteStep, ExecuteFields
<1>3. \A p \in OrderId : status'[p].state = "Booked" => status[p].state = "Booked"
  BY <1>1 DEF ExecuteFields
<1>4. NotCrossed'
  BY <1>1, <1>3 DEF IInv, NotCrossed, ExecuteFields
<1> QED
  BY <1>2, <1>4 DEF IInv

(* A cancel takes an order out of the book or changes nothing. *)
LEMMA DeleteHolds ==
  ASSUME IInv, NEW o \in OrderId, DeleteStep(o), lines' \in Nat
  PROVE  IInv'
<1>1. CASE UNCHANGED status
  BY <1>1 DEF IInv, TypeOK, NotCrossed
<1>2. CASE /\ status[o].state = "Booked"
           /\ status' = [status EXCEPT ![o].filled = status[o].count,
                                       ![o].state = "Filled"]
  <2>1. status \in [OrderId -> OrderStatus]
    BY DEF IInv, TypeOK
  <2>2. \A p \in OrderId :
          /\ status'[p] \in OrderStatus
          /\ status'[p].side = status[p].side
          /\ status'[p].price = status[p].price
          /\ status'[p].count = status[p].count
          /\ status'[p].execs = status[p].execs
          /\ status'[p].filled = IF p = o THEN status[p].count ELSE status[p].filled
          /\ status'[p].state = IF p = o THEN "Filled" ELSE status[p].state
    BY <1>2, <2>1 DEF OrderStatus, States
  <2>3. TypeOK'
    BY <1>2, <2>1, <2>2 DEF TypeOK
  <2>4. \A p \in OrderId : status'[p].state = "Booked" => status[p].state = "Booked"
    BY <2>2
  <2>5. NotCrossed'
    BY <2>2, <2>4 DEF IInv, NotCrossed
  <2> QED
    BY <2>3, <2>5 DEF IInv
<1> QED
  BY <1>1, <1>2 DEF DeleteStep

(* Every step keeps the invariant. *)
LEMMA NextHolds == IInv /\ [Next]_vars => IInv'
<1> SUFFICES ASSUME IInv, [Next]_vars PROVE IInv'
  OBVIOUS
<1>0. TypeOK
  BY DEF IInv
<1>1. ASSUME NEW o \in OrderId, NEW side \in Sides, NEW price \in Price,
             NEW count \in Count, Receive(o, side, price, count)
      PROVE  IInv'
  BY <1>1, ReceiveHolds
<1>2. ASSUME NEW o \in OrderId, NEW time \in Time, Add(o, time)
      PROVE  IInv'
  BY <1>0, <1>2, AddIsStep, AddHolds
<1>3. ASSUME NEW n \in OrderId, NEW r \in OrderId, NEW count \in LineCount,
             Execute(n, r, count)
      PROVE  IInv'
  BY <1>0, <1>3, ExecuteIsStep, ExecuteHolds
<1>4. ASSUME NEW o \in OrderId, NEW accepted \in BOOLEAN, Delete(o, accepted)
      PROVE  IInv'
  BY <1>0, <1>4, DeleteIsStep, DeleteHolds
<1>5. CASE UNCHANGED vars
  BY <1>5 DEF vars, IInv, TypeOK, NotCrossed
<1> QED
  BY <1>1, <1>2, <1>3, <1>4, <1>5 DEF Next

-----------------------------------------------------------------------------
(* The replay state is well typed whatever is printed. *)
THEOREM TypeCorrect == Spec => []TypeOK
<1>1. IInv => TypeOK
  BY DEF IInv
<1> QED
  BY <1>1, InitHolds, NextHolds, PTL DEF Spec

(* No accepted output ever leaves a buy and a sell resting that could have *)
(* been matched (add_buy, add_sell).                                       *)
THEOREM NeverCrossed == Spec => []NotCrossed
<1>1. IInv => NotCrossed
  BY DEF IInv
<1> QED
  BY <1>1, InitHolds, NextHolds, PTL DEF Spec

-----------------------------------------------------------------------------
(* The sizes of one order.  It is compared with filled_count at every line *)
(* but forgotten by it once a cancel has filled the order up.              *)
SizesOf(o) ==
  /\ traded[o] \in Nat
  /\ status[o].filled <= status[o].count
  /\ status[o].state = "Unknown" => traded[o] = 0
  /\ status[o].state = "Booked" => status[o].filled < status[o].count
  /\ traded[o] < Modulus =>
       /\ traded[o] <= status[o].count
       /\ status[o].state \in {"Active", "Booked"} => status[o].filled = traded[o]

SizesInv == /\ TypeOK
            /\ traded \in [OrderId -> Nat]
            /\ \A o \in OrderId : SizesOf(o)

(* A step that trades nothing of an order and does not take it out of the  *)
(* book for its size leaves what is known of the sizes.                    *)
LEMMA SizesStay ==
  ASSUME SizesInv, NEW o \in OrderId,
         traded'[o] = traded[o], status'[o].filled = status[o].filled,
         status'[o].count = status[o].count, status'[o].state = status[o].state
  PROVE  SizesOf(o)'
BY DEF SizesInv, SizesOf

(* The first line about an order finds nothing traded. *)
LEMMA ReceiveSizes ==
  ASSUME SizesInv, NEW k \in OrderId, NEW side \in Sides, NEW price \in Price,
         NEW count \in Count, Receive(k, side, price, count), UNCHANGED traded,
         NEW o \in OrderId
  PROVE  SizesOf(o)'
<1>1. /\ status \in [OrderId -> OrderStatus]
      /\ status[k].state = "Unknown"
      /\ status' = [status EXCEPT ![k] = Fresh(side, price, count)]
  BY DEF Receive, SizesInv, TypeOK
<1>2. CASE o = k
  <2>1. /\ status'[o].filled = 0 /\ status'[o].count = count
        /\ status'[o].state = "Active"
    BY <1>1, <1>2 DEF Fresh
  <2>2. traded'[o] = 0 /\ count \in Nat
    BY <1>1, <1>2, MarketAssumption DEF SizesInv, SizesOf
  <2> QED
    BY <2>1, <2>2 DEF SizesOf
<1>3. CASE o # k
  BY <1>1, <1>3, SizesStay
<1> QED
  BY <1>2, <1>3

(* add_buy and add_sell book an order only if something of it is left. *)
LEMMA AddSizes ==
  ASSUME SizesInv, NEW k \in OrderId, NEW time \in Time, AddStep(k, time),
         UNCHANGED traded, NEW o \in OrderId
  PROVE  SizesOf(o)'
<1>1. PICK stamp \in Nat :
        status' = [status EXCEPT ![k].state = "Booked", ![k].stamp = stamp]
  BY DEF AddStep
<1>2. /\ status \in [OrderId -> OrderStatus]
      /\ status[k].state = "Active"
      /\ status[k].filled < status[k].count
  BY DEF AddStep, SizesInv, TypeOK
<1>3. /\ status'[o].filled = status[o].filled
      /\ status'[o].count = status[o].count
      /\ status'[o].state = IF o = k THEN "Booked" ELSE status[o].state
  BY <1>1, <1>2 DEF OrderStatus
<1> QED
  BY <1>2, <1>3 DEF SizesInv, SizesOf

(* execute_buy and execute_sell compare before they wrap. *)
LEMMA TradeSizes ==
  ASSUME SizesInv, NEW n \in OrderId, NEW r \in OrderId, NEW count \in LineCount,
         ExecuteStep(n, r, count),
         traded' = [traded EXCEPT ![n] = @ + count, ![r] = @ + count],
         NEW o \in OrderId
  PROVE  traded' \in [OrderId -> Nat] /\ SizesOf(o)'
<1>1. /\ status \in [OrderId -> OrderStatus]
      /\ traded \in [OrderId -> Nat]
      /\ n # r /\ ExecuteFields(n, r, count)
      /\ count \in Nat
  BY ExecuteChanges, MarketAssumption DEF SizesInv, TypeOK
<1>2. traded' \in [OrderId -> Nat]
  BY <1>1
<1>3. CASE o \in {n, r}
  <2>1. /\ status[o].state \in {"Active", "Booked"}
        /\ FilledAfter(status[o], count) <= status[o].count
    BY <1>3 DEF ExecuteStep
  <2>2. /\ status'[o].count = status[o].count
        /\ status'[o].filled = FilledAfter(status[o], count)
        /\ status'[o].state = IF FilledAfter(status[o], count) = status[o].count
                              THEN "Filled" ELSE status[o].state
    BY <1>1, <1>3 DEF ExecuteFields
  <2>3. traded'[o] = traded[o] + count
    BY <1>1, <1>3
  <2>4. /\ status[o] \in OrderStatus
        /\ status[o].filled \in Nat /\ status[o].count \in Nat
        /\ Modulus \in Nat /\ traded[o] \in Nat
    BY <1>1, ReplayAssumption DEF OrderStatus
  <2>5. /\ FilledAfter(status[o], count) \in Nat
        /\ status[o].filled + count < Modulus
             => FilledAfter(status[o], count) = status[o].filled + count
    BY <2>4, FilledAfterFits
  <2>6. traded[o] < Modulus => status[o].filled = traded[o]
    BY <2>1 DEF SizesInv, SizesOf
  <2> QED
    BY <1>1, <1>2, <2>1, <2>2, <2>3, <2>4, <2>5, <2>6 DEF SizesOf
<1>4. CASE o \notin {n, r}
  <2>1. traded'[o] = traded[o]
    BY <1>1, <1>4
  <2>2. /\ status'[o].filled = status[o].filled
        /\ status'[o].count = status[o].count
        /\ status'[o].state = status[o].state
    BY <1>1, <1>4 DEF ExecuteFields
  <2> QED
    BY <1>2, <2>1, <2>2, SizesStay
<1> QED
  BY <1>3, <1>4

(* A cancelled order has traded what it had. *)
LEMMA DeleteSizes ==
  ASSUME SizesInv, NEW k \in OrderId, DeleteStep(k), UNCHANGED traded,
         NEW o \in OrderId
  PROVE  SizesOf(o)'
<1>1. CASE UNCHANGED status
  BY <1>1, SizesStay
<1>2. CASE /\ status[k].state = "Booked"
           /\ status' = [status EXCEPT ![k].filled = status[k].count,
                                       ![k].state = "Filled"]
  <2>1. status \in [OrderId -> OrderStatus]
    BY DEF SizesInv, TypeOK
  <2>2. CASE o # k
    BY <1>2, <2>1, <2>2, SizesStay
  <2>3. CASE o = k
    <3>1. /\ status'[o].filled = status[o].count
          /\ status'[o].count = status[o].count
          /\ status'[o].state = "Filled"
          /\ status[o].count \in Nat
      BY <1>2, <2>1, <2>3 DEF OrderStatus
    <3> QED
      BY <3>1 DEF SizesInv, SizesOf
  <2> QED
    BY <2>2, <2>3
<1> QED
  BY <1>1, <1>2 DEF DeleteStep

(* The sizes are right from the start ... *)
LEMMA SizesInit == SInit => SizesInv
<1> SUFFICES ASSUME SInit PROVE SizesInv
  OBVIOUS
<1>1. TypeOK
  BY InitHolds DEF SInit, IInv
<1>2. \A o \in OrderId : /\ status[o].state = "Unknown"
                         /\ status[o].filled = 0 /\ status[o].count = 0
  BY DEF SInit, Init, Absent, Fresh
<1> QED
  BY <1>1, <1>2 DEF SizesInv, SizesOf, SInit

(* ... and every step keeps them. *)
LEMMA SizesNext == SizesInv /\ IInv /\ [SNext]_svars => SizesInv'
<1> SUFFICES ASSUME SizesInv, IInv, [SNext]_svars PROVE SizesInv'
  OBVIOUS
<1>0. TypeOK /\ traded \in [OrderId -> Nat]
  BY DEF SizesInv
<1>1. TypeOK'
  BY NextHolds DEF SNext, Trade, Next, svars, vars, IInv
<1>2. ASSUME UNCHANGED traded, \A o \in OrderId : SizesOf(o)' PROVE SizesInv'
  BY <1>0, <1>1, <1>2 DEF SizesInv
<1>3. ASSUME NEW k \in OrderId, NEW side \in Sides, NEW price \in Price,
             NEW count \in Count, Receive(k, side, price, count), UNCHANGED traded
      PROVE  SizesInv'
  BY <1>2, <1>3, ReceiveSizes
<1>4. ASSUME NEW k \in OrderId, NEW time \in Time, Add(k, time), UNCHANGED traded
      PROVE  SizesInv'
  <2>1. AddStep(k, time)
    BY <1>0, <1>4, AddIsStep
  <2> QED
    BY <1>2, <1>4, <2>1, AddSizes
<1>5. ASSUME NEW n \in OrderId, NEW r \in OrderId, NEW count \in LineCount,
             Trade(n, r, count)
      PROVE  SizesInv'
  <2>1. ExecuteStep(n, r, count)
    BY <1>0, <1>5, ExecuteIsStep DEF Trade
  <2>2. traded' = [traded EXCEPT ![n] = @ + count, ![r] = @ + count]
    BY <1>5 DEF Trade
  <2>3. \A o \in OrderId : traded' \in [OrderId -> Nat] /\ SizesOf(o)'
    BY <2>1, <2>2, TradeSizes
  <2> QED
    BY <1>1, <2>3 DEF SizesInv
<1>6. ASSUME NEW k \in OrderId, NEW accepted \in BOOLEAN, Delete(k, accepted),
             UNCHANGED traded
      PROVE  SizesInv'
  <2>1. DeleteStep(k)
    BY <1>0, <1>6, DeleteIsStep
  <2> QED
    BY <1>2, <1>6, <2>1, DeleteSizes
<1>7. CASE UNCHANGED svars
  BY <1>2, <1>7, SizesStay DEF svars, vars
<1> QED
  BY <1>3, <1>4, <1>5, <1>6, <1>7 DEF SNext

(* As long as less than 2^32 is traded of an order it trades within its    *)
(* size and the replay knows how much, whatever wraps in the orders it     *)
(* trades with (check_correctness_outputset, execute_buy, execute_sell).   *)
THEOREM TradesWithinSizes == SSpec => []TradedWithinSize
<1>1. SInit => IInv /\ SizesInv
  BY InitHolds, SizesInit DEF SInit
<1>2. [SNext]_svars => [Next]_vars
  BY DEF SNext, Trade, Next, svars, vars
<1>3. (IInv /\ SizesInv) /\ [SNext]_svars => (IInv /\ SizesInv)'
  BY <1>2, NextHolds, SizesNext
<1>4. SizesInv => TradedWithinSize
  <2> SUFFICES ASSUME SizesInv, NEW o \in OrderId, traded[o] < Modulus
               PROVE  /\ traded[o] <= status[o].count
                      /\ status[o].state = "Booked" => traded[o] < status[o].count
                      /\ status[o].state \in {"Active", "Booked"}
                           => status[o].filled = traded[o]
    BY DEF TradedWithinSize
  <2> QED
    BY DEF SizesInv, SizesOf
<1> QED
  BY <1>1, <1>3, <1>4, PTL DEF SSpec

-----------------------------------------------------------------------------
(* Only an execution counts executions, those of its resting order, and    *)
(* that one is a best order: whoever came before it with no worse a price  *)
(* would precede it, by either priority.                                   *)
LEMMA ExecuteInTurn ==
  ASSUME TypeOK, NEW n \in OrderId, NEW r \in OrderId, NEW count \in LineCount,
         Execute(n, r, count)
  PROVE  InTurn
<1> SUFFICES ASSUME NEW a \in OrderId, NEW b \in OrderId,
                    status[a].state = "Booked", status[b].state = "Booked",
                    status[a].side = status[b].side,
                    ~BetterPrice(status[a].side, status[b].price, status[a].price),
                    status[a].stamp < status[b].stamp
             PROVE  status'[b].execs = status[b].execs
  BY DEF InTurn
<1>1. status \in [OrderId -> OrderStatus]
  BY DEF TypeOK
<1>2. status[a].price \in Nat /\ status[b].price \in Nat
  BY <1>1 DEF OrderStatus
<1>3. Precedes(status, a, b)
  BY <1>2 DEF Precedes, BetterPrice
<1> DEFINE line == [kind |-> "executed", id |-> n, resting |-> r,
                    exec |-> status[r].execs + 1, price |-> status[r].price,
                    count |-> count, time |-> 0]
<1>4. /\ status[n].state = "Active"
      /\ status[r].state = "Booked"
      /\ r \in Best(status, Other(status[n].side))
      /\ status' = AfterExecute(status, line)
  BY DEF Execute, PrintLine, Allowed, After, MayExecute
<1>5. b # r
  BY <1>3, <1>4 DEF Best, InBook
<1>6. b # n
  BY <1>4
<1> QED
  BY <1>1, <1>4, <1>5, <1>6 DEF AfterExecute

(* The other lines count no execution. *)
LEMMA OthersInTurn ==
  ASSUME TypeOK
  PROVE  /\ \A o \in OrderId, side \in Sides, price \in Price, count \in Count :
              Receive(o, side, price, count) => InTurn
         /\ \A o \in OrderId, time \in Time : Add(o, time) => InTurn
         /\ \A o \in OrderId, accepted \in BOOLEAN : Delete(o, accepted) => InTurn
<1>1. status \in [OrderId -> OrderStatus]
  BY DEF TypeOK
<1>2. ASSUME NEW o \in OrderId, NEW side \in Sides, NEW price \in Price,
             NEW count \in Count, Receive(o, side, price, count)
      PROVE  InTurn
  BY <1>1, <1>2 DEF Receive, InTurn
<1>3. ASSUME NEW o \in OrderId, NEW time \in Time, Add(o, time)
      PROVE  InTurn
  <2>1. PICK stamp \in Nat :
          status' = [status EXCEPT ![o].state = "Booked", ![o].stamp = stamp]
    BY <1>3, AddIsStep DEF AddStep
  <2>2. \A p \in OrderId : status'[p].execs = status[p].execs
    BY <1>1, <2>1 DEF OrderStatus
  <2> QED
    BY <2>2 DEF InTurn
<1>4. ASSUME NEW o \in OrderId, NEW accepted \in BOOLEAN, Delete(o, accepted)
      PROVE  InTurn
  <2>1. DeleteStep(o)
    BY <1>4, DeleteIsStep
  <2>2. \A p \in OrderId : status'[p].execs = status[p].execs
    BY <1>1, <2>1 DEF DeleteStep, OrderStatus
  <2> QED
    BY <2>2 DEF InTurn
<1> QED
  BY <1>2, <1>3, <1>4

(* By price-time and by time priority alike, nobody who was there earlier  *)
(* at no worse a price is passed over (execute_buy, execute_sell).         *)
THEOREM NobodyOvertakes == Spec => NoOvertaking
<1>1. TypeOK /\ [Next]_vars => [InTurn]_vars
  BY ExecuteInTurn, OthersInTurn DEF Next
<1> QED
  BY <1>1, TypeCorrect, PTL DEF Spec, NoOvertaking

=============================================================================
