----------------------------- MODULE OrderProofs -----------------------------
(***************************************************************************)
(* The properties of OrderLifecycle for any number of orders, tasks,       *)
(* faults and requests of administrators.                                  *)
(***************************************************************************)
EXTENDS OrderProps, SumProofs, SequenceTheorems

(* The scripts are made of statements.                                     *)

LEMMA PayTyped ==
    ASSUME NEW move \in Moves, NEW a \in Nat
    PROVE  Pay(move, a) \in Statement
  BY DEF Pay, Statement

LEMMA WriteTyped ==
    ASSUME NEW status \in Statuses
    PROVE  /\ Write(status) \in Statement
           /\ [do |-> "mark", status |-> status] \in Statement
  BY DEF Write, Statement

LEMMA TellTyped ==
    ASSUME NEW e \in Events
    PROVE  Tell(e) \in Statement
  BY DEF Tell, Statement

LEMMA WalkTyped ==
    /\ [do |-> "walk"] \in Statement
    /\ [do |-> "place"] \in Statement
  BY DEF Statement

LEMMA ShortScripts ==
    /\ <<>> \in Seq(Statement)
    /\ \A s \in Statement : <<s>> \in Seq(Statement)
    /\ \A s, u \in Statement : <<s, u>> \in Seq(Statement)
    /\ \A s, u, v \in Statement : <<s, u, v>> \in Seq(Statement)
    /\ \A p, q \in Seq(Statement) : p \o q \in Seq(Statement)
  <1> HIDE DEF Statement
  <1>1. \A p, q \in Seq(Statement) : p \o q \in Seq(Statement)
    BY ConcatProperties
  <1> QED BY <1>1

LEMMA MovesNamed == {"hold", "release", "charge", "refund"} = Moves
  BY DEF Moves

\* Division as the code's rounding uses it.
LEMMA Quotient ==
    ASSUME NEW d \in Nat \ {0}
    PROVE  /\ \A n \in Int : n \div d \in Int
           /\ \A m, n \in Int : m <= n => m \div d <= n \div d
  <1>1. ASSUME NEW n \in Int
        PROVE  n \div d \in Int /\ d * (n \div d) <= n /\ n < d * (n \div d) + d
    OBVIOUS
  <1>2. ASSUME NEW m \in Int, NEW n \in Int, m <= n
        PROVE  m \div d <= n \div d
    BY <1>1, <1>2
  <1> QED BY <1>1, <1>2

\* The part of a partial order that was done costs the more the less remains:
\* nothing if all does, the price if nothing does.
LEMMA DonePrices ==
    ASSUME NEW o \in Orders
    PROVE  /\ \A r \in Int : DonePrice(o, r) \in Int
           /\ \A q, r \in Int : q <= r => DonePrice(o, r) <= DonePrice(o, q)
           /\ DonePrice(o, 0) = Price[o]
           /\ DonePrice(o, Quantity[o]) = 0
  <1> DEFINE p == Price[o]
             n == Quantity[o]
             Units(r) == 2 * p * (n - r) + n
  <1>1. p \in Nat /\ n \in Nat \ {0} /\ 2 * n \in Nat \ {0}
    BY OrderAssumption
  <1>2. \A r : DonePrice(o, r) = Units(r) \div (2 * n)
    BY DEF DonePrice
  <1> HIDE DEF p, n
  <1>3. \A r \in Int : Units(r) \in Int
    BY <1>1
  <1>4. ASSUME NEW q \in Int, NEW r \in Int, q <= r
        PROVE  Units(r) <= Units(q)
    <2>1. PICK k \in Nat : r = q + k
      <3>1. r - q \in Nat /\ r = q + (r - q)
        BY <1>4
      <3> QED BY <3>1
    <2>2. p * (n - q) = p * (n - r) + p * k /\ p * k \in Nat /\ p * (n - r) \in Int
      BY <1>1, <2>1
    <2> QED BY <1>1, <2>1, <2>2
  <1>5. (2 * p * (n - 0) + n) \div (2 * n) = p
    BY <1>1
  <1>6. (2 * p * (n - n) + n) \div (2 * n) = 0
    BY <1>1
  <1> HIDE DEF Units
  <1>7. /\ \A r \in Int : DonePrice(o, r) \in Int
        /\ \A q, r \in Int : q <= r => DonePrice(o, r) <= DonePrice(o, q)
    BY <1>1, <1>2, <1>3, <1>4, Quotient
  <1> QED BY <1>2, <1>5, <1>6, <1>7 DEF p, n, Units

\* No panel makes an order cost more than its worth, which is its price if
\* none says that less than nothing remains.
LEMMA WorthIsMost ==
    ASSUME NEW o \in Orders
    PROVE  /\ Worth(o) \in Nat /\ Price[o] \in Nat /\ Price[o] <= Worth(o)
           /\ Least = 0 => Worth(o) = Price[o]
           /\ \A r \in Remains \ {NoNumber} :
                 DonePrice(o, r) \in Int /\ DonePrice(o, r) <= Worth(o)
  <1>1. /\ Price[o] \in Nat /\ Least \in Int /\ Least <= 0
        /\ \A r \in Remains \ {NoNumber} : r \in Int /\ Least <= r
    BY OrderAssumption
  <1>2. /\ \A r \in Int : DonePrice(o, r) \in Int
        /\ \A q, r \in Int : q <= r => DonePrice(o, r) <= DonePrice(o, q)
        /\ DonePrice(o, 0) = Price[o]
    BY DonePrices
  <1> QED BY <1>1, <1>2 DEF Worth

\* What remains of an order is some of it: then it divides the price.
LEMMA SomeDivides ==
    ASSUME NEW o \in Orders, NEW r \in 0..Quantity[o]
    PROVE  Divides(o, r)
  <1>1. Quantity[o] \in Nat /\ Price[o] \in Nat /\ NoNumber \notin Int
    BY OrderAssumption
  <1>2. /\ DonePrice(o, r) \in Int
        /\ 0 <= DonePrice(o, r) /\ DonePrice(o, r) <= Price[o]
    <2>1. r \in Int /\ 0 <= r /\ r <= Quantity[o] /\ 0 \in Int /\ Quantity[o] \in Int
      BY <1>1
    <2> QED BY <2>1, DonePrices
  <1> QED BY <1>1, <1>2 DEF Divides

LEMMA PartsTyped ==
    ASSUME NEW o \in Orders, NEW done \in Int
    PROVE  Parts(o, done) \in Seq(Statement)
  <1>1. Price[o] \in Nat
    BY OrderAssumption
  <1>2. /\ done > 0 => <<Pay("charge", done)>> \in Seq(Statement)
        /\ Price[o] - done > 0 => <<Pay("release", Price[o] - done)>> \in Seq(Statement)
    <2>1. /\ done > 0 => done \in Nat
          /\ Price[o] - done > 0 => Price[o] - done \in Nat
      BY <1>1
    <2> QED BY <2>1, PayTyped, ShortScripts, MovesNamed
  <1> QED BY <1>2, ShortScripts DEF Parts

LEMMA SettlementTyped ==
    ASSUME NEW o \in Orders, NEW status \in Ended, NEW remains \in Remains
    PROVE  Settlement(o, status, remains) \in Seq(Statement)
  <1>1. Price[o] \in Nat
    BY OrderAssumption
  <1>2. /\ <<Pay("charge", Price[o])>> \in Seq(Statement)
        /\ <<Pay("release", Price[o])>> \in Seq(Statement)
    BY <1>1, PayTyped, ShortScripts, MovesNamed
  <1>3. Split(o, remains) \in Seq(Statement)
    <2>1. CASE remains = NoNumber
      BY <2>1, ShortScripts DEF Split
    <2>2. CASE remains # NoNumber
      BY <2>2, WorthIsMost, PartsTyped DEF Split
    <2> QED BY <2>1, <2>2
  <1> QED BY <1>2, <1>3, ShortScripts DEF Settlement, Ended

LEMMA EndTyped ==
    ASSUME NEW o \in Orders, NEW status \in Ended, NEW remains \in Remains,
           NEW refills \in BOOLEAN
    PROVE  End(o, status, remains, refills) \in Seq(Statement)
  <1>1. <<Write(status)>> \in Seq(Statement)
    BY WriteTyped, ShortScripts DEF Statuses
  <1>2. Announcement(status) \in Seq(Statement)
    BY TellTyped, ShortScripts DEF Announcement, Ended, Events
  <1>3. Mark(status, refills) \in Seq(Statement)
    BY WriteTyped, ShortScripts DEF Mark, Statuses, Ended
  <1> QED BY <1>1, <1>2, <1>3, SettlementTyped, ShortScripts DEF End

LEMMA FailScriptsTyped ==
    ASSUME NEW o \in Orders
    PROVE  /\ ForceFail(o) \in Seq(Statement)
           /\ ReleaseAndFail(o) \in Seq(Statement)
           /\ <<Tell("exhausted")>> \o ReleaseAndFail(o) \in Seq(Statement)
           /\ <<Pay("hold", Price[o]), [do |-> "walk"]>> \in Seq(Statement)
           /\ <<Pay("release", Price[o]), Write("CANCELLED"), Tell("cancelled")>>
                 \in Seq(Statement)
           /\ <<[do |-> "place"], Tell("created")>> \in Seq(Statement)
  <1>1. Price[o] \in Nat
    BY OrderAssumption
  <1>2. /\ Pay("hold", Price[o]) \in Statement
        /\ Pay("release", Price[o]) \in Statement
    BY <1>1, PayTyped, MovesNamed
  <1>3. /\ Write("FAILED") \in Statement
        /\ Write("CANCELLED") \in Statement
    BY WriteTyped DEF Statuses, Ended
  <1>4. /\ Tell("failed") \in Statement
        /\ Tell("cancelled") \in Statement
        /\ Tell("exhausted") \in Statement
        /\ Tell("created") \in Statement
    BY TellTyped DEF Events
  <1> QED BY <1>2, <1>3, <1>4, WalkTyped, ShortScripts DEF ForceFail, ReleaseAndFail

LEMMA AdminScriptsTyped ==
    ASSUME NEW o \in Orders, NEW status \in Statuses
    PROVE  /\ ForcedSettlement(o, status) \in Seq(Statement)
           /\ ForcedSettlement(o, status) \o <<Write(status)>> \in Seq(Statement)
           /\ <<>> \o <<Write(status)>> \in Seq(Statement)
           /\ <<Pay("release", Price[o])>> \o <<Pay("refund", Price[o]), Write("REFUNDED")>>
                 \in Seq(Statement)
           /\ <<>> \o <<Pay("refund", Price[o]), Write("REFUNDED")>> \in Seq(Statement)
  <1>1. Price[o] \in Nat
    BY OrderAssumption
  <1>2. /\ Pay("charge", Price[o]) \in Statement
        /\ Pay("release", Price[o]) \in Statement
        /\ Pay("refund", Price[o]) \in Statement
    BY <1>1, PayTyped, MovesNamed
  <1>3. /\ Write(status) \in Statement
        /\ Write("REFUNDED") \in Statement
    BY WriteTyped DEF Statuses
  <1>4. ForcedSettlement(o, status) \in Seq(Statement)
    BY <1>2, ShortScripts DEF ForcedSettlement
  <1> QED BY <1>2, <1>3, <1>4, ShortScripts

-----------------------------------------------------------------------------
(* Types.                                                                  *)

\* A task that is in the middle of something.
LEMMA RunningTask ==
    ASSUME OrderTypeOK, NEW t \in Tasks, task[t] # Resting
    PROVE  /\ task[t] \in Running
           /\ task[t].kind \in Kinds
           /\ task[t].order \in Orders
           /\ task[t].script \in Seq(Statement)
           /\ task[t].seen \in WalletRow
  BY DEF OrderTypeOK, Running

LEMMA FreshTyped ==
    ASSUME NEW kind \in Kinds, NEW o \in Orders, NEW script \in Seq(Statement)
    PROVE  /\ Fresh(kind, o, script) \in Running
           /\ Fresh(kind, o, script) # Resting
           /\ Fresh(kind, o, script).at = "next"
           /\ Fresh(kind, o, script).order = o
  BY DEF Fresh, Running, Unread, WalletRow, Resting, Kinds

LEMMA KindsNamed == {"create", "cleanup", "check", "plain"} = Kinds
  BY DEF Kinds

\* What a step does to the tasks when it moves t on, stops it or starts it.
Moved(t, o) ==
    /\ task' = [task EXCEPT ![t] = task'[t]]
    /\ \/ task'[t] = Resting
       \/ /\ task'[t] \in Running
          /\ task'[t].order = o
          /\ task'[t].at = "next"

LEMMA GoMoves ==
    ASSUME OrderTypeOK, NEW t \in Tasks, task[t] # Resting,
           NEW kind \in Kinds, NEW script \in Seq(Statement), Go(t, kind, script)
    PROVE  Moved(t, task[t].order)
  <1> DEFINE f == Fresh(kind, task[t].order, script)
  <1>1. f \in Running /\ f.order = task[t].order /\ f.at = "next"
    BY RunningTask, FreshTyped
  <1>2. task' = [task EXCEPT ![t] = IF script = <<>> THEN Resting ELSE f]
    BY DEF Go
  <1> HIDE DEF f
  <1>3. DOMAIN task = Tasks
    BY DEF OrderTypeOK
  <1> QED BY <1>1, <1>2, <1>3 DEF Moved

LEMMA DoneMoves ==
    ASSUME OrderTypeOK, NEW t \in Tasks, task[t] # Resting,
           task[t].script # <<>>, Done(t)
    PROVE  Moved(t, task[t].order)
  <1>1. Tail(task[t].script) \in Seq(Statement)
    <2> HIDE DEF Statement
    <2> QED BY RunningTask, HeadTailProperties
  <1> QED BY <1>1, RunningTask, GoMoves DEF Done

LEMMA RestMoves ==
    ASSUME OrderTypeOK, NEW t \in Tasks, Rest(t)
    PROVE  \A o \in Orders : Moved(t, o)
  BY DEF Rest, Moved, OrderTypeOK

LEMMA ThrowMoves ==
    ASSUME OrderTypeOK, NEW t \in Tasks, task[t] # Resting,
           task[t].script # <<>>, Throw(t)
    PROVE  Moved(t, task[t].order)
  <1> DEFINE o == task[t].order
  <1>1. o \in Orders
    BY RunningTask
  <1>2. /\ ReleaseAndFail(o) \in Seq(Statement)
        /\ ForceFail(o) \in Seq(Statement)
    BY <1>1, FailScriptsTyped
  <1>3. CASE Done(t)
    BY <1>3, DoneMoves
  <1>4. CASE Go(t, "cleanup", ReleaseAndFail(o))
    BY <1>2, <1>4, GoMoves, KindsNamed
  <1>5. CASE Go(t, "plain", ForceFail(o))
    BY <1>2, <1>5, GoMoves, KindsNamed
  <1>6. CASE Rest(t)
    BY <1>1, <1>6, RestMoves
  <1> QED BY <1>3, <1>4, <1>5, <1>6 DEF Throw

LEMMA BeginMoves ==
    ASSUME OrderTypeOK, NEW t \in Tasks, NEW o \in Orders, NEW kind \in Kinds,
           NEW script \in Seq(Statement), Begin(t, kind, o, script)
    PROVE  Moved(t, o) /\ task[t] = Resting
  <1> DEFINE f == Fresh(kind, o, script)
  <1>1. f \in Running /\ f.order = o /\ f.at = "next"
    BY FreshTyped
  <1>2. task' = [task EXCEPT ![t] = f] /\ task[t] = Resting
    BY DEF Begin
  <1> HIDE DEF f
  <1>3. DOMAIN task = Tasks
    BY DEF OrderTypeOK
  <1> QED BY <1>1, <1>2, <1>3 DEF Moved

\* An arrival starts a resting task on an order, and writes at most that the
\* order is new.
LEMMA ArriveMoves ==
    ASSUME OrderTypeOK, NEW t \in Tasks, NEW o \in Orders, Arrive(t, o)
    PROVE  /\ Moved(t, o) /\ task[t] = Resting
           /\ UNCHANGED <<wallet, moved, told, faults>>
           /\ acts' \in Nat
           /\ \/ order' = order
              \/ /\ order[o].status = "NONE"
                 /\ order' = [order EXCEPT ![o] = [status |-> "PENDING", placed |-> FALSE]]
           /\ o \in AdminOrders \/ order[o].status \notin Ended
  <1>1. /\ "plain" \in Kinds /\ "create" \in Kinds /\ "check" \in Kinds
        /\ acts \in Nat
    BY DEF Kinds, OrderTypeOK
  <1>2. CASE CreateOrder(t, o)
    BY <1>1, <1>2, FailScriptsTyped, BeginMoves DEF CreateOrder, SetStatus, Ended
  <1>3. CASE CancelOrder(t, o)
    BY <1>1, <1>3, FailScriptsTyped, BeginMoves DEF CancelOrder, Read, Ended
  <1>4. CASE PollOrder(t, o)
    <2>1. PICK status \in Ended, remains \in Remains, refills \in BOOLEAN :
             Read(t, o, End(o, status, remains, refills))
      BY <1>4 DEF PollOrder
    <2>2. End(o, status, remains, refills) \in Seq(Statement)
      BY EndTyped
    <2> QED BY <1>1, <1>4, <2>1, <2>2, BeginMoves DEF PollOrder, Read, Ended
  <1>5. CASE CheckTimedOutOrder(t, o)
    <2>1. PICK status \in Ended, remains \in Remains :
             Begin(t, "check", o, End(o, status, remains, FALSE))
      BY <1>5 DEF CheckTimedOutOrder
    <2>2. End(o, status, remains, FALSE) \in Seq(Statement)
      BY EndTyped
    <2> QED BY <1>1, <1>5, <2>1, <2>2, BeginMoves DEF CheckTimedOutOrder, Ended
  <1>6. CASE ForceFailOrder(t, o)
    BY <1>1, <1>6, FailScriptsTyped, BeginMoves DEF ForceFailOrder, Read, Ended
  <1>7. ASSUME NEW script \in Seq(Statement), AdminRead(t, o, script)
        PROVE  /\ Moved(t, o) /\ task[t] = Resting /\ o \in AdminOrders
               /\ UNCHANGED <<wallet, order, moved, told, faults>>
               /\ acts' \in Nat
    BY <1>1, <1>7, BeginMoves DEF AdminRead
  <1>8. CASE AdminForceStatus(t, o)
    <2>1. PICK status \in Statuses :
             AdminRead(t, o, (IF order[o].status = "PROCESSING"
                              THEN ForcedSettlement(o, status) ELSE <<>>)
                             \o <<Write(status)>>)
      BY <1>8 DEF AdminForceStatus
    <2> QED BY <1>7, <2>1, AdminScriptsTyped
  <1>9. CASE AdminRefundOrder(t, o)
    <2>1. "REFUNDED" \in Statuses
      BY DEF Statuses
    <2> QED BY <1>7, <1>9, <2>1, AdminScriptsTyped DEF AdminRefundOrder
  <1>10. CASE RefillOrder(t, o)
    <2>1. <<[do |-> "place"]>> \in Seq(Statement)
      BY WalkTyped, ShortScripts
    <2> QED BY <1>1, <1>10, <2>1, BeginMoves DEF RefillOrder, SetStatus, Ended
  <1> QED BY <1>2, <1>3, <1>4, <1>5, <1>6, <1>8, <1>9, <1>10 DEF Arrive

\* Every step of a started task but the read of the wallet.
GoesOn(t) ==
    \/ PayRefused(t)
    \/ PayCommit(t)
    \/ WalkSucceeds(t)
    \/ WalkExhausted(t)
    \/ RefillRefused(t)
    \/ NotePlace(t)
    \/ WriteStatus(t)
    \/ TellEvent(t)
    \/ StatementFails(t)
    \/ Die(t)

LEMMA GoesOnMoves ==
    ASSUME OrderTypeOK, NEW t \in Tasks, GoesOn(t)
    PROVE  /\ task[t] # Resting
           /\ Moved(t, task[t].order)
  <1>1. task[t] # Resting
    BY DEF GoesOn, PayRefused, PayCommit, WalkSucceeds, WalkExhausted, RefillRefused,
           NotePlace, WriteStatus, TellEvent, StatementFails, Die, Facing
  <1> DEFINE o == task[t].order
  <1>2. o \in Orders /\ task[t].kind \in Kinds /\ "cleanup" \in Kinds
    BY <1>1, RunningTask DEF Kinds
  <1>3. /\ <<[do |-> "place"], Tell("created")>> \in Seq(Statement)
        /\ <<Tell("exhausted")>> \o ReleaseAndFail(o) \in Seq(Statement)
    BY <1>2, FailScriptsTyped
  <1>4. CASE Throw(t) /\ task[t].script # <<>>
    BY <1>1, <1>4, ThrowMoves
  <1>5. CASE Done(t) /\ task[t].script # <<>>
    BY <1>1, <1>5, DoneMoves
  <1>6. CASE WalkSucceeds(t)
    BY <1>1, <1>2, <1>3, <1>6, GoMoves DEF WalkSucceeds
  <1>7. CASE WalkExhausted(t)
    BY <1>1, <1>2, <1>3, <1>7, GoMoves DEF WalkExhausted
  <1>8. CASE Die(t)
    BY <1>2, <1>8, RestMoves DEF Die
  <1>9. CASE PayRefused(t) \/ RefillRefused(t) \/ StatementFails(t)
    BY <1>4, <1>9 DEF PayRefused, RefillRefused, StatementFails, Facing
  <1>10. CASE PayCommit(t) \/ NotePlace(t) \/ WriteStatus(t) \/ TellEvent(t)
    BY <1>5, <1>10 DEF PayCommit, NotePlace, WriteStatus, TellEvent, Facing
  <1> QED BY <1>1, <1>6, <1>7, <1>8, <1>9, <1>10 DEF GoesOn

\* The row a task read, and the statement it is at.
LEMMA ReadTyped ==
    ASSUME OrderTypeOK, NEW t \in Tasks, PayRead(t)
    PROVE  /\ task[t] # Resting
           /\ task' = [task EXCEPT ![t] = task'[t]]
           /\ task'[t] \in Running
           /\ task'[t].order = task[t].order
           /\ task'[t].script = task[t].script
           /\ task'[t].seen = wallet
           /\ Head(task'[t].script).do \in Moves
           /\ Permits(wallet, Head(task'[t].script))
           /\ task'[t].script # <<>>
  <1>1. task[t] # Resting
    BY DEF PayRead, Facing
  <1> DEFINE r == [kind |-> task[t].kind, order |-> task[t].order,
                   script |-> task[t].script, at |-> "commit", seen |-> wallet]
  <1>2. r \in Running
    <2> HIDE DEF Statement
    <2> QED BY <1>1, RunningTask DEF OrderTypeOK, Running
  <1>3. task' = [task EXCEPT ![t] = r]
    BY DEF PayRead
  <1>4. /\ r.order = task[t].order /\ r.script = task[t].script
        /\ r.seen = wallet
    OBVIOUS
  <1>5. /\ Head(task[t].script).do \in Moves
        /\ Permits(wallet, Head(task[t].script))
        /\ task[t].script # <<>>
    BY DEF PayRead, Facing
  <1> HIDE DEF r
  <1>6. task'[t] = r
    BY <1>3 DEF OrderTypeOK
  <1> QED BY <1>1, <1>2, <1>3, <1>4, <1>5, <1>6

\* A statement that moves money has an amount.
LEMMA AmountTyped ==
    ASSUME NEW s \in Statement, s.do \in Moves
    PROVE  s.amount \in Nat
  BY DEF Statement, Moves

LEMMA HeadTyped ==
    ASSUME OrderTypeOK, NEW t \in Tasks, task[t] # Resting, task[t].script # <<>>
    PROVE  Head(task[t].script) \in Statement
  <1> HIDE DEF Statement
  <1> QED BY RunningTask, HeadTailProperties

\* What is written to a row after a permitted read is a row.
LEMMA AfterTyped ==
    ASSUME NEW w \in WalletRow, NEW s \in Statement, s.do \in Moves
    PROVE  After(w, s) \in WalletRow
  <1>1. s.amount \in Nat
    BY AmountTyped
  <1> QED BY <1>1 DEF After, Held, Released, Charged, Credited, WalletRow, Moves

\* The rows of orders and the records about them after a step.
LEMMA RecordsStep ==
    ASSUME OrderTypeOK, NEW t \in Tasks, GoesOn(t)
    PROVE  /\ wallet' \in WalletRow
           /\ order' \in [Orders -> [status : Statuses, placed : BOOLEAN]]
           /\ moved' \in [Orders -> [Moves -> Nat]]
           /\ told' \in [Orders -> [Events -> Nat]]
           /\ faults' \in Nat /\ acts' \in Nat
  <1>1. task[t] # Resting
    BY GoesOnMoves
  <1> DEFINE o == task[t].order
             s == Head(task[t].script)
  <1>2. o \in Orders
    BY <1>1, RunningTask
  <1>3. CASE PayCommit(t)
    <2>1. s \in Statement /\ s.do \in Moves
      BY <1>1, <1>3, HeadTyped DEF PayCommit, Facing
    <2>2. s.amount \in Nat
      BY <2>1, AmountTyped
    <2>3. wallet' \in WalletRow
      BY <1>1, <1>3, <2>1, AfterTyped, RunningTask DEF PayCommit
    <2> DEFINE more == [m \in Moves |-> IF m = s.do THEN moved[o][m] + s.amount
                                                    ELSE moved[o][m]]
    <2>4. more \in [Moves -> Nat]
      BY <1>2, <2>2 DEF OrderTypeOK
    <2>5. moved' = [moved EXCEPT ![o] = more]
      BY <1>3 DEF PayCommit
    <2>6. moved' \in [Orders -> [Moves -> Nat]]
      <3> HIDE DEF more
      <3> QED BY <1>2, <2>4, <2>5 DEF OrderTypeOK
    <2> QED BY <1>3, <2>3, <2>6 DEF PayCommit, OrderTypeOK
  <1>4. CASE TellEvent(t)
    <2> DEFINE more == [e \in Events |-> IF e = s.event THEN told[o][e] + 1
                                                        ELSE told[o][e]]
    <2>1. more \in [Events -> Nat]
      BY <1>2 DEF OrderTypeOK
    <2>2. told' = [told EXCEPT ![o] = more]
      BY <1>4 DEF TellEvent
    <2>3. told' \in [Orders -> [Events -> Nat]]
      <3> HIDE DEF more
      <3> QED BY <1>2, <2>1, <2>2 DEF OrderTypeOK
    <2> QED BY <1>4, <2>3 DEF TellEvent, OrderTypeOK
  <1>5. CASE WriteStatus(t)
    <2>1. s \in Statement /\ s.do \in {"write", "mark"}
      BY <1>1, <1>5, HeadTyped DEF WriteStatus, Facing
    <2>2. s.status \in Statuses
      BY <2>1 DEF Statement, Moves
    <2>3. order[o].placed \in BOOLEAN
      BY <1>2 DEF OrderTypeOK
    <2>4. order' \in [Orders -> [status : Statuses, placed : BOOLEAN]]
      BY <1>2, <1>5, <2>2, <2>3 DEF WriteStatus, SetStatus, OrderTypeOK
    <2> QED BY <1>5, <2>4 DEF WriteStatus, OrderTypeOK
  <1>6. CASE NotePlace(t)
    <2>1. order' \in [Orders -> [status : Statuses, placed : BOOLEAN]]
      BY <1>2, <1>6 DEF NotePlace, SetStatus, OrderTypeOK, Statuses
    <2> QED BY <1>6, <2>1 DEF NotePlace, OrderTypeOK
  <1>7. CASE PayRefused(t) \/ WalkSucceeds(t) \/ WalkExhausted(t)
             \/ RefillRefused(t) \/ StatementFails(t) \/ Die(t)
    BY <1>7 DEF PayRefused, WalkSucceeds, WalkExhausted, RefillRefused,
                StatementFails, Die, Fault, OrderTypeOK
  <1> QED BY <1>3, <1>4, <1>5, <1>6, <1>7 DEF GoesOn

\* A task that was moved leaves the others as they are.
LEMMA OthersStay ==
    ASSUME OrderTypeOK, NEW t \in Tasks, task' = [task EXCEPT ![t] = task'[t]]
    PROVE  /\ DOMAIN task' = Tasks
           /\ \A u \in Tasks : u # t => task'[u] = task[u]
  BY DEF OrderTypeOK

LEMMA TasksTyped ==
    ASSUME OrderTypeOK, NEW t \in Tasks, task' = [task EXCEPT ![t] = task'[t]],
           task'[t] \in {Resting} \cup Running
    PROVE  task' \in [Tasks -> {Resting} \cup Running]
  <1> DEFINE r == task'[t]
  <1>1. task' = [task EXCEPT ![t] = r] /\ r \in {Resting} \cup Running
    OBVIOUS
  <1> HIDE DEF r
  <1> QED BY <1>1 DEF OrderTypeOK

\* The steps of OrderNext, by what they do to the tasks.
LEMMA StepCases ==
    ASSUME [OrderNext]_vars
    PROVE  \/ UNCHANGED vars
           \/ \E o \in Orders : GuestOrderPlaced(o)
           \/ \E t \in Tasks, o \in Orders : Arrive(t, o)
           \/ \E t \in Tasks : PayRead(t)
           \/ \E t \in Tasks : GoesOn(t)
  BY DEF OrderNext, Advance, GoesOn

LEMMA OrderTypeStep == OrderTypeOK /\ [OrderNext]_vars => OrderTypeOK'
  <1> SUFFICES ASSUME OrderTypeOK, [OrderNext]_vars
               PROVE  OrderTypeOK'
    OBVIOUS
  <1>1. CASE UNCHANGED vars
    BY <1>1 DEF vars, OrderTypeOK
  <1>2. ASSUME NEW o \in Orders, GuestOrderPlaced(o)
        PROVE  OrderTypeOK'
    BY <1>2 DEF GuestOrderPlaced, SetStatus, OrderTypeOK, Statuses
  <1>3. ASSUME NEW t \in Tasks, NEW o \in Orders, Arrive(t, o)
        PROVE  OrderTypeOK'
    <2>1. /\ Moved(t, o)
          /\ UNCHANGED <<wallet, moved, told, faults>> /\ acts' \in Nat
          /\ \/ order' = order
             \/ order' = [order EXCEPT ![o] = [status |-> "PENDING", placed |-> FALSE]]
      BY <1>3, ArriveMoves
    <2>2. order' \in [Orders -> [status : Statuses, placed : BOOLEAN]]
      <3> DEFINE new == [status |-> "PENDING", placed |-> FALSE]
      <3>1. new \in [status : Statuses, placed : BOOLEAN]
        BY DEF Statuses
      <3>2. order' = order \/ order' = [order EXCEPT ![o] = new]
        BY <2>1
      <3> HIDE DEF new
      <3> QED BY <3>1, <3>2 DEF OrderTypeOK
    <2>3. task' \in [Tasks -> {Resting} \cup Running]
      BY <2>1, TasksTyped DEF Moved
    <2> QED BY <2>1, <2>2, <2>3 DEF OrderTypeOK
  <1>4. ASSUME NEW t \in Tasks, PayRead(t)
        PROVE  OrderTypeOK'
    <2>1. task' \in [Tasks -> {Resting} \cup Running]
      BY <1>4, ReadTyped, TasksTyped
    <2> QED BY <1>4, <2>1 DEF PayRead, OrderTypeOK
  <1>5. ASSUME NEW t \in Tasks, GoesOn(t)
        PROVE  OrderTypeOK'
    <2>1. task' \in [Tasks -> {Resting} \cup Running]
      BY <1>5, GoesOnMoves, TasksTyped DEF Moved
    <2> QED BY <1>5, <2>1, RecordsStep DEF OrderTypeOK
  <1> QED BY <1>1, <1>2, <1>3, <1>4, <1>5, StepCases

\* The state of wallet, orders, ledger totals, events and tasks has its types,
\* whatever scripts the handlers run.
THEOREM OrderTypeCorrect == OrderSpec => []OrderTypeOK
  <1>1. OrderInit => OrderTypeOK
    BY OrderAssumption DEF OrderInit, OrderTypeOK, Statuses
  <1> QED BY <1>1, OrderTypeStep, PTL DEF OrderSpec

-----------------------------------------------------------------------------
(* Held money is there.                                                    *)

\* A task between the read and the commit of a call of billing was permitted
\* by the row it read.
PayingInv ==
    \A t \in Tasks :
        task[t] # Resting /\ task[t].at = "commit" =>
            /\ task[t].script # <<>>
            /\ Head(task[t].script).do \in Moves
            /\ Permits(task[t].seen, Head(task[t].script))

\* A permitted call keeps a row covered.
LEMMA AfterCovered ==
    ASSUME NEW w \in WalletRow, Covered(w), NEW s \in Statement, s.do \in Moves,
           Permits(w, s)
    PROVE  Covered(After(w, s))
  <1>1. s.amount \in Nat /\ w.balance \in Int /\ w.hold \in Int
    BY AmountTyped DEF WalletRow
  <1>2. CASE s.do = "hold"
    BY <1>1, <1>2 DEF Permits, After, CanHold, Available, Held, Covered
  <1>3. CASE s.do = "release"
    BY <1>1, <1>3 DEF Permits, After, CanSettle, Released, Covered
  <1>4. CASE s.do = "charge"
    BY <1>1, <1>4 DEF Permits, After, CanSettle, Charged, Covered
  <1>5. CASE s.do = "refund"
    BY <1>1, <1>5 DEF Permits, After, Credited, Covered
  <1> QED BY <1>2, <1>3, <1>4, <1>5 DEF Moves

LEMMA HeldStep ==
    OrderTypeOK /\ OrderTypeOK' /\ PayingInv /\ HeldIsThere /\ [OrderNext]_vars
        => PayingInv' /\ HeldIsThere'
  <1> SUFFICES ASSUME OrderTypeOK, OrderTypeOK', PayingInv, HeldIsThere,
                      [OrderNext]_vars
               PROVE  PayingInv' /\ HeldIsThere'
    OBVIOUS
  <1>1. CASE UNCHANGED vars
    BY <1>1 DEF vars, PayingInv, HeldIsThere
  <1>2. ASSUME NEW o \in Orders, GuestOrderPlaced(o)
        PROVE  PayingInv' /\ HeldIsThere'
    BY <1>2 DEF GuestOrderPlaced, PayingInv, HeldIsThere
  <1>3. ASSUME NEW t \in Tasks, NEW o \in Orders, Moved(t, o), Covered(wallet')
        PROVE  PayingInv' /\ HeldIsThere'
    <2>1. \A u \in Tasks : u # t => task'[u] = task[u]
      BY <1>3, OthersStay DEF Moved
    <2>2. task'[t] = Resting \/ task'[t].at = "next"
      BY <1>3 DEF Moved
    <2> QED BY <1>3, <2>1, <2>2 DEF PayingInv, HeldIsThere
  <1>4. ASSUME NEW t \in Tasks, NEW o \in Orders, Arrive(t, o)
        PROVE  PayingInv' /\ HeldIsThere'
    BY <1>3, <1>4, ArriveMoves DEF HeldIsThere
  <1>5. ASSUME NEW t \in Tasks, PayRead(t)
        PROVE  PayingInv' /\ HeldIsThere'
    <2>1. \A u \in Tasks : u # t => task'[u] = task[u]
      BY <1>5, ReadTyped, OthersStay
    <2>2. wallet' = wallet
      BY <1>5 DEF PayRead
    <2> QED BY <1>5, <2>1, <2>2, ReadTyped DEF PayingInv, HeldIsThere
  <1>6. ASSUME NEW t \in Tasks, GoesOn(t)
        PROVE  PayingInv' /\ HeldIsThere'
    <2>1. task[t] # Resting /\ task[t].order \in Orders /\ Moved(t, task[t].order)
      BY <1>6, GoesOnMoves, RunningTask
    <2>2. CASE PayCommit(t)
      <3> DEFINE s == Head(task[t].script)
      <3>1. /\ s \in Statement /\ s.do \in Moves
            /\ Permits(task[t].seen, s) /\ Covered(task[t].seen)
            /\ wallet' = After(task[t].seen, s)
        BY <2>1, <2>2, HeadTyped DEF PayCommit, Facing, PayingInv, HeldIsThere
      <3>2. Covered(wallet')
        BY <2>1, <3>1, AfterCovered, RunningTask
      <3> QED BY <1>3, <2>1, <3>2
    <2>3. CASE wallet' = wallet
      BY <1>3, <2>1, <2>3 DEF HeldIsThere
    <2> QED BY <1>6, <2>2, <2>3 DEF GoesOn, PayRefused, WalkSucceeds,
            WalkExhausted, RefillRefused, NotePlace, WriteStatus, TellEvent,
            StatementFails, Die
  <1> QED BY <1>1, <1>2, <1>4, <1>5, <1>6, StepCases

\* With any number of orders, workers and administrators, however they race,
\* throw and die, no more is held than is there, and no hold is negative.
THEOREM HeldStaysThere == OrderSpec => []HeldIsThere
  <1>1. OrderInit => PayingInv /\ HeldIsThere
    BY OrderAssumption DEF OrderInit, PayingInv, HeldIsThere
  <1> QED BY <1>1, HeldStep, OrderTypeStep, OrderTypeCorrect, PTL DEF OrderSpec

-----------------------------------------------------------------------------
(* What has ended stays so.                                                *)

\* A task touches only the order it has read.
LEMMA GoesOnTouches ==
    ASSUME OrderTypeOK, NEW t \in Tasks, GoesOn(t), NEW o \in Orders,
           o # task[t].order
    PROVE  order'[o] = order[o] /\ moved'[o] = moved[o] /\ told'[o] = told[o]
  <1>1. CASE PayCommit(t)
    BY <1>1 DEF PayCommit, OrderTypeOK
  <1>2. CASE NotePlace(t) \/ WriteStatus(t)
    BY <1>2 DEF NotePlace, WriteStatus, SetStatus, OrderTypeOK
  <1>3. CASE TellEvent(t)
    BY <1>3 DEF TellEvent, OrderTypeOK
  <1> QED BY <1>1, <1>2, <1>3 DEF GoesOn, PayRefused, WalkSucceeds,
          WalkExhausted, RefillRefused, StatementFails, Die

\* No handler begins on an order that has ended, and no task takes it up.
LEMMA EndedStep ==
    ASSUME OrderTypeOK, [OrderNext]_vars, NEW o \in Orders \ AdminOrders,
           order[o].status \in Ended, ~InHand(o)
    PROVE  /\ order'[o] = order[o]
           /\ moved'[o] = moved[o]
           /\ told'[o] = told[o]
           /\ ~InHand(o)'
  <1>1. CASE UNCHANGED vars
    BY <1>1 DEF vars, InHand
  <1>2. ASSUME NEW g \in Orders, GuestOrderPlaced(g)
        PROVE  order'[o] = order[o] /\ UNCHANGED <<moved, told, task>>
    BY <1>2 DEF GuestOrderPlaced, SetStatus, OrderTypeOK, Ended
  <1>3. ASSUME NEW t \in Tasks, NEW p \in Orders, Moved(t, p), p # o
        PROVE  ~InHand(o)'
    <2>1. \A u \in Tasks : u # t => task'[u] = task[u]
      BY <1>3, OthersStay DEF Moved
    <2> QED BY <1>3, <2>1 DEF InHand, Moved
  <1>4. ASSUME NEW t \in Tasks, NEW p \in Orders, Arrive(t, p)
        PROVE  /\ order'[o] = order[o] /\ UNCHANGED <<moved, told>>
               /\ ~InHand(o)'
    <2>1. p # o
      BY <1>4, ArriveMoves
    <2>2. order'[o] = order[o]
      BY <1>4, <2>1, ArriveMoves DEF OrderTypeOK
    <2> QED BY <1>3, <1>4, <2>1, <2>2, ArriveMoves
  <1>5. ASSUME NEW t \in Tasks, PayRead(t)
        PROVE  UNCHANGED <<order, moved, told>> /\ ~InHand(o)'
    <2>1. \A u \in Tasks : u # t => task'[u] = task[u]
      BY <1>5, ReadTyped, OthersStay
    <2>2. UNCHANGED <<order, moved, told>>
      BY <1>5 DEF PayRead
    <2>3. task[t] # Resting /\ task'[t].order = task[t].order
      BY <1>5, ReadTyped
    <2>4. task[t].order # o
      BY <2>3 DEF InHand
    <2>5. ~InHand(o)'
      BY <2>1, <2>3, <2>4 DEF InHand
    <2> QED BY <2>2, <2>5
  <1>6. ASSUME NEW t \in Tasks, GoesOn(t)
        PROVE  /\ order'[o] = order[o] /\ moved'[o] = moved[o]
               /\ told'[o] = told[o] /\ ~InHand(o)'
    <2>1. task[t] # Resting /\ task[t].order \in Orders /\ Moved(t, task[t].order)
      BY <1>6, GoesOnMoves, RunningTask
    <2>2. task[t].order # o
      BY <2>1 DEF InHand
    <2> QED BY <1>3, <1>6, <2>1, <2>2, GoesOnTouches
  <1>7. CASE \E g \in Orders : GuestOrderPlaced(g)
    BY <1>2, <1>7 DEF InHand
  <1> QED BY <1>1, <1>4, <1>5, <1>6, <1>7, StepCases

\* An order that has ended and is in no task's hands is never touched again
\* but by an administrator.
THEOREM EndedStaysFinal == OrderSpec => EndedIsFinal
  <1> DEFINE Final ==
        \A o \in Orders \ AdminOrders :
            order[o].status \in Ended /\ ~InHand(o) =>
                /\ order'[o] = order[o]
                /\ moved'[o] = moved[o]
                /\ told'[o] = told[o]
                /\ ~InHand(o)'
  <1>1. OrderTypeOK /\ [OrderNext]_vars => [Final]_vars
    BY EndedStep
  <1> QED BY <1>1, OrderTypeCorrect, PTL DEF OrderSpec, EndedIsFinal
-----------------------------------------------------------------------------
(* A charge was announced.                                                 *)

Charges(s) == {i \in 1..Len(s) : s[i].do = "charge"}

Announces(s) ==
    {i \in 1..Len(s) : s[i].do = "tell" /\ s[i].event \in {"completed", "partial"}}

Completes(s) == {i \in 1..Len(s) : s[i].do = "tell" /\ s[i].event = "completed"}

\* s charges more than the price.
Over(o, s) == \E i \in Charges(s) : ~(s[i].amount <= Price[o])

\* The scripts of workers and customers: one charge at most, of the worth at
\* most and of no more than the price if all of it was done, and every
\* announcement in front of it.
Chargeable(o, s) ==
    /\ \A i \in Charges(s) : s[i].amount <= Worth(o)
    /\ \A i, j \in Charges(s) : i = j
    /\ \A i \in Charges(s), j \in Announces(s) : j < i
    /\ Over(o, s) => Completes(s) = {}

Chargeless(s) == Charges(s) = {}

LEMMA ChargelessIsChargeable ==
    ASSUME NEW s, Chargeless(s), NEW o
    PROVE  Chargeable(o, s)
  BY DEF Chargeless, Chargeable, Over

LEMMA ConcatSounds ==
    ASSUME NEW p \in Seq(Statement), NEW q \in Seq(Statement)
    PROVE  /\ Chargeless(p) /\ Chargeless(q) => Chargeless(p \o q)
           /\ Announces(p) # {} \/ Announces(q) # {} => Announces(p \o q) # {}
           /\ Completes(p) = {} /\ Completes(q) = {} => Completes(p \o q) = {}
           /\ \A o : Chargeless(p) /\ Announces(q) = {} /\ Chargeable(o, q)
                     /\ (Over(o, q) => Completes(p) = {})
                        => Chargeable(o, p \o q)
  <1> HIDE DEF Statement
  <1> DEFINE r == p \o q
  <1>1. /\ Len(p) \in Nat /\ Len(q) \in Nat /\ Len(r) = Len(p) + Len(q)
        /\ \A i \in 1..Len(r) :
              r[i] = IF i <= Len(p) THEN p[i] ELSE q[i - Len(p)]
    BY ConcatProperties
  <1>2. ASSUME NEW i \in 1..Len(r)
        PROVE  \/ i \in 1..Len(p) /\ r[i] = p[i]
               \/ i - Len(p) \in 1..Len(q) /\ r[i] = q[i - Len(p)] /\ i > Len(p)
    BY <1>1
  <1>3. /\ \A i \in 1..Len(p) : i \in 1..Len(r) /\ r[i] = p[i]
        /\ \A i \in 1..Len(q) : i + Len(p) \in 1..Len(r) /\ r[i + Len(p)] = q[i]
    <2>1. \A i \in 1..Len(p) : i \in 1..Len(r) /\ r[i] = p[i]
      BY <1>1
    <2>2. ASSUME NEW i \in 1..Len(q)
          PROVE  i + Len(p) \in 1..Len(r) /\ r[i + Len(p)] = q[i]
      <3>1. /\ i + Len(p) \in 1..Len(r) /\ ~(i + Len(p) <= Len(p))
            /\ (i + Len(p)) - Len(p) = i
        BY <1>1
      <3> HIDE DEF r
      <3> QED BY <1>1, <3>1
    <2> QED BY <2>1, <2>2
  <1> HIDE DEF r
  <1>4. \A i \in Charges(r) :
            i \in Charges(p)
            \/ (i - Len(p) \in Charges(q) /\ r[i] = q[i - Len(p)] /\ i > Len(p))
    BY <1>2 DEF Charges
  <1>5. \A i \in Announces(r) : i \in 1..Len(p) \/ i - Len(p) \in Announces(q)
    BY <1>2 DEF Announces
  <1>9. \A i \in Completes(r) : i \in Completes(p) \/ i - Len(p) \in Completes(q)
    BY <1>2 DEF Completes
  <1>6. Announces(p) # {} \/ Announces(q) # {} => Announces(r) # {}
    <2>1. ASSUME NEW i \in Announces(p)
          PROVE  i \in Announces(r)
      BY <1>3 DEF Announces
    <2>2. ASSUME NEW i \in Announces(q)
          PROVE  i + Len(p) \in Announces(r)
      BY <1>3 DEF Announces
    <2> QED BY <2>1, <2>2
  <1>7. Chargeless(p) /\ Chargeless(q) => Chargeless(r)
    BY <1>4 DEF Chargeless
  <1>8. ASSUME NEW o, Chargeless(p), Announces(q) = {}, Chargeable(o, q),
               Over(o, q) => Completes(p) = {}
        PROVE  Chargeable(o, r)
    <2>1. \A i \in Charges(r) :
              i - Len(p) \in Charges(q) /\ r[i] = q[i - Len(p)] /\ i > Len(p)
      BY <1>4, <1>8 DEF Chargeless
    <2>2. \A j \in Announces(r) : j \in 1..Len(p)
      BY <1>5, <1>8
    <2>3. Charges(r) \subseteq Int /\ Announces(r) \subseteq Int
      BY DEF Charges, Announces
    <2>4. \A i \in Charges(r) : r[i].amount <= Worth(o)
      BY <1>8, <2>1 DEF Chargeable
    <2>5. \A i, j \in Charges(r) : i = j
      <3> SUFFICES ASSUME NEW i \in Charges(r), NEW j \in Charges(r)
                   PROVE  i = j
        OBVIOUS
      <3>1. i - Len(p) = j - Len(p)
        BY <1>8, <2>1 DEF Chargeable
      <3> QED BY <1>1, <2>3, <3>1
    <2>6. \A i \in Charges(r), j \in Announces(r) : j < i
      BY <1>1, <2>1, <2>2, <2>3
    <2>7. Over(o, r) => Completes(r) = {}
      <3> SUFFICES ASSUME Over(o, r)
                   PROVE  Completes(r) = {}
        OBVIOUS
      <3>1. Over(o, q)
        BY <2>1 DEF Over
      <3>2. Completes(q) \subseteq Announces(q)
        BY DEF Completes, Announces
      <3> QED BY <1>8, <1>9, <3>1, <3>2
    <2> QED BY <2>4, <2>5, <2>6, <2>7 DEF Chargeable
  <1> QED BY <1>6, <1>7, <1>8, <1>9 DEF r

LEMMA ShortSounds ==
    /\ Chargeless(<<>>) /\ Announces(<<>>) = {} /\ Completes(<<>>) = {}
    /\ \A s \in Statement :
          /\ s.do # "charge" => Chargeless(<<s>>)
          /\ s.do # "tell" \/ s.event # "completed" => Completes(<<s>>) = {}
          /\ s.do # "tell" => Announces(<<s>>) = {}
          /\ s.do = "tell" /\ s.event \in {"completed", "partial"}
                => Announces(<<s>>) # {}
    /\ \A s, u \in Statement : s.do # "charge" /\ u.do # "charge" => Chargeless(<<s, u>>)
    /\ \A s, u, v \in Statement :
          s.do # "charge" /\ u.do # "charge" /\ v.do # "charge" => Chargeless(<<s, u, v>>)
  <1> HIDE DEF Statement
  <1>1. Chargeless(<<>>) /\ Announces(<<>>) = {} /\ Completes(<<>>) = {}
    BY DEF Chargeless, Charges, Announces, Completes
  <1>2. ASSUME NEW s \in Statement
        PROVE  /\ s.do # "charge" => Chargeless(<<s>>)
               /\ s.do # "tell" \/ s.event # "completed" => Completes(<<s>>) = {}
               /\ s.do # "tell" => Announces(<<s>>) = {}
               /\ s.do = "tell" /\ s.event \in {"completed", "partial"}
                     => Announces(<<s>>) # {}
    <2>1. Len(<<s>>) = 1 /\ <<s>>[1] = s /\ 1..1 = {1}
      OBVIOUS
    <2> QED BY <2>1 DEF Chargeless, Charges, Announces, Completes
  <1>3. ASSUME NEW s \in Statement, NEW u \in Statement,
               s.do # "charge", u.do # "charge"
        PROVE  Chargeless(<<s, u>>)
    <2>1. Len(<<s, u>>) = 2 /\ \A i \in 1..2 : <<s, u>>[i] \in {s, u}
      OBVIOUS
    <2> QED BY <1>3, <2>1 DEF Chargeless, Charges
  <1>4. ASSUME NEW s \in Statement, NEW u \in Statement, NEW v \in Statement,
               s.do # "charge", u.do # "charge", v.do # "charge"
        PROVE  Chargeless(<<s, u, v>>)
    <2>1. Len(<<s, u, v>>) = 3 /\ \A i \in 1..3 : <<s, u, v>>[i] \in {s, u, v}
      OBVIOUS
    <2> QED BY <1>4, <2>1 DEF Chargeless, Charges
  <1> QED BY <1>1, <1>2, <1>3, <1>4

LEMMA PairConcat ==
    ASSUME NEW a, NEW b
    PROVE  <<a>> \o <<b>> = <<a, b>>
  <1> DEFINE pair == <<a>> \o <<b>>
  <1>1. /\ <<a>> \in Seq({a, b}) /\ Len(<<a>>) = 1 /\ <<a>>[1] = a
        /\ <<b>> \in Seq({a, b}) /\ Len(<<b>>) = 1 /\ <<b>>[1] = b
        /\ <<a, b>> \in Seq({a, b}) /\ Len(<<a, b>>) = 2
        /\ <<a, b>>[1] = a /\ <<a, b>>[2] = b
    OBVIOUS
  <1>2. /\ pair \in Seq({a, b}) /\ Len(pair) = 2
        /\ \A i \in 1..2 : pair[i] = IF i <= 1 THEN <<a>>[i] ELSE <<b>>[i - 1]
    BY <1>1, ConcatProperties
  <1> HIDE DEF pair
  <1>3. \A i \in 1..2 : i = 1 \/ i = 2
    OBVIOUS
  <1>4. pair[1] = a /\ pair[2] = b
    BY <1>1, <1>2
  <1>5. \A i \in 1..2 : pair[i] = <<a, b>>[i]
    BY <1>1, <1>3, <1>4
  <1> QED BY <1>1, <1>2, <1>5, SeqEqual DEF pair

\* A charge that stands alone or first.
LEMMA PartsForms ==
    ASSUME NEW o, NEW done
    PROVE  \/ /\ ~(done > 0) /\ ~(Price[o] - done > 0)
              /\ Parts(o, done) = <<>>
           \/ /\ done > 0 /\ ~(Price[o] - done > 0)
              /\ Parts(o, done) = <<Pay("charge", done)>>
           \/ /\ ~(done > 0) /\ Price[o] - done > 0
              /\ Parts(o, done) = <<Pay("release", Price[o] - done)>>
           \/ /\ done > 0 /\ Price[o] - done > 0
              /\ Parts(o, done) = <<Pay("charge", done), Pay("release", Price[o] - done)>>
  <1> DEFINE part == Pay("charge", done)
             rest == Pay("release", Price[o] - done)
  <1>1. <<part>> \o <<rest>> = <<part, rest>>
    BY PairConcat
  <1>2. /\ <<>> \o <<rest>> = <<rest>> /\ <<part>> \o <<>> = <<part>>
        /\ <<>> \o <<>> = <<>>
    <2>1. \A a : <<>> \o <<a>> = <<a>> /\ <<a>> \o <<>> = <<a>>
      OBVIOUS
    <2>2. <<>> \o <<>> = <<>>
      OBVIOUS
    <2> QED BY <2>1, <2>2
  <1>3. Parts(o, done) = (IF done > 0 THEN <<part>> ELSE <<>>)
                         \o (IF Price[o] - done > 0 THEN <<rest>> ELSE <<>>)
    BY DEF Parts
  <1> HIDE DEF part, rest
  <1>4. CASE done > 0
    BY <1>1, <1>2, <1>3, <1>4 DEF part, rest
  <1>5. CASE ~(done > 0)
    BY <1>1, <1>2, <1>3, <1>5 DEF part, rest
  <1> QED BY <1>4, <1>5

\* A charge that stands alone or first.
LEMMA SplitSounds ==
    ASSUME NEW o \in Orders, NEW remains \in Remains
    PROVE  /\ Chargeable(o, <<Pay("charge", Price[o])>>)
           /\ ~Over(o, <<Pay("charge", Price[o])>>)
           /\ Announces(<<Pay("charge", Price[o])>>) = {}
           /\ Chargeable(o, Split(o, remains))
           /\ Announces(Split(o, remains)) = {}
  <1> DEFINE c == DonePrice(o, remains)
             whole == Pay("charge", Price[o])
             part == Pay("charge", c)
             rest == Pay("release", Price[o] - c)
  <1>1. /\ Price[o] \in Nat /\ Worth(o) \in Nat /\ Price[o] <= Worth(o)
        /\ remains # NoNumber => c <= Worth(o)
    BY WorthIsMost
  <1>2. /\ whole.do = "charge" /\ whole.amount = Price[o]
        /\ part.do = "charge" /\ part.amount = c
        /\ rest.do = "release"
    BY DEF Pay
  <1>3. \/ Split(o, remains) \in {<<>>, <<rest>>}
        \/ c <= Worth(o) /\ Split(o, remains) \in {<<part>>, <<part, rest>>}
    <2>1. CASE remains = NoNumber
      BY <2>1 DEF Split
    <2>2. CASE remains # NoNumber
      <3>1. Parts(o, c) \in {<<>>, <<rest>>, <<part>>, <<part, rest>>}
        BY PartsForms
      <3>2. Split(o, remains) = Parts(o, c)
        BY <2>2 DEF Split
      <3> HIDE DEF c, part, rest
      <3> QED BY <1>1, <2>2, <3>1, <3>2
    <2> QED BY <2>1, <2>2
  <1> HIDE DEF c, whole, part, rest
  <1>4. ASSUME NEW s, \/ s \in {<<>>, <<whole>>, <<rest>>}
                      \/ c <= Worth(o) /\ s \in {<<part>>, <<part, rest>>}
        PROVE  Chargeable(o, s) /\ Announces(s) = {}
    <2>1. CASE s = <<>>
      BY <2>1, ShortSounds, ChargelessIsChargeable
    <2>2. CASE s \in {<<whole>>, <<part>>, <<rest>>}
      <3>1. /\ Len(s) = 1 /\ 1..1 = {1} /\ s[1].do \in {"charge", "release"}
            /\ s[1].do = "charge" => s[1].amount <= Worth(o)
        <4>1. CASE s = <<part>> /\ c <= Worth(o)
          BY <4>1, <1>2
        <4>2. CASE s = <<whole>>
          BY <4>2, <1>1, <1>2
        <4>3. CASE s = <<rest>>
          BY <4>3, <1>2
        <4> QED BY <1>4, <2>2, <4>1, <4>2, <4>3
      <3>2. Announces(s) = {} /\ Completes(s) = {} /\ Charges(s) \subseteq {1}
        BY <3>1 DEF Charges, Announces, Completes
      <3>3. \A i \in Charges(s) : s[i].amount <= Worth(o)
        BY <3>1, <3>2 DEF Charges
      <3> QED BY <3>2, <3>3 DEF Chargeable
    <2>3. CASE s = <<part, rest>> /\ c <= Worth(o)
      <3>1. Len(s) = 2 /\ s[1] = part /\ s[2] = rest
        BY <2>3
      <3>2. \A i \in 1..2 : i = 1 \/ i = 2
        OBVIOUS
      <3>3. Announces(s) = {} /\ Completes(s) = {} /\ \A i \in Charges(s) : i = 1
        BY <1>2, <3>1, <3>2 DEF Charges, Announces, Completes
      <3> QED BY <1>2, <2>3, <3>1, <3>3 DEF Chargeable
    <2>4. s = <<>> \/ s \in {<<whole>>, <<part>>, <<rest>>}
          \/ (s = <<part, rest>> /\ c <= Worth(o))
      <3>1. CASE s \in {<<>>, <<whole>>, <<rest>>}
        BY <3>1
      <3>2. CASE c <= Worth(o) /\ s \in {<<part>>, <<part, rest>>}
        BY <3>2
      <3> QED BY <1>4, <3>1, <3>2
    <2> QED BY <2>1, <2>2, <2>3, <2>4
  <1>5. ~Over(o, <<whole>>)
    <2>1. Len(<<whole>>) = 1 /\ <<whole>>[1] = whole /\ 1..1 = {1}
      OBVIOUS
    <2> QED BY <1>1, <1>2, <2>1 DEF Over, Charges
  <1> QED BY <1>3, <1>4, <1>5 DEF whole

\* A worker tells that an order was completed, wholly or in part, before it
\* charges for it.
LEMMA EndSounds ==
    ASSUME NEW o \in Orders, NEW status \in Ended, NEW remains \in Remains,
           NEW refills \in BOOLEAN
    PROVE  /\ Chargeable(o, End(o, status, remains, refills))
           /\ \/ Chargeless(End(o, status, remains, refills))
              \/ Announces(End(o, status, remains, refills)) # {}
  <1> DEFINE w == <<Write(status)>>
             m == Mark(status, refills)
             a == Announcement(status)
             s == Settlement(o, status, remains)
  <1>1. w \in Seq(Statement) /\ Chargeless(w) /\ Completes(w) = {}
    <2>1. Write(status) \in Statement /\ Write(status).do \notin {"charge", "tell"}
      BY WriteTyped DEF Statuses, Write
    <2> QED BY <2>1, ShortScripts, ShortSounds
  <1>2. m \in Seq(Statement) /\ Chargeless(m) /\ Completes(m) = {}
    <2> DEFINE k == [do |-> "mark", status |-> "COMPLETED"]
    <2>1. k \in Statement /\ k.do \notin {"charge", "tell"}
      BY WriteTyped DEF Statuses, Ended
    <2>2. m \in {<<k>>, <<>>}
      BY DEF Mark
    <2> HIDE DEF m, k
    <2> QED BY <2>1, <2>2, ShortScripts, ShortSounds
  <1>3. /\ a \in Seq(Statement) /\ Chargeless(a)
        /\ status \in {"COMPLETED", "PARTIAL"} => Announces(a) # {}
        /\ status # "COMPLETED" => Completes(a) = {}
    <2>1. ASSUME NEW e \in Events
          PROVE  /\ Tell(e) \in Statement /\ Tell(e).do = "tell"
                 /\ Tell(e).event = e
      BY TellTyped DEF Tell
    <2>2. {"completed", "partial", "failed"} \subseteq Events
      BY DEF Events
    <2>3. /\ status = "COMPLETED" => a = <<Tell("completed")>>
          /\ status = "PARTIAL" => a = <<Tell("partial")>>
          /\ status = "FAILED" => a = <<Tell("failed")>>
          /\ status = "CANCELLED" => a = <<>>
      BY DEF Announcement
    <2>4. status \in {"COMPLETED", "PARTIAL", "FAILED", "CANCELLED"}
      BY DEF Ended
    <2>5. ASSUME NEW e \in {"completed", "partial", "failed"}
          PROVE  /\ <<Tell(e)>> \in Seq(Statement) /\ Chargeless(<<Tell(e)>>)
                 /\ e # "failed" => Announces(<<Tell(e)>>) # {}
                 /\ e # "completed" => Completes(<<Tell(e)>>) = {}
      <3> DEFINE l == Tell(e)
      <3>1. l \in Statement /\ l.do = "tell" /\ l.event = e
        BY <2>1, <2>2
      <3> HIDE DEF l, Statement
      <3>2. /\ <<l>> \in Seq(Statement) /\ Chargeless(<<l>>)
            /\ e \in {"completed", "partial"} => Announces(<<l>>) # {}
            /\ e # "completed" => Completes(<<l>>) = {}
        BY <3>1, ShortScripts, ShortSounds
      <3> QED BY <3>2 DEF l
    <2>6. <<>> \in Seq(Statement) /\ Chargeless(<<>>) /\ Completes(<<>>) = {}
      BY ShortScripts, ShortSounds
    <2> HIDE DEF a
    <2> QED BY <2>3, <2>4, <2>5, <2>6
  <1>4. /\ s \in Seq(Statement) /\ Announces(s) = {} /\ Chargeable(o, s)
        /\ status \notin {"COMPLETED", "PARTIAL"} => Chargeless(s)
        /\ status # "PARTIAL" => ~Over(o, s)
    <2>1. Pay("release", Price[o]) \in Statement
          /\ Pay("release", Price[o]).do = "release"
      BY OrderAssumption, PayTyped, MovesNamed DEF Pay
    <2>2. /\ status = "COMPLETED" => s = <<Pay("charge", Price[o])>>
          /\ status = "PARTIAL" => s = Split(o, remains)
          /\ status = "FAILED" => s = <<Pay("release", Price[o])>>
          /\ status = "CANCELLED" => s = <<>>
      BY DEF Settlement
    <2>3. status \in {"COMPLETED", "PARTIAL", "FAILED", "CANCELLED"}
      BY DEF Ended
    <2>4. s \in Seq(Statement)
      BY SettlementTyped
    <2> HIDE DEF s
    <2>5. CASE status \in {"COMPLETED", "PARTIAL"}
      BY <2>2, <2>4, <2>5, SplitSounds
    <2>6. CASE status \in {"FAILED", "CANCELLED"}
      BY <2>1, <2>2, <2>4, <2>6, ShortSounds, ChargelessIsChargeable DEF Over, Chargeless
    <2> QED BY <2>3, <2>5, <2>6
  <1>5. End(o, status, remains, refills) = ((w \o m) \o a) \o s
    BY DEF End
  <1> HIDE DEF w, m, a, s
  <1>6. w \o m \in Seq(Statement) /\ Chargeless(w \o m) /\ Completes(w \o m) = {}
    BY <1>1, <1>2, ConcatSounds, ShortScripts
  <1> DEFINE p == (w \o m) \o a
  <1>7. /\ p \in Seq(Statement) /\ Chargeless(p)
        /\ status \in {"COMPLETED", "PARTIAL"} => Announces(p) # {}
        /\ status # "COMPLETED" => Completes(p) = {}
    <2>1. p \in Seq(Statement)
      BY <1>3, <1>6, ShortScripts
    <2>2. Chargeless(p)
      BY <1>3, <1>6, ConcatSounds
    <2>3. Announces(a) # {} => Announces(p) # {}
      <3>1. ASSUME Announces(a) # {}
            PROVE  Announces(p) # {}
        BY <1>3, <1>6, <3>1, ConcatSounds
      <3> QED BY <3>1
    <2>4. Completes(a) = {} => Completes(p) = {}
      BY <1>3, <1>6, ConcatSounds
    <2> QED BY <1>3, <2>1, <2>2, <2>3, <2>4
  <1> HIDE DEF p
  <1>8. Chargeable(o, p \o s)
    BY <1>4, <1>7, ConcatSounds
  <1>9. Chargeless(p \o s) \/ Announces(p \o s) # {}
    BY <1>4, <1>7, ConcatSounds
  <1> QED BY <1>5, <1>8, <1>9 DEF p

\* What is left of such a script is such a script; its charge is the last
\* thing it has to do with announcements.
LEMMA TailSounds ==
    ASSUME NEW s \in Seq(Statement), s # <<>>
    PROVE  /\ Chargeless(s) => Chargeless(Tail(s))
           /\ \A o : Chargeable(o, s) => Chargeable(o, Tail(s))
           /\ \A o : Over(o, Tail(s)) => Over(o, s)
           /\ \A o : Chargeable(o, s) /\ Over(o, s)
                    => ~(Head(s).do = "tell" /\ Head(s).event = "completed")
           /\ \A o : Chargeable(o, s) /\ Head(s).do = "charge"
                    => /\ Head(s).amount <= Worth(o)
                       /\ Head(s).amount <= Price[o] \/ Over(o, s)
                       /\ Chargeless(Tail(s)) /\ Announces(s) = {} /\ ~Chargeless(s)
           /\ Announces(Tail(s)) = {} =>
                 \/ Announces(s) = {}
                 \/ Head(s).do = "tell" /\ Head(s).event \in {"completed", "partial"}
  <1> HIDE DEF Statement
  <1> DEFINE r == Tail(s)
  <1>1. /\ Len(s) \in Nat /\ Len(s) >= 1 /\ Len(r) = Len(s) - 1
        /\ \A i \in 1..Len(r) : r[i] = s[i + 1]
        /\ Head(s) = s[1]
    <2>1. /\ Len(s) \in Nat \ {0} /\ Len(r) = Len(s) - 1
          /\ \A i \in 1..Len(r) : r[i] = s[i + 1]
      BY EmptySeq, LenProperties, HeadTailProperties
    <2>2. Head(s) = s[1]
      OBVIOUS
    <2> QED BY <2>1, <2>2
  <1> HIDE DEF r
  <1>2. \A i \in 1..Len(r) : i + 1 \in 1..Len(s) /\ i + 1 > 1 /\ r[i] = s[i + 1]
    BY <1>1
  <1>3. \A i \in Charges(r) : i + 1 \in Charges(s) /\ r[i] = s[i + 1] /\ i \in Nat
    BY <1>2 DEF Charges
  <1>4. \A i \in Announces(r) : i + 1 \in Announces(s) /\ i \in Nat
    BY <1>2 DEF Announces
  <1>5. ASSUME NEW o, Chargeable(o, s)
        PROVE  Chargeable(o, r)
    <2>1. \A i \in Charges(r) : r[i].amount <= Worth(o)
      BY <1>3, <1>5 DEF Chargeable
    <2>2. \A i, j \in Charges(r) : i = j
      <3> SUFFICES ASSUME NEW i \in Charges(r), NEW j \in Charges(r)
                   PROVE  i = j
        OBVIOUS
      <3>1. i + 1 = j + 1 /\ i \in Nat /\ j \in Nat
        BY <1>3, <1>5 DEF Chargeable
      <3> QED BY <3>1
    <2>3. \A i \in Charges(r), j \in Announces(r) : j < i
      <3> SUFFICES ASSUME NEW i \in Charges(r), NEW j \in Announces(r)
                   PROVE  j < i
        OBVIOUS
      <3>1. j + 1 < i + 1 /\ i \in Nat /\ j \in Nat
        BY <1>3, <1>4, <1>5 DEF Chargeable
      <3> QED BY <3>1
    <2>4. Over(o, r) => Completes(r) = {}
      <3>1. Over(o, r) => Over(o, s)
        BY <1>3 DEF Over
      <3>2. Completes(s) = {} => Completes(r) = {}
        BY <1>2 DEF Completes
      <3> QED BY <1>5, <3>1, <3>2 DEF Chargeable
    <2> QED BY <2>1, <2>2, <2>3, <2>4 DEF Chargeable
  <1>6. ASSUME NEW o, Chargeable(o, s), Head(s).do = "charge"
        PROVE  /\ Head(s).amount <= Worth(o)
               /\ Head(s).amount <= Price[o] \/ Over(o, s)
               /\ Chargeless(r) /\ Announces(s) = {} /\ ~Chargeless(s)
    <2>1. 1 \in Charges(s) /\ Head(s) = s[1]
      BY <1>1, <1>6 DEF Charges
    <2>2. s[1].amount <= Worth(o) /\ (s[1].amount <= Price[o] \/ Over(o, s))
      BY <1>6, <2>1 DEF Chargeable, Over
    <2>3. \A i \in Charges(s) : i = 1
      BY <1>6, <2>1 DEF Chargeable
    <2>4. Chargeless(r)
      <3>1. ASSUME NEW i \in Charges(r)
            PROVE  FALSE
        <4>1. i + 1 = 1 /\ i \in Nat /\ i \in 1..Len(r)
          BY <1>3, <2>3 DEF Charges
        <4> QED BY <4>1
      <3> QED BY <3>1 DEF Chargeless
    <2>5. \A j \in Announces(s) : j < 1 /\ j \in 1..Len(s)
      BY <1>6, <2>1 DEF Chargeable, Announces
    <2>6. Announces(s) = {}
      BY <1>1, <2>5
    <2> QED BY <2>1, <2>2, <2>4, <2>6 DEF Chargeless
  <1>7. ASSUME Announces(r) = {}, Announces(s) # {}
        PROVE  Head(s).do = "tell" /\ Head(s).event \in {"completed", "partial"}
    <2>1. PICK j \in Announces(s) : TRUE
      BY <1>7
    <2>2. j = 1 \/ (j - 1 \in 1..Len(r) /\ (j - 1) + 1 = j)
      BY <1>1 DEF Announces
    <2>3. j - 1 \in 1..Len(r) /\ (j - 1) + 1 = j => j - 1 \in Announces(r)
      BY <1>2 DEF Announces
    <2>4. j = 1
      BY <1>7, <2>2, <2>3
    <2> QED BY <1>1, <2>4 DEF Announces
  <1>8. Chargeless(s) => Chargeless(r)
    BY <1>3 DEF Chargeless
  <1>9. \A o : Over(o, r) => Over(o, s)
    BY <1>3 DEF Over
  <1>10. ASSUME NEW o, Chargeable(o, s), Over(o, s)
         PROVE  ~(Head(s).do = "tell" /\ Head(s).event = "completed")
    <2>1. 1 \in 1..Len(s) /\ 1 \notin Completes(s)
      BY <1>1, <1>10 DEF Chargeable
    <2> QED BY <1>1, <2>1 DEF Completes
  <1> QED BY <1>5, <1>6, <1>7, <1>8, <1>9, <1>10 DEF r

LEMMA FailScriptsChargeless ==
    ASSUME NEW o \in Orders
    PROVE  /\ Chargeless(ForceFail(o))
           /\ Chargeless(ReleaseAndFail(o))
           /\ Chargeless(<<Tell("exhausted")>> \o ReleaseAndFail(o))
           /\ Chargeless(<<Pay("hold", Price[o]), [do |-> "walk"]>>)
           /\ Chargeless(<<Pay("release", Price[o]), Write("CANCELLED"), Tell("cancelled")>>)
           /\ Chargeless(<<[do |-> "place"], Tell("created")>>)
           /\ Chargeless(<<[do |-> "place"]>>)
  <1> DEFINE Silent(s) == s \in Statement /\ s.do # "charge"
  <1>1. Silent(Pay("hold", Price[o])) /\ Silent(Pay("release", Price[o]))
    BY OrderAssumption, PayTyped, MovesNamed DEF Pay
  <1>2. Silent(Write("FAILED")) /\ Silent(Write("CANCELLED"))
    <2>1. {"FAILED", "CANCELLED"} \subseteq Statuses
      BY DEF Statuses, Ended
    <2> QED BY <2>1, WriteTyped DEF Write
  <1>3. \A e \in {"failed", "cancelled", "exhausted", "created"} : Silent(Tell(e))
    BY TellTyped DEF Events, Tell
  <1>4. Silent([do |-> "walk"]) /\ Silent([do |-> "place"])
    BY WalkTyped
  <1>5. \A s, u \in Statement : Silent(s) /\ Silent(u) => Chargeless(<<s, u>>) /\ Chargeless(<<s>>)
    BY ShortSounds
  <1>6. \A s, u, v \in Statement :
            Silent(s) /\ Silent(u) /\ Silent(v) => Chargeless(<<s, u, v>>)
    BY ShortSounds
  <1>7. Chargeless(ReleaseAndFail(o)) /\ ReleaseAndFail(o) \in Seq(Statement)
    BY <1>1, <1>2, <1>5, FailScriptsTyped DEF ReleaseAndFail
  <1>8. Chargeless(<<Tell("exhausted")>>) /\ <<Tell("exhausted")>> \in Seq(Statement)
    BY <1>3, <1>5, ShortScripts
  <1>9. Chargeless(<<Tell("exhausted")>> \o ReleaseAndFail(o))
    BY <1>7, <1>8, ConcatSounds
  <1>10. Chargeless(ForceFail(o))
    BY <1>1, <1>2, <1>3, <1>6 DEF ForceFail
  <1>11. Chargeless(<<Pay("release", Price[o]), Write("CANCELLED"), Tell("cancelled")>>)
    BY <1>1, <1>2, <1>3, <1>6
  <1>12. /\ Chargeless(<<Pay("hold", Price[o]), [do |-> "walk"]>>)
         /\ Chargeless(<<[do |-> "place"], Tell("created")>>)
         /\ Chargeless(<<[do |-> "place"]>>)
    BY <1>1, <1>3, <1>4, <1>5
  <1> QED BY <1>7, <1>9, <1>10, <1>11, <1>12

\* Where a task stands after a step: at rest, in a script without a charge, or
\* one statement further; it does not pass an announcement without making it.
OneFurther(t) ==
    /\ task[t].script # <<>>
    /\ task'[t].script = Tail(task[t].script)
    /\ task'[t].kind = task[t].kind

LEMMA GoLands ==
    ASSUME OrderTypeOK, NEW t \in Tasks, NEW kind, NEW script, Go(t, kind, script)
    PROVE  task'[t] = Resting \/ (task'[t].script = script /\ task'[t].kind = kind)
  BY DEF Go, Fresh, OrderTypeOK

LEMMA DoneLands ==
    ASSUME OrderTypeOK, NEW t \in Tasks, task[t].script # <<>>, Done(t)
    PROVE  task'[t] = Resting \/ OneFurther(t)
  BY GoLands DEF Done, OneFurther

LEMMA ThrowLands ==
    ASSUME OrderTypeOK, NEW t \in Tasks, task[t] # Resting,
           task[t].script # <<>>, Throw(t)
    PROVE  \/ task'[t] = Resting
           \/ Chargeless(task'[t].script)
           \/ /\ OneFurther(t)
              /\ task[t].kind = "cleanup" \/ Head(task[t].script).do = "mark"
  <1> DEFINE o == task[t].order
  <1>1. o \in Orders
    BY RunningTask
  <1>2. Chargeless(ReleaseAndFail(o)) /\ Chargeless(ForceFail(o))
    BY <1>1, FailScriptsChargeless
  <1>3. CASE /\ task[t].kind = "cleanup" \/ Head(task[t].script).do = "mark"
             /\ Done(t)
    BY <1>3, DoneLands
  <1>4. CASE Go(t, "cleanup", ReleaseAndFail(o))
    BY <1>2, <1>4, GoLands
  <1>5. CASE Go(t, "plain", ForceFail(o))
    BY <1>2, <1>5, GoLands
  <1>6. CASE Rest(t)
    BY <1>6 DEF Rest, OrderTypeOK
  <1> QED BY <1>3, <1>4, <1>5, <1>6 DEF Throw

LEMMA GoesOnLands ==
    ASSUME OrderTypeOK, NEW t \in Tasks, GoesOn(t)
    PROVE  \/ task'[t] = Resting
           \/ Chargeless(task'[t].script)
           \/ /\ OneFurther(t)
              /\ \/ TellEvent(t)
                 \/ task[t].kind = "cleanup"
                 \/ Head(task[t].script).do # "tell"
  <1>1. task[t] # Resting /\ task[t].order \in Orders
    BY GoesOnMoves, RunningTask
  <1>2. CASE PayRefused(t) \/ RefillRefused(t) \/ StatementFails(t)
    BY <1>1, <1>2, ThrowLands DEF PayRefused, RefillRefused, StatementFails, Facing
  <1>3. CASE PayCommit(t) \/ NotePlace(t) \/ WriteStatus(t)
    <2>1. /\ task[t].script # <<>> /\ Done(t)
          /\ Head(task[t].script).do # "tell"
      BY <1>3 DEF PayCommit, NotePlace, WriteStatus, Facing, Moves
    <2> QED BY <2>1, DoneLands
  <1>4. CASE TellEvent(t)
    BY <1>4, DoneLands DEF TellEvent, Facing
  <1>5. CASE WalkSucceeds(t) \/ WalkExhausted(t)
    BY <1>1, <1>5, FailScriptsChargeless, GoLands DEF WalkSucceeds, WalkExhausted
  <1>6. CASE Die(t)
    BY <1>6 DEF Die, Rest, OrderTypeOK
  <1> QED BY <1>2, <1>3, <1>4, <1>5, <1>6 DEF GoesOn

\* A handler that is not an administrator's starts with all its announcements
\* in front of it.
LEMMA ArriveLands ==
    ASSUME OrderTypeOK, NEW t \in Tasks, NEW o \in Orders \ AdminOrders, Arrive(t, o)
    PROVE  /\ task'[t].order = o
           /\ task'[t].kind # "cleanup"
           /\ Chargeable(o, task'[t].script)
           /\ Chargeless(task'[t].script) \/ Announces(task'[t].script) # {}
  <1>1. ASSUME NEW kind, NEW script, Begin(t, kind, o, script)
        PROVE  /\ task'[t].order = o /\ task'[t].kind = kind
               /\ task'[t].script = script
    BY <1>1 DEF Begin, Fresh, OrderTypeOK
  <1> DEFINE Sounds(script) ==
               Chargeable(o, script) /\ (Chargeless(script) \/ Announces(script) # {})
  <1>2. ASSUME NEW kind \in {"create", "check", "plain"}, NEW script,
               Sounds(script), Begin(t, kind, o, script)
        PROVE  /\ task'[t].order = o /\ task'[t].kind # "cleanup"
               /\ Sounds(task'[t].script)
    BY <1>1, <1>2
  <1>3. \A script : Chargeless(script) => Sounds(script)
    BY ChargelessIsChargeable
  <1> HIDE DEF Sounds
  <1>4. CASE \/ CreateOrder(t, o) \/ RefillOrder(t, o)
             \/ CancelOrder(t, o) \/ ForceFailOrder(t, o)
    <2>1. PICK kind, script :
             kind \in {"create", "check", "plain"} /\ Chargeless(script) /\ Begin(t, kind, o, script)
      BY <1>4, FailScriptsChargeless DEF CreateOrder, RefillOrder, CancelOrder,
         ForceFailOrder, Read
    <2> QED BY <1>2, <1>3, <2>1 DEF Sounds
  <1>5. CASE PollOrder(t, o) \/ CheckTimedOutOrder(t, o)
    <2>1. PICK kind \in {"check", "plain"}, status \in Ended, remains \in Remains,
               refills \in BOOLEAN :
             Begin(t, kind, o, End(o, status, remains, refills))
      BY <1>5 DEF PollOrder, CheckTimedOutOrder, Read
    <2>2. Sounds(End(o, status, remains, refills))
      BY EndSounds DEF Sounds
    <2> QED BY <1>2, <2>1, <2>2 DEF Sounds
  <1>6. ~AdminForceStatus(t, o) /\ ~AdminRefundOrder(t, o)
    BY DEF AdminForceStatus, AdminRefundOrder, AdminRead
  <1> QED BY <1>4, <1>5, <1>6 DEF Arrive

-----------------------------------------------------------------------------
(* Tasks that have announced and not charged yet.                          *)

ScriptsInv ==
    \A t \in Tasks :
        task[t] # Resting /\ task[t].order \notin AdminOrders =>
            /\ Chargeable(task[t].order, task[t].script)
            /\ task[t].kind = "cleanup" => Chargeless(task[t].script)

Due(o) ==
    {t \in Tasks :
        /\ task[t] # Resting
        /\ task[t].order = o
        /\ ~Chargeless(task[t].script)
        /\ Announces(task[t].script) = {}}

More(o) == {t \in Due(o) : Over(o, task[t].script)}

\* What the announcements of an order cover.
Covers(o) ==
    Price[o] * (told[o]["completed"] + told[o]["partial"])
    + (Worth(o) - Price[o]) * told[o]["partial"]

\* An announcement pays for one charge: of a task that is still to make it, or
\* one that was made.  It pays what is above the price if it is of a part.
ChargedInv ==
    \A o \in Orders \ AdminOrders :
        /\ IsFiniteSet(Due(o))
        /\ moved[o]["charge"]
           + (Price[o] * Cardinality(Due(o))
              + (Worth(o) - Price[o]) * Cardinality(More(o))) <= Covers(o)

LEMMA ScriptsStep ==
    OrderTypeOK /\ ScriptsInv /\ [OrderNext]_vars => ScriptsInv'
  <1> SUFFICES ASSUME OrderTypeOK, ScriptsInv, [OrderNext]_vars
               PROVE  ScriptsInv'
    OBVIOUS
  <1>1. CASE UNCHANGED task
    BY <1>1 DEF ScriptsInv
  <1>2. ASSUME NEW t \in Tasks, task' = [task EXCEPT ![t] = task'[t]],
               task'[t] = Resting
               \/ task'[t].order \in AdminOrders
               \/ /\ Chargeable(task'[t].order, task'[t].script)
                  /\ task'[t].kind = "cleanup" => Chargeless(task'[t].script)
        PROVE  ScriptsInv'
    BY <1>2, OthersStay DEF ScriptsInv
  <1>3. ASSUME NEW t \in Tasks, NEW o \in Orders, Arrive(t, o)
        PROVE  ScriptsInv'
    <2>1. Moved(t, o)
      BY <1>3, ArriveMoves
    <2>2. CASE o \in AdminOrders
      BY <1>2, <2>1, <2>2 DEF Moved
    <2>3. CASE o \notin AdminOrders
      BY <1>2, <1>3, <2>1, <2>3, ArriveLands DEF Moved
    <2> QED BY <2>2, <2>3
  <1>4. ASSUME NEW t \in Tasks, PayRead(t)
        PROVE  ScriptsInv'
    <2>1. /\ task[t] # Resting /\ task' = [task EXCEPT ![t] = task'[t]]
          /\ task'[t].order = task[t].order
          /\ task'[t].script = task[t].script
      BY <1>4, ReadTyped
    <2>2. task'[t].kind = task[t].kind
      BY <1>4 DEF PayRead, OrderTypeOK
    <2> QED BY <1>2, <2>1, <2>2 DEF ScriptsInv
  <1>5. ASSUME NEW t \in Tasks, GoesOn(t)
        PROVE  ScriptsInv'
    <2>1. task[t] # Resting /\ Moved(t, task[t].order)
      BY <1>5, GoesOnMoves
    <2>2. CASE task'[t] = Resting \/ Chargeless(task'[t].script)
      BY <1>2, <2>1, <2>2, ChargelessIsChargeable DEF Moved
    <2>3. CASE OneFurther(t) /\ task'[t] # Resting
      <3>1. /\ task[t].script \in Seq(Statement) /\ task[t].script # <<>>
            /\ task'[t].order = task[t].order
            /\ task'[t].kind = task[t].kind
            /\ task'[t].script = Tail(task[t].script)
        BY <2>1, <2>3, RunningTask DEF OneFurther, Moved
      <3>2. CASE task[t].order \in AdminOrders
        BY <1>2, <2>1, <3>1, <3>2 DEF Moved
      <3>3. CASE task[t].order \notin AdminOrders
        <4>1. /\ Chargeable(task[t].order, task[t].script)
              /\ task[t].kind = "cleanup" => Chargeless(task[t].script)
          BY <2>1, <3>3 DEF ScriptsInv
        <4>2. /\ Chargeable(task[t].order, Tail(task[t].script))
              /\ task[t].kind = "cleanup" => Chargeless(Tail(task[t].script))
          BY <3>1, <4>1, TailSounds
        <4> QED BY <1>2, <2>1, <3>1, <4>2 DEF Moved
      <3> QED BY <3>2, <3>3
    <2> QED BY <1>5, <2>2, <2>3, GoesOnLands
  <1>6. CASE \E g \in Orders : GuestOrderPlaced(g)
    BY <1>1, <1>6 DEF GuestOrderPlaced
  <1> QED BY <1>1, <1>3, <1>4, <1>5, <1>6, StepCases DEF vars

\* How the size of a set of tasks changes when one task moves.
LEMMA SetCounts ==
    ASSUME NEW D, IsFiniteSet(D), NEW t, NEW E, E \subseteq D \cup {t}
    PROVE  /\ IsFiniteSet(E)
           /\ Cardinality(D) \in Nat /\ Cardinality(E) \in Nat
           /\ Cardinality(E) <= Cardinality(D) + 1
           /\ E \subseteq D => Cardinality(E) <= Cardinality(D)
           /\ t \in D /\ t \notin E => Cardinality(E) + 1 <= Cardinality(D)
  <1>2. /\ IsFiniteSet(D \cup {t})
        /\ Cardinality(D) \in Nat
        /\ Cardinality(D \cup {t}) <= Cardinality(D) + 1
    <2>1. Cardinality(D) \in Nat
      BY FS_CardinalityType
    <2>2. /\ IsFiniteSet(D \cup {t})
          /\ Cardinality(D \cup {t}) \in {Cardinality(D), Cardinality(D) + 1}
      BY FS_AddElement
    <2> QED BY <2>1, <2>2
  <1>3. /\ IsFiniteSet(E) /\ Cardinality(E) \in Nat
        /\ Cardinality(E) <= Cardinality(D \cup {t})
    BY <1>2, FS_Subset, FS_CardinalityType
  <1>4. ASSUME E \subseteq D
        PROVE  Cardinality(E) <= Cardinality(D)
    BY <1>4, FS_Subset
  <1>5. ASSUME t \in D, t \notin E
        PROVE  Cardinality(E) + 1 <= Cardinality(D)
    <2>1. E \subseteq D \ {t}
      BY <1>5
    <2>2. /\ IsFiniteSet(D \ {t})
          /\ Cardinality(D \ {t}) = Cardinality(D) - 1
      BY <1>5, FS_RemoveElement
    <2>3. Cardinality(E) <= Cardinality(D \ {t})
      BY <2>1, <2>2, FS_Subset
    <2> QED BY <1>2, <1>3, <2>2, <2>3
  <1>6. Cardinality(D \cup {t}) \in Nat
    BY <1>2, FS_CardinalityType
  <1>7. Cardinality(E) <= Cardinality(D) + 1
    BY <1>2, <1>3, <1>6
  <1> QED BY <1>2, <1>3, <1>4, <1>5, <1>7

\* Products of a natural number keep order.
LEMMA Products ==
    ASSUME NEW p \in Nat
    PROVE  /\ \A y \in Nat : p * y \in Nat /\ p * (y + 1) = p * y + p
           /\ \A y, z \in Nat : y <= z => p * y <= p * z
  <1>1. \A y \in Nat : p * y \in Nat /\ p * (y + 1) = p * y + p
    OBVIOUS
  <1>2. ASSUME NEW y \in Nat, NEW z \in Nat, y <= z
        PROVE  p * y <= p * z
    <2>1. PICK k \in Nat : z = y + k
      <3>1. z - y \in Nat /\ z = y + (z - y)
        BY <1>2
      <3> QED BY <3>1
    <2>2. p * (y + k) = p * y + p * k
      OBVIOUS
    <2> QED BY <1>1, <2>1, <2>2
  <1> QED BY <1>1, <1>2

\* The balance of announcements and charges, in numbers: m is charged, d tasks
\* are to charge up to p and k of them up to x more, a announcements cover p
\* each and b of them x more.
LEMMA ChargeBalance ==
    ASSUME NEW p \in Nat, NEW x \in Nat, NEW m \in Nat, NEW d \in Nat, NEW k \in Nat,
           NEW a \in Nat, NEW b \in Nat,
           m + (p * d + x * k) <= p * a + x * b,
           NEW e \in Nat, NEW f \in Nat
    PROVE  /\ e <= d /\ f <= k => m + (p * e + x * f) <= p * a + x * b
           /\ e <= d + 1 /\ f <= k => m + (p * e + x * f) <= p * (a + 1) + x * b
           /\ e <= d + 1 /\ f <= k + 1
                 => m + (p * e + x * f) <= p * (a + 1) + x * (b + 1)
           /\ \A c \in Nat : e + 1 <= d /\ f <= k /\ c <= p
                 => (m + c) + (p * e + x * f) <= p * a + x * b
           /\ \A c \in Nat : e + 1 <= d /\ f + 1 <= k /\ c <= p + x
                 => (m + c) + (p * e + x * f) <= p * a + x * b
  <1> DEFINE P(y) == p * y
             X(y) == x * y
  <1>1. /\ \A y \in Nat : P(y) \in Nat /\ P(y + 1) = P(y) + p
        /\ \A y, z \in Nat : y <= z => P(y) <= P(z)
    BY Products
  <1>2. /\ \A y \in Nat : X(y) \in Nat /\ X(y + 1) = X(y) + x
        /\ \A y, z \in Nat : y <= z => X(y) <= X(z)
    BY Products
  <1>3. m + (P(d) + X(k)) <= P(a) + X(b)
    OBVIOUS
  <1> HIDE DEF P, X
  <1>4. /\ P(a) \in Nat /\ P(d) \in Nat /\ P(e) \in Nat
        /\ P(d + 1) = P(d) + p /\ P(e + 1) = P(e) + p /\ P(a + 1) = P(a) + p
        /\ e <= d => P(e) <= P(d)
        /\ e <= d + 1 => P(e) <= P(d + 1)
        /\ e + 1 <= d => P(e + 1) <= P(d)
    <2>1. d + 1 \in Nat /\ e + 1 \in Nat
      OBVIOUS
    <2> QED BY <1>1, <2>1
  <1>5. /\ X(b) \in Nat /\ X(k) \in Nat /\ X(f) \in Nat
        /\ X(k + 1) = X(k) + x /\ X(f + 1) = X(f) + x /\ X(b + 1) = X(b) + x
        /\ f <= k => X(f) <= X(k)
        /\ f <= k + 1 => X(f) <= X(k + 1)
        /\ f + 1 <= k => X(f + 1) <= X(k)
    <2>1. k + 1 \in Nat /\ f + 1 \in Nat
      OBVIOUS
    <2> QED BY <1>2, <2>1
  <1>6. /\ e <= d /\ f <= k => m + (P(e) + X(f)) <= P(a) + X(b)
        /\ e <= d + 1 /\ f <= k => m + (P(e) + X(f)) <= P(a + 1) + X(b)
        /\ e <= d + 1 /\ f <= k + 1 => m + (P(e) + X(f)) <= P(a + 1) + X(b + 1)
    BY <1>3, <1>4, <1>5
  <1>7. ASSUME NEW c \in Nat
        PROVE  /\ e + 1 <= d /\ f <= k /\ c <= p
                     => (m + c) + (P(e) + X(f)) <= P(a) + X(b)
               /\ e + 1 <= d /\ f + 1 <= k /\ c <= p + x
                     => (m + c) + (P(e) + X(f)) <= P(a) + X(b)
    BY <1>3, <1>4, <1>5
  <1> QED BY <1>6, <1>7 DEF P, X

LEMMA ChargedStep ==
    /\ OrderTypeOK /\ OrderTypeOK' /\ ScriptsInv /\ ScriptsInv' /\ ChargedInv
    /\ [OrderNext]_vars
    => ChargedInv'
  <1> SUFFICES ASSUME OrderTypeOK, OrderTypeOK', ScriptsInv, ScriptsInv', ChargedInv,
                      [OrderNext]_vars, NEW o \in Orders \ AdminOrders
               PROVE  /\ IsFiniteSet(Due(o)')
                      /\ moved'[o]["charge"]
                         + (Price[o] * Cardinality(Due(o)')
                            + (Worth(o) - Price[o]) * Cardinality(More(o)')) <= Covers(o)'
    BY DEF ChargedInv
  <1> DEFINE P == Price[o]
             X == Worth(o) - Price[o]
             Charge == moved[o]["charge"]
             A == told[o]["completed"] + told[o]["partial"]
             B == told[o]["partial"]
             D == Cardinality(Due(o))
             K == Cardinality(More(o))
             Goal == /\ IsFiniteSet(Due(o)')
                     /\ Charge' + (P * D' + X * K') <= P * A' + X * B'
  <1>1. /\ IsFiniteSet(Due(o)) /\ IsFiniteSet(More(o)) /\ D \in Nat /\ K \in Nat
        /\ Charge + (P * D + X * K) <= P * A + X * B
        /\ P \in Nat /\ X \in Nat /\ P + X = Worth(o)
        /\ Charge \in Nat /\ A \in Nat /\ B \in Nat
    <2>1. /\ IsFiniteSet(Due(o))
          /\ Charge + (P * D + X * K) <= P * A + X * B
      BY DEF ChargedInv, Covers
    <2>2. IsFiniteSet(More(o)) /\ D \in Nat /\ K \in Nat
      <3>1. More(o) \subseteq Due(o)
        BY DEF More
      <3> QED BY <2>1, <3>1, FS_Subset, FS_CardinalityType
    <2>3. P \in Nat /\ X \in Nat /\ P + X = Worth(o)
      BY WorthIsMost
    <2>4. Charge \in Nat /\ A \in Nat /\ B \in Nat
      BY DEF OrderTypeOK, Moves, Events
    <2> HIDE DEF Charge, A, B, D, K, P, X
    <2> QED BY <2>1, <2>2, <2>3, <2>4
  <1> SUFFICES Goal
    BY DEF Covers
  <1> HIDE DEF Charge, A, B, D, K, P, X
  <1>2. ASSUME NEW e \in Nat, NEW f \in Nat
        PROVE  /\ e <= D /\ f <= K => Charge + (P * e + X * f) <= P * A + X * B
               /\ e <= D + 1 /\ f <= K => Charge + (P * e + X * f) <= P * (A + 1) + X * B
               /\ e <= D + 1 /\ f <= K + 1
                     => Charge + (P * e + X * f) <= P * (A + 1) + X * (B + 1)
               /\ \A c \in Nat : e + 1 <= D /\ f <= K /\ c <= P
                     => (Charge + c) + (P * e + X * f) <= P * A + X * B
               /\ \A c \in Nat : e + 1 <= D /\ f + 1 <= K /\ c <= P + X
                     => (Charge + c) + (P * e + X * f) <= P * A + X * B
    BY <1>1, ChargeBalance
  <1>11. P' = P /\ X' = X
    BY DEF P, X, Worth, DonePrice
  \* How the sets of tasks may change: by the one that moves.
  <1>5. ASSUME NEW t \in Tasks, task' = [task EXCEPT ![t] = task'[t]]
        PROVE  /\ Due(o)' \subseteq Due(o) \cup {t}
               /\ More(o)' \subseteq More(o) \cup {t}
               /\ t \notin Due(o)' => Due(o)' \subseteq Due(o) /\ t \notin More(o)'
               /\ t \notin More(o)' => More(o)' \subseteq More(o)
    <2>1. \A u \in Tasks \ {t} : task'[u] = task[u]
      BY <1>5, OthersStay
    <2>2. \A u \in Tasks \ {t} : u \in Due(o)' => u \in Due(o)
      BY <2>1 DEF Due
    <2>3. \A u \in Tasks \ {t} : u \in More(o)' => u \in More(o)
      BY <2>1, <2>2 DEF More
    <2>4. Due(o)' \subseteq Tasks /\ More(o)' \subseteq Due(o)'
      BY DEF Due, More
    <2> QED BY <2>2, <2>3, <2>4
  <1>3. ASSUME Charge' = Charge, A' = A, B' = B,
               Due(o)' \subseteq Due(o), More(o)' \subseteq More(o)
        PROVE  Goal
    <2>1. IsFiniteSet(Due(o)') /\ D' \in Nat /\ D' <= D
      BY <1>1, <1>3, SetCounts DEF D
    <2>2. K' \in Nat /\ K' <= K
      BY <1>1, <1>3, SetCounts DEF K
    <2> QED BY <1>2, <1>3, <2>1, <2>2
  <1>4. CASE UNCHANGED <<moved, told>> /\ UNCHANGED task
    <2>1. Charge' = Charge /\ A' = A /\ B' = B /\ Due(o)' = Due(o)
      BY <1>4 DEF Charge, A, B, Due
    <2>2. More(o)' = More(o)
      BY <1>4, <2>1 DEF More
    <2> QED BY <1>3, <2>1, <2>2
  <1>6. ASSUME NEW t \in Tasks, NEW p \in Orders, Arrive(t, p)
        PROVE  Goal
    <2>1. Moved(t, p) /\ UNCHANGED <<moved, told>>
      BY <1>6, ArriveMoves
    <2>2. t \notin Due(o)'
      BY <1>6, <2>1, ArriveLands DEF Due, Moved
    <2>3. Charge' = Charge /\ A' = A /\ B' = B
      BY <2>1 DEF Charge, A, B
    <2> QED BY <1>3, <1>5, <2>1, <2>2, <2>3 DEF Moved
  <1>7. ASSUME NEW t \in Tasks, PayRead(t)
        PROVE  Goal
    <2>1. /\ task[t] # Resting /\ task' = [task EXCEPT ![t] = task'[t]]
          /\ task'[t].order = task[t].order
          /\ task'[t].script = task[t].script
      BY <1>7, ReadTyped
    <2>2. Due(o)' \subseteq Due(o)
      BY <1>5, <2>1 DEF Due
    <2>4. More(o)' \subseteq More(o)
      BY <1>5, <2>1, <2>2 DEF More
    <2>3. Charge' = Charge /\ A' = A /\ B' = B
      BY <1>7 DEF Charge, A, B, PayRead
    <2> QED BY <1>3, <2>2, <2>3, <2>4
  <1>8. ASSUME NEW t \in Tasks, GoesOn(t)
        PROVE  Goal
    <2> DEFINE s == Head(task[t].script)
    <2>1. task[t] # Resting /\ Moved(t, task[t].order)
      BY <1>8, GoesOnMoves
    <2>4. /\ Due(o)' \subseteq Due(o) \cup {t}
          /\ More(o)' \subseteq More(o) \cup {t}
          /\ t \notin Due(o)' => Due(o)' \subseteq Due(o) /\ t \notin More(o)'
          /\ t \notin More(o)' => More(o)' \subseteq More(o)
      BY <1>5, <2>1 DEF Moved
    <2>2. CASE task[t].order # o
      <3>1. moved'[o] = moved[o] /\ told'[o] = told[o]
        BY <1>8, <2>2, GoesOnTouches
      <3>2. Charge' = Charge /\ A' = A /\ B' = B
        BY <3>1 DEF Charge, A, B
      <3>3. t \notin Due(o)'
        BY <2>1, <2>2 DEF Due, Moved
      <3> QED BY <1>3, <2>4, <3>2, <3>3
    <2>3. CASE task[t].order = o
      <3>1. /\ task[t].script \in Seq(Statement)
            /\ Chargeable(o, task[t].script)
            /\ task[t].kind = "cleanup" => Chargeless(task[t].script)
        BY <2>1, <2>3, RunningTask DEF ScriptsInv
      <3>8. ASSUME OneFurther(t), t \in Due(o), t \in More(o)'
            PROVE  t \in More(o) /\ Over(o, task[t].script)
        <4>1. task[t].script # <<>> /\ Over(o, Tail(task[t].script))
          BY <3>8 DEF OneFurther, More
        <4>2. Over(o, task[t].script)
          BY <3>1, <4>1, TailSounds
        <4> QED BY <3>8, <4>2 DEF More
      \* The task was due already, unless it has just announced.
      <3>2. ASSUME t \in Due(o)', ~TellEvent(t)
            PROVE  /\ t \in Due(o)
                   /\ t \in More(o)' => t \in More(o)
                   /\ task[t].script # <<>> /\ s.do # "charge"
        <4>1. OneFurther(t) /\ (task[t].kind = "cleanup" \/ s.do # "tell")
          BY <1>8, <3>2, GoesOnLands DEF Due
        <4>2. /\ task[t].script # <<>>
              /\ ~Chargeless(Tail(task[t].script))
              /\ Announces(Tail(task[t].script)) = {}
          BY <3>2, <4>1 DEF Due, OneFurther
        <4>3. ~Chargeless(task[t].script) /\ s.do # "charge"
          BY <3>1, <4>2, TailSounds
        <4>4. Announces(task[t].script) = {}
          BY <3>1, <4>1, <4>2, <4>3, TailSounds
        <4>5. t \in Due(o)
          BY <2>1, <2>3, <4>3, <4>4 DEF Due
        <4> QED BY <3>8, <4>1, <4>2, <4>3, <4>5
      <3>3. ASSUME ~TellEvent(t)
            PROVE  Due(o)' \subseteq Due(o) /\ More(o)' \subseteq More(o)
        <4>1. t \in Due(o)' => t \in Due(o)
          BY <3>2, <3>3
        <4>2. t \in More(o)' => t \in More(o)
          <5>1. t \in More(o)' => t \in Due(o)'
            BY DEF More
          <5> QED BY <3>2, <3>3, <5>1
        <4> QED BY <2>4, <4>1, <4>2
      <3>4. CASE TellEvent(t)
        <4>1. /\ moved' = moved /\ task[t].script # <<>> /\ Done(t)
              /\ s.do = "tell"
              /\ told'[o] = [e \in Events |-> IF e = s.event THEN told[o][e] + 1
                                                           ELSE told[o][e]]
          BY <2>1, <2>3, <3>4 DEF TellEvent, Facing, OrderTypeOK
        <4>2. /\ told'[o]["completed"] = told[o]["completed"]
                     + (IF s.event = "completed" THEN 1 ELSE 0)
              /\ told'[o]["partial"] = told[o]["partial"]
                     + (IF s.event = "partial" THEN 1 ELSE 0)
          BY <4>1 DEF Events, OrderTypeOK
        <4>3. Charge' = Charge
          BY <4>1 DEF Charge
        <4>6. IsFiniteSet(Due(o)') /\ D' \in Nat /\ D' <= D + 1
          BY <1>1, <2>4, SetCounts DEF D
        <4>7. K' \in Nat /\ K' <= K + 1
          BY <1>1, <2>4, SetCounts DEF K
        <4>8. t \in Due(o)' => OneFurther(t)
          BY <4>1, DoneLands DEF Due
        <4>4. CASE s.event = "partial"
          <5>1. A' = A + 1 /\ B' = B + 1
            BY <4>2, <4>4 DEF A, B, OrderTypeOK, Events
          <5> QED BY <1>2, <4>3, <4>6, <4>7, <5>1
        <4>9. CASE s.event = "completed"
          <5>1. A' = A + 1 /\ B' = B
            <6>1. /\ told'[o]["completed"] = told[o]["completed"] + 1
                  /\ told'[o]["partial"] = told[o]["partial"] + 0
              BY <4>2, <4>9
            <6>2. told[o]["completed"] \in Nat /\ told[o]["partial"] \in Nat
              BY DEF OrderTypeOK, Events
            <6> QED BY <6>1, <6>2 DEF A, B
          <5>2. t \notin More(o)'
            <6> SUFFICES ASSUME t \in More(o)'
                         PROVE  FALSE
              OBVIOUS
            <6>1. OneFurther(t) /\ Over(o, task'[t].script)
              BY <4>8 DEF More
            <6>2. Over(o, Tail(task[t].script))
              BY <6>1 DEF OneFurther
            <6>3. Over(o, task[t].script)
              BY <3>1, <4>1, <6>2, TailSounds
            <6> QED BY <3>1, <4>1, <4>9, <6>3, TailSounds
          <5>3. K' <= K
            BY <1>1, <2>4, <5>2, SetCounts DEF K
          <5> QED BY <1>2, <4>3, <4>6, <4>7, <5>1, <5>3
        <4>5. CASE s.event \notin {"completed", "partial"}
          <5>1. A' = A /\ B' = B
            BY <4>2, <4>5 DEF A, B, OrderTypeOK, Events
          <5>2. t \in Due(o)' => t \in Due(o)
            <6> SUFFICES ASSUME t \in Due(o)'
                         PROVE  t \in Due(o)
              OBVIOUS
            <6>2. /\ ~Chargeless(Tail(task[t].script))
                  /\ Announces(Tail(task[t].script)) = {}
              BY <4>8 DEF Due, OneFurther
            <6>3. ~Chargeless(task[t].script) /\ Announces(task[t].script) = {}
              BY <3>1, <4>1, <4>5, <6>2, TailSounds
            <6> QED BY <2>1, <2>3, <6>3 DEF Due
          <5>4. t \in More(o)' => t \in More(o)
            <6>1. t \in More(o)' => t \in Due(o)'
              BY DEF More
            <6> QED BY <3>8, <4>8, <5>2, <6>1
          <5>3. Due(o)' \subseteq Due(o) /\ More(o)' \subseteq More(o)
            BY <2>4, <5>2, <5>4
          <5> QED BY <1>3, <4>3, <5>1, <5>3
        <4> QED BY <4>4, <4>5, <4>9
      <3>5. CASE PayCommit(t)
        <4>1. /\ told' = told /\ task[t].script # <<>> /\ Done(t)
              /\ s \in Statement /\ s.do \in Moves /\ s.amount \in Nat
              /\ moved'[o] = [m \in Moves |-> IF m = s.do THEN moved[o][m] + s.amount
                                                         ELSE moved[o][m]]
          BY <2>1, <2>3, <3>5, HeadTyped, AmountTyped DEF PayCommit, Facing, OrderTypeOK
        <4>2. A' = A /\ B' = B
          BY <4>1 DEF A, B
        <4>3. ~TellEvent(t)
          BY <4>1 DEF TellEvent, Facing, Moves
        <4>4. CASE s.do = "charge"
          <5>1. Charge' = Charge + s.amount
            BY <4>1, <4>4 DEF Charge
          <5>2. /\ s.amount <= P + X
                /\ s.amount <= P \/ Over(o, task[t].script)
                /\ Announces(task[t].script) = {} /\ ~Chargeless(task[t].script)
            <6>1. /\ s.amount <= Worth(o)
                  /\ s.amount <= Price[o] \/ Over(o, task[t].script)
                  /\ Announces(task[t].script) = {} /\ ~Chargeless(task[t].script)
              BY <3>1, <4>1, <4>4, TailSounds
            <6> QED BY <1>1, <6>1 DEF P
          <5>3. t \in Due(o) /\ t \notin Due(o)'
            BY <2>1, <2>3, <3>2, <4>3, <4>4, <5>2 DEF Due
          <5>4. IsFiniteSet(Due(o)') /\ D' \in Nat /\ D' + 1 <= D
            BY <1>1, <2>4, <5>3, SetCounts DEF D
          <5>5. CASE s.amount <= P
            <6>1. K' \in Nat /\ K' <= K
              BY <1>1, <2>4, <5>3, SetCounts DEF K
            <6> QED BY <1>2, <4>1, <4>2, <5>1, <5>4, <5>5, <6>1
          <5>6. CASE Over(o, task[t].script)
            <6>1. t \in More(o) /\ t \notin More(o)'
              BY <5>3, <5>6 DEF More
            <6>2. K' \in Nat /\ K' + 1 <= K
              BY <1>1, <2>4, <6>1, SetCounts DEF K
            <6> QED BY <1>2, <4>1, <4>2, <5>1, <5>2, <5>4, <6>2
          <5> QED BY <5>2, <5>5, <5>6
        <4>5. CASE s.do # "charge"
          <5>1. Charge' = Charge
            BY <4>1, <4>5 DEF Charge, Moves
          <5> QED BY <1>3, <3>3, <4>2, <4>3, <5>1
        <4> QED BY <4>4, <4>5
      <3>6. CASE UNCHANGED <<moved, told>> /\ ~TellEvent(t)
        <4>1. Charge' = Charge /\ A' = A /\ B' = B
          BY <3>6 DEF Charge, A, B
        <4> QED BY <1>3, <3>3, <3>6, <4>1
      <3>7. TellEvent(t) \/ PayCommit(t) \/ UNCHANGED <<moved, told>>
        BY <1>8 DEF GoesOn, PayRefused, WalkSucceeds, WalkExhausted, RefillRefused,
           NotePlace, WriteStatus, StatementFails, Die
      <3> QED BY <3>4, <3>5, <3>6, <3>7
    <2> QED BY <2>2, <2>3
  <1>9. CASE \E g \in Orders : GuestOrderPlaced(g)
    BY <1>4, <1>9 DEF GuestOrderPlaced
  <1>10. CASE UNCHANGED vars
    BY <1>4, <1>10 DEF vars
  <1> QED BY <1>6, <1>7, <1>8, <1>9, <1>10, StepCases

LEMMA ChargedInit == OrderInit => ScriptsInv /\ ChargedInv
  <1> SUFFICES ASSUME OrderInit
               PROVE  ScriptsInv /\ ChargedInv
    OBVIOUS
  <1>1. \A t \in Tasks : task[t] = Resting
    BY DEF OrderInit
  <1>2. \A o : Due(o) = {}
    BY <1>1 DEF Due
  <1>7. \A o : More(o) = {}
    BY <1>2 DEF More
  <1>3. /\ IsFiniteSet({}) /\ Cardinality({}) = 0
    BY FS_EmptySet
  <1>4. \A o \in Orders : Price[o] \in Int /\ Worth(o) - Price[o] \in Int
            /\ moved[o]["charge"] = 0
            /\ told[o]["completed"] = 0 /\ told[o]["partial"] = 0
    BY WorthIsMost DEF OrderInit, Moves, Events
  <1>5. \A n, x \in Int : 0 + (n * 0 + x * 0) <= n * (0 + 0) + x * 0
    OBVIOUS
  <1>6. ChargedInv
    <2> SUFFICES ASSUME NEW o \in Orders
                 PROVE  /\ IsFiniteSet(Due(o))
                        /\ moved[o]["charge"]
                           + (Price[o] * Cardinality(Due(o))
                              + (Worth(o) - Price[o]) * Cardinality(More(o))) <= Covers(o)
      BY DEF ChargedInv
    <2>1. Due(o) = {} /\ More(o) = {}
      BY <1>2, <1>7
    <2> QED BY <1>3, <1>4, <1>5, <2>1 DEF Covers
  <1> QED BY <1>1, <1>6 DEF ScriptsInv

LEMMA ChargedMeans == OrderTypeOK /\ ChargedInv => ChargedWasTold
  <1> SUFFICES ASSUME OrderTypeOK, ChargedInv, NEW o \in Orders \ AdminOrders
               PROVE  moved[o]["charge"] <= Price[o] * told[o]["completed"]
                                            + Worth(o) * told[o]["partial"]
    BY DEF ChargedWasTold
  <1> DEFINE p == Price[o]
             x == Worth(o) - Price[o]
             m == moved[o]["charge"]
             c == told[o]["completed"]
             d == told[o]["partial"]
             due == p * Cardinality(Due(o)) + x * Cardinality(More(o))
  <1>1. p \in Nat /\ x \in Nat /\ Worth(o) = p + x
    BY WorthIsMost
  <1>2. m \in Nat /\ c \in Nat /\ d \in Nat
    BY DEF OrderTypeOK, Moves, Events
  <1>3. due \in Nat
    <2>1. IsFiniteSet(Due(o)) /\ More(o) \subseteq Due(o)
      BY DEF ChargedInv, More
    <2>2. Cardinality(Due(o)) \in Nat /\ Cardinality(More(o)) \in Nat
      BY <2>1, FS_Subset, FS_CardinalityType
    <2> HIDE DEF p, x
    <2> QED BY <1>1, <2>2, Products
  <1>4. m + due <= p * (c + d) + x * d
    BY DEF ChargedInv, Covers
  <1> HIDE DEF p, x, m, c, d, due
  <1>5. p * (c + d) + x * d = p * c + (p + x) * d /\ p * c + (p + x) * d \in Nat
    BY <1>1, <1>2
  <1>6. m <= p * c + (p + x) * d
    BY <1>2, <1>3, <1>4, <1>5
  <1> QED BY <1>1, <1>6 DEF p, m, c, d

\* However many workers take an order up at once, however they fail and
\* whatever panels say remains, a customer is charged no more than the price
\* for each announcement that an order was completed, and no more than its
\* worth, the price if no panel says that less than nothing remains, for each
\* that a part of it was.
THEOREM ChargesWereTold == OrderSpec => []ChargedWasTold
  <1>1. OrderSpec => []ScriptsInv
    BY ChargedInit, ScriptsStep, OrderTypeCorrect, PTL DEF OrderSpec
  <1>2. OrderSpec => []ChargedInv
    BY <1>1, ChargedInit, ChargedStep, OrderTypeCorrect, PTL DEF OrderSpec
  <1> QED BY <1>2, ChargedMeans, OrderTypeCorrect, PTL

-----------------------------------------------------------------------------
(* One task at a time: the wallet is what the ledger makes it.             *)

HoldsOf == [o \in Orders |-> Outstanding(o)]
GainsOf == [o \in Orders |-> moved[o]["refund"] - moved[o]["charge"]]

PoolInv ==
    /\ wallet.hold = Opening.hold + SumOf(HoldsOf, Orders)
    /\ wallet.balance = Opening.balance + SumOf(GainsOf, Orders)

\* The row a task has read is still the row.
ReadInv ==
    \A t \in Tasks :
        task[t] # Resting /\ task[t].at = "commit" => task[t].seen = wallet

LEMMA TotalsTyped ==
    ASSUME OrderTypeOK, NEW o \in Orders
    PROVE  /\ \A m \in Moves : moved[o][m] \in Nat
           /\ Outstanding(o) \in Int /\ HoldsOf[o] = Outstanding(o)
           /\ GainsOf[o] = moved[o]["refund"] - moved[o]["charge"]
           /\ GainsOf[o] \in Int
  <1>1. \A m \in Moves : moved[o][m] \in Nat
    BY DEF OrderTypeOK
  <1> QED BY <1>1 DEF Outstanding, HoldsOf, GainsOf, Moves

LEMMA TotalsAreTables ==
    ASSUME OrderTypeOK
    PROVE  HoldsOf \in [Orders -> Int] /\ GainsOf \in [Orders -> Int]
  <1>1. \A o \in Orders : HoldsOf[o] \in Int /\ GainsOf[o] \in Int
    BY TotalsTyped
  <1> QED BY <1>1 DEF HoldsOf, GainsOf

\* What a commit adds to the totals is what it adds to the row it has read.
LEMMA CommitBalances ==
    ASSUME OrderTypeOK, OrderTypeOK', NEW t \in Tasks, PayCommit(t)
    PROVE  LET o == task[t].order
               w == task[t].seen
           IN  /\ o \in Orders
               /\ wallet'.hold = w.hold + (HoldsOf'[o] - HoldsOf[o])
               /\ wallet'.balance = w.balance + (GainsOf'[o] - GainsOf[o])
               /\ \A p \in Orders : p # o =>
                     HoldsOf'[p] = HoldsOf[p] /\ GainsOf'[p] = GainsOf[p]
  <1> DEFINE o == task[t].order
             w == task[t].seen
             s == Head(task[t].script)
             a == s.amount
  <1>1. task[t] # Resting /\ task[t].script # <<>> /\ s.do \in Moves
    BY DEF PayCommit, Facing
  <1>2. /\ o \in Orders /\ w.hold \in Int /\ w.balance \in Int
        /\ a \in Nat
    BY <1>1, RunningTask, HeadTyped, AmountTyped DEF WalletRow
  <1>3. wallet' = After(w, s)
    BY DEF PayCommit
  <1>4. \A m \in Moves :
            moved'[o][m] = IF m = s.do THEN moved[o][m] + a ELSE moved[o][m]
    BY <1>2 DEF PayCommit, OrderTypeOK
  <1>5. \A p \in Orders : p # o => moved'[p] = moved[p]
    BY DEF PayCommit, OrderTypeOK
  <1>6. ASSUME NEW p \in Orders
        PROVE  /\ HoldsOf'[p] = moved'[p]["hold"] - moved'[p]["release"] - moved'[p]["charge"]
               /\ GainsOf'[p] = moved'[p]["refund"] - moved'[p]["charge"]
               /\ HoldsOf[p] = moved[p]["hold"] - moved[p]["release"] - moved[p]["charge"]
               /\ GainsOf[p] = moved[p]["refund"] - moved[p]["charge"]
    BY DEF HoldsOf, GainsOf, Outstanding
  <1>7. /\ moved[o]["hold"] \in Nat /\ moved[o]["release"] \in Nat
        /\ moved[o]["charge"] \in Nat /\ moved[o]["refund"] \in Nat
    BY <1>2, TotalsTyped DEF Moves
  <1> HIDE DEF o, w, s, a
  <1>8. /\ wallet'.hold = w.hold + (HoldsOf'[o] - HoldsOf[o])
        /\ wallet'.balance = w.balance + (GainsOf'[o] - GainsOf[o])
    <2>1. /\ moved'[o]["hold"] = IF "hold" = s.do THEN moved[o]["hold"] + a ELSE moved[o]["hold"]
          /\ moved'[o]["release"] = IF "release" = s.do THEN moved[o]["release"] + a ELSE moved[o]["release"]
          /\ moved'[o]["charge"] = IF "charge" = s.do THEN moved[o]["charge"] + a ELSE moved[o]["charge"]
          /\ moved'[o]["refund"] = IF "refund" = s.do THEN moved[o]["refund"] + a ELSE moved[o]["refund"]
      BY <1>4 DEF Moves
    <2>2. CASE s.do = "hold"
      <3>1. wallet'.hold = w.hold + a /\ wallet'.balance = w.balance
        BY <1>3, <2>2 DEF After, Held, a
      <3> QED BY <1>2, <1>6, <1>7, <2>1, <2>2, <3>1
    <2>3. CASE s.do = "release"
      <3>1. wallet'.hold = w.hold - a /\ wallet'.balance = w.balance
        BY <1>3, <2>3 DEF After, Released, a
      <3> QED BY <1>2, <1>6, <1>7, <2>1, <2>3, <3>1
    <2>4. CASE s.do = "charge"
      <3>1. wallet'.hold = w.hold - a /\ wallet'.balance = w.balance - a
        BY <1>3, <2>4 DEF After, Charged, a
      <3> QED BY <1>2, <1>6, <1>7, <2>1, <2>4, <3>1
    <2>5. CASE s.do = "refund"
      <3>1. wallet'.hold = w.hold /\ wallet'.balance = w.balance + a
        BY <1>3, <2>5 DEF After, Credited, a
      <3> QED BY <1>2, <1>6, <1>7, <2>1, <2>5, <3>1
    <2> QED BY <1>1, <2>2, <2>3, <2>4, <2>5 DEF Moves
  <1> QED BY <1>2, <1>5, <1>6, <1>8 DEF o, w

\* A commit keeps the account if the row it has read is still the row,
\* whatever other tasks do.
LEMMA PoolStep ==
    ASSUME IsFiniteSet(Orders), OrderTypeOK, OrderTypeOK', PoolInv, ReadInv, [OrderNext]_vars
    PROVE  PoolInv'
  <1>1. CASE UNCHANGED <<wallet, moved>>
    <2>1. HoldsOf' = HoldsOf /\ GainsOf' = GainsOf
      BY <1>1 DEF HoldsOf, GainsOf, Outstanding
    <2> QED BY <1>1, <2>1 DEF PoolInv
  <1>2. ASSUME NEW t \in Tasks, PayCommit(t)
        PROVE  PoolInv'
    <2> DEFINE o == task[t].order
    <2>1. task[t].seen = wallet
      BY <1>2 DEF ReadInv, PayCommit, Facing
    <2>2. /\ o \in Orders
          /\ wallet'.hold = wallet.hold + (HoldsOf'[o] - HoldsOf[o])
          /\ wallet'.balance = wallet.balance + (GainsOf'[o] - GainsOf[o])
          /\ \A p \in Orders : p # o =>
                HoldsOf'[p] = HoldsOf[p] /\ GainsOf'[p] = GainsOf[p]
      BY <1>2, <2>1, CommitBalances
    <2>3. HoldsOf \in [Orders -> Int] /\ GainsOf \in [Orders -> Int]
      BY TotalsAreTables
    <2>4. HoldsOf' \in [Orders -> Int] /\ GainsOf' \in [Orders -> Int]
      <3>1. \A p \in Orders, m \in Moves : moved'[p][m] \in Nat
        BY DEF OrderTypeOK
      <3> QED BY <3>1 DEF HoldsOf, GainsOf, Outstanding, Moves
    <2> HIDE DEF o
    <2>5. /\ SumOf(HoldsOf', Orders) = SumOf(HoldsOf, Orders) + (HoldsOf'[o] - HoldsOf[o])
          /\ SumOf(GainsOf', Orders) = SumOf(GainsOf, Orders) + (GainsOf'[o] - GainsOf[o])
      BY <2>2, <2>3, <2>4, SumChange
    <2>6. /\ SumOf(HoldsOf, Orders) \in Int /\ SumOf(GainsOf, Orders) \in Int
          /\ Opening.hold \in Int /\ Opening.balance \in Int
          /\ HoldsOf'[o] \in Int /\ HoldsOf[o] \in Int
          /\ GainsOf'[o] \in Int /\ GainsOf[o] \in Int
      BY <2>2, <2>3, <2>4, SumInt, OrderAssumption DEF WalletRow
    <2> QED BY <2>2, <2>5, <2>6 DEF PoolInv
  <1>3. CASE \E o \in Orders : GuestOrderPlaced(o)
    BY <1>1, <1>3 DEF GuestOrderPlaced
  <1>4. CASE \E t \in Tasks, o \in Orders : Arrive(t, o)
    BY <1>1, <1>4, ArriveMoves
  <1>5. CASE \E t \in Tasks : PayRead(t)
    BY <1>1, <1>5 DEF PayRead
  <1>6. ASSUME NEW t \in Tasks, GoesOn(t)
        PROVE  PoolInv'
    BY <1>1, <1>2, <1>6 DEF GoesOn, PayRefused, WalkSucceeds, WalkExhausted,
       RefillRefused, NotePlace, WriteStatus, TellEvent, StatementFails, Die
  <1> QED BY <1>1, <1>3, <1>4, <1>5, <1>6, StepCases DEF vars

LEMMA ReadStep ==
    ASSUME \A t, u \in Tasks : t = u, OrderTypeOK, ReadInv, [OrderNext]_vars
    PROVE  ReadInv'
  <1>1. CASE UNCHANGED <<wallet, task>>
    BY <1>1 DEF ReadInv
  <1>2. ASSUME NEW t \in Tasks, NEW o \in Orders, Moved(t, o)
        PROVE  ReadInv'
    <2>1. task'[t] = Resting \/ task'[t].at = "next"
      BY <1>2 DEF Moved
    <2> QED BY <2>1 DEF ReadInv
  <1>3. ASSUME NEW t \in Tasks, PayRead(t)
        PROVE  ReadInv'
    <2>1. task'[t].seen = wallet /\ wallet' = wallet
      BY <1>3, ReadTyped DEF PayRead
    <2> QED BY <2>1 DEF ReadInv
  <1>4. CASE \E o \in Orders : GuestOrderPlaced(o)
    BY <1>1, <1>4 DEF GuestOrderPlaced
  <1>5. CASE \E t \in Tasks, o \in Orders : Arrive(t, o)
    BY <1>2, <1>5, ArriveMoves
  <1>6. ASSUME NEW t \in Tasks, GoesOn(t)
        PROVE  ReadInv'
    BY <1>2, <1>6, GoesOnMoves, RunningTask
  <1> QED BY <1>1, <1>3, <1>4, <1>5, <1>6, StepCases DEF vars

LEMMA PoolInitOK ==
    ASSUME IsFiniteSet(Orders), OrderInit
    PROVE  PoolInv /\ ReadInv
  <1>1. \A o \in Orders, m \in Moves : moved[o][m] = 0
    BY DEF OrderInit
  <1>2. \A o \in Orders : HoldsOf[o] = 0 /\ GainsOf[o] = 0
    BY <1>1 DEF HoldsOf, GainsOf, Outstanding, Moves
  <1>3. SumOf(HoldsOf, Orders) = 0 /\ SumOf(GainsOf, Orders) = 0
    BY <1>2, SumZero
  <1>4. PoolInv
    BY <1>3, OrderAssumption DEF PoolInv, OrderInit, WalletRow
  <1> QED BY <1>4 DEF OrderInit, ReadInv

LEMMA PoolMeansExplained ==
    ASSUME PoolInv
    PROVE  PoolIsExplained
  <1>1. /\ FoldFunction(+, 0, HoldsOf) = SumOf(HoldsOf, DOMAIN HoldsOf)
        /\ FoldFunction(+, 0, GainsOf) = SumOf(GainsOf, DOMAIN GainsOf)
    BY FoldIsSum
  <1>2. DOMAIN HoldsOf = Orders /\ DOMAIN GainsOf = Orders
    BY DEF HoldsOf, GainsOf
  <1> QED BY <1>1, <1>2 DEF PoolInv, PoolIsExplained, HoldsOf, GainsOf

LEMMA PoolAlways ==
    ASSUME IsFiniteSet(Orders), \A t, u \in Tasks : t = u
    PROVE  OrderSpec => [](PoolInv /\ ReadInv)
  <1>1. OrderTypeOK /\ OrderTypeOK' /\ PoolInv /\ ReadInv /\ [OrderNext]_vars
        => PoolInv' /\ ReadInv'
    BY PoolStep, ReadStep
  <1>2. OrderInit => PoolInv /\ ReadInv
    BY PoolInitOK
  <1> QED BY <1>1, <1>2, OrderTypeCorrect, PTL DEF OrderSpec

\* While handlers come one at a time, the wallet is what the ledger makes it:
\* for any number of orders, faults and requests of administrators.
THEOREM PoolStaysExplained ==
    ASSUME IsFiniteSet(Orders), \A t, u \in Tasks : t = u
    PROVE  OrderSpec => []PoolIsExplained
  <1>1. PoolInv => PoolIsExplained
    BY PoolMeansExplained
  <1> QED BY <1>1, PoolAlways, PTL

-----------------------------------------------------------------------------
(* One task at a time and no fault: orders are settled as they end.        *)

LEMMA TupleParts ==
    ASSUME NEW a, NEW b, NEW c, NEW d
    PROVE  /\ <<a>> # <<>> /\ Head(<<a>>) = a /\ Tail(<<a>>) = <<>>
           /\ <<a, b>> # <<>> /\ Head(<<a, b>>) = a /\ Tail(<<a, b>>) = <<b>>
           /\ <<a, b, c>> # <<>> /\ Head(<<a, b, c>>) = a
           /\ Tail(<<a, b, c>>) = <<b, c>>
           /\ <<a, b, c, d>> # <<>> /\ Head(<<a, b, c, d>>) = a
           /\ Tail(<<a, b, c, d>>) = <<b, c, d>>
  OBVIOUS

LEMMA ConsParts ==
    ASSUME NEW S, NEW a \in S, NEW q \in Seq(S)
    PROVE  <<a>> \o q # <<>> /\ Head(<<a>> \o q) = a /\ Tail(<<a>> \o q) = q
  OBVIOUS

LEMMA LongerByOne ==
    ASSUME NEW S, NEW p \in Seq(S), NEW e \in S, NEW r \in Seq(S),
           Len(r) = Len(p) + 1, \A i \in 1..Len(p) : r[i] = p[i], r[Len(p) + 1] = e
    PROVE  p \o <<e>> = r
  <1> DEFINE q == p \o <<e>>
  <1>1. /\ <<e>> \in Seq(S) /\ Len(<<e>>) = 1 /\ <<e>>[1] = e /\ Len(p) \in Nat
    OBVIOUS
  <1>2. /\ q \in Seq(S) /\ Len(q) = Len(p) + 1
        /\ \A i \in 1..Len(p) + 1 : q[i] = IF i <= Len(p) THEN p[i] ELSE <<e>>[i - Len(p)]
    BY <1>1, ConcatProperties
  <1> HIDE DEF q
  <1>3. \A i \in 1..Len(q) : q[i] = r[i]
    BY <1>1, <1>2
  <1> QED BY <1>2, <1>3, SeqEqual DEF q

LEMMA TupleConcat ==
    ASSUME NEW a, NEW b, NEW c, NEW d
    PROVE  /\ <<a, b>> \o <<c>> = <<a, b, c>>
           /\ <<a, b, c>> \o <<d>> = <<a, b, c, d>>
           /\ <<a>> \o <<b, c>> = <<a, b, c>>
  <1> DEFINE S == {a, b, c, d}
  <1> DEFINE two == <<a, b>>
             three == <<a, b, c>>
             four == <<a, b, c, d>>
  <1>1. /\ <<a>> \in Seq(S) /\ <<b>> \in Seq(S) /\ <<c>> \in Seq(S)
        /\ two \in Seq(S) /\ three \in Seq(S) /\ four \in Seq(S)
        /\ c \in S /\ d \in S
    OBVIOUS
  <1>2. /\ Len(two) = 2 /\ Len(three) = 3 /\ Len(four) = 4
        /\ \A i \in 1..2 : three[i] = two[i]
        /\ \A i \in 1..3 : four[i] = three[i]
        /\ three[3] = c /\ four[4] = d
    <2>1. \A i \in 1..2 : i = 1 \/ i = 2
      OBVIOUS
    <2>2. \A i \in 1..3 : i = 1 \/ i = 2 \/ i = 3
      OBVIOUS
    <2> QED BY <2>1, <2>2
  <1> HIDE DEF S, two, three, four
  <1>3. two \o <<c>> = three
    <2>1. /\ Len(three) = Len(two) + 1 /\ three[Len(two) + 1] = c
          /\ \A i \in 1..Len(two) : three[i] = two[i]
      BY <1>2
    <2> QED BY <1>1, <2>1, LongerByOne
  <1>4. three \o <<d>> = four
    <2>1. /\ Len(four) = Len(three) + 1 /\ four[Len(three) + 1] = d
          /\ \A i \in 1..Len(three) : four[i] = three[i]
      BY <1>2
    <2> QED BY <1>1, <2>1, LongerByOne
  <1>5. (<<a>> \o <<b>>) \o <<c>> = <<a>> \o (<<b>> \o <<c>>)
    BY <1>1, ConcatAssociative
  <1>6. <<a>> \o <<b>> = <<a, b>> /\ <<b>> \o <<c>> = <<b, c>>
    BY PairConcat
  <1> QED BY <1>3, <1>4, <1>5, <1>6 DEF two, three, four

\* Orders that are paid from the wallet and left alone by administrators.
Ordinary == Orders \ (Prepaid \cup AdminOrders)

Blank(o) == \A m \in Moves : moved[o][m] = 0

\* The whole price is held, and nothing was given back or charged.
Intact(o) ==
    /\ moved[o]["hold"] = Price[o]
    /\ moved[o]["release"] = 0
    /\ moved[o]["charge"] = 0

Freed(o) == Outstanding(o) = 0 /\ moved[o]["charge"] = 0

Untold(o) == \A e \in {"completed", "partial", "cancelled"} : told[o][e] = 0

Alive(o) == order[o].status \in {"PENDING", "PROCESSING"} /\ Intact(o) /\ Untold(o)

\* What the parts of a partial order may cost that are done ...
Dones(o) == {DonePrice(o, r) : r \in {r \in Remains : Divides(o, r)}}

\* ... and the scripts of what does not divide its price.
Misfits(o) ==
    IF \E r \in Remains : ~Divides(o, r)
    THEN {<<>>} \cup {<<Pay(move, a)>> : move \in {"charge", "release"},
                                       a \in {n \in Nat : n > Price[o]}}
    ELSE {}

\* What SettledAsItEnded says of an order, and what was not told yet.
Settled(o) ==
    \/ order[o].status = "NONE" /\ Blank(o) /\ Untold(o)
    \/ Alive(o)
    \/ /\ order[o].status = "COMPLETED"
       /\ moved[o]["charge"] = Price[o] /\ Outstanding(o) = 0
       /\ told[o]["completed"] = 1
    \/ /\ order[o].status = "PARTIAL" /\ told[o]["partial"] = 1
       /\ moved[o]["hold"] = Price[o]
       /\ Outstanding(o) = 0 /\ moved[o]["charge"] \in Dones(o)
    \/ /\ order[o].status = "PARTIAL" /\ told[o]["partial"] = 1
       /\ Intact(o) /\ Misfits(o) # {}
    \/ order[o].status = "FAILED" /\ Freed(o)
    \/ order[o].status = "CANCELLED" /\ told[o]["cancelled"] = 1 /\ Freed(o)
    \/ order[o].status = "CANCELLED" /\ told[o]["cancelled"] = 0 /\ Intact(o)

\* The scripts, and what is left of them.
HoldAndWalk(o) == <<Pay("hold", Price[o]), [do |-> "walk"]>>
Cancellation(o) == <<Pay("release", Price[o]), Write("CANCELLED"), Tell("cancelled")>>
MarkCompleted == [do |-> "mark", status |-> "COMPLETED"]

Splits(o) ==
    {<<Pay("charge", c), Pay("release", Price[o] - c)>> : c \in Dones(o)}
    \cup {<<Pay("charge", c)>> : c \in Dones(o) \cap {Price[o]}}
    \cup {<<Pay("release", Price[o] - c)>> : c \in Dones(o) \cap {0}}
    \cup (IF Price[o] \in Dones(o) \cap {0} THEN {<<>>} ELSE {})
    \cup Misfits(o)

Proceeding(o) ==
    {<<[do |-> "walk"]>>, <<[do |-> "place"]>>, <<Tell("created")>>,
     <<[do |-> "place"], Tell("created")>>,
     <<Tell("exhausted")>> \o ReleaseAndFail(o), ReleaseAndFail(o), Cancellation(o)}

Ending(o) ==
    {<<Write("COMPLETED"), MarkCompleted, Tell("completed"), Pay("charge", Price[o])>>,
     <<Write("COMPLETED"), Tell("completed"), Pay("charge", Price[o])>>,
     ForceFail(o), <<Write("CANCELLED")>>}
    \cup {<<Write("PARTIAL")>> \o (<<Tell("partial")>> \o q) : q \in Splits(o)}

\* A creation before its hold, or after it was refused.
Unheld(o, kind, s) ==
    /\ order[o].status = "PENDING" /\ Blank(o) /\ Untold(o)
    /\ \/ kind = "create" /\ s = HoldAndWalk(o)
       \/ kind = "cleanup" /\ s = ReleaseAndFail(o)

\* The hold was released; status and event are still to come.
GivenBack(o, s) ==
    /\ Freed(o) /\ Untold(o)
    /\ \/ s = <<Write("FAILED")>>
       \/ s = <<Write("CANCELLED"), Tell("cancelled")>>
       \/ s = <<Tell("cancelled")>> /\ order[o].status = "CANCELLED"

\* The end was written, and not announced yet.
Written(o, s) ==
    /\ Intact(o) /\ Untold(o)
    /\ \/ /\ order[o].status = "COMPLETED"
          /\ \/ s = <<MarkCompleted, Tell("completed"), Pay("charge", Price[o])>>
             \/ s = <<Tell("completed"), Pay("charge", Price[o])>>
       \/ /\ order[o].status = "PARTIAL"
          /\ \E q \in Splits(o) : s = <<Tell("partial")>> \o q

\* It fails, or fails after all: billing refused what is no part of its price.
Failing(o, s) ==
    /\ Intact(o)
    /\ \/ order[o].status = "PARTIAL" /\ s = ForceFail(o)
       \/ /\ order[o].status = "FAILED"
          /\ s = <<Tell("failed"), Pay("release", Price[o])>>

\* It was announced, and is being settled.
Settling(o, s) ==
    \/ /\ order[o].status = "COMPLETED" /\ Intact(o) /\ told[o]["completed"] = 1
       /\ s = <<Pay("charge", Price[o])>>
    \/ /\ order[o].status = "FAILED" /\ Intact(o)
       /\ s = <<Pay("release", Price[o])>>
    \/ /\ order[o].status = "PARTIAL" /\ told[o]["partial"] = 1
       /\ Intact(o) /\ s \in Splits(o)
    \/ /\ order[o].status = "PARTIAL" /\ told[o]["partial"] = 1
       /\ moved[o]["hold"] = Price[o] /\ moved[o]["charge"] \in Dones(o)
       /\ \E a \in 0..Price[o] : Outstanding(o) = a /\ s = <<Pay("release", a)>>

\* How far an order has come in a task that is at s.
Ahead(o, kind, s) ==
    \/ Unheld(o, kind, s)
    \/ Alive(o) /\ s \in Proceeding(o)
    \/ GivenBack(o, s)
    \/ /\ kind # "create"
       /\ \/ Alive(o) /\ s \in Ending(o)
          \/ Written(o, s)
          \/ Failing(o, s)
          \/ Settling(o, s)

OnItsWay(o) ==
    /\ ~InHand(o) => Settled(o)
    /\ \A t \in Tasks :
          task[t] # Resting /\ task[t].order = o => Ahead(o, task[t].kind, task[t].script)

SettledInv == ~Foreign => \A o \in Ordinary : OnItsWay(o)

\* An order is held once, before anything else is done with its money: the
\* statements that come later neither hold nor make an order new again.
Later ==
    {s \in Statement :
        /\ s.do # "hold"
        /\ s.do \in {"write", "mark"} => s.status # "NONE"}

HeldOnceInv ==
    /\ \A o \in Orders : order[o].status = "NONE" => Blank(o)
    /\ \A t \in Tasks :
          task[t] # Resting =>
              /\ order[task[t].order].status # "NONE"
              /\ \/ task[t].script \in Seq(Later)
                 \/ /\ task[t].script = HoldAndWalk(task[t].order)
                    /\ Blank(task[t].order)

LEMMA LaterIsStatement == Seq(Later) \subseteq Seq(Statement)
  <1>1. Later \subseteq Statement
    BY DEF Later
  <1> HIDE DEF Later, Statement
  <1> QED BY <1>1, SeqMonotonic

LEMMA LaterTyped ==
    /\ \A move \in {"release", "charge", "refund"}, a \in Nat : Pay(move, a) \in Later
    /\ \A status \in Statuses \ {"NONE"} :
          Write(status) \in Later /\ [do |-> "mark", status |-> status] \in Later
    /\ \A e \in Events : Tell(e) \in Later
    /\ [do |-> "walk"] \in Later /\ [do |-> "place"] \in Later
  BY DEF Later, Pay, Write, Tell, Statement, Moves

LEMMA LaterShort ==
    /\ <<>> \in Seq(Later)
    /\ \A s \in Later : <<s>> \in Seq(Later)
    /\ \A s, u \in Later : <<s, u>> \in Seq(Later)
    /\ \A s, u, v \in Later : <<s, u, v>> \in Seq(Later)
    /\ \A s, u, v, w \in Later : <<s, u, v, w>> \in Seq(Later)
    /\ \A p, q \in Seq(Later) : p \o q \in Seq(Later)
  <1> HIDE DEF Later
  <1>1. \A p, q \in Seq(Later) : p \o q \in Seq(Later)
    BY ConcatProperties
  <1> QED BY <1>1

LEMMA DonesTyped ==
    ASSUME NEW o \in Orders
    PROVE  Price[o] \in Nat /\ Dones(o) \subseteq 0..Price[o]
  BY OrderAssumption DEF Dones, Divides

LEMMA SplitsLater ==
    ASSUME NEW o \in Orders, NEW q \in Splits(o)
    PROVE  q \in Seq(Later)
  <1>1. \A c \in Dones(o) : c \in Nat /\ Price[o] - c \in Nat
    BY DonesTyped
  <1>2. /\ \A move \in {"charge", "release"}, a \in Nat : Pay(move, a) \in Later
        /\ \A u, v \in Later : <<u>> \in Seq(Later) /\ <<u, v>> \in Seq(Later)
        /\ <<>> \in Seq(Later)
    BY LaterTyped, LaterShort
  <1> HIDE DEF Later
  <1>3. \A c \in Dones(o) :
            /\ <<Pay("charge", c), Pay("release", Price[o] - c)>> \in Seq(Later)
            /\ <<Pay("charge", c)>> \in Seq(Later)
            /\ <<Pay("release", Price[o] - c)>> \in Seq(Later)
    BY <1>1, <1>2
  <1>4. ASSUME NEW r \in Misfits(o)
        PROVE  r \in Seq(Later)
    <2>1. \/ r = <<>>
          \/ \E move \in {"charge", "release"}, a \in Nat : r = <<Pay(move, a)>>
      BY DEF Misfits
    <2> QED BY <1>2, <2>1
  <1> QED BY <1>2, <1>3, <1>4 DEF Splits

LEMMA FixedLater ==
    ASSUME NEW o \in Orders
    PROVE  /\ ReleaseAndFail(o) \in Seq(Later)
           /\ ForceFail(o) \in Seq(Later)
           /\ Cancellation(o) \in Seq(Later)
           /\ <<Tell("exhausted")>> \o ReleaseAndFail(o) \in Seq(Later)
           /\ <<[do |-> "place"], Tell("created")>> \in Seq(Later)
           /\ <<[do |-> "place"]>> \in Seq(Later)
           /\ <<[do |-> "walk"]>> \in Seq(Later)
  <1>1. Pay("release", Price[o]) \in Later
    BY OrderAssumption, LaterTyped
  <1>2. Write("FAILED") \in Later /\ Write("CANCELLED") \in Later
    BY LaterTyped DEF Statuses, Ended
  <1>3. \A e \in {"failed", "cancelled", "exhausted", "created"} : Tell(e) \in Later
    BY LaterTyped DEF Events
  <1> QED BY <1>1, <1>2, <1>3, LaterTyped, LaterShort
          DEF ReleaseAndFail, ForceFail, Cancellation

LEMMA AdminLater ==
    ASSUME NEW o \in Orders, NEW status \in Statuses \ {"NONE"}
    PROVE  /\ ForcedSettlement(o, status) \o <<Write(status)>> \in Seq(Later)
           /\ <<>> \o <<Write(status)>> \in Seq(Later)
           /\ <<Pay("release", Price[o])>> \o <<Pay("refund", Price[o]), Write("REFUNDED")>>
                 \in Seq(Later)
           /\ <<>> \o <<Pay("refund", Price[o]), Write("REFUNDED")>> \in Seq(Later)
  <1>1. /\ Pay("release", Price[o]) \in Later /\ Pay("charge", Price[o]) \in Later
        /\ Pay("refund", Price[o]) \in Later
    BY OrderAssumption, LaterTyped
  <1>2. Write("REFUNDED") \in Later /\ Write(status) \in Later
    BY LaterTyped DEF Statuses
  <1>3. ForcedSettlement(o, status) \in Seq(Later)
    BY <1>1, LaterShort DEF ForcedSettlement
  <1> QED BY <1>1, <1>2, <1>3, LaterShort

\* The script of a panel's word that an order has ended, statement by statement.
LEMMA SplitForms ==
    ASSUME NEW o \in Orders, NEW remains \in Remains
    PROVE  Split(o, remains) \in Splits(o)
  <1> DEFINE c == DonePrice(o, remains)
  <1>1. CASE remains = NoNumber
    <2>1. ~Divides(o, remains) /\ Split(o, remains) = <<>>
      BY <1>1 DEF Divides, Split
    <2> QED BY <2>1 DEF Splits, Misfits
  <1>2. CASE remains # NoNumber
    <2>1. Split(o, remains) = Parts(o, c) /\ c \in Int /\ Price[o] \in Nat
      BY <1>2, WorthIsMost DEF Split
    <2>2. \/ /\ ~(c > 0) /\ ~(Price[o] - c > 0)
             /\ Parts(o, c) = <<>>
          \/ /\ c > 0 /\ ~(Price[o] - c > 0)
             /\ Parts(o, c) = <<Pay("charge", c)>>
          \/ /\ ~(c > 0) /\ Price[o] - c > 0
             /\ Parts(o, c) = <<Pay("release", Price[o] - c)>>
          \/ /\ c > 0 /\ Price[o] - c > 0
             /\ Parts(o, c) = <<Pay("charge", c), Pay("release", Price[o] - c)>>
      BY PartsForms
    <2>3. CASE c \in 0..Price[o]
      <3>1. c \in Dones(o)
        BY <1>2, <2>3 DEF Dones, Divides
      <3> HIDE DEF c
      <3>2. CASE c > 0 /\ Price[o] - c > 0
        BY <2>1, <2>2, <3>1, <3>2 DEF Splits
      <3>3. CASE ~(c > 0) /\ Price[o] - c > 0
        <4>1. c = 0
          BY <2>3, <3>3
        <4> QED BY <2>1, <2>2, <3>1, <3>3, <4>1 DEF Splits
      <3>4. CASE c > 0 /\ ~(Price[o] - c > 0)
        <4>1. c = Price[o]
          BY <2>1, <2>3, <3>4
        <4> QED BY <2>1, <2>2, <3>1, <3>4, <4>1 DEF Splits
      <3>5. CASE ~(c > 0) /\ ~(Price[o] - c > 0)
        <4>1. c = 0 /\ c = Price[o]
          BY <2>1, <2>3, <3>5
        <4> QED BY <2>1, <2>2, <3>1, <3>5, <4>1 DEF Splits
      <3> QED BY <3>2, <3>3, <3>4, <3>5
    <2>4. CASE c \notin 0..Price[o]
      <3>1. ~Divides(o, remains)
        BY <2>4 DEF Divides
      <3> HIDE DEF c
      <3>2. \/ c < 0 /\ Price[o] - c \in Nat /\ Price[o] - c > Price[o]
            \/ c > Price[o] /\ c \in Nat
        BY <2>1, <2>4
      <3>3. \/ c < 0 /\ Parts(o, c) = <<Pay("release", Price[o] - c)>>
            \/ c > Price[o] /\ Parts(o, c) = <<Pay("charge", c)>>
        BY <2>1, <2>2, <3>2
      <3> QED BY <2>1, <3>1, <3>2, <3>3 DEF Splits, Misfits
    <2> QED BY <2>3, <2>4
  <1> QED BY <1>1, <1>2

LEMMA EndForms ==
    ASSUME NEW o \in Orders, NEW status \in Ended, NEW remains \in Remains,
           NEW refills \in BOOLEAN
    PROVE  End(o, status, remains, refills) \in Ending(o)
  <1> DEFINE w == Write(status)
             charge == Pay("charge", Price[o])
             release == Pay("release", Price[o])
             done == Tell("completed")
             failed == Tell("failed")
             part == Tell("partial")
  <1>1. CASE status = "COMPLETED"
    <2>1. /\ Settlement(o, status, remains) = <<charge>>
          /\ Announcement(status) = <<done>>
          /\ Mark(status, refills) = IF refills THEN <<MarkCompleted>> ELSE <<>>
      BY <1>1 DEF Settlement, Announcement, Mark, MarkCompleted
    <2>2. /\ <<w>> \o <<>> = <<w>> /\ <<w>> \o <<done>> = <<w, done>>
          /\ <<w, done>> \o <<charge>> = <<w, done, charge>>
          /\ <<w>> \o <<MarkCompleted>> = <<w, MarkCompleted>>
          /\ <<w, MarkCompleted>> \o <<done>> = <<w, MarkCompleted, done>>
          /\ <<w, MarkCompleted, done>> \o <<charge>> = <<w, MarkCompleted, done, charge>>
      <3> HIDE DEF w, done, charge
      <3>1. <<w>> \o <<>> = <<w>>
        OBVIOUS
      <3>2. <<w>> \o <<done>> = <<w, done>> /\ <<w>> \o <<MarkCompleted>> = <<w, MarkCompleted>>
        BY PairConcat
      <3>3. /\ <<w, done>> \o <<charge>> = <<w, done, charge>>
            /\ <<w, MarkCompleted>> \o <<done>> = <<w, MarkCompleted, done>>
        BY TupleConcat
      <3>4. <<w, MarkCompleted, done>> \o <<charge>> = <<w, MarkCompleted, done, charge>>
        BY TupleConcat
      <3> QED BY <3>1, <3>2, <3>3, <3>4
    <2> HIDE DEF w, done, charge
    <2>3. \/ End(o, status, remains, refills) = <<w, done, charge>>
          \/ End(o, status, remains, refills) = <<w, MarkCompleted, done, charge>>
      BY <2>1, <2>2 DEF End, w
    <2> QED BY <1>1, <2>3 DEF Ending, w, done, charge
  <1>2. CASE status = "FAILED"
    <2>1. /\ Settlement(o, status, remains) = <<release>>
          /\ Announcement(status) = <<failed>>
          /\ Mark(status, refills) = <<>>
      BY <1>2 DEF Settlement, Announcement, Mark
    <2>2. /\ <<w>> \o <<>> = <<w>> /\ <<w>> \o <<failed>> = <<w, failed>>
          /\ <<w, failed>> \o <<release>> = <<w, failed, release>>
      <3> HIDE DEF w, failed, release
      <3>1. <<w>> \o <<>> = <<w>>
        OBVIOUS
      <3>2. <<w>> \o <<failed>> = <<w, failed>>
        BY PairConcat
      <3>3. <<w, failed>> \o <<release>> = <<w, failed, release>>
        BY TupleConcat
      <3> QED BY <3>1, <3>2, <3>3
    <2> HIDE DEF w, failed, release
    <2>3. End(o, status, remains, refills) = <<w, failed, release>>
      BY <2>1, <2>2 DEF End, w
    <2> QED BY <1>2, <2>3 DEF Ending, ForceFail, w, failed, release
  <1>3. CASE status = "CANCELLED"
    <2>1. /\ Settlement(o, status, remains) = <<>> /\ Announcement(status) = <<>>
          /\ Mark(status, refills) = <<>>
      BY <1>3 DEF Settlement, Announcement, Mark
    <2>2. <<w>> \o <<>> = <<w>>
      OBVIOUS
    <2> HIDE DEF w
    <2>3. End(o, status, remains, refills) = <<w>>
      BY <2>1, <2>2 DEF End, w
    <2> QED BY <1>3, <2>3 DEF Ending, w
  <1>4. CASE status = "PARTIAL"
    <2> DEFINE q == Split(o, remains)
    <2>1. /\ Settlement(o, status, remains) = q
          /\ Announcement(status) = <<part>>
          /\ Mark(status, refills) = <<>>
      BY <1>4 DEF Settlement, Announcement, Mark
    <2>2. q \in Splits(o) /\ q \in Seq(Later)
      BY SplitForms, SplitsLater
    <2>3. <<w>> \in Seq(Later) /\ <<part>> \in Seq(Later)
      BY LaterTyped, LaterShort DEF Statuses, Ended, Events
    <2> HIDE DEF w, part, q
    <2>4. <<w>> \o <<>> = <<w>>
      BY <2>3, ConcatEmptySeq
    <2>5. (<<w>> \o <<part>>) \o q = <<w>> \o (<<part>> \o q)
      BY <2>2, <2>3, ConcatAssociative
    <2>6. End(o, status, remains, refills) = <<w>> \o (<<part>> \o q)
      BY <2>1, <2>4, <2>5 DEF End, w
    <2> QED BY <1>4, <2>2, <2>6 DEF Ending, w, part
  <1> QED BY <1>1, <1>2, <1>3, <1>4 DEF Ended

LEMMA EndingLater ==
    ASSUME NEW o \in Orders, NEW s \in Ending(o)
    PROVE  s \in Seq(Later)
  <1>1. /\ Pay("charge", Price[o]) \in Later
        /\ Write("COMPLETED") \in Later /\ Write("CANCELLED") \in Later
        /\ Write("PARTIAL") \in Later /\ MarkCompleted \in Later
        /\ Tell("completed") \in Later /\ Tell("partial") \in Later
    BY OrderAssumption, LaterTyped DEF Statuses, Ended, Events, MarkCompleted
  <1>2. \A q \in Splits(o) : <<Write("PARTIAL")>> \o (<<Tell("partial")>> \o q) \in Seq(Later)
    BY <1>1, SplitsLater, LaterShort
  <1>3. /\ <<Write("COMPLETED"), MarkCompleted, Tell("completed"), Pay("charge", Price[o])>>
              \in Seq(Later)
        /\ <<Write("COMPLETED"), Tell("completed"), Pay("charge", Price[o])>> \in Seq(Later)
        /\ <<Write("CANCELLED")>> \in Seq(Later)
    BY <1>1, LaterShort
  <1>4. ForceFail(o) \in Seq(Later)
    BY FixedLater
  <1> QED BY <1>2, <1>3, <1>4 DEF Ending

\* Where a task stands after a step, and where it begins.
LEMMA ThrowLater ==
    ASSUME OrderTypeOK, NEW t \in Tasks, task[t] # Resting,
           task[t].script # <<>>, Throw(t)
    PROVE  task'[t] = Resting \/ OneFurther(t) \/ task'[t].script \in Seq(Later)
  <1> DEFINE o == task[t].order
  <1>1. o \in Orders
    BY RunningTask
  <1>2. ReleaseAndFail(o) \in Seq(Later) /\ ForceFail(o) \in Seq(Later)
    BY <1>1, FixedLater
  <1>3. CASE Done(t)
    BY <1>3, DoneLands
  <1>4. CASE Go(t, "cleanup", ReleaseAndFail(o))
    BY <1>2, <1>4, GoLands
  <1>5. CASE Go(t, "plain", ForceFail(o))
    BY <1>2, <1>5, GoLands
  <1>6. CASE Rest(t)
    BY <1>6 DEF Rest, OrderTypeOK
  <1> QED BY <1>3, <1>4, <1>5, <1>6 DEF Throw

LEMMA GoesOnLater ==
    ASSUME OrderTypeOK, NEW t \in Tasks, GoesOn(t)
    PROVE  task'[t] = Resting \/ OneFurther(t) \/ task'[t].script \in Seq(Later)
  <1>1. task[t] # Resting /\ task[t].order \in Orders
    BY GoesOnMoves, RunningTask
  <1>2. CASE PayRefused(t) \/ RefillRefused(t) \/ StatementFails(t)
    BY <1>1, <1>2, ThrowLater DEF PayRefused, RefillRefused, StatementFails, Facing
  <1>3. CASE PayCommit(t) \/ NotePlace(t) \/ WriteStatus(t) \/ TellEvent(t)
    BY <1>3, DoneLands DEF PayCommit, NotePlace, WriteStatus, TellEvent, Facing
  <1>4. CASE WalkSucceeds(t) \/ WalkExhausted(t)
    BY <1>1, <1>4, FixedLater, GoLands DEF WalkSucceeds, WalkExhausted
  <1>5. CASE Die(t)
    BY <1>5 DEF Die, Rest, OrderTypeOK
  <1> QED BY <1>2, <1>3, <1>4, <1>5 DEF GoesOn

LEMMA ArriveLater ==
    ASSUME OrderTypeOK, NEW t \in Tasks, NEW o \in Orders, Arrive(t, o)
    PROVE  /\ task'[t].order = o /\ order'[o].status # "NONE"
           /\ \/ task'[t].script \in Seq(Later)
              \/ task'[t].script = HoldAndWalk(o) /\ order[o].status = "NONE"
  <1>1. ASSUME NEW kind, NEW script, Begin(t, kind, o, script)
        PROVE  task'[t].order = o /\ task'[t].script = script
    BY <1>1 DEF Begin, Fresh, OrderTypeOK
  <1>2. ASSUME NEW kind, NEW script \in Seq(Later), Begin(t, kind, o, script)
        PROVE  task'[t].order = o /\ task'[t].script \in Seq(Later)
    BY <1>1, <1>2
  <1>3. CASE CreateOrder(t, o)
    BY <1>1, <1>3 DEF CreateOrder, SetStatus, HoldAndWalk, OrderTypeOK
  <1>4. CASE RefillOrder(t, o)
    <2>1. order'[o].status # "NONE"
      BY <1>4 DEF RefillOrder, SetStatus, OrderTypeOK
    <2>2. Begin(t, "plain", o, <<[do |-> "place"]>>)
      BY <1>4 DEF RefillOrder
    <2> QED BY <1>2, <2>1, <2>2, FixedLater
  <1>5. CASE CancelOrder(t, o) \/ ForceFailOrder(t, o)
    <2>1. order' = order /\ order[o].status # "NONE"
      BY <1>5 DEF CancelOrder, ForceFailOrder, Read
    <2>2. PICK script \in {Cancellation(o), ForceFail(o)} : Begin(t, "plain", o, script)
      BY <1>5 DEF CancelOrder, ForceFailOrder, Read, Cancellation
    <2>3. script \in Seq(Later)
      BY <2>2, FixedLater
    <2> QED BY <1>2, <2>1, <2>2, <2>3
  <1>6. CASE PollOrder(t, o) \/ CheckTimedOutOrder(t, o)
    <2>1. order' = order /\ order[o].status # "NONE"
      BY <1>6 DEF PollOrder, CheckTimedOutOrder, Read
    <2>2. PICK kind \in {"check", "plain"}, status \in Ended, remains \in Remains,
               refills \in BOOLEAN :
             Begin(t, kind, o, End(o, status, remains, refills))
      BY <1>6 DEF PollOrder, CheckTimedOutOrder, Read
    <2>3. End(o, status, remains, refills) \in Seq(Later)
      BY EndForms, EndingLater
    <2> QED BY <1>2, <2>1, <2>2, <2>3
  <1>7. CASE AdminForceStatus(t, o)
    <2>1. order' = order /\ order[o].status # "NONE"
      BY <1>7 DEF AdminForceStatus, AdminRead
    <2>2. PICK status \in Statuses \ {"NONE"} :
             Begin(t, "plain", o, (IF order[o].status = "PROCESSING"
                                   THEN ForcedSettlement(o, status) ELSE <<>>)
                                  \o <<Write(status)>>)
      BY <1>7 DEF AdminForceStatus, AdminRead
    <2> QED BY <1>2, <2>1, <2>2, AdminLater
  <1>8. CASE AdminRefundOrder(t, o)
    <2>1. order' = order /\ order[o].status # "NONE"
      BY <1>8 DEF AdminRefundOrder, AdminRead
    <2>2. Begin(t, "plain", o, (IF order[o].status = "PROCESSING"
                                THEN <<Pay("release", Price[o])>> ELSE <<>>)
                               \o <<Pay("refund", Price[o]), Write("REFUNDED")>>)
      BY <1>8 DEF AdminRefundOrder, AdminRead
    <2>3. "REFUNDED" \in Statuses \ {"NONE"}
      BY DEF Statuses
    <2> QED BY <1>2, <2>1, <2>2, <2>3, AdminLater
  <1> QED BY <1>3, <1>4, <1>5, <1>6, <1>7, <1>8 DEF Arrive

\* The first statement of a script that is not a creation's.
LEMMA HeadLater ==
    ASSUME NEW s \in Seq(Later), s # <<>>
    PROVE  Head(s) \in Later /\ Tail(s) \in Seq(Later)
  <1> HIDE DEF Later
  <1> QED BY HeadTailProperties

LEMMA HeldOnceStep ==
    ASSUME \A t, u \in Tasks : t = u, OrderTypeOK, HeldOnceInv, [OrderNext]_vars
    PROVE  HeldOnceInv'
  <1>1. CASE UNCHANGED <<order, moved, task>>
    BY <1>1 DEF HeldOnceInv, Blank
  <1>2. ASSUME NEW g \in Orders, GuestOrderPlaced(g)
        PROVE  HeldOnceInv'
    <2>1. /\ order[g].status = "NONE" /\ order'[g].status = "PROCESSING"
          /\ \A o \in Orders : o # g => order'[o] = order[o]
          /\ UNCHANGED <<moved, task>>
      BY <1>2 DEF GuestOrderPlaced, SetStatus, OrderTypeOK
    <2>2. \A o \in Orders : order[o].status # "NONE" => order'[o].status # "NONE"
      BY <2>1
    <2>3. \A t \in Tasks : task[t] # Resting => task[t].order \in Orders
      BY RunningTask
    <2> QED BY <2>1, <2>2, <2>3 DEF HeldOnceInv, Blank
  <1>3. ASSUME NEW t \in Tasks, PayRead(t)
        PROVE  HeldOnceInv'
    <2>1. /\ task[t] # Resting
          /\ task'[t].order = task[t].order /\ task'[t].script = task[t].script
          /\ UNCHANGED <<order, moved>>
      BY <1>3, ReadTyped DEF PayRead
    <2> QED BY <2>1 DEF HeldOnceInv, Blank
  <1>4. ASSUME NEW t \in Tasks, NEW o \in Orders, Arrive(t, o)
        PROVE  HeldOnceInv'
    <2>1. /\ moved' = moved
          /\ task'[t].order = o /\ order'[o].status # "NONE"
          /\ \/ task'[t].script \in Seq(Later)
             \/ task'[t].script = HoldAndWalk(o) /\ order[o].status = "NONE"
      BY <1>4, ArriveMoves, ArriveLater
    <2>2. \A p \in Orders : p # o => order'[p] = order[p]
      BY <1>4, ArriveMoves DEF OrderTypeOK
    <2>3. \A p \in Orders : order'[p].status = "NONE" => Blank(p)'
      BY <2>1, <2>2 DEF HeldOnceInv, Blank
    <2>4. task'[t].script = HoldAndWalk(o) /\ order[o].status = "NONE" => Blank(o)'
      BY <2>1 DEF HeldOnceInv, Blank
    <2>5. HoldAndWalk(o)' = HoldAndWalk(o)
      BY DEF HoldAndWalk
    <2> QED BY <2>1, <2>3, <2>4, <2>5 DEF HeldOnceInv
  <1>5. ASSUME NEW t \in Tasks, GoesOn(t)
        PROVE  HeldOnceInv'
    <2> DEFINE o == task[t].order
               s == task[t].script
    <2>1. /\ task[t] # Resting /\ o \in Orders /\ s \in Seq(Statement)
          /\ task'[t] = Resting \/ task'[t].order = o
      BY <1>5, GoesOnMoves, RunningTask DEF Moved
    <2>2. /\ order[o].status # "NONE"
          /\ s \in Seq(Later) \/ s = HoldAndWalk(o)
      BY <2>1 DEF HeldOnceInv
    <2>3. \A p \in Orders : p # o => order'[p] = order[p] /\ moved'[p] = moved[p]
      BY <1>5, GoesOnTouches
    <2>4. order'[o].status # "NONE"
      <3>1. CASE WriteStatus(t)
        <4>1. /\ s # <<>> /\ Head(s).do \in {"write", "mark"}
              /\ order'[o].status = Head(s).status
          BY <2>1, <3>1 DEF WriteStatus, Facing, SetStatus, OrderTypeOK
        <4>2. s \in Seq(Later)
          BY <2>2, <4>1 DEF HoldAndWalk, Pay
        <4>3. Head(s) \in Later
          BY <4>1, <4>2, HeadLater
        <4> QED BY <4>1, <4>3 DEF Later
      <3>2. CASE NotePlace(t)
        BY <2>1, <3>2 DEF NotePlace, SetStatus, OrderTypeOK
      <3>3. CASE order' = order
        BY <2>2, <3>3
      <3> QED BY <1>5, <3>1, <3>2, <3>3 DEF GoesOn, PayRefused, PayCommit, WalkSucceeds,
              WalkExhausted, RefillRefused, TellEvent, StatementFails, Die
    <2>5. task'[t] = Resting \/ task'[t].script \in Seq(Later)
      <3>1. ASSUME OneFurther(t)
            PROVE  task'[t].script \in Seq(Later)
        <4>1. s # <<>> /\ task'[t].script = Tail(s)
          BY <3>1 DEF OneFurther
        <4>2. CASE s \in Seq(Later)
          BY <4>1, <4>2, HeadLater
        <4>3. CASE s = HoldAndWalk(o)
          <5>1. Tail(s) = <<[do |-> "walk"]>>
            BY <4>3, TupleParts DEF HoldAndWalk
          <5> QED BY <2>1, <4>1, <5>1, FixedLater
        <4> QED BY <2>2, <4>2, <4>3
      <3> QED BY <1>5, <3>1, GoesOnLater
    <2> HIDE DEF o, s
    <2>6. \A p \in Orders : order'[p].status = "NONE" => Blank(p)'
      BY <2>3, <2>4 DEF HeldOnceInv, Blank
    <2> QED BY <2>1, <2>4, <2>5, <2>6 DEF HeldOnceInv
  <1> QED BY <1>1, <1>2, <1>3, <1>4, <1>5, StepCases DEF vars

\* Money that was taken from other orders stays taken.
LEMMA ForeignStays ==
    ASSUME \A t, u \in Tasks : t = u, OrderTypeOK, HeldOnceInv, [OrderNext]_vars, Foreign
    PROVE  Foreign'
  <1>1. PICK p \in Orders : moved[p]["release"] + moved[p]["charge"] > moved[p]["hold"]
    BY DEF Foreign
  <1>2. CASE moved'[p] = moved[p]
    BY <1>1, <1>2 DEF Foreign
  <1>3. ASSUME NEW t \in Tasks, PayCommit(t), task[t].order = p
        PROVE  Foreign'
    <2> DEFINE s == Head(task[t].script)
    <2>1. /\ task[t] # Resting /\ task[t].script # <<>> /\ s.do \in Moves
          /\ \A m \in Moves :
                moved'[p][m] = IF m = s.do THEN moved[p][m] + s.amount ELSE moved[p][m]
      BY <1>3 DEF PayCommit, Facing, OrderTypeOK
    <2>2. s.amount \in Nat
      BY <2>1, HeadTyped, AmountTyped
    <2>3. ~Blank(p)
      BY <1>1 DEF Blank, Moves
    <2>4. s.do # "hold"
      <3>1. task[t].script \in Seq(Later)
        BY <1>3, <2>1, <2>3 DEF HeldOnceInv
      <3>2. s \in Later
        BY <2>1, <3>1, HeadLater
      <3> QED BY <3>2 DEF Later
    <2> HIDE DEF s
    <2>5. /\ moved'[p]["hold"] = moved[p]["hold"]
          /\ moved'[p]["release"] >= moved[p]["release"]
          /\ moved'[p]["charge"] >= moved[p]["charge"]
          /\ moved'[p]["release"] \in Nat /\ moved'[p]["charge"] \in Nat
          /\ \A m \in Moves : moved[p][m] \in Nat
      BY <2>1, <2>2, <2>4, TotalsTyped DEF Moves
    <2> QED BY <1>1, <2>5 DEF Foreign, Moves
  <1>4. ASSUME NEW t \in Tasks, GoesOn(t)
        PROVE  Foreign'
    <2>1. CASE task[t].order # p
      BY <1>2, <1>4, <2>1, GoesOnTouches
    <2>2. CASE moved' = moved
      BY <1>2, <2>2
    <2> QED BY <1>3, <1>4, <2>1, <2>2 DEF GoesOn, PayRefused, WalkSucceeds,
            WalkExhausted, RefillRefused, NotePlace, WriteStatus, TellEvent,
            StatementFails, Die
  <1>5. CASE moved' = moved
    BY <1>2, <1>5
  <1>6. CASE \E g \in Orders : GuestOrderPlaced(g)
    BY <1>5, <1>6 DEF GuestOrderPlaced
  <1>7. CASE \E t \in Tasks, o \in Orders : Arrive(t, o)
    BY <1>5, <1>7, ArriveMoves
  <1>8. CASE \E t \in Tasks : PayRead(t)
    BY <1>5, <1>8 DEF PayRead
  <1> QED BY <1>4, <1>5, <1>6, <1>7, <1>8, StepCases DEF vars

\* What a step of a task does to its order when nothing fails: by the
\* statement it is at.
Lands(t, kind, script) ==
    IF script = <<>> THEN task'[t] = Resting
    ELSE /\ task'[t] # Resting
         /\ task'[t].kind = kind /\ task'[t].script = script

Calls(t, o) ==
    LET h == Head(task[t].script)
    IN  /\ h.do \in Moves
        /\ order'[o] = order[o] /\ told'[o] = told[o]
        /\ \/ ~Permits(wallet, h) /\ moved'[o] = moved[o] /\ Throw(t)
           \/ /\ \A m \in Moves :
                    moved'[o][m] = IF m = h.do THEN moved[o][m] + h.amount ELSE moved[o][m]
              /\ Lands(t, task[t].kind, Tail(task[t].script))

Walks(t, o) ==
    /\ Head(task[t].script).do = "walk"
    /\ order'[o] = order[o] /\ told'[o] = told[o] /\ moved'[o] = moved[o]
    /\ \/ Lands(t, task[t].kind, <<[do |-> "place"], Tell("created")>>)
       \/ Lands(t, "cleanup", <<Tell("exhausted")>> \o ReleaseAndFail(o))

Places(t, o) ==
    /\ Head(task[t].script).do = "place"
    /\ told'[o] = told[o] /\ moved'[o] = moved[o]
    /\ \/ task'[t] = Resting /\ order'[o] = order[o]
       \/ /\ order'[o].status = "PROCESSING"
          /\ Lands(t, task[t].kind, Tail(task[t].script))

Writes(t, o) ==
    LET h == Head(task[t].script)
    IN  /\ h.do \in {"write", "mark"}
        /\ told'[o] = told[o] /\ moved'[o] = moved[o]
        /\ order'[o].status = h.status
        /\ Lands(t, task[t].kind, Tail(task[t].script))

Tells(t, o) ==
    LET h == Head(task[t].script)
    IN  /\ h.do = "tell"
        /\ order'[o] = order[o] /\ moved'[o] = moved[o]
        /\ \A e \in Events :
              told'[o][e] = IF e = h.event THEN told[o][e] + 1 ELSE told[o][e]
        /\ Lands(t, task[t].kind, Tail(task[t].script))

Does(t, o) ==
    /\ task[t].script # <<>>
    /\ Calls(t, o) \/ Walks(t, o) \/ Places(t, o) \/ Writes(t, o) \/ Tells(t, o)

LEMMA FreshRuns ==
    ASSUME NEW kind, NEW o, NEW script
    PROVE  /\ Fresh(kind, o, script) # Resting \/ kind = "none"
           /\ Fresh(kind, o, script).kind = kind
           /\ Fresh(kind, o, script).script = script
  BY DEF Fresh, Resting

LEMMA GoRuns ==
    ASSUME OrderTypeOK, NEW t \in Tasks, NEW kind \in Kinds, NEW script,
           Go(t, kind, script)
    PROVE  Lands(t, kind, script)
  <1> DEFINE f == Fresh(kind, task[t].order, script)
  <1>1. f # Resting /\ f.kind = kind /\ f.script = script
    BY FreshRuns DEF Kinds
  <1>2. task' = [task EXCEPT ![t] = IF script = <<>> THEN Resting ELSE f]
    BY DEF Go
  <1>3. task'[t] = IF script = <<>> THEN Resting ELSE f
    BY <1>2 DEF OrderTypeOK
  <1> HIDE DEF f
  <1> QED BY <1>1, <1>3 DEF Lands

LEMMA TaskDoes ==
    ASSUME OrderTypeOK, MaxFaults = 0, NEW t \in Tasks, GoesOn(t)
    PROVE  Does(t, task[t].order)
  <1> DEFINE o == task[t].order
             s == task[t].script
  <1>1. task[t] # Resting /\ o \in Orders /\ task[t].kind \in Kinds
    BY GoesOnMoves, RunningTask
  <1>2. Done(t) => Lands(t, task[t].kind, Tail(s))
    BY <1>1, GoRuns DEF Done
  <1>3. CASE PayRefused(t)
    BY <1>3 DEF PayRefused, Facing, Does, Calls
  <1>4. CASE PayCommit(t)
    <2>1. \A m \in Moves :
             moved'[o][m] = IF m = Head(s).do THEN moved[o][m] + Head(s).amount
                                              ELSE moved[o][m]
      BY <1>1, <1>4 DEF PayCommit, OrderTypeOK
    <2> QED BY <1>2, <1>4, <2>1 DEF PayCommit, Facing, Does, Calls
  <1>5. CASE WalkSucceeds(t)
    BY <1>1, <1>5, GoRuns DEF WalkSucceeds, Facing, Does, Walks
  <1>6. CASE WalkExhausted(t)
    BY <1>1, <1>6, GoRuns DEF WalkExhausted, Facing, Does, Walks, Kinds
  <1>7. CASE RefillRefused(t)
    <2>1. Head(s).do = "place" /\ task[t].kind = "plain" /\ Throw(t) /\ s # <<>>
          /\ UNCHANGED <<order, moved, told>>
      BY <1>7 DEF RefillRefused, Facing
    <2>2. Rest(t)
      BY <2>1 DEF Throw
    <2>3. task'[t] = Resting
      BY <2>2 DEF Rest, OrderTypeOK
    <2> QED BY <2>1, <2>3 DEF Does, Places
  <1>8. CASE NotePlace(t)
    <2>1. order'[o].status = "PROCESSING"
      BY <1>1, <1>8 DEF NotePlace, SetStatus, OrderTypeOK
    <2> QED BY <1>2, <1>8, <2>1 DEF NotePlace, Facing, Does, Places
  <1>9. CASE WriteStatus(t)
    <2>1. order'[o].status = Head(s).status
      BY <1>1, <1>9 DEF WriteStatus, SetStatus, OrderTypeOK
    <2> QED BY <1>2, <1>9, <2>1 DEF WriteStatus, Facing, Does, Writes
  <1>10. CASE TellEvent(t)
    <2>1. \A e \in Events :
             told'[o][e] = IF e = Head(s).event THEN told[o][e] + 1 ELSE told[o][e]
      BY <1>1, <1>10 DEF TellEvent, OrderTypeOK
    <2> QED BY <1>2, <1>10, <2>1 DEF TellEvent, Facing, Does, Tells
  <1>11. ~StatementFails(t) /\ ~Die(t)
    BY DEF StatementFails, Die, Fault, OrderTypeOK
  <1> QED BY <1>3, <1>4, <1>5, <1>6, <1>7, <1>8, <1>9, <1>10, <1>11 DEF GoesOn

\* Where an order is after a step of its task.
Reached(t, o) ==
    IF task'[t] = Resting THEN Settled(o)'
    ELSE \E kind, s : task'[t].kind = kind /\ task'[t].script = s /\ Ahead(o, kind, s)'

LEMMA LandsReached ==
    ASSUME NEW t, NEW o, NEW kind, NEW q, Lands(t, kind, q),
           q = <<>> => Settled(o)', q # <<>> => Ahead(o, kind, q)'
    PROVE  Reached(t, o)
  BY DEF Lands, Reached

\* Which statement it is says what the step does.
LEMMA DoesByHead ==
    ASSUME NEW t, NEW o, Does(t, o)
    PROVE  LET h == Head(task[t].script)
           IN  /\ h.do \in Moves => Calls(t, o)
               /\ h.do = "walk" => Walks(t, o)
               /\ h.do = "place" => Places(t, o)
               /\ h.do \in {"write", "mark"} => Writes(t, o)
               /\ h.do = "tell" => Tells(t, o)
  BY DEF Does, Calls, Walks, Places, Writes, Tells, Moves

\* A call of billing for money that is held for the order is not refused.
LEMMA HeldIsSettled ==
    ASSUME OrderTypeOK, NEW o \in Orders, wallet.hold >= Outstanding(o),
           NEW move \in {"release", "charge"}, NEW a \in Nat, a <= Outstanding(o),
           NEW t, Calls(t, o), Head(task[t].script) = Pay(move, a)
    PROVE  /\ order'[o] = order[o] /\ told'[o] = told[o]
           /\ moved'[o]["hold"] = moved[o]["hold"]
           /\ moved'[o]["release"] = IF move = "release" THEN moved[o]["release"] + a
                                                         ELSE moved[o]["release"]
           /\ moved'[o]["charge"] = IF move = "charge" THEN moved[o]["charge"] + a
                                                       ELSE moved[o]["charge"]
           /\ Lands(t, task[t].kind, Tail(task[t].script))
  <1>1. Pay(move, a).do = move /\ Pay(move, a).amount = a
    BY DEF Pay
  <1>2. wallet.hold \in Int /\ Outstanding(o) \in Int
    BY TotalsTyped DEF OrderTypeOK, WalletRow
  <1> DEFINE h == Pay(move, a)
  <1>3. h.do = move /\ h.amount = a /\ Head(task[t].script) = h
    BY <1>1
  <1> HIDE DEF h
  <1>4. wallet.hold >= a
    BY <1>2
  <1>5. Permits(wallet, h)
    <2>1. Permits(wallet, h) = CanSettle(wallet, h.amount)
      BY <1>3 DEF Permits
    <2> QED BY <1>3, <1>4, <2>1 DEF CanSettle
  <1> QED BY <1>3, <1>5 DEF Calls, Moves

LEMMA IntactCounts ==
    ASSUME NEW o \in Orders, Intact(o)
    PROVE  Outstanding(o) = Price[o] /\ Price[o] \in Nat
  BY OrderAssumption DEF Intact, Outstanding

\* A creation before its hold.
LEMMA UnheldStep ==
    ASSUME OrderTypeOK, OrderTypeOK', NEW t \in Tasks, NEW o \in Orders, Does(t, o),
           task[t].order = o, NEW kind, task[t].kind = kind,
           NEW s, task[t].script = s, Unheld(o, kind, s), ~Foreign'
    PROVE  Reached(t, o)
  <1>1. Price[o] \in Nat
    BY OrderAssumption
  <1>2. order[o].status = "PENDING" /\ Untold(o) /\ \A m \in Moves : moved[o][m] = 0
    BY DEF Unheld, Blank
  <1>3. CASE kind = "create" /\ s = HoldAndWalk(o)
    <2>1. /\ Head(s) = Pay("hold", Price[o]) /\ Tail(s) = <<[do |-> "walk"]>>
          /\ Head(s).do = "hold" /\ Head(s).amount = Price[o]
      BY <1>3, TupleParts DEF HoldAndWalk, Pay
    <2>2. Calls(t, o)
      BY <2>1, DoesByHead DEF Moves
    <2>3. CASE moved'[o] = moved[o] /\ Throw(t)
      <3>1. Go(t, "cleanup", ReleaseAndFail(o))
        BY <1>3, <2>1, <2>3 DEF Throw
      <3>2. Lands(t, "cleanup", ReleaseAndFail(o))
        BY <3>1, GoRuns DEF Kinds
      <3>3. Unheld(o, "cleanup", ReleaseAndFail(o))'
        BY <1>2, <2>2, <2>3 DEF Unheld, Blank, Untold, Calls, ReleaseAndFail
      <3> QED BY <3>2, <3>3, LandsReached DEF Ahead, ReleaseAndFail
    <2>4. CASE /\ \A m \in Moves : moved'[o][m] = IF m = "hold" THEN moved[o][m] + Price[o]
                                                                ELSE moved[o][m]
               /\ Lands(t, kind, Tail(s))
      <3>1. Alive(o)'
        <4>1. Intact(o)'
          BY <1>1, <1>2, <2>4 DEF Intact, Moves
        <4> QED BY <4>1, <1>2, <2>2 DEF Alive, Untold, Calls
      <3>2. Tail(s) \in Proceeding(o) /\ Tail(s) # <<>> /\ Proceeding(o)' = Proceeding(o)
        BY <2>1 DEF Proceeding, ReleaseAndFail, Cancellation
      <3> QED BY <2>4, <3>1, <3>2, LandsReached DEF Ahead
    <2> QED BY <2>1, <2>2, <2>3, <2>4 DEF Calls
  <1>4. CASE kind = "cleanup" /\ s = ReleaseAndFail(o)
    <2>1. /\ Head(s) = Pay("release", Price[o]) /\ Tail(s) = <<Write("FAILED")>>
          /\ Head(s).do = "release" /\ Head(s).amount = Price[o] /\ Tail(s) # <<>>
      BY <1>4, TupleParts DEF ReleaseAndFail, Pay
    <2>2. Calls(t, o)
      BY <2>1, DoesByHead DEF Moves
    <2>3. Lands(t, kind, Tail(s))
      <3>1. ASSUME Throw(t)
            PROVE  Lands(t, kind, Tail(s))
        <4>1. Done(t)
          BY <1>4, <3>1 DEF Throw
        <4>2. kind \in Kinds
          BY <1>4 DEF Kinds
        <4> QED BY <4>1, <4>2, GoRuns DEF Done
      <3> QED BY <2>2, <3>1 DEF Calls
    <2>4. Freed(o)'
      <3>1. CASE moved'[o] = moved[o]
        BY <1>2, <3>1 DEF Freed, Outstanding, Moves
      <3>2. CASE \A m \in Moves : moved'[o][m] = IF m = "release" THEN moved[o][m] + Price[o]
                                                                  ELSE moved[o][m]
        <4>1. /\ moved'[o]["hold"] = 0 /\ moved'[o]["charge"] = 0
              /\ moved'[o]["release"] = Price[o]
          BY <1>1, <1>2, <3>2 DEF Moves
        <4>2. ~(moved'[o]["release"] + moved'[o]["charge"] > moved'[o]["hold"])
          BY DEF Foreign
        <4>3. Price[o] = 0
          BY <1>1, <4>1, <4>2
        <4> QED BY <4>1, <4>3 DEF Freed, Outstanding
      <3> QED BY <2>1, <2>2, <3>1, <3>2 DEF Calls
    <2>5. GivenBack(o, Tail(s))'
      BY <1>2, <2>1, <2>2, <2>4 DEF GivenBack, Untold, Calls
    <2> QED BY <2>1, <2>3, <2>5, LandsReached DEF Ahead
  <1> QED BY <1>3, <1>4 DEF Unheld

\* An order that is alive, under way to a panel or to its cancellation.
LEMMA ProceedingStep ==
    ASSUME OrderTypeOK, NEW t \in Tasks, NEW o \in Orders, Does(t, o),
           NEW kind, task[t].kind = kind, NEW s, task[t].script = s,
           Alive(o), s \in Proceeding(o), wallet.hold >= Outstanding(o)
    PROVE  Reached(t, o)
  <1>1. /\ order[o].status \in {"PENDING", "PROCESSING"}
        /\ Intact(o) /\ Untold(o)
        /\ Outstanding(o) = Price[o] /\ Price[o] \in Nat
    BY IntactCounts DEF Alive
  <1>2. ASSUME NEW q, q \in Proceeding(o) \cup {<<>>}, Alive(o)', Lands(t, kind, q)
        PROVE  Reached(t, o)
    <2>1. Proceeding(o)' = Proceeding(o)
      BY DEF Proceeding, ReleaseAndFail, Cancellation
    <2>2. q # <<>> => Ahead(o, kind, q)'
      BY <1>2, <2>1 DEF Ahead
    <2>3. Settled(o)'
      BY <1>2 DEF Settled
    <2> QED BY <1>2, <2>2, <2>3, LandsReached
  <1>3. CASE s = <<[do |-> "walk"]>>
    <2>1. Walks(t, o)
      BY <1>3, TupleParts, DoesByHead
    <2>2. Alive(o)'
      BY <1>1, <2>1 DEF Walks, Alive, Intact, Untold
    <2>3. \/ Lands(t, kind, <<[do |-> "place"], Tell("created")>>)
          \/ Lands(t, "cleanup", <<Tell("exhausted")>> \o ReleaseAndFail(o))
      BY <2>1 DEF Walks
    <2>4. /\ <<[do |-> "place"], Tell("created")>> \in Proceeding(o)
          /\ <<Tell("exhausted")>> \o ReleaseAndFail(o) \in Proceeding(o)
      BY DEF Proceeding
    <2>5. CASE Lands(t, kind, <<[do |-> "place"], Tell("created")>>)
      BY <1>2, <2>2, <2>4, <2>5
    <2>6. CASE Lands(t, "cleanup", <<Tell("exhausted")>> \o ReleaseAndFail(o))
      <3>1. Ahead(o, "cleanup", <<Tell("exhausted")>> \o ReleaseAndFail(o))'
        BY <2>2 DEF Ahead, Proceeding
      <3>2. Settled(o)'
        BY <2>2 DEF Settled
      <3> QED BY <2>6, <3>1, <3>2, LandsReached
    <2> QED BY <2>3, <2>5, <2>6
  <1>4. CASE s \in {<<[do |-> "place"]>>, <<[do |-> "place"], Tell("created")>>}
    <2>1. Head(s).do = "place" /\ Tail(s) \in {<<>>, <<Tell("created")>>}
      <3>1. CASE s = <<[do |-> "place"]>>
        BY <3>1, TupleParts
      <3>2. CASE s = <<[do |-> "place"], Tell("created")>>
        BY <3>2, TupleParts
      <3> QED BY <1>4, <3>1, <3>2
    <2>2. Places(t, o)
      BY <2>1, DoesByHead
    <2>3. Alive(o)'
      BY <1>1, <2>2 DEF Places, Alive, Intact, Untold
    <2>4. CASE task'[t] = Resting
      BY <2>3, <2>4 DEF Reached, Settled
    <2>5. CASE Lands(t, kind, Tail(s))
      <3>1. Tail(s) \in Proceeding(o) \cup {<<>>}
        BY <2>1 DEF Proceeding
      <3> QED BY <1>2, <2>3, <2>5, <3>1
    <2> QED BY <2>2, <2>4, <2>5 DEF Places
  <1>5. CASE s = <<Tell("created")>> \/ s = <<Tell("exhausted")>> \o ReleaseAndFail(o)
    <2>1. /\ Head(s) \in {Tell("created"), Tell("exhausted")}
          /\ Tail(s) \in {<<>>, ReleaseAndFail(o)}
      <3>1. /\ Head(<<Tell("created")>>) = Tell("created")
            /\ Tail(<<Tell("created")>>) = <<>>
        BY TupleParts
      <3>2. ReleaseAndFail(o) \in Seq(Later) /\ Tell("exhausted") \in Later
        BY FixedLater, LaterTyped DEF Events
      <3>3. /\ Head(<<Tell("exhausted")>> \o ReleaseAndFail(o)) = Tell("exhausted")
            /\ Tail(<<Tell("exhausted")>> \o ReleaseAndFail(o)) = ReleaseAndFail(o)
        BY <3>2, ConsParts
      <3> QED BY <1>5, <3>1, <3>3
    <2>2. Head(s).do = "tell" /\ Head(s).event \in {"created", "exhausted"}
      BY <2>1 DEF Tell
    <2>3. Tells(t, o)
      BY <2>2, DoesByHead
    <2>4. \A e \in {"completed", "partial", "cancelled"} : told'[o][e] = told[o][e]
      BY <2>2, <2>3 DEF Tells, Events
    <2>5. Alive(o)'
      BY <1>1, <2>3, <2>4 DEF Tells, Alive, Intact, Untold
    <2>6. Tail(s) \in Proceeding(o) \cup {<<>>}
      BY <2>1 DEF Proceeding
    <2> QED BY <1>2, <2>3, <2>5, <2>6 DEF Tells
  <1>6. CASE s = ReleaseAndFail(o) \/ s = Cancellation(o)
    <2>1. /\ Head(s) = Pay("release", Price[o]) /\ Head(s).do \in Moves
          /\ Tail(s) \in {<<Write("FAILED")>>, <<Write("CANCELLED"), Tell("cancelled")>>}
      <3>1. CASE s = ReleaseAndFail(o)
        BY <3>1, TupleParts DEF ReleaseAndFail, Pay, Moves
      <3>2. CASE s = Cancellation(o)
        BY <3>2, TupleParts DEF Cancellation, Pay, Moves
      <3> QED BY <1>6, <3>1, <3>2
    <2>2. Calls(t, o)
      BY <2>1, DoesByHead
    <2>3. /\ order'[o] = order[o] /\ told'[o] = told[o]
          /\ moved'[o]["hold"] = moved[o]["hold"]
          /\ moved'[o]["release"] = moved[o]["release"] + Price[o]
          /\ moved'[o]["charge"] = moved[o]["charge"]
          /\ Lands(t, kind, Tail(s))
      BY <1>1, <2>1, <2>2, HeldIsSettled
    <2>4. Freed(o)'
      BY <1>1, <2>3 DEF Freed, Outstanding, Intact
    <2>5. GivenBack(o, Tail(s))'
      BY <1>1, <2>1, <2>3, <2>4 DEF GivenBack, Untold
    <2>6. Tail(s) # <<>>
      BY <2>1
    <2> QED BY <2>3, <2>5, <2>6, LandsReached DEF Ahead
  <1> QED BY <1>3, <1>4, <1>5, <1>6 DEF Proceeding

\* An order whose end is about to be written.
LEMMA EndingStep ==
    ASSUME NEW t \in Tasks, NEW o \in Orders, Does(t, o),
           NEW kind, task[t].kind = kind, NEW s, task[t].script = s,
           kind # "create", Alive(o), s \in Ending(o)
    PROVE  Reached(t, o)
  <1>1. Intact(o) /\ Untold(o)
    BY DEF Alive
  <1>2. ASSUME NEW status, NEW q, Head(s) = Write(status), Tail(s) = q
        PROVE  /\ order'[o].status = status /\ Intact(o)' /\ Untold(o)'
               /\ Lands(t, kind, q)
    <2>1. Head(s).do = "write" /\ Head(s).status = status
      BY <1>2 DEF Write
    <2>2. Writes(t, o)
      BY <2>1, DoesByHead
    <2> QED BY <1>1, <1>2, <2>1, <2>2 DEF Writes, Intact, Untold
  <1>3. ASSUME NEW q, Lands(t, kind, q), q # <<>>, Written(o, q)'
        PROVE  Reached(t, o)
    <2>1. Ahead(o, kind, q)'
      BY <1>3 DEF Ahead
    <2> QED BY <1>3, <2>1, LandsReached
  <1>4. CASE s = <<Write("COMPLETED"), MarkCompleted, Tell("completed"), Pay("charge", Price[o])>>
    <2> DEFINE q == <<MarkCompleted, Tell("completed"), Pay("charge", Price[o])>>
    <2>1. Head(s) = Write("COMPLETED") /\ Tail(s) = q /\ q # <<>>
      BY <1>4, TupleParts
    <2>2. order'[o].status = "COMPLETED" /\ Intact(o)' /\ Untold(o)' /\ Lands(t, kind, q)
      BY <1>2, <2>1
    <2>3. Written(o, q)'
      BY <2>2 DEF Written
    <2> HIDE DEF q
    <2> QED BY <1>3, <2>1, <2>2, <2>3
  <1>5. CASE s = <<Write("COMPLETED"), Tell("completed"), Pay("charge", Price[o])>>
    <2> DEFINE q == <<Tell("completed"), Pay("charge", Price[o])>>
    <2>1. Head(s) = Write("COMPLETED") /\ Tail(s) = q /\ q # <<>>
      BY <1>5, TupleParts
    <2>2. order'[o].status = "COMPLETED" /\ Intact(o)' /\ Untold(o)' /\ Lands(t, kind, q)
      BY <1>2, <2>1
    <2>3. Written(o, q)'
      BY <2>2 DEF Written
    <2> HIDE DEF q
    <2> QED BY <1>3, <2>1, <2>2, <2>3
  <1>6. CASE s = ForceFail(o)
    <2> DEFINE q == <<Tell("failed"), Pay("release", Price[o])>>
    <2>1. Head(s) = Write("FAILED") /\ Tail(s) = q /\ q # <<>>
      BY <1>6, TupleParts DEF ForceFail
    <2>2. order'[o].status = "FAILED" /\ Intact(o)' /\ Untold(o)' /\ Lands(t, kind, q)
      BY <1>2, <2>1
    <2>3. Failing(o, q)'
      BY <2>2 DEF Failing
    <2> HIDE DEF q
    <2> QED BY <2>1, <2>2, <2>3, LandsReached DEF Ahead
  <1>7. CASE s = <<Write("CANCELLED")>>
    <2>1. Head(s) = Write("CANCELLED") /\ Tail(s) = <<>>
      BY <1>7, TupleParts
    <2>2. order'[o].status = "CANCELLED" /\ Intact(o)' /\ Untold(o)' /\ Lands(t, kind, <<>>)
      BY <1>2, <2>1
    <2>3. Settled(o)'
      BY <2>2 DEF Settled, Untold
    <2> QED BY <2>2, <2>3, LandsReached
  <1>8. ASSUME NEW q \in Splits(o), s = <<Write("PARTIAL")>> \o (<<Tell("partial")>> \o q)
        PROVE  Reached(t, o)
    <2> DEFINE r == <<Tell("partial")>> \o q
    <2>1. /\ Tell("partial") \in Later /\ Write("PARTIAL") \in Later
          /\ q \in Seq(Later)
      BY SplitsLater, LaterTyped DEF Statuses, Ended, Events
    <2>2. r # <<>> /\ r \in Seq(Later)
      BY <2>1, ConsParts, LaterShort
    <2>3. Head(s) = Write("PARTIAL") /\ Tail(s) = r
      <3> HIDE DEF r, Later
      <3>1. s = <<Write("PARTIAL")>> \o r
        BY <1>8 DEF r
      <3> QED BY <2>1, <2>2, <3>1, ConsParts
    <2>4. order'[o].status = "PARTIAL" /\ Intact(o)' /\ Untold(o)' /\ Lands(t, kind, r)
      BY <1>2, <2>3
    <2>5. Written(o, r)'
      BY <2>4 DEF Written, Splits, Dones, Misfits, Divides, DonePrice
    <2> HIDE DEF r
    <2> QED BY <1>3, <2>2, <2>4, <2>5
  <1> QED BY <1>4, <1>5, <1>6, <1>7, <1>8 DEF Ending

\* An order whose hold was released.
LEMMA GivenBackStep ==
    ASSUME NEW t \in Tasks, NEW o \in Orders, Does(t, o),
           NEW kind, task[t].kind = kind, NEW s, task[t].script = s,
           GivenBack(o, s)
    PROVE  Reached(t, o)
  <1>1. Freed(o) /\ Untold(o)
    BY DEF GivenBack
  <1>2. CASE s = <<Write("FAILED")>>
    <2>1. Head(s) = Write("FAILED") /\ Tail(s) = <<>> /\ Head(s).do = "write"
          /\ Head(s).status = "FAILED"
      BY <1>2, TupleParts DEF Write
    <2>2. Writes(t, o)
      BY <2>1, DoesByHead
    <2>3. Settled(o)'
      BY <1>1, <2>1, <2>2 DEF Writes, Settled, Freed, Outstanding
    <2> QED BY <2>1, <2>2, <2>3, LandsReached DEF Writes
  <1>3. CASE s = <<Write("CANCELLED"), Tell("cancelled")>>
    <2>1. Head(s) = Write("CANCELLED") /\ Tail(s) = <<Tell("cancelled")>>
          /\ Head(s).do = "write" /\ Head(s).status = "CANCELLED" /\ Tail(s) # <<>>
      BY <1>3, TupleParts DEF Write
    <2>2. Writes(t, o)
      BY <2>1, DoesByHead
    <2>3. GivenBack(o, Tail(s))'
      BY <1>1, <2>1, <2>2 DEF Writes, GivenBack, Freed, Outstanding, Untold
    <2> QED BY <2>1, <2>2, <2>3, LandsReached DEF Writes, Ahead
  <1>4. CASE s = <<Tell("cancelled")>> /\ order[o].status = "CANCELLED"
    <2>1. Head(s) = Tell("cancelled") /\ Tail(s) = <<>> /\ Head(s).do = "tell"
          /\ Head(s).event = "cancelled"
      BY <1>4, TupleParts DEF Tell
    <2>2. Tells(t, o)
      BY <2>1, DoesByHead
    <2>3. told'[o]["cancelled"] = 1
      BY <1>1, <2>1, <2>2 DEF Tells, Untold, Events
    <2>4. Settled(o)'
      BY <1>1, <1>4, <2>2, <2>3 DEF Tells, Settled, Freed, Outstanding
    <2> QED BY <2>1, <2>2, <2>4, LandsReached DEF Tells
  <1> QED BY <1>2, <1>3, <1>4 DEF GivenBack

\* An order whose end is written: it is marked or announced.
LEMMA WrittenStep ==
    ASSUME NEW t \in Tasks, NEW o \in Orders, Does(t, o),
           NEW kind, task[t].kind = kind, NEW s, task[t].script = s,
           kind # "create", Written(o, s)
    PROVE  Reached(t, o)
  <1>1. Intact(o) /\ Untold(o)
    BY DEF Written
  <1>2. ASSUME NEW e \in Events, NEW q, Head(s) = Tell(e), Tail(s) = q
        PROVE  /\ order'[o] = order[o] /\ Intact(o)'
               /\ e \in {"completed", "partial"} => told'[o][e] = 1
               /\ Lands(t, kind, q)
    <2>1. Head(s).do = "tell" /\ Head(s).event = e
      BY <1>2 DEF Tell
    <2>2. Tells(t, o)
      BY <2>1, DoesByHead
    <2>3. told'[o][e] = told[o][e] + 1
      BY <2>1, <2>2 DEF Tells
    <2>4. e \in {"completed", "partial"} => told[o][e] = 0
      BY <1>1 DEF Untold
    <2>5. /\ order'[o] = order[o] /\ moved'[o] = moved[o]
          /\ Lands(t, kind, q)
      BY <1>2, <2>2 DEF Tells
    <2>6. Intact(o)'
      BY <1>1, <2>5 DEF Intact
    <2> QED BY <2>3, <2>4, <2>5, <2>6
  <1>3. ASSUME NEW q, Lands(t, kind, q), q # <<>>, Settling(o, q)'
        PROVE  Reached(t, o)
    <2>1. Ahead(o, kind, q)'
      BY <1>3 DEF Ahead
    <2> QED BY <1>3, <2>1, LandsReached
  <1>4. CASE /\ order[o].status = "COMPLETED"
             /\ s = <<MarkCompleted, Tell("completed"), Pay("charge", Price[o])>>
    <2> DEFINE q == <<Tell("completed"), Pay("charge", Price[o])>>
    <2>1. Head(s) = MarkCompleted /\ Tail(s) = q /\ q # <<>>
      BY <1>4, TupleParts
    <2>2. Head(s).do = "mark" /\ Head(s).status = "COMPLETED"
      BY <2>1 DEF MarkCompleted
    <2>3. Writes(t, o)
      BY <2>2, DoesByHead
    <2>4. Written(o, q)'
      BY <1>1, <2>2, <2>3 DEF Writes, Written, Intact, Untold
    <2>5. Lands(t, kind, q)
      BY <2>1, <2>3 DEF Writes
    <2> HIDE DEF q
    <2> QED BY <2>1, <2>4, <2>5, LandsReached DEF Ahead
  <1>5. CASE order[o].status = "COMPLETED" /\ s = <<Tell("completed"), Pay("charge", Price[o])>>
    <2> DEFINE q == <<Pay("charge", Price[o])>>
    <2>1. Head(s) = Tell("completed") /\ Tail(s) = q /\ q # <<>>
      BY <1>5, TupleParts
    <2>2. /\ order'[o] = order[o] /\ Intact(o)' /\ told'[o]["completed"] = 1
          /\ Lands(t, kind, q)
      BY <1>2, <2>1 DEF Events
    <2>3. Settling(o, q)'
      BY <1>5, <2>2 DEF Settling
    <2> HIDE DEF q
    <2> QED BY <1>3, <2>1, <2>2, <2>3
  <1>7. ASSUME order[o].status = "PARTIAL", NEW q \in Splits(o), s = <<Tell("partial")>> \o q
        PROVE  Reached(t, o)
    <2>1. Head(s) = Tell("partial") /\ Tail(s) = q
      <3>1. Tell("partial") \in Later /\ q \in Seq(Later)
        BY SplitsLater, LaterTyped DEF Events
      <3> QED BY <1>7, <3>1, ConsParts
    <2>2. /\ order'[o] = order[o] /\ Intact(o)' /\ told'[o]["partial"] = 1
          /\ Lands(t, kind, q)
      BY <1>2, <2>1 DEF Events
    <2>3. CASE q # <<>>
      <3>2. Splits(o)' = Splits(o)
        BY DEF Splits, Dones, Misfits, Divides, DonePrice
      <3>1. Settling(o, q)'
        BY <1>7, <2>2, <3>2 DEF Settling
      <3> QED BY <1>3, <2>2, <2>3, <3>1
    <2>4. CASE q = <<>> /\ Misfits(o) # {}
      <3>1. Misfits(o)' = Misfits(o)
        BY DEF Misfits, Divides, DonePrice
      <3>2. Settled(o)'
        BY <1>7, <2>2, <2>4, <3>1 DEF Settled
      <3> QED BY <2>2, <2>4, <3>2, LandsReached
    <2>5. CASE q = <<>> /\ Price[o] \in Dones(o) \cap {0}
      <3>1. Dones(o)' = Dones(o)
        BY DEF Dones, Divides, DonePrice
      <3>2. moved'[o]["hold"] = Price[o] /\ Outstanding(o)' = 0 /\ moved'[o]["charge"] = Price[o]
        BY <2>2, <2>5 DEF Intact, Outstanding
      <3>3. Settled(o)'
        BY <1>7, <2>2, <2>5, <3>1, <3>2 DEF Settled
      <3> QED BY <2>2, <2>5, <3>3, LandsReached
    <2>6. q = <<>> => Misfits(o) # {} \/ Price[o] \in Dones(o) \cap {0}
      BY TupleParts DEF Splits
    <2> QED BY <2>3, <2>4, <2>5, <2>6
  <1> QED BY <1>4, <1>5, <1>7 DEF Written

\* An order that fails.
LEMMA FailingStep ==
    ASSUME NEW t \in Tasks, NEW o \in Orders, Does(t, o),
           NEW kind, task[t].kind = kind, NEW s, task[t].script = s,
           kind # "create", Failing(o, s)
    PROVE  Reached(t, o)
  <1>1. Intact(o)
    BY DEF Failing
  <1>2. CASE s = ForceFail(o)
    <2> DEFINE q == <<Tell("failed"), Pay("release", Price[o])>>
    <2>1. Head(s) = Write("FAILED") /\ Tail(s) = q /\ q # <<>>
      BY <1>2, TupleParts DEF ForceFail
    <2>2. Head(s).do = "write" /\ Head(s).status = "FAILED"
      BY <2>1 DEF Write
    <2>3. Writes(t, o)
      BY <2>2, DoesByHead
    <2>4. order'[o].status = "FAILED" /\ Intact(o)' /\ Lands(t, kind, q)
      BY <1>1, <2>1, <2>2, <2>3 DEF Writes, Intact
    <2>5. Failing(o, q)'
      BY <2>4 DEF Failing
    <2> HIDE DEF q
    <2> QED BY <2>1, <2>4, <2>5, LandsReached DEF Ahead
  <1>3. CASE order[o].status = "FAILED" /\ s = <<Tell("failed"), Pay("release", Price[o])>>
    <2> DEFINE q == <<Pay("release", Price[o])>>
    <2>1. Head(s) = Tell("failed") /\ Tail(s) = q /\ q # <<>>
      BY <1>3, TupleParts
    <2>2. Head(s).do = "tell"
      BY <2>1 DEF Tell
    <2>3. Tells(t, o)
      BY <2>2, DoesByHead
    <2>4. order'[o] = order[o] /\ Intact(o)' /\ Lands(t, kind, q)
      BY <1>1, <2>1, <2>3 DEF Tells, Intact
    <2>5. Settling(o, q)'
      BY <1>3, <2>4 DEF Settling
    <2> HIDE DEF q
    <2> QED BY <2>1, <2>4, <2>5, LandsReached DEF Ahead
  <1> QED BY <1>2, <1>3 DEF Failing

\* An order whose end is announced: its hold is charged and released.
LEMMA SettlingStep ==
    ASSUME OrderTypeOK, NEW t \in Tasks, NEW o \in Orders, Does(t, o),
           task[t].order = o, NEW kind, task[t].kind = kind, NEW s, task[t].script = s,
           kind # "create", Settling(o, s), wallet.hold >= Outstanding(o), ~Foreign'
    PROVE  Reached(t, o)
  <1>1. Price[o] \in Nat /\ \A m \in Moves : moved[o][m] \in Nat
    BY OrderAssumption, TotalsTyped
  <1>2. ASSUME NEW move \in {"release", "charge"}, NEW a \in Nat, a <= Outstanding(o),
               NEW q, Head(s) = Pay(move, a), Tail(s) = q
        PROVE  /\ order'[o] = order[o] /\ told'[o] = told[o]
               /\ moved'[o]["hold"] = moved[o]["hold"]
               /\ moved'[o]["charge"] = IF move = "charge" THEN moved[o]["charge"] + a
                                                           ELSE moved[o]["charge"]
               /\ Outstanding(o)' = Outstanding(o) - a
               /\ Lands(t, kind, q)
    <2>1. Head(s).do \in Moves
      BY <1>2 DEF Pay, Moves
    <2>2. Calls(t, o)
      BY <2>1, DoesByHead
    <2>3. /\ order'[o] = order[o] /\ told'[o] = told[o]
          /\ moved'[o]["hold"] = moved[o]["hold"]
          /\ moved'[o]["release"] = IF move = "release" THEN moved[o]["release"] + a
                                                        ELSE moved[o]["release"]
          /\ moved'[o]["charge"] = IF move = "charge" THEN moved[o]["charge"] + a
                                                      ELSE moved[o]["charge"]
          /\ Lands(t, kind, q)
      BY <1>2, <2>2, HeldIsSettled
    <2> QED BY <1>1, <1>2, <2>3 DEF Outstanding, Moves
  <1>3. ASSUME NEW move, NEW a, s = <<Pay(move, a)>>
        PROVE  Head(s) = Pay(move, a) /\ Tail(s) = <<>>
    BY <1>3, TupleParts
  <1>4. CASE /\ order[o].status = "COMPLETED" /\ Intact(o) /\ told[o]["completed"] = 1
             /\ s = <<Pay("charge", Price[o])>>
    <2>1. Outstanding(o) = Price[o] /\ moved[o]["charge"] = 0
      BY <1>4, IntactCounts DEF Intact
    <2>2. /\ order'[o] = order[o] /\ told'[o] = told[o]
          /\ moved'[o]["charge"] = moved[o]["charge"] + Price[o]
          /\ Outstanding(o)' = Outstanding(o) - Price[o]
          /\ Lands(t, kind, <<>>)
      BY <1>1, <1>2, <1>3, <1>4, <2>1
    <2>3. Settled(o)'
      BY <1>1, <1>4, <2>1, <2>2 DEF Settled
    <2> QED BY <2>2, <2>3, LandsReached
  <1>5. CASE order[o].status = "FAILED" /\ Intact(o) /\ s = <<Pay("release", Price[o])>>
    <2>1. Outstanding(o) = Price[o] /\ moved[o]["charge"] = 0
      BY <1>5, IntactCounts DEF Intact
    <2>2. /\ order'[o] = order[o]
          /\ moved'[o]["charge"] = moved[o]["charge"]
          /\ Outstanding(o)' = Outstanding(o) - Price[o]
          /\ Lands(t, kind, <<>>)
      BY <1>1, <1>2, <1>3, <1>5, <2>1
    <2>3. Settled(o)'
      BY <1>1, <1>5, <2>1, <2>2 DEF Settled, Freed
    <2> QED BY <2>2, <2>3, LandsReached
  <1>10. /\ Dones(o)' = Dones(o) /\ Misfits(o)' = Misfits(o)
         /\ \A c \in Dones(o) : c \in Nat /\ c <= Price[o] /\ Price[o] - c \in 0..Price[o]
    BY DonesTyped DEF Dones, Misfits, Divides, DonePrice
  <1>6. ASSUME order[o].status = "PARTIAL", told[o]["partial"] = 1,
               moved[o]["hold"] = Price[o], NEW move \in {"release", "charge"},
               NEW a \in Nat, Outstanding(o) = a, s = <<Pay(move, a)>>,
               (IF move = "charge" THEN moved[o]["charge"] + a ELSE moved[o]["charge"])
                  \in Dones(o)
        PROVE  Reached(t, o)
    <2>1. /\ order'[o] = order[o] /\ told'[o] = told[o]
          /\ moved'[o]["hold"] = moved[o]["hold"]
          /\ moved'[o]["charge"] \in Dones(o)
          /\ Outstanding(o)' = Outstanding(o) - a
          /\ Lands(t, kind, <<>>)
      BY <1>2, <1>3, <1>6
    <2>2. Settled(o)'
      BY <1>6, <1>10, <2>1 DEF Settled
    <2> QED BY <2>1, <2>2, LandsReached
  <1>7. ASSUME order[o].status = "PARTIAL", told[o]["partial"] = 1, Intact(o),
               NEW c \in Dones(o),
               s = <<Pay("charge", c), Pay("release", Price[o] - c)>>
        PROVE  Reached(t, o)
    <2> DEFINE q == <<Pay("release", Price[o] - c)>>
    <2>1. /\ Outstanding(o) = Price[o] /\ moved[o]["hold"] = Price[o]
          /\ moved[o]["charge"] = 0
          /\ c \in Nat /\ c <= Price[o] /\ Price[o] - c \in 0..Price[o]
      BY <1>1, <1>7, <1>10, IntactCounts DEF Intact
    <2>2. Head(s) = Pay("charge", c) /\ Tail(s) = q /\ q # <<>>
      BY <1>7, TupleParts
    <2>3. /\ order'[o] = order[o] /\ told'[o] = told[o]
          /\ moved'[o]["hold"] = moved[o]["hold"]
          /\ moved'[o]["charge"] = c
          /\ Outstanding(o)' = Outstanding(o) - c
          /\ Lands(t, kind, q)
      <3> HIDE DEF q
      <3>1. /\ order'[o] = order[o] /\ told'[o] = told[o]
            /\ moved'[o]["hold"] = moved[o]["hold"]
            /\ moved'[o]["charge"] = moved[o]["charge"] + c
            /\ Outstanding(o)' = Outstanding(o) - c
            /\ Lands(t, kind, q)
        BY <1>2, <2>1, <2>2
      <3> QED BY <2>1, <3>1
    <2>4. Settling(o, q)'
      BY <1>7, <1>10, <2>1, <2>3 DEF Settling
    <2> HIDE DEF q
    <2> QED BY <2>2, <2>3, <2>4, LandsReached DEF Ahead
  \* More than the price: billing refuses it, or takes it from other orders.
  <1>11. ASSUME order[o].status = "PARTIAL", told[o]["partial"] = 1, Intact(o),
                Misfits(o) # {}, NEW move \in {"charge", "release"},
                NEW a \in Nat, a > Price[o], s = <<Pay(move, a)>>
         PROVE  Reached(t, o)
    <2>1. /\ Head(s) = Pay(move, a) /\ Tail(s) = <<>>
          /\ Head(s).do = move /\ Head(s).amount = a
      BY <1>3, <1>11 DEF Pay
    <2>2. Calls(t, o)
      BY <2>1, DoesByHead DEF Moves
    <2>3. ~\A m \in Moves :
              moved'[o][m] = IF m = move THEN moved[o][m] + a ELSE moved[o][m]
      <3> SUFFICES ASSUME \A m \in Moves :
                             moved'[o][m] = IF m = move THEN moved[o][m] + a
                                                        ELSE moved[o][m]
                   PROVE  FALSE
        OBVIOUS
      <3>1. moved[o]["hold"] = Price[o] /\ moved[o]["release"] = 0 /\ moved[o]["charge"] = 0
        BY <1>11 DEF Intact
      <3>2. moved'[o]["release"] + moved'[o]["charge"] = a /\ moved'[o]["hold"] = Price[o]
        BY <3>1 DEF Moves
      <3> QED BY <1>1, <1>11, <3>2 DEF Foreign
    <2>4. /\ order'[o] = order[o] /\ told'[o] = told[o] /\ moved'[o] = moved[o]
          /\ Throw(t)
      BY <2>1, <2>2, <2>3 DEF Calls
    <2>5. Intact(o)' /\ Settled(o)'
      BY <1>10, <1>11, <2>4 DEF Intact, Settled
    <2>6. CASE kind = "cleanup" /\ Done(t)
      <3>1. Lands(t, kind, <<>>)
        BY <2>1, <2>6, GoRuns DEF Done, Kinds
      <3> QED BY <2>5, <3>1, LandsReached
    <2>7. CASE Go(t, "plain", ForceFail(o))
      <3>1. Lands(t, "plain", ForceFail(o)) /\ ForceFail(o) # <<>>
        BY <2>7, GoRuns DEF Kinds, ForceFail
      <3>2. Failing(o, ForceFail(o))'
        BY <1>11, <2>4, <2>5 DEF Failing, ForceFail
      <3> QED BY <3>1, <3>2, LandsReached DEF Ahead
    <2>8. CASE Rest(t)
      <3>1. task'[t] = Resting
        BY <2>8 DEF Rest, OrderTypeOK
      <3> QED BY <2>5, <3>1 DEF Reached
    <2>9. Head(task[t].script).do # "mark"
      BY <2>1
    <2> QED BY <2>4, <2>6, <2>7, <2>8, <2>9 DEF Throw
  <1>8. CASE order[o].status = "PARTIAL" /\ told[o]["partial"] = 1 /\ Intact(o) /\ s \in Splits(o)
    <2>1. /\ Outstanding(o) = Price[o] /\ moved[o]["hold"] = Price[o]
          /\ moved[o]["charge"] = 0
      BY <1>8, IntactCounts DEF Intact
    <2>2. s # <<>>
      BY DEF Does
    <2>3. ASSUME Price[o] \in Dones(o), s = <<Pay("charge", Price[o])>>
          PROVE  Reached(t, o)
      BY <1>1, <1>6, <1>8, <2>1, <2>3
    <2>4. ASSUME 0 \in Dones(o), s = <<Pay("release", Price[o] - 0)>>
          PROVE  Reached(t, o)
      <3>1. Price[o] - 0 = Price[o]
        BY <1>1
      <3> QED BY <1>1, <1>6, <1>8, <2>1, <2>4, <3>1
    <2>5. CASE \E c \in Dones(o) : s = <<Pay("charge", c), Pay("release", Price[o] - c)>>
      BY <1>7, <1>8, <2>5
    <2>6. CASE s \in Misfits(o)
      <3>1. PICK move \in {"charge", "release"}, a \in Nat :
               a > Price[o] /\ s = <<Pay(move, a)>>
        BY <2>2, <2>6 DEF Misfits
      <3> QED BY <1>8, <1>11, <2>6, <3>1
    <2> QED BY <1>8, <2>2, <2>3, <2>4, <2>5, <2>6 DEF Splits
  <1>9. CASE /\ order[o].status = "PARTIAL" /\ told[o]["partial"] = 1
             /\ moved[o]["hold"] = Price[o] /\ moved[o]["charge"] \in Dones(o)
             /\ \E a \in 0..Price[o] : Outstanding(o) = a /\ s = <<Pay("release", a)>>
    BY <1>1, <1>6, <1>9
  <1> QED BY <1>4, <1>5, <1>8, <1>9 DEF Settling

LEMMA AheadStep ==
    ASSUME OrderTypeOK, OrderTypeOK', NEW t \in Tasks, NEW o \in Orders, Does(t, o),
           task[t].order = o, Ahead(o, task[t].kind, task[t].script),
           wallet.hold >= Outstanding(o), ~Foreign'
    PROVE  Reached(t, o)
  BY UnheldStep, ProceedingStep, EndingStep, GivenBackStep, WrittenStep,
     FailingStep, SettlingStep DEF Ahead

\* Until money of other orders was taken, the pool covers every order.
LEMMA PoolCovers ==
    ASSUME IsFiniteSet(Orders), OrderTypeOK, PoolInv, ~Foreign, NEW o \in Orders
    PROVE  wallet.hold >= Outstanding(o)
  <1>1. ASSUME NEW p \in Orders
        PROVE  HoldsOf[p] >= 0
    <2>1. /\ moved[p]["hold"] \in Nat /\ moved[p]["release"] \in Nat
          /\ moved[p]["charge"] \in Nat
      BY TotalsTyped DEF Moves
    <2>2. ~(moved[p]["release"] + moved[p]["charge"] > moved[p]["hold"])
      BY DEF Foreign
    <2> QED BY <2>1, <2>2 DEF HoldsOf, Outstanding
  <1>2. HoldsOf \in [Orders -> Int]
    BY TotalsAreTables
  <1>3. HoldsOf[o] <= SumOf(HoldsOf, Orders)
    BY <1>1, <1>2, SumCovers
  <1>4. SumOf(HoldsOf, Orders) \in Int
    BY <1>2, SumInt
  <1>5. Opening.hold \in Int /\ Opening.hold >= 0
    BY OrderAssumption DEF WalletRow, Covered
  <1>6. HoldsOf[o] = Outstanding(o) /\ Outstanding(o) \in Int
    BY TotalsTyped
  <1> QED BY <1>3, <1>4, <1>5, <1>6 DEF PoolInv

LEMMA SettledFrame ==
    ASSUME NEW o, order'[o] = order[o], moved'[o] = moved[o], told'[o] = told[o]
    PROVE  /\ Settled(o) => Settled(o)'
           /\ Alive(o) => Alive(o)'
  BY DEF Settled, Alive, Intact, Untold, Blank, Freed, Outstanding, Dones, Misfits,
         Divides, DonePrice

LEMMA AheadFrame ==
    ASSUME NEW o, order'[o] = order[o], moved'[o] = moved[o], told'[o] = told[o],
           NEW kind, NEW s, Ahead(o, kind, s)
    PROVE  Ahead(o, kind, s)'
  <1>1. /\ Alive(o) => Alive(o)'
        /\ Blank(o) => Blank(o)'
        /\ Untold(o) => Untold(o)'
        /\ Intact(o) => Intact(o)'
        /\ Freed(o) => Freed(o)'
        /\ Outstanding(o)' = Outstanding(o)
    BY SettledFrame DEF Blank, Untold, Intact, Freed, Outstanding
  <1>2. /\ Proceeding(o)' = Proceeding(o) /\ Ending(o)' = Ending(o)
        /\ Splits(o)' = Splits(o) /\ HoldAndWalk(o)' = HoldAndWalk(o)
        /\ Dones(o)' = Dones(o) /\ ForceFail(o)' = ForceFail(o)
        /\ ReleaseAndFail(o)' = ReleaseAndFail(o)
    BY DEF Proceeding, Ending, ReleaseAndFail, Cancellation, ForceFail, Splits, HoldAndWalk,
           Dones, Misfits, Divides, DonePrice
  <1>3. Unheld(o, kind, s) => Unheld(o, kind, s)'
    BY <1>1, <1>2 DEF Unheld, Blank, Untold, HoldAndWalk, ReleaseAndFail, Pay, Write
  <1>4. GivenBack(o, s) => GivenBack(o, s)'
    BY <1>1 DEF GivenBack, Freed, Untold, Outstanding, Write, Tell
  <1>5. Written(o, s) => Written(o, s)'
    BY <1>1, <1>2 DEF Written, Intact, Untold, MarkCompleted, Pay, Tell
  <1>6. Settling(o, s) => Settling(o, s)'
    BY <1>1, <1>2 DEF Settling, Intact, Outstanding, Pay
  <1>7. Failing(o, s) => Failing(o, s)'
    BY <1>1, <1>2 DEF Failing, Pay, Tell
  <1> QED BY <1>1, <1>2, <1>3, <1>4, <1>5, <1>6, <1>7 DEF Ahead

\* A handler that begins on an order that is settled.
LEMMA ArriveAhead ==
    ASSUME OrderTypeOK, NEW t \in Tasks, NEW o \in Ordinary, Arrive(t, o), Settled(o)
    PROVE  \E kind, s : /\ task'[t].kind = kind /\ task'[t].script = s
                        /\ Ahead(o, kind, s)'
  <1>1. ASSUME NEW kind, NEW s, Begin(t, kind, o, s)
        PROVE  task'[t].kind = kind /\ task'[t].script = s
    BY <1>1 DEF Begin, Fresh, OrderTypeOK
  <1>2. UNCHANGED <<moved, told>> /\ o \in Orders /\ o \notin Prepaid /\ o \notin AdminOrders
    BY ArriveMoves DEF Ordinary
  <1>3. order[o].status = "NONE" => Blank(o) /\ Untold(o)
    BY DEF Settled, Alive
  <1>4. order[o].status \in {"PENDING", "PROCESSING"} => Alive(o)
    BY DEF Settled
  <1>5. CASE CreateOrder(t, o)
    <2>1. /\ order'[o].status = "PENDING" /\ order[o].status = "NONE"
          /\ Begin(t, "create", o, HoldAndWalk(o))
      BY <1>2, <1>5 DEF CreateOrder, SetStatus, HoldAndWalk, OrderTypeOK
    <2>2. Blank(o)' /\ Untold(o)'
      BY <1>2, <1>3, <2>1 DEF Blank, Untold
    <2>3. Ahead(o, "create", HoldAndWalk(o))'
      BY <2>1, <2>2 DEF Ahead, Unheld, HoldAndWalk
    <2> QED BY <1>1, <2>1, <2>3
  <1>6. CASE RefillOrder(t, o)
    <2> DEFINE s == <<[do |-> "place"]>>
    <2>1. /\ order'[o].status = "PENDING" /\ order[o].status = "NONE"
          /\ Begin(t, "plain", o, s) /\ o \in Refills
      BY <1>2, <1>6 DEF RefillOrder, SetStatus, OrderTypeOK
    <2>2. Price[o] = 0
      BY <2>1, OrderAssumption
    <2>3. Alive(o)'
      BY <1>2, <1>3, <2>1, <2>2 DEF Alive, Blank, Untold, Intact, Moves
    <2>4. Ahead(o, "plain", s)'
      BY <2>3 DEF Ahead, Proceeding
    <2> HIDE DEF s
    <2> QED BY <1>1, <2>1, <2>4
  <1>7. ASSUME order' = order, order[o].status \in {"PENDING", "PROCESSING"},
               NEW kind \in {"plain", "check"}, NEW s \in Proceeding(o) \cup Ending(o),
               Begin(t, kind, o, s)
        PROVE  \E k, q : task'[t].kind = k /\ task'[t].script = q /\ Ahead(o, k, q)'
    <2>1. Alive(o)'
      BY <1>2, <1>4, <1>7, SettledFrame
    <2>2. Proceeding(o)' = Proceeding(o) /\ Ending(o)' = Ending(o)
      BY DEF Proceeding, Ending, ReleaseAndFail, Cancellation, ForceFail, Splits, Dones,
             Misfits, Divides, DonePrice
    <2>3. Ahead(o, kind, s)'
      BY <1>7, <2>1, <2>2 DEF Ahead
    <2> QED BY <1>1, <1>7, <2>3
  <1>8. CASE CancelOrder(t, o)
    <2>1. /\ Begin(t, "plain", o, Cancellation(o)) /\ order' = order
          /\ order[o].status \in {"PENDING", "PROCESSING"}
      BY <1>8 DEF CancelOrder, Read, Cancellation
    <2>2. Cancellation(o) \in Proceeding(o)
      BY DEF Proceeding
    <2> QED BY <1>7, <2>1, <2>2
  <1>9. CASE ForceFailOrder(t, o)
    <2>1. /\ Begin(t, "plain", o, ForceFail(o)) /\ order' = order
          /\ order[o].status \in {"PENDING", "PROCESSING"}
      BY <1>9 DEF ForceFailOrder, Read
    <2>2. ForceFail(o) \in Ending(o)
      BY DEF Ending
    <2> QED BY <1>7, <2>1, <2>2
  <1>10. CASE PollOrder(t, o) \/ CheckTimedOutOrder(t, o)
    <2>1. order' = order /\ order[o].status \in {"PENDING", "PROCESSING"}
      BY <1>10 DEF PollOrder, CheckTimedOutOrder, Read
    <2>2. PICK kind \in {"check", "plain"}, status \in Ended, remains \in Remains,
               refills \in BOOLEAN :
             Begin(t, kind, o, End(o, status, remains, refills))
      BY <1>10 DEF PollOrder, CheckTimedOutOrder, Read
    <2>3. End(o, status, remains, refills) \in Ending(o)
      BY <1>2, EndForms
    <2> QED BY <1>7, <2>1, <2>2, <2>3
  <1>11. ~AdminForceStatus(t, o) /\ ~AdminRefundOrder(t, o)
    BY <1>2 DEF AdminForceStatus, AdminRefundOrder, AdminRead
  <1> QED BY <1>5, <1>6, <1>8, <1>9, <1>10, <1>11 DEF Arrive

LEMMA ArriveStarts ==
    ASSUME OrderTypeOK, NEW t \in Tasks, NEW o \in Orders, Arrive(t, o)
    PROVE  task'[t] # Resting
  <1>1. ASSUME NEW kind \in Kinds, NEW script, Begin(t, kind, o, script)
        PROVE  task'[t] # Resting
    <2>1. task'[t] = Fresh(kind, o, script)
      BY <1>1 DEF Begin, OrderTypeOK
    <2> QED BY <2>1, FreshRuns DEF Kinds
  <1>2. "create" \in Kinds /\ "plain" \in Kinds /\ "check" \in Kinds
    BY DEF Kinds
  <1>3. CASE CreateOrder(t, o) \/ RefillOrder(t, o)
    BY <1>1, <1>2, <1>3 DEF CreateOrder, RefillOrder
  <1>4. CASE CancelOrder(t, o) \/ PollOrder(t, o) \/ ForceFailOrder(t, o)
    BY <1>1, <1>2, <1>4 DEF CancelOrder, PollOrder, ForceFailOrder, Read
  <1>5. CASE CheckTimedOutOrder(t, o)
    BY <1>1, <1>2, <1>5 DEF CheckTimedOutOrder
  <1>6. CASE AdminForceStatus(t, o) \/ AdminRefundOrder(t, o)
    BY <1>1, <1>2, <1>6 DEF AdminForceStatus, AdminRefundOrder, AdminRead
  <1> QED BY <1>3, <1>4, <1>5, <1>6 DEF Arrive

LEMMA SettledStep ==
    ASSUME IsFiniteSet(Orders), \A t, u \in Tasks : t = u, MaxFaults = 0,
           OrderTypeOK, OrderTypeOK', PoolInv, HeldOnceInv, SettledInv, [OrderNext]_vars
    PROVE  SettledInv'
  <1> SUFFICES ASSUME ~Foreign', NEW o \in Ordinary
               PROVE  OnItsWay(o)'
    BY DEF SettledInv
  <1>1. ~Foreign /\ OnItsWay(o) /\ o \in Orders
    BY ForeignStays DEF SettledInv, Ordinary
  <1>2. ASSUME NEW t \in Tasks, task'[t] = Resting, Settled(o)'
        PROVE  OnItsWay(o)'
    BY <1>2 DEF OnItsWay
  <1>3. ASSUME NEW t \in Tasks, task'[t] # Resting, task'[t].order # o, Settled(o)'
        PROVE  OnItsWay(o)'
    BY <1>3 DEF OnItsWay
  <1>4. ASSUME NEW t \in Tasks, task'[t] # Resting, task'[t].order = o, NEW kind, NEW s,
               task'[t].kind = kind, task'[t].script = s, Ahead(o, kind, s)'
        PROVE  OnItsWay(o)'
    <2>1. Ahead(o, task[t].kind, task[t].script)'
      BY <1>4
    <2>2. InHand(o)'
      BY <1>4 DEF InHand
    <2> QED BY <2>1, <2>2 DEF OnItsWay
  <1>5. ASSUME NEW t \in Tasks, task[t] = Resting \/ task[t].order # o
        PROVE  Settled(o)
    BY <1>1, <1>5 DEF OnItsWay, InHand
  <1>6. ASSUME order'[o] = order[o], moved'[o] = moved[o], told'[o] = told[o], task' = task
        PROVE  OnItsWay(o)'
    <2>1. \A kind, s : Ahead(o, kind, s) => Ahead(o, kind, s)'
      BY <1>6, AheadFrame
    <2>2. Settled(o) => Settled(o)'
      BY <1>6, SettledFrame
    <2>3. InHand(o)' = InHand(o)
      BY <1>6 DEF InHand
    <2>4. \A t \in Tasks :
             task[t] # Resting /\ task[t].order = o
             => Ahead(o, task[t].kind, task[t].script)'
      <3>1. \A t \in Tasks :
               task[t] # Resting /\ task[t].order = o
               => \E kind, s : /\ task[t].kind = kind /\ task[t].script = s
                               /\ Ahead(o, kind, s)
        BY <1>1 DEF OnItsWay
      <3>2. \A kind, s : Ahead(o, kind, s) => Ahead(o, kind, s)'
        BY <2>1
      <3> QED BY <1>6, <3>1, <3>2
    <2> QED BY <1>1, <1>6, <2>2, <2>3, <2>4 DEF OnItsWay
  <1>7. CASE UNCHANGED vars
    BY <1>6, <1>7 DEF vars
  <1>8. ASSUME NEW g \in Orders, GuestOrderPlaced(g)
        PROVE  OnItsWay(o)'
    <2>1. order'[o] = order[o] /\ UNCHANGED <<moved, told, task>>
      BY <1>1, <1>8 DEF GuestOrderPlaced, SetStatus, OrderTypeOK, Ordinary
    <2> QED BY <1>6, <2>1
  <1>9. ASSUME NEW t \in Tasks, NEW p \in Orders, Arrive(t, p)
        PROVE  OnItsWay(o)'
    <2>1. /\ task[t] = Resting /\ UNCHANGED <<moved, told>>
          /\ task'[t].order = p /\ task'[t] # Resting
      BY <1>9, ArriveMoves, ArriveLater, ArriveStarts
    <2>2. Settled(o)
      BY <1>5, <2>1
    <2>3. CASE p = o
      <3>1. PICK kind, s : /\ task'[t].kind = kind /\ task'[t].script = s
                           /\ Ahead(o, kind, s)'
        BY <1>9, <2>2, <2>3, ArriveAhead
      <3> QED BY <1>4, <2>1, <2>3, <3>1
    <2>4. CASE p # o
      <3>1. order'[o] = order[o]
        BY <1>1, <1>9, <2>4, ArriveMoves DEF OrderTypeOK
      <3>2. Settled(o)'
        BY <2>1, <2>2, <3>1, SettledFrame
      <3> QED BY <1>3, <2>1, <2>4, <3>2
    <2> QED BY <2>3, <2>4
  <1>10. ASSUME NEW t \in Tasks, PayRead(t)
        PROVE  OnItsWay(o)'
    <2>1. /\ task[t] # Resting /\ task'[t] # Resting
          /\ task'[t].order = task[t].order /\ task'[t].script = task[t].script
          /\ task'[t].kind = task[t].kind
          /\ UNCHANGED <<order, moved, told>>
      <3>1. /\ task[t] # Resting /\ task'[t] \in Running
            /\ task'[t].order = task[t].order /\ task'[t].script = task[t].script
        BY <1>10, ReadTyped
      <3>2. task'[t].kind = task[t].kind /\ UNCHANGED <<order, moved, told>>
        BY <1>10 DEF PayRead, OrderTypeOK
      <3>3. task'[t] # Resting
        BY <3>1 DEF Running, Resting, Kinds
      <3> QED BY <3>1, <3>2, <3>3
    <2>2. CASE task[t].order = o
      <3>1. Ahead(o, task[t].kind, task[t].script)
        BY <1>1, <2>1, <2>2 DEF OnItsWay
      <3>2. PICK kind, s : task'[t].kind = kind /\ task'[t].script = s /\ Ahead(o, kind, s)
        BY <2>1, <3>1
      <3>3. Ahead(o, kind, s)'
        BY <2>1, <3>2, AheadFrame
      <3> QED BY <1>4, <2>1, <2>2, <3>2, <3>3
    <2>3. CASE task[t].order # o
      <3>1. Settled(o)'
        BY <1>5, <2>1, <2>3, SettledFrame
      <3> QED BY <1>3, <2>1, <2>3, <3>1
    <2> QED BY <2>2, <2>3
  <1>11. ASSUME NEW t \in Tasks, GoesOn(t)
        PROVE  OnItsWay(o)'
    <2>1. task[t] # Resting /\ (task'[t] = Resting \/ task'[t].order = task[t].order)
      BY <1>11, GoesOnMoves DEF Moved
    <2>2. CASE task[t].order = o
      <3>1. Ahead(o, task[t].kind, task[t].script)
        BY <1>1, <2>1, <2>2 DEF OnItsWay
      <3>2. Does(t, o)
        BY <1>11, <2>2, TaskDoes
      <3>3. wallet.hold >= Outstanding(o)
        BY <1>1, PoolCovers
      <3>4. Reached(t, o)
        BY <1>1, <2>2, <3>1, <3>2, <3>3, AheadStep
      <3>5. CASE task'[t] = Resting
        BY <1>2, <3>4, <3>5 DEF Reached
      <3>6. CASE task'[t] # Resting
        <4>1. PICK kind, s : /\ task'[t].kind = kind /\ task'[t].script = s
                             /\ Ahead(o, kind, s)'
          BY <3>4, <3>6 DEF Reached
        <4> QED BY <1>4, <2>1, <2>2, <3>6, <4>1
      <3> QED BY <3>5, <3>6
    <2>3. CASE task[t].order # o
      <3>1. order'[o] = order[o] /\ moved'[o] = moved[o] /\ told'[o] = told[o]
        BY <1>1, <1>11, <2>3, GoesOnTouches
      <3>2. Settled(o)'
        BY <1>5, <2>3, <3>1, SettledFrame
      <3> QED BY <1>2, <1>3, <2>1, <2>3, <3>2
    <2> QED BY <2>2, <2>3
  <1> QED BY <1>7, <1>8, <1>9, <1>10, <1>11, StepCases

LEMMA SettledInit ==
    ASSUME OrderInit
    PROVE  SettledInv /\ HeldOnceInv
  <1>1. \A o \in Orders : Blank(o) /\ order[o].status = "NONE" /\ Untold(o)
    BY DEF OrderInit, Blank, Untold, Events
  <1>2. \A t \in Tasks : task[t] = Resting
    BY DEF OrderInit
  <1>3. \A o \in Ordinary : Settled(o)
    BY <1>1 DEF Ordinary, Settled
  <1>4. \A o \in Ordinary : OnItsWay(o)
    BY <1>2, <1>3 DEF OnItsWay
  <1> QED BY <1>1, <1>2, <1>4 DEF SettledInv, HeldOnceInv

LEMMA SettledMeans ==
    ASSUME SettledInv
    PROVE  SettledAsItEnded
  <1> SUFFICES ASSUME AtRest, ~Foreign, NEW o \in Ordinary
               PROVE  LET charge == moved[o]["charge"]
                          live == Outstanding(o) = Price[o] /\ charge = 0
                      IN  CASE order[o].status = "NONE" -> moved[o]["hold"] = 0
                            [] order[o].status \in {"PENDING", "PROCESSING"} -> live
                            [] order[o].status = "COMPLETED" ->
                                 charge = Price[o] /\ Outstanding(o) = 0 /\ told[o]["completed"] = 1
                            [] order[o].status = "PARTIAL" ->
                                 /\ moved[o]["hold"] = Price[o] /\ told[o]["partial"] = 1
                                 /\ \/ /\ Outstanding(o) = 0
                                       /\ \E remains \in Remains :
                                             /\ Divides(o, remains)
                                             /\ charge = DonePrice(o, remains)
                                    \/ live /\ \E remains \in Remains : ~Divides(o, remains)
                            [] order[o].status = "FAILED" -> charge = 0 /\ Outstanding(o) = 0
                            [] order[o].status = "CANCELLED" ->
                                 IF told[o]["cancelled"] = 1
                                 THEN charge = 0 /\ Outstanding(o) = 0 ELSE live
    BY DEF SettledAsItEnded, Ordinary
  <1>1. Settled(o) /\ o \in Orders
    BY DEF SettledInv, OnItsWay, InHand, AtRest, Ordinary
  <1>2. Intact(o) => Outstanding(o) = Price[o] /\ moved[o]["charge"] = 0
    BY <1>1, IntactCounts DEF Intact
  <1>3. Blank(o) => moved[o]["hold"] = 0
    BY DEF Blank, Moves
  <1>4. CASE order[o].status = "NONE" /\ Blank(o)
    BY <1>3, <1>4
  <1>5. CASE Alive(o)
    BY <1>2, <1>5 DEF Alive
  <1>6. CASE /\ order[o].status = "COMPLETED"
             /\ moved[o]["charge"] = Price[o] /\ Outstanding(o) = 0
             /\ told[o]["completed"] = 1
    BY <1>6
  <1>7. CASE /\ order[o].status = "PARTIAL" /\ told[o]["partial"] = 1
             /\ moved[o]["hold"] = Price[o]
             /\ Outstanding(o) = 0 /\ moved[o]["charge"] \in Dones(o)
    <2>1. \E remains \in Remains :
             Divides(o, remains) /\ moved[o]["charge"] = DonePrice(o, remains)
      BY <1>7 DEF Dones
    <2> QED BY <1>7, <2>1
  <1>11. CASE /\ order[o].status = "PARTIAL" /\ told[o]["partial"] = 1
              /\ Intact(o) /\ Misfits(o) # {}
    <2>1. \E remains \in Remains : ~Divides(o, remains)
      BY <1>11 DEF Misfits
    <2>2. moved[o]["hold"] = Price[o]
      BY <1>11 DEF Intact
    <2> QED BY <1>2, <1>11, <2>1, <2>2
  <1>8. CASE order[o].status = "FAILED" /\ Freed(o)
    BY <1>8 DEF Freed
  <1>9. CASE order[o].status = "CANCELLED" /\ told[o]["cancelled"] = 1 /\ Freed(o)
    BY <1>9 DEF Freed
  <1>10. CASE order[o].status = "CANCELLED" /\ told[o]["cancelled"] = 0 /\ Intact(o)
    BY <1>2, <1>10
  <1> QED BY <1>1, <1>4, <1>5, <1>6, <1>7, <1>8, <1>9, <1>10, <1>11 DEF Settled

\* While handlers come one at a time, nothing throws but what billing refuses
\* and no process dies, every order is charged, given back and announced as it
\* ended, once; a partial order whose panel says something that does not divide
\* its price stays held instead.  So it is for any number of orders, whatever
\* panels say remains and whatever administrators do with other orders of the
\* same wallet, until more was taken for some order than was held for it.
THEOREM OrdersSettleAsTheyEnd ==
    ASSUME IsFiniteSet(Orders), \A t, u \in Tasks : t = u, MaxFaults = 0
    PROVE  OrderSpec => []SettledAsItEnded
  <1>1. OrderTypeOK /\ HeldOnceInv /\ [OrderNext]_vars => HeldOnceInv'
    BY HeldOnceStep
  <1>2. OrderTypeOK /\ OrderTypeOK' /\ PoolInv /\ HeldOnceInv /\ SettledInv
        /\ [OrderNext]_vars => SettledInv'
    BY SettledStep
  <1>3. OrderInit => SettledInv /\ HeldOnceInv
    BY SettledInit
  <1>4. SettledInv => SettledAsItEnded
    BY SettledMeans
  <1>5. OrderSpec => [](PoolInv /\ ReadInv)
    BY PoolAlways
  <1>6. OrderSpec => []HeldOnceInv
    BY <1>1, <1>3, OrderTypeCorrect, PTL DEF OrderSpec
  <1>7. OrderSpec => []SettledInv
    BY <1>2, <1>3, <1>5, <1>6, OrderTypeCorrect, PTL DEF OrderSpec
  <1> QED BY <1>4, <1>7, PTL
=============================================================================
