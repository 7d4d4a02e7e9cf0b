--------------------------- MODULE BillingProofs ---------------------------
(***************************************************************************)
(* The properties of Wallet for every set of users and requests, every     *)
(* amount and any number of ledger rows; then those of Deposits, whose     *)
(* tasks credit the same wallets, for every set of deposits and tasks.     *)
(***************************************************************************)
EXTENDS WalletProps, DepositProps, FiniteSetTheorems, TLAPS

\* What a request found when it read the wallet is what made it go on: the
\* part of the inductive invariant that links a pending commit to the check
\* that allowed it.
Permitted(q) ==
    \/ /\ q.op = "hold"
       /\ CanHold(q.seen, q.amount)
       /\ q.amount \in Amounts /\ q.ref \in OrderRefs
    \/ /\ q.op \in {"release", "charge"}
       /\ CanSettle(q.seen, q.amount)
       /\ q.amount \in Amounts /\ q.ref \in OrderRefs
    \/ /\ q.op = "refund"
       /\ q.amount \in Amounts /\ q.ref \in OrderRefs
    \/ /\ q.op = "adjust"
       /\ CanAdjust(q.seen, q.amount)
       /\ q.amount \in Adjustments /\ q.ref = AdminRef

PermittedInv == \A r \in Requests : request[r] # Idle => Permitted(request[r])

\* A request that is not idle is in flight, and its op says which commit.
LEMMA PendingRequest ==
    ASSUME WalletTypeOK, NEW r \in Requests, request[r].op \in Ops
    PROVE  request[r] \in InFlight /\ request[r] # Idle
  BY DEF WalletTypeOK, Idle, InFlight, Ops

\* The row an operation writes is a wallet row again, and its ledger entry a
\* ledger row.
LEMMA RowsTyped ==
    ASSUME NEW w \in WalletRow, NEW a \in Int, NEW ref \in Refs,
           NEW type \in LedgerTypes, NEW v \in WalletRow
    PROVE  /\ Held(w, a) \in WalletRow
           /\ Released(w, a) \in WalletRow
           /\ Charged(w, a) \in WalletRow
           /\ Credited(w, a) \in WalletRow
           /\ Abs(a) \in Int
           /\ Entry(type, a, w, v, ref) \in LedgerRow
  BY DEF WalletRow, LedgerRow, Held, Released, Charged, Credited, Abs, Entry

\* One commit, whichever of the five: the row and the entry it writes.
LEMMA CommitIsWrite ==
    ASSUME WalletTypeOK, NEW r \in Requests, Commit(r)
    PROVE  /\ request[r] \in InFlight
           /\ request[r] # Idle
           /\ \E type \in LedgerTypes, n \in Int, after \in WalletRow :
                 Write(r, type, n, after)
  <1>1. request[r].op \in Ops
    BY DEF Commit, HoldFunds, ReleaseFunds, ChargeFunds, RefundFunds,
           AdjustBalance, Ops
  <1>2. request[r] \in InFlight /\ request[r] # Idle
    BY <1>1, PendingRequest
  <1>3. /\ request[r].seen \in WalletRow
        /\ request[r].amount \in Int
        /\ request[r].ref \in Refs
    BY <1>2 DEF InFlight
  <1>4. /\ Held(request[r].seen, request[r].amount) \in WalletRow
        /\ Released(request[r].seen, request[r].amount) \in WalletRow
        /\ Charged(request[r].seen, request[r].amount) \in WalletRow
        /\ Credited(request[r].seen, request[r].amount) \in WalletRow
        /\ Abs(request[r].amount) \in Int
    BY <1>3 DEF WalletRow, Held, Released, Charged, Credited, Abs
  <1>5. \E type \in LedgerTypes, n \in Int, after \in WalletRow :
           Write(r, type, n, after)
    BY <1>3, <1>4 DEF Commit, HoldFunds, ReleaseFunds, ChargeFunds,
           RefundFunds, AdjustBalance, LedgerTypes
  <1> QED BY <1>2, <1>5

\* A step of the wallet keeps the types.
LEMMA WalletTypeStep == WalletTypeOK /\ [WalletNext]_walletVars => WalletTypeOK'
  <1> SUFFICES ASSUME WalletTypeOK, [WalletNext]_walletVars
               PROVE  WalletTypeOK'
    OBVIOUS
  <1>1. CASE UNCHANGED walletVars
    BY <1>1 DEF walletVars, WalletTypeOK
  <1>2. ASSUME NEW r \in Requests, Begin(r)
        PROVE  WalletTypeOK'
    <2>1. PICK op \in Ops, u \in Users, a \in Int, ref \in Refs :
             Read(r, op, u, a, ref)
      BY <1>2, WalletAssumption
      DEF Begin, BeginHold, BeginRelease, BeginCharge, BeginRefund,
          BeginAdjust, Ops
    <2> QED BY <2>1 DEF Read, WalletTypeOK, InFlight
  <1>3. ASSUME NEW r \in Requests, Commit(r)
        PROVE  WalletTypeOK'
    <2>1. request[r] \in InFlight
      BY <1>3, CommitIsWrite
    <2>2. PICK type \in LedgerTypes, n \in Int, after \in WalletRow :
             Write(r, type, n, after)
      BY <1>3, CommitIsWrite
    <2>3. Entry(type, n, request[r].seen, after, request[r].ref) \in LedgerRow
      BY <2>1, RowsTyped DEF InFlight
    <2> QED BY <2>1, <2>2, <2>3 DEF Write, WalletTypeOK, InFlight
  <1>4. ASSUME NEW r \in Requests, Rollback(r)
        PROVE  WalletTypeOK'
    BY <1>4 DEF Rollback, WalletTypeOK
  <1> QED BY <1>1, <1>2, <1>3, <1>4 DEF WalletNext

\* The wallet, the ledger and the requests in flight keep their types.
THEOREM WalletTypeCorrect == WalletSpec => []WalletTypeOK
  <1>1. WalletInit => WalletTypeOK
    BY WalletAssumption
    DEF WalletInit, WalletTypeOK, WalletRow, LedgerRow, LedgerTypes, Idle
  <1> QED BY <1>1, WalletTypeStep, PTL DEF WalletSpec

-----------------------------------------------------------------------------
\* A request passes its check before it is in flight.
LEMMA PermittedStep ==
    WalletTypeOK /\ PermittedInv /\ [WalletNext]_walletVars => PermittedInv'
  <1> SUFFICES ASSUME WalletTypeOK, PermittedInv, [WalletNext]_walletVars,
                      NEW r \in Requests, request'[r] # Idle
               PROVE  Permitted(request'[r])
    BY DEF PermittedInv
  <1>1. CASE request'[r] = request[r]
    BY <1>1 DEF PermittedInv
  <1>2. ASSUME NEW s \in Requests, Begin(s), request'[r] # request[r]
        PROVE  Permitted(request'[r])
    <2>1. s = r
      BY <1>2 DEF Begin, BeginHold, BeginRelease, BeginCharge, BeginRefund,
                  BeginAdjust, Read, WalletTypeOK
    <2>2. PICK u \in Users :
             \/ \E a \in Amounts, ref \in OrderRefs :
                   \/ BeginHold(r, u, a, ref)
                   \/ BeginRelease(r, u, a, ref)
                   \/ BeginCharge(r, u, a, ref)
                   \/ BeginRefund(r, u, a, ref)
             \/ \E a \in Adjustments : BeginAdjust(r, u, a)
      BY <1>2, <2>1 DEF Begin
    <2>3. CASE \E a \in Amounts, ref \in OrderRefs :
                  \/ BeginHold(r, u, a, ref)
                  \/ BeginRelease(r, u, a, ref)
                  \/ BeginCharge(r, u, a, ref)
                  \/ BeginRefund(r, u, a, ref)
      BY <2>3 DEF BeginHold, BeginRelease, BeginCharge, BeginRefund, Read,
                  Permitted, WalletTypeOK
    <2>4. CASE \E a \in Adjustments : BeginAdjust(r, u, a)
      BY <2>4 DEF BeginAdjust, Read, Permitted, WalletTypeOK
    <2> QED BY <2>2, <2>3, <2>4
  <1>3. ASSUME NEW s \in Requests, Commit(s) \/ Rollback(s)
        PROVE  request'[r] = request[r]
    BY <1>3, CommitIsWrite DEF Write, Rollback, WalletTypeOK
  <1> QED BY <1>1, <1>2, <1>3 DEF WalletNext, walletVars

\* Every request in flight passed its check on the row it read.
THEOREM PermittedAlways == WalletSpec => []PermittedInv
  <1>1. WalletInit => PermittedInv
    BY DEF WalletInit, PermittedInv
  <1> QED BY <1>1, PermittedStep, WalletTypeCorrect, PTL DEF WalletSpec

\* A permitted operation turns a covered row into a covered row.
LEMMA CommitKeepsCovered ==
    ASSUME \A a \in Adjustments : a >= 0,
           WalletTypeOK, NEW r \in Requests, Commit(r),
           Permitted(request[r]), Covered(request[r].seen)
    PROVE  \E type \in LedgerTypes, n \in Int, after \in WalletRow :
              Write(r, type, n, after) /\ Covered(after)
  <1> DEFINE q == request[r]
  <1>1. /\ q \in InFlight
        /\ q.seen \in WalletRow /\ q.amount \in Int
    BY CommitIsWrite DEF InFlight
  <1>2. CASE HoldFunds(r)
    <2>1. /\ Covered(Held(q.seen, q.amount))
          /\ Held(q.seen, q.amount) \in WalletRow
      BY <1>1, <1>2, WalletAssumption
      DEF HoldFunds, Permitted, CanHold, Available, Covered, Held, WalletRow
    <2> QED BY <1>1, <1>2, <2>1 DEF HoldFunds, LedgerTypes
  <1>3. CASE ReleaseFunds(r)
    <2>1. /\ Covered(Released(q.seen, q.amount))
          /\ Released(q.seen, q.amount) \in WalletRow
      BY <1>1, <1>3, WalletAssumption
      DEF ReleaseFunds, Permitted, CanSettle, Covered, Released, WalletRow
    <2> QED BY <1>1, <1>3, <2>1 DEF ReleaseFunds, LedgerTypes
  <1>4. CASE ChargeFunds(r)
    <2>1. /\ Covered(Charged(q.seen, q.amount))
          /\ Charged(q.seen, q.amount) \in WalletRow
      BY <1>1, <1>4, WalletAssumption
      DEF ChargeFunds, Permitted, CanSettle, Covered, Charged, WalletRow
    <2> QED BY <1>1, <1>4, <2>1 DEF ChargeFunds, LedgerTypes
  <1>5. CASE RefundFunds(r)
    <2>1. /\ Covered(Credited(q.seen, q.amount))
          /\ Credited(q.seen, q.amount) \in WalletRow
      BY <1>1, <1>5, WalletAssumption
      DEF RefundFunds, Permitted, Covered, Credited, WalletRow
    <2> QED BY <1>1, <1>5, <2>1 DEF RefundFunds, LedgerTypes
  <1>6. CASE AdjustBalance(r)
    <2>1. /\ Covered(Credited(q.seen, q.amount))
          /\ Credited(q.seen, q.amount) \in WalletRow
          /\ Abs(q.amount) \in Int
      BY <1>1, <1>6, WalletAssumption
      DEF AdjustBalance, Permitted, Covered, Credited, WalletRow, Abs
    <2> QED BY <1>1, <1>6, <2>1 DEF AdjustBalance, LedgerTypes
  <1> QED BY <1>2, <1>3, <1>4, <1>5, <1>6 DEF Commit

\* A step of the requests keeps what is held covered.
LEMMA HoldCoveredStep ==
    ASSUME \A a \in Adjustments : a >= 0,
           WalletTypeOK, PermittedInv, HoldCovered, [WalletNext]_walletVars
    PROVE  HoldCovered'
  <1>1. CASE UNCHANGED walletVars
    BY <1>1 DEF walletVars, HoldCovered
  <1>2. ASSUME NEW r \in Requests, Begin(r)
        PROVE  HoldCovered'
    <2>1. PICK op \in Ops, u \in Users, a \in Int, ref \in Refs :
             Read(r, op, u, a, ref)
      BY <1>2, WalletAssumption
      DEF Begin, BeginHold, BeginRelease, BeginCharge, BeginRefund,
          BeginAdjust, Ops
    <2> QED BY <2>1 DEF Read, HoldCovered, WalletTypeOK
  <1>3. ASSUME NEW r \in Requests, Commit(r)
        PROVE  HoldCovered'
    <2>1. Permitted(request[r]) /\ Covered(request[r].seen)
      BY <1>3, CommitIsWrite DEF PermittedInv, HoldCovered
    <2>2. PICK type \in LedgerTypes, n \in Int, after \in WalletRow :
             Write(r, type, n, after) /\ Covered(after)
      BY <1>3, <2>1, CommitKeepsCovered
    <2> QED BY <2>2 DEF Write, HoldCovered, WalletTypeOK
  <1>4. ASSUME NEW r \in Requests, Rollback(r)
        PROVE  HoldCovered'
    BY <1>4 DEF Rollback, HoldCovered, WalletTypeOK
  <1> QED BY <1>1, <1>2, <1>3, <1>4 DEF WalletNext

\* Held money is always there, whatever the requests do to each other, as long
\* as administrators only ever adjust upwards.
THEOREM HoldsStayCovered ==
    ASSUME \A a \in Adjustments : a >= 0
    PROVE  WalletSpec => []HoldCovered
  <1>1. WalletInit => HoldCovered
    BY WalletAssumption DEF WalletInit, HoldCovered, Covered
  <1>2. WalletTypeOK /\ PermittedInv /\ HoldCovered /\ [WalletNext]_walletVars
        => HoldCovered'
    BY HoldCoveredStep
  <1> QED BY <1>1, <1>2, WalletTypeCorrect, PermittedAlways, PTL DEF WalletSpec

-----------------------------------------------------------------------------
\* Writing a user's row and the ledger entry that shows it together keeps
\* every newest entry showing its balance.
LEMMA PairedWrite ==
    ASSUME WalletTypeOK, LedgerHead, NEW u \in Users, NEW w \in WalletRow,
           NEW e \in LedgerRow, e.after = w.balance,
           wallet' = [wallet EXCEPT ![u] = w],
           ledger' = [ledger EXCEPT ![u] = Append(@, e)]
    PROVE  LedgerHead'
  <1>1. \A v \in Users : /\ ledger[v] \in Seq(LedgerRow)
                         /\ ledger'[v] = IF v = u THEN Append(ledger[v], e)
                                                  ELSE ledger[v]
                         /\ wallet'[v] = IF v = u THEN w ELSE wallet[v]
    BY DEF WalletTypeOK
  <1>2. ASSUME NEW v \in Users
        PROVE  /\ ledger'[v] # <<>>
               /\ ledger'[v][Len(ledger'[v])].after = wallet'[v].balance
    <2>1. CASE v = u
      <3>1. ledger'[v] = Append(ledger[v], e) /\ wallet'[v] = w
        BY <1>1, <2>1
      <3>2. /\ Append(ledger[v], e) # <<>>
            /\ Append(ledger[v], e)[Len(Append(ledger[v], e))] = e
        BY <1>1
      <3> QED BY <3>1, <3>2
    <2>2. CASE v # u
      BY <1>1, <2>2 DEF LedgerHead
    <2> QED BY <2>1, <2>2
  <1> QED BY <1>2 DEF LedgerHead

\* A step of the requests keeps the newest entries showing the balances.
LEMMA LedgerHeadStep ==
    ASSUME WalletTypeOK, LedgerHead, [WalletNext]_walletVars
    PROVE  LedgerHead'
  <1>1. CASE UNCHANGED <<wallet, ledger>>
    BY <1>1 DEF LedgerHead
  <1>2. ASSUME NEW r \in Requests, Commit(r)
        PROVE  LedgerHead'
    <2>1. request[r] \in InFlight
      BY <1>2, CommitIsWrite
    <2>2. PICK type \in LedgerTypes, n \in Int, after \in WalletRow :
             Write(r, type, n, after)
      BY <1>2, CommitIsWrite
    <2> DEFINE e == Entry(type, n, request[r].seen, after, request[r].ref)
    <2>3. /\ e \in LedgerRow
          /\ e.after = after.balance
          /\ request[r].user \in Users
      BY <2>1, RowsTyped DEF InFlight, Entry
    <2>4. /\ wallet' = [wallet EXCEPT ![request[r].user] = after]
          /\ ledger' = [ledger EXCEPT ![request[r].user] = Append(@, e)]
      BY <2>2 DEF Write
    <2> HIDE DEF e
    <2> QED BY <2>3, <2>4, PairedWrite
  <1>3. ASSUME NEW r \in Requests, Begin(r) \/ Rollback(r)
        PROVE  UNCHANGED <<wallet, ledger>>
    BY <1>3 DEF Begin, BeginHold, BeginRelease, BeginCharge, BeginRefund,
                BeginAdjust, Read, Rollback
  <1> QED BY <1>1, <1>2, <1>3 DEF WalletNext, walletVars

\* The newest ledger row shows the balance, lost updates included.
THEOREM LedgerHeadShowsBalance == WalletSpec => []LedgerHead
  <1>1. WalletInit => LedgerHead
    BY DEF WalletInit, LedgerHead
  <1>2. WalletTypeOK /\ LedgerHead /\ [WalletNext]_walletVars => LedgerHead'
    BY LedgerHeadStep
  <1> QED BY <1>1, <1>2, WalletTypeCorrect, PTL DEF WalletSpec

-----------------------------------------------------------------------------
\* A commit on the row its request read is the atomic wallet's operation.
LEMMA FreshCommitIsAtomic ==
    ASSUME WalletTypeOK, PermittedInv, NEW r \in Requests, Commit(r),
           request[r].seen = wallet[request[r].user]
    PROVE  Atomic!Next
  <1> DEFINE q == request[r]
  <1>1. q \in InFlight /\ q # Idle /\ Permitted(q)
    BY CommitIsWrite DEF PermittedInv
  <1>2. q.user \in Users /\ q.seen = wallet[q.user]
    BY <1>1 DEF InFlight
  <1>3. CASE HoldFunds(r)
    <2>1. q.amount \in Amounts /\ q.ref \in OrderRefs /\ CanHold(q.seen, q.amount)
      BY <1>1, <1>3 DEF HoldFunds, Permitted
    <2>2. Atomic!Hold(q.user, q.amount, q.ref)
      BY <1>2, <1>3, <2>1 DEF HoldFunds, Write, Atomic!Hold, Atomic!Apply, Entry,
              Atomic!Entry, Held, Atomic!Held, CanHold, Atomic!CanHold,
              Available, Atomic!Available
    <2> QED BY <1>2, <2>1, <2>2 DEF Atomic!Next
  <1>4. CASE ReleaseFunds(r)
    <2>1. q.amount \in Amounts /\ q.ref \in OrderRefs /\ CanSettle(q.seen, q.amount)
      BY <1>1, <1>4 DEF ReleaseFunds, Permitted
    <2>2. Atomic!Release(q.user, q.amount, q.ref)
      BY <1>2, <1>4, <2>1 DEF ReleaseFunds, Write, Atomic!Release, Atomic!Apply, Entry,
              Atomic!Entry, Released, Atomic!Released, CanSettle,
              Atomic!CanSettle
    <2> QED BY <1>2, <2>1, <2>2 DEF Atomic!Next
  <1>5. CASE ChargeFunds(r)
    <2>1. q.amount \in Amounts /\ q.ref \in OrderRefs /\ CanSettle(q.seen, q.amount)
      BY <1>1, <1>5 DEF ChargeFunds, Permitted
    <2>2. Atomic!Charge(q.user, q.amount, q.ref)
      BY <1>2, <1>5, <2>1 DEF ChargeFunds, Write, Atomic!Charge, Atomic!Apply, Entry,
              Atomic!Entry, Charged, Atomic!Charged, CanSettle,
              Atomic!CanSettle
    <2> QED BY <1>2, <2>1, <2>2 DEF Atomic!Next
  <1>6. CASE RefundFunds(r)
    <2>1. q.amount \in Amounts /\ q.ref \in OrderRefs
      BY <1>1, <1>6 DEF RefundFunds, Permitted
    <2>2. Atomic!Refund(q.user, q.amount, q.ref)
      BY <1>2, <1>6, <2>1 DEF RefundFunds, Write, Atomic!Refund, Atomic!Apply, Entry,
              Atomic!Entry, Credited, Atomic!Credited
    <2> QED BY <1>2, <2>1, <2>2 DEF Atomic!Next
  <1>7. CASE AdjustBalance(r)
    <2>1. q.amount \in Adjustments /\ q.ref = AdminRef /\ CanAdjust(q.seen, q.amount)
      BY <1>1, <1>7 DEF AdjustBalance, Permitted
    <2>2. Atomic!Adjust(q.user, q.amount)
      BY <1>2, <1>7, <2>1 DEF AdjustBalance, Write, Atomic!Adjust, Atomic!Apply, Entry,
              Atomic!Entry, Credited, Atomic!Credited, CanAdjust,
              Atomic!CanAdjust, Abs, Atomic!Abs
    <2> QED BY <1>2, <2>1, <2>2 DEF Atomic!Next
  <1> QED BY <1>3, <1>4, <1>5, <1>6, <1>7 DEF Commit

\* The billing service implements the atomic wallet except where a commit is
\* stale, for any number of concurrent requests.
THEOREM AtomicButForStaleCommits == WalletSpec => AtomicUnlessStale
  <1>1. WalletTypeOK /\ PermittedInv /\ [WalletNext]_walletVars =>
           [(\A r \in Requests : ~StaleCommit(r)) => Atomic!Next]_<<wallet, ledger>>
    <2> SUFFICES ASSUME WalletTypeOK, PermittedInv, [WalletNext]_walletVars,
                        \A r \in Requests : ~StaleCommit(r),
                        ~UNCHANGED <<wallet, ledger>>
                 PROVE  Atomic!Next
      OBVIOUS
    <2>1. PICK r \in Requests : Commit(r)
      BY DEF WalletNext, walletVars, Begin, BeginHold, BeginRelease,
             BeginCharge, BeginRefund, BeginAdjust, Read, Rollback
    <2>2. /\ request[r] \in InFlight /\ request[r] # Idle
          /\ \E type \in LedgerTypes, n \in Int, after \in WalletRow :
                Write(r, type, n, after)
      BY <2>1, CommitIsWrite
    <2>3. request'[r] = Idle
      BY <2>2 DEF Write, WalletTypeOK
    <2>4. ledger' # ledger
      <3>1. PICK type \in LedgerTypes, n \in Int, after \in WalletRow :
               Write(r, type, n, after)
        BY <2>2
      <3>2. request[r].user \in Users
        BY <2>2 DEF InFlight
      <3>3. ledger'[request[r].user] = Append(ledger[request[r].user],
               Entry(type, n, request[r].seen, after, request[r].ref))
        BY <3>1, <3>2 DEF Write, WalletTypeOK
      <3>4. Entry(type, n, request[r].seen, after, request[r].ref) \in LedgerRow
        BY <2>2, RowsTyped DEF InFlight
      <3>5. ledger[request[r].user] \in Seq(LedgerRow)
        BY <3>2 DEF WalletTypeOK
      <3>6. Len(ledger'[request[r].user]) = Len(ledger[request[r].user]) + 1
        BY <3>3, <3>4, <3>5
      <3> QED BY <3>5, <3>6
    <2>5. request[r].seen = wallet[request[r].user]
      BY <2>2, <2>3, <2>4 DEF StaleCommit
    <2> QED BY <2>1, <2>5, FreshCommitIsAtomic
  <1> QED BY <1>1, WalletTypeCorrect, PermittedAlways, PTL
          DEF WalletSpec, AtomicUnlessStale

-----------------------------------------------------------------------------
(* Deposits *)

\* A task that is not resting holds a full record.
LEMMA RunningTask ==
    ASSUME DepositTypeOK, NEW t \in Tasks, task[t] # Resting
    PROVE  /\ task[t] \in Running
           /\ task[t].deposit \in DepositIds
           /\ task[t].seen \in WalletRow
           /\ Owner[task[t].deposit] \in Users
           /\ Value[task[t].deposit] \in Int
  BY DepositsAssumption DEF DepositTypeOK, Running

\* The ledger row of a credit, and the row it leaves in the wallet.
LEMMA CreditTyped ==
    ASSUME DepositTypeOK, NEW t \in Tasks, task[t] # Resting
    PROVE  LET d == task[t].deposit
               v == Credited(task[t].seen, Value[d])
           IN  /\ v \in WalletRow
               /\ Entry("DEPOSIT", Value[d], task[t].seen, v, d) \in LedgerRow
  <1> DEFINE d == task[t].deposit
             v == Credited(task[t].seen, Value[d])
  <1>1. /\ d \in DepositIds /\ d \in Refs
        /\ task[t].seen \in WalletRow /\ Value[d] \in Int
    BY RunningTask, DepositsAssumption
  <1>2. v \in WalletRow
    BY <1>1 DEF Credited, WalletRow
  <1>3. "DEPOSIT" \in LedgerTypes
    BY DEF LedgerTypes
  <1>4. Entry("DEPOSIT", Value[d], task[t].seen, v, d) \in LedgerRow
    BY <1>1, <1>2, <1>3, RowsTyped
  <1> QED BY <1>2, <1>4

\* A step of the deposits keeps the types.
LEMMA DepositTypeStep == DepositTypeOK /\ [DepositNext]_vars => DepositTypeOK'
  <1> SUFFICES ASSUME DepositTypeOK, [DepositNext]_vars
               PROVE  DepositTypeOK'
    OBVIOUS
  <1>1. CASE UNCHANGED vars
    BY <1>1 DEF vars, walletVars, depositVars, DepositTypeOK, WalletTypeOK
  <1>2. ASSUME NEW d \in DepositIds, Outside(d)
        PROVE  DepositTypeOK'
    BY <1>2 DEF Outside, PrepareDepositCheckout, AttachSession,
                ProviderDecides, BecomesDue, walletVars, DepositTypeOK,
                WalletTypeOK, Statuses
  <1>3. ASSUME NEW t \in Tasks, NEW d \in DepositIds, Arrive(t, d)
        PROVE  DepositTypeOK'
    <2>1. PICK kind \in {"confirm", "fail", "adminConfirm", "adminExpire"},
               at \in {"wallet", "write"} : Start(t, kind, d, at)
      BY <1>3 DEF Arrive, ConfirmBegin, FailBegin, AdminConfirmBegin,
                  AdminExpireBegin
    <2> QED BY <2>1 DEF Start, Unread, WalletRow, Running, walletVars,
                        DepositTypeOK, WalletTypeOK
  <1>4. ASSUME NEW t \in Tasks, Advance(t)
        PROVE  DepositTypeOK'
    <2>0. task[t] # Resting
      BY <1>4 DEF Advance, ReadWallet, ConfirmCommit, FailCommit,
                  AdminWriteWallet, AdminWriteLedger, AdminConfirmEnd,
                  AdminExpireEnd, At
    <2>1. /\ task[t] \in Running
          /\ task[t].deposit \in DepositIds
          /\ Owner[task[t].deposit] \in Users
      BY <2>0, RunningTask
    <2>2. CASE ReadWallet(t)
      <3>1. wallet[Owner[task[t].deposit]] \in WalletRow
        BY <2>1 DEF DepositTypeOK, WalletTypeOK
      <3> QED BY <2>1, <2>2, <3>1 DEF ReadWallet, Running, walletVars,
                 DepositTypeOK, WalletTypeOK
    <2>3. CASE ConfirmCommit(t)
      <3>1. wallet' \in [Users -> WalletRow]
        BY <2>0, <2>1, <2>3, CreditTyped
        DEF ConfirmCommit, CreditWallet, DepositTypeOK, WalletTypeOK
      <3>2. ledger' \in [Users -> Seq(LedgerRow)]
        BY <2>0, <2>1, <2>3, CreditTyped
        DEF ConfirmCommit, CreditLedger, DepositTypeOK, WalletTypeOK
      <3>3. event' \in [DepositIds -> [confirmed : Nat, failed : Nat]]
        BY <2>1, <2>3 DEF ConfirmCommit, Emit, DepositTypeOK
      <3> QED BY <2>1, <2>3, <3>1, <3>2, <3>3
              DEF ConfirmCommit, Settle, Finish, Statuses, DepositTypeOK,
                  WalletTypeOK
    <2>4. CASE FailCommit(t)
      <3>1. event' \in [DepositIds -> [confirmed : Nat, failed : Nat]]
        BY <2>1, <2>4 DEF FailCommit, Emit, DepositTypeOK
      <3> QED BY <2>1, <2>4, <3>1 DEF FailCommit, Settle, Finish, Statuses,
                 walletVars, DepositTypeOK, WalletTypeOK
    <2>5. CASE AdminWriteWallet(t)
      BY <2>0, <2>1, <2>5, CreditTyped
      DEF AdminWriteWallet, CreditWallet, Running, DepositTypeOK, WalletTypeOK
    <2>6. CASE AdminWriteLedger(t)
      <3>1. ledger' \in [Users -> Seq(LedgerRow)]
        BY <2>0, <2>1, <2>6, CreditTyped
        DEF AdminWriteLedger, CreditLedger, DepositTypeOK, WalletTypeOK
      <3> QED BY <2>1, <2>6, <3>1
              DEF AdminWriteLedger, Running, DepositTypeOK, WalletTypeOK
    <2>7. CASE AdminConfirmEnd(t) \/ AdminExpireEnd(t)
      BY <2>1, <2>7 DEF AdminConfirmEnd, AdminExpireEnd, Settle, Finish,
          Statuses, walletVars, DepositTypeOK, WalletTypeOK
    <2> QED BY <1>4, <2>2, <2>3, <2>4, <2>5, <2>6, <2>7 DEF Advance
  <1>5. ASSUME NEW t \in Tasks, Abort(t)
        PROVE  DepositTypeOK'
    BY <1>5 DEF Abort, Finish, walletVars, DepositTypeOK, WalletTypeOK
  <1>6. CASE WalletNext /\ UNCHANGED depositVars
    <2>1. WalletTypeOK'
      BY <1>6, WalletTypeStep DEF DepositTypeOK
    <2> QED BY <1>6, <2>1 DEF depositVars, DepositTypeOK
  <1> QED BY <1>1, <1>2, <1>3, <1>4, <1>5, <1>6 DEF DepositNext

\* Deposits, tasks, wallets and ledgers keep their types.
THEOREM DepositTypeCorrect == DepositSpec => []DepositTypeOK
  <1>1. DepositInit => DepositTypeOK
    BY WalletAssumption
    DEF DepositInit, DepositTypeOK, WalletInit, WalletTypeOK, WalletRow,
        LedgerRow, LedgerTypes, Idle, Statuses
  <1> QED BY <1>1, DepositTypeStep, PTL DEF DepositSpec

\* Order requests are what Wallet permits, whatever the deposits do.
LEMMA RequestsStayPermitted == DepositSpec => []PermittedInv
  <1>1. DepositInit => PermittedInv
    BY DEF DepositInit, WalletInit, PermittedInv
  <1>2. PermittedInv /\ DepositTypeOK /\ [DepositNext]_vars => PermittedInv'
    <2> SUFFICES ASSUME PermittedInv, DepositTypeOK, [DepositNext]_vars
                 PROVE  PermittedInv'
      OBVIOUS
    <2>1. CASE UNCHANGED request
      BY <2>1 DEF PermittedInv
    <2>2. CASE WalletNext
      BY <2>2, PermittedStep DEF DepositTypeOK
    <2> QED BY <2>1, <2>2
            DEF DepositNext, Outside, PrepareDepositCheckout, AttachSession,
                ProviderDecides, BecomesDue, Arrive, ConfirmBegin, FailBegin,
                AdminConfirmBegin, AdminExpireBegin, Start, Advance,
                ReadWallet, ConfirmCommit, FailCommit, AdminWriteWallet,
                AdminWriteLedger, AdminConfirmEnd, AdminExpireEnd, Abort,
                vars, walletVars
  <1> QED BY <1>1, <1>2, DepositTypeCorrect, PTL DEF DepositSpec

-----------------------------------------------------------------------------
(* Every step changes the ledger in one of three ways: not at all, by a     *)
(* credit of the deposit of one task, or by a row of an order request.      *)

\* Task t writes the ledger row of its deposit.
Credit(t) ==
    /\ At(t, "confirm", "write") \/ At(t, "adminConfirm", "ledger")
    /\ CreditLedger(t)

\* A step of the order requests writes rows of orders and adjustments only.
LEMMA RequestLedgerStep ==
    ASSUME DepositTypeOK, PermittedInv, WalletNext
    PROVE  \/ UNCHANGED ledger
           \/ \E u \in Users, e \in LedgerRow :
                 /\ e.ref \in OrderRefs \cup {AdminRef}
                 /\ ledger' = [ledger EXCEPT ![u] = Append(@, e)]
  <1>1. ASSUME NEW r \in Requests, Commit(r)
        PROVE  \E u \in Users, e \in LedgerRow :
                 /\ e.ref \in OrderRefs \cup {AdminRef}
                 /\ ledger' = [ledger EXCEPT ![u] = Append(@, e)]
    <2>1. WalletTypeOK
      BY DEF DepositTypeOK
    <2>2. request[r] \in InFlight /\ request[r] # Idle
      BY <1>1, <2>1, CommitIsWrite
    <2>3. PICK type \in LedgerTypes, n \in Int, after \in WalletRow :
             Write(r, type, n, after)
      BY <1>1, <2>1, CommitIsWrite
    <2> DEFINE e == Entry(type, n, request[r].seen, after, request[r].ref)
    <2>4. e \in LedgerRow /\ e.ref = request[r].ref
      BY <2>2, RowsTyped DEF InFlight, Entry
    <2>5. request[r].ref \in OrderRefs \cup {AdminRef}
      BY <2>2 DEF PermittedInv, Permitted
    <2>6. ledger' = [ledger EXCEPT ![request[r].user] = Append(@, e)]
      BY <2>3 DEF Write
    <2> QED BY <2>2, <2>4, <2>5, <2>6 DEF InFlight
  <1>2. ASSUME NEW r \in Requests, Begin(r) \/ Rollback(r)
        PROVE  UNCHANGED ledger
    BY <1>2 DEF Begin, BeginHold, BeginRelease, BeginCharge, BeginRefund,
                BeginAdjust, Read, Rollback
  <1> QED BY <1>1, <1>2 DEF WalletNext

LEMMA LedgerStep ==
    ASSUME DepositTypeOK, PermittedInv, [DepositNext]_vars
    PROVE  \/ UNCHANGED ledger
           \/ \E t \in Tasks : Credit(t)
           \/ \E u \in Users, e \in LedgerRow :
                 /\ e.ref \in OrderRefs \cup {AdminRef}
                 /\ ledger' = [ledger EXCEPT ![u] = Append(@, e)]
  <1>1. ASSUME NEW t \in Tasks, Advance(t)
        PROVE  UNCHANGED ledger \/ Credit(t)
    BY <1>1 DEF Advance, ReadWallet, ConfirmCommit, FailCommit,
         AdminWriteWallet, AdminWriteLedger, AdminConfirmEnd, AdminExpireEnd,
         walletVars, Credit
  <1>2. ASSUME NEW d \in DepositIds, Outside(d)
        PROVE  UNCHANGED ledger
    BY <1>2 DEF Outside, PrepareDepositCheckout, AttachSession,
                ProviderDecides, BecomesDue, walletVars
  <1>3. ASSUME NEW t \in Tasks, NEW d \in DepositIds, Arrive(t, d)
        PROVE  UNCHANGED ledger
    BY <1>3 DEF Arrive, ConfirmBegin, FailBegin, AdminConfirmBegin,
                AdminExpireBegin, Start, walletVars
  <1> QED BY <1>1, <1>2, <1>3, RequestLedgerStep
          DEF DepositNext, Abort, vars, walletVars

\* A row that does not refer to d leaves the credits of d alone.
LEMMA OtherRow ==
    ASSUME DepositTypeOK, NEW d \in DepositIds, NEW u \in Users,
           NEW e \in LedgerRow, e.ref # d,
           ledger' = [ledger EXCEPT ![u] = Append(@, e)]
    PROVE  Credits(d)' = Credits(d)
  <1> DEFINE l == ledger[Owner[d]]
  <1>1. Owner[d] \in Users /\ l \in Seq(LedgerRow)
    BY DepositsAssumption DEF DepositTypeOK, WalletTypeOK
  <1>2. ledger'[Owner[d]] = IF u = Owner[d] THEN Append(l, e) ELSE l
    BY <1>1 DEF DepositTypeOK, WalletTypeOK
  <1>3. CASE u # Owner[d]
    BY <1>2, <1>3 DEF Credits
  <1>4. CASE u = Owner[d]
    <2>1. /\ DOMAIN l = 1..Len(l)
          /\ DOMAIN Append(l, e) = 1..(Len(l) + 1)
          /\ Append(l, e)[Len(l) + 1] = e
          /\ \A i \in 1..Len(l) : Append(l, e)[i] = l[i]
          /\ Len(l) \in Nat
      BY <1>1
    <2>2. \A i : i \in DOMAIN Append(l, e) /\ Append(l, e)[i].ref = d
                 <=> i \in DOMAIN l /\ l[i].ref = d
      BY <2>1
    <2>3. ledger'[Owner[d]] = Append(l, e)
      BY <1>2, <1>4
    <2> QED BY <2>2, <2>3 DEF Credits
  <1> QED BY <1>3, <1>4

\* What a credit does to the ledger.
LEMMA CreditAppends ==
    ASSUME DepositTypeOK, NEW t \in Tasks, Credit(t)
    PROVE  /\ task[t] # Resting
           /\ task[t].deposit \in DepositIds
           /\ Owner[task[t].deposit] \in Users
           /\ \E e \in LedgerRow :
                 /\ e.ref = task[t].deposit
                 /\ ledger' = [ledger EXCEPT
                                 ![Owner[task[t].deposit]] = Append(@, e)]
  <1>1. task[t] # Resting
    BY DEF Credit, At
  <1>2. task[t].deposit \in DepositIds /\ Owner[task[t].deposit] \in Users
    BY <1>1, RunningTask
  <1> DEFINE d == task[t].deposit
             e == Entry("DEPOSIT", Value[d], task[t].seen,
                        Credited(task[t].seen, Value[d]), d)
  <1>3. e \in LedgerRow /\ e.ref = d
    BY <1>1, CreditTyped DEF Entry
  <1>4. ledger' = [ledger EXCEPT ![Owner[d]] = Append(@, e)]
    BY DEF Credit, CreditLedger
  <1> QED BY <1>1, <1>2, <1>3, <1>4

\* A step credits no deposit but that of a task in progress.
LEMMA CreditsStep ==
    ASSUME DepositTypeOK, PermittedInv, [DepositNext]_vars,
           NEW d \in DepositIds, Credits(d)' # Credits(d)
    PROVE  \E t \in Tasks : Credit(t) /\ task[t].deposit = d
  <1>1. CASE UNCHANGED ledger
    BY <1>1 DEF Credits
  <1>2. ASSUME NEW t \in Tasks, Credit(t)
        PROVE  task[t].deposit = d
    <2>1. PICK e \in LedgerRow :
             /\ e.ref = task[t].deposit
             /\ ledger' = [ledger EXCEPT ![Owner[task[t].deposit]] = Append(@, e)]
      BY <1>2, CreditAppends
    <2>2. Owner[task[t].deposit] \in Users
      BY <1>2, CreditAppends
    <2> QED BY <2>1, <2>2, OtherRow
  <1>3. CASE \E u \in Users, e \in LedgerRow :
                /\ e.ref \in OrderRefs \cup {AdminRef}
                /\ ledger' = [ledger EXCEPT ![u] = Append(@, e)]
    BY <1>3, OtherRow, DepositsAssumption
  <1> QED BY <1>1, <1>2, <1>3, LedgerStep

\* Once settled, and with no task left that saw it PENDING, a deposit keeps
\* its status, its events and its credits, whatever happens later.
THEOREM SettledStaysFinal == DepositSpec => SettledIsFinal
  <1> DEFINE Final(d) == /\ deposit'[d] = deposit[d]
                         /\ event'[d] = event[d]
                         /\ Credits(d)' = Credits(d)
                         /\ ~InProgress(d)'
  <1>1. DepositTypeOK /\ PermittedInv /\ [DepositNext]_vars =>
           [\A d \in DepositIds : Settled(d) /\ ~InProgress(d) => Final(d)]_vars
    <2> SUFFICES ASSUME DepositTypeOK, PermittedInv, DepositNext,
                        NEW d \in DepositIds, Settled(d), ~InProgress(d)
                 PROVE  Final(d)
      OBVIOUS
    <2>1. \A t \in Tasks : task[t] # Resting => task[t].deposit # d
      BY DEF InProgress
    <2>2. Credits(d)' = Credits(d)
      BY <2>1, CreditsStep, CreditAppends
    <2>3. /\ deposit'[d] = deposit[d]
          /\ event'[d] = event[d]
          /\ \A t \in Tasks : task'[t] # Resting => task'[t].deposit # d
      <3>1. ASSUME NEW c \in DepositIds, Outside(c)
            PROVE  <2>3!:
        BY <2>1, <3>1 DEF Outside, PrepareDepositCheckout, AttachSession,
             ProviderDecides, BecomesDue, Settled, DepositTypeOK
      <3>2. ASSUME NEW t \in Tasks, NEW c \in DepositIds, Arrive(t, c)
            PROVE  <2>3!:
        BY <2>1, <3>2 DEF Arrive, ConfirmBegin, FailBegin, AdminConfirmBegin,
             AdminExpireBegin, Start, Settled, DepositTypeOK, Resting
      <3>3. ASSUME NEW t \in Tasks, Advance(t) \/ Abort(t)
            PROVE  <2>3!:
        <4>1. task[t] # Resting
          BY <3>3 DEF Advance, ReadWallet, ConfirmCommit, FailCommit,
               AdminWriteWallet, AdminWriteLedger, AdminConfirmEnd,
               AdminExpireEnd, At, Abort
        <4>2. task[t] \in Running /\ task[t].deposit # d
          BY <2>1, <4>1, RunningTask
        <4>3. /\ deposit'[d] = deposit[d]
              /\ event'[d] = event[d]
          BY <3>3, <4>2 DEF Advance, ReadWallet, ConfirmCommit, FailCommit,
               AdminWriteWallet, AdminWriteLedger, AdminConfirmEnd,
               AdminExpireEnd, Abort, Settle, Emit, DepositTypeOK
        <4>4. \A s \in Tasks : s # t => task'[s] = task[s]
          BY <3>3 DEF Advance, ReadWallet, ConfirmCommit, FailCommit,
               AdminWriteWallet, AdminWriteLedger, AdminConfirmEnd,
               AdminExpireEnd, Abort, Finish, DepositTypeOK
        <4>5. task'[t] = Resting \/ task'[t].deposit = task[t].deposit
          BY <3>3, <4>2 DEF Advance, ReadWallet, ConfirmCommit, FailCommit,
               AdminWriteWallet, AdminWriteLedger, AdminConfirmEnd,
               AdminExpireEnd, Abort, Finish, DepositTypeOK, Running
        <4> QED BY <2>1, <4>2, <4>3, <4>4, <4>5
      <3>4. CASE UNCHANGED depositVars
        BY <2>1, <3>4 DEF depositVars
      <3> QED BY <3>1, <3>2, <3>3, <3>4 DEF DepositNext
    <2> QED BY <2>2, <2>3 DEF InProgress
  <1> QED BY <1>1, RequestsStayPermitted, DepositTypeCorrect, PTL
          DEF DepositSpec, SettledIsFinal

-----------------------------------------------------------------------------
(* Credits against payments and announcements.                             *)

\* Credits(d) is finite: it counts rows of one ledger.
LEMMA CreditsFinite ==
    ASSUME DepositTypeOK, NEW d \in DepositIds
    PROVE  /\ IsFiniteSet(Credits(d))
           /\ Cardinality(Credits(d)) \in Nat
           /\ Cardinality(Credits(d)) = 0 <=> Credits(d) = {}
  <1> DEFINE l == ledger[Owner[d]]
  <1>1. l \in Seq(LedgerRow)
    BY DepositsAssumption DEF DepositTypeOK, WalletTypeOK
  <1>2. Len(l) \in Nat /\ DOMAIN l = 1..Len(l)
    BY <1>1
  <1>3. IsFiniteSet(1..Len(l))
    BY <1>2, FS_Interval
  <1>4. Credits(d) \in SUBSET (1..Len(l))
    BY <1>2 DEF Credits
  <1>5. IsFiniteSet(Credits(d))
    BY <1>3, <1>4, FS_Subset
  <1> QED BY <1>5, FS_CardinalityType, FS_EmptySet

\* A credit adds one row to the credits of its deposit and none to those of
\* another.
LEMMA CreditCounts ==
    ASSUME DepositTypeOK, NEW t \in Tasks, Credit(t), NEW d \in DepositIds
    PROVE  IF task[t].deposit = d
             THEN Cardinality(Credits(d))' = Cardinality(Credits(d)) + 1
             ELSE Credits(d)' = Credits(d)
  <1>1. Owner[task[t].deposit] \in Users
    BY CreditAppends
  <1>2. PICK e \in LedgerRow :
           /\ e.ref = task[t].deposit
           /\ ledger' = [ledger EXCEPT ![Owner[task[t].deposit]] = Append(@, e)]
    BY CreditAppends
  <1>3. CASE task[t].deposit # d
    BY <1>1, <1>2, <1>3, OtherRow
  <1>4. CASE task[t].deposit = d
    <2> DEFINE l == ledger[Owner[d]]
               n == Len(l) + 1
    <2>1. /\ l \in Seq(LedgerRow)
          /\ ledger'[Owner[d]] = Append(l, e)
      BY <1>1, <1>2, <1>4 DEF DepositTypeOK, WalletTypeOK
    <2>2. /\ DOMAIN l = 1..Len(l)
          /\ DOMAIN Append(l, e) = 1..n
          /\ Append(l, e)[n] = e
          /\ \A i \in 1..Len(l) : Append(l, e)[i] = l[i]
          /\ Len(l) \in Nat
      BY <2>1
    <2>3. \A i : i \in DOMAIN Append(l, e) /\ Append(l, e)[i].ref = d
                 <=> (i \in DOMAIN l /\ l[i].ref = d) \/ i = n
      BY <1>2, <1>4, <2>2
    <2>4. Credits(d)' = Credits(d) \cup {n}
      BY <2>1, <2>3 DEF Credits
    <2>5. n \notin Credits(d)
      BY <2>2 DEF Credits
    <2>6. Cardinality(Credits(d) \cup {n}) = Cardinality(Credits(d)) + 1
      BY <2>5, CreditsFinite, FS_AddElement
    <2> QED BY <1>4, <2>4, <2>6
  <1> QED BY <1>3, <1>4

\* Every step that leaves the ledger to the order requests, or alone, leaves
\* every deposit its credits.
LEMMA CreditsUntouched ==
    ASSUME DepositTypeOK, PermittedInv, UNCHANGED ledger \/ WalletNext,
           NEW d \in DepositIds
    PROVE  Credits(d)' = Credits(d)
  <1>1. CASE UNCHANGED ledger
    BY <1>1 DEF Credits
  <1>2. CASE \E u \in Users, e \in LedgerRow :
                /\ e.ref \in OrderRefs \cup {AdminRef}
                /\ ledger' = [ledger EXCEPT ![u] = Append(@, e)]
    BY <1>2, OtherRow, DepositsAssumption
  <1> QED BY <1>1, <1>2, RequestLedgerStep

\* What a task in progress rests on: a webhook's on a payment, an
\* administrator's on a deposit that administrators settle, and one about
\* to write the status on a credit already in the ledger.
Grounded(t) ==
    task[t] # Resting =>
        LET d == task[t].deposit
        IN  /\ task[t].kind = "confirm" => provider[d] = "paid"
            /\ task[t].kind \in {"adminConfirm", "adminExpire"} =>
                  d \in AdminSettles
            /\ task[t].at = "status" => Credits(d) # {}

\* The books of d: what its status and its events say of its credits.
Books(d) ==
    /\ deposit[d] = "CONFIRMED" => Credits(d) # {}
    /\ event[d].confirmed <= Cardinality(Credits(d))
    /\ d \notin AdminSettles =>
          /\ Credits(d) # {} => provider[d] = "paid"
          /\ event[d].confirmed = Cardinality(Credits(d))

BooksInv ==
    /\ \A t \in Tasks : Grounded(t)
    /\ \A d \in DepositIds : Books(d)

\* Credits and payments are not taken back.
LEMMA CreditsLast ==
    ASSUME DepositTypeOK, PermittedInv, [DepositNext]_vars,
           NEW d \in DepositIds
    PROVE  /\ Credits(d) # {} => Credits(d)' # {}
           /\ provider[d] = "paid" => provider'[d] = "paid"
  <1>1. ASSUME Credits(d) # {}, Credits(d)' = {}
        PROVE  FALSE
    <2>1. PICK t \in Tasks : Credit(t) /\ task[t].deposit = d
      BY <1>1, CreditsStep
    <2>2. Cardinality(Credits(d))' = Cardinality(Credits(d)) + 1
      BY <2>1, CreditCounts
    <2>3. Cardinality(Credits(d))' = 0
      BY <1>1, FS_EmptySet
    <2> QED BY <2>2, <2>3, CreditsFinite
  <1>2. ASSUME provider[d] = "paid"
        PROVE  provider'[d] = "paid"
    <2>1. ASSUME NEW c \in DepositIds, Outside(c)
          PROVE  provider'[d] = "paid"
      BY <1>2, <2>1 DEF Outside, PrepareDepositCheckout, AttachSession,
           ProviderDecides, BecomesDue, DepositTypeOK
    <2>2. ASSUME UNCHANGED provider
          PROVE  provider'[d] = "paid"
      BY <1>2, <2>2
    <2> QED BY <2>1, <2>2
            DEF DepositNext, Arrive, ConfirmBegin, FailBegin,
                AdminConfirmBegin, AdminExpireBegin, Start, Advance,
                ReadWallet, ConfirmCommit, FailCommit, AdminWriteWallet,
                AdminWriteLedger, AdminConfirmEnd, AdminExpireEnd, Abort,
                vars, depositVars
  <1> QED BY <1>1, <1>2

\* A task in progress keeps resting on what it started from.
LEMMA GroundedStep ==
    ASSUME DepositTypeOK, PermittedInv, [DepositNext]_vars,
           \A t \in Tasks : Grounded(t)
    PROVE  \A t \in Tasks : Grounded(t)'
  <1> SUFFICES ASSUME NEW t \in Tasks
               PROVE  Grounded(t)'
    OBVIOUS
  <1>1. CASE task'[t] = task[t]
    BY <1>1, RunningTask, CreditsLast DEF Grounded
  <1>2. CASE task'[t] = Resting
    BY <1>2 DEF Grounded
  <1>3. ASSUME NEW s \in Tasks, NEW c \in DepositIds, Arrive(s, c)
        PROVE  Grounded(t)'
    <2>1. CASE s # t
      BY <1>1, <1>3, <2>1 DEF Arrive, ConfirmBegin, FailBegin,
           AdminConfirmBegin, AdminExpireBegin, Start, DepositTypeOK
    <2>2. ASSUME NEW kind, NEW at, Start(t, kind, c, at)
          PROVE  /\ task'[t].kind = kind
                 /\ task'[t].at = at
                 /\ task'[t].deposit = c
                 /\ provider' = provider
      BY <2>2 DEF Start, DepositTypeOK
    <2>3. CASE s = t /\ ConfirmBegin(t, c)
      BY <2>2, <2>3 DEF ConfirmBegin, SaysPaid, Grounded
    <2>4. CASE s = t /\ FailBegin(t, c)
      BY <2>2, <2>4 DEF FailBegin, Grounded
    <2>5. CASE s = t /\ AdminConfirmBegin(t, c)
      BY <2>2, <2>5 DEF AdminConfirmBegin, Grounded
    <2>6. CASE s = t /\ AdminExpireBegin(t, c)
      BY <2>2, <2>6 DEF AdminExpireBegin, Grounded
    <2> QED BY <1>3, <2>1, <2>3, <2>4, <2>5, <2>6 DEF Arrive
  <1>4. ASSUME NEW s \in Tasks, Advance(s) \/ Abort(s)
        PROVE  Grounded(t)'
    <2>1. CASE s # t
      <3>1. task'[t] = task[t]
        BY <1>4, <2>1 DEF Advance, ReadWallet, ConfirmCommit, FailCommit,
             AdminWriteWallet, AdminWriteLedger, AdminConfirmEnd,
             AdminExpireEnd, Abort, Finish, DepositTypeOK
      <3> QED BY <1>1, <3>1
    <2>2. CASE s = t /\ (ReadWallet(t) \/ AdminWriteWallet(t))
      <3>1. task[t] # Resting
        BY <2>2 DEF ReadWallet, AdminWriteWallet, At
      <3>2. /\ task[t] \in Running /\ Grounded(t)
            /\ task[t].deposit \in DepositIds
        BY <3>1, RunningTask
      <3>3. /\ task'[t].kind = task[t].kind
            /\ task'[t].deposit = task[t].deposit
            /\ task'[t].at \in {"write", "ledger"}
            /\ provider' = provider
        BY <2>2, <3>2
        DEF ReadWallet, AdminWriteWallet, DepositTypeOK, Running
      <3> QED BY <3>1, <3>2, <3>3 DEF Grounded
    <2>3. CASE s = t /\ AdminWriteLedger(t)
      <3>1. task[t] # Resting /\ Credit(t)
        BY <2>3 DEF AdminWriteLedger, Credit, At
      <3>2. /\ task[t] \in Running /\ Grounded(t)
            /\ task[t].deposit \in DepositIds
        BY <3>1, RunningTask
      <3>3. /\ task'[t].kind = task[t].kind
            /\ task'[t].deposit = task[t].deposit
            /\ provider' = provider
        BY <2>3, <3>2 DEF AdminWriteLedger, DepositTypeOK, Running
      <3> PICK d \in DepositIds : d = task[t].deposit
        BY <3>2
      <3>4. Credits(d)' # {}
        <4>1. Cardinality(Credits(d))' = Cardinality(Credits(d)) + 1
          BY <3>1, <3>2, CreditCounts
        <4>2. Credits(d)' = {} => Cardinality(Credits(d))' = 0
          BY FS_EmptySet
        <4> QED BY <3>2, <4>1, <4>2, CreditsFinite
      <3>5. task[t].kind = "adminConfirm"
        BY <2>3 DEF AdminWriteLedger, At
      <3> QED BY <3>1, <3>2, <3>3, <3>4, <3>5 DEF Grounded
    <2>4. CASE s = t /\ (\/ ConfirmCommit(t) \/ FailCommit(t)
                         \/ AdminConfirmEnd(t) \/ AdminExpireEnd(t) \/ Abort(t))
      <3>1. task'[t] = Resting
        BY <2>4 DEF ConfirmCommit, FailCommit, AdminConfirmEnd,
             AdminExpireEnd, Abort, Finish, DepositTypeOK
      <3> QED BY <1>2, <3>1
    <2> QED BY <1>4, <2>1, <2>2, <2>3, <2>4 DEF Advance
  <1>5. CASE UNCHANGED task
    BY <1>1, <1>5
  <1> QED BY <1>3, <1>4, <1>5
          DEF DepositNext, Outside, PrepareDepositCheckout, AttachSession,
              ProviderDecides, BecomesDue, vars, depositVars

\* A step keeps the books of every deposit.
LEMMA BooksStep ==
    ASSUME DepositTypeOK, PermittedInv, BooksInv, [DepositNext]_vars,
           NEW d \in DepositIds
    PROVE  Books(d)'
  <1> USE DEF BooksInv
  <1>1. ASSUME UNCHANGED ledger \/ WalletNext,
               event'[d].confirmed = event[d].confirmed,
               deposit'[d] = "CONFIRMED" =>
                  deposit[d] = "CONFIRMED" \/ Credits(d) # {}
        PROVE  Books(d)'
    <2>1. Credits(d)' = Credits(d)
      BY <1>1, CreditsUntouched
    <2>2. provider[d] = "paid" => provider'[d] = "paid"
      BY CreditsLast
    <2> QED BY <1>1, <2>1, <2>2 DEF Books
  <1>2. ASSUME NEW c \in DepositIds, Outside(c)
        PROVE  Books(d)'
    BY <1>1, <1>2 DEF Outside, PrepareDepositCheckout, AttachSession,
         ProviderDecides, BecomesDue, walletVars, DepositTypeOK
  <1>3. ASSUME NEW s \in Tasks, NEW c \in DepositIds, Arrive(s, c)
        PROVE  Books(d)'
    BY <1>1, <1>3 DEF Arrive, ConfirmBegin, FailBegin, AdminConfirmBegin,
         AdminExpireBegin, Start, walletVars
  <1>4. ASSUME NEW t \in Tasks, Advance(t) \/ Abort(t)
        PROVE  Books(d)'
    <2>1. task[t] # Resting
      BY <1>4 DEF Advance, ReadWallet, ConfirmCommit, FailCommit,
           AdminWriteWallet, AdminWriteLedger, AdminConfirmEnd,
           AdminExpireEnd, At, Abort
    <2>2. /\ task[t] \in Running /\ Grounded(t)
          /\ task[t].deposit \in DepositIds
      BY <2>1, RunningTask
    <2>3. CASE ReadWallet(t) \/ AdminWriteWallet(t) \/ Abort(t)
      BY <1>1, <2>3 DEF ReadWallet, AdminWriteWallet, Abort, walletVars
    <2>4. CASE FailCommit(t) \/ AdminExpireEnd(t)
      <3>1. event'[d].confirmed = event[d].confirmed
        BY <2>2, <2>4 DEF FailCommit, AdminExpireEnd, Emit, DepositTypeOK
      <3>2. deposit'[d] = "CONFIRMED" => deposit[d] = "CONFIRMED"
        BY <2>2, <2>4 DEF FailCommit, AdminExpireEnd, Settle, DepositTypeOK
      <3>3. UNCHANGED ledger
        BY <2>4 DEF FailCommit, AdminExpireEnd, walletVars
      <3> QED BY <1>1, <3>1, <3>2, <3>3
    <2>5. CASE AdminConfirmEnd(t)
      <3>1. deposit'[d] = "CONFIRMED" =>
               deposit[d] = "CONFIRMED" \/ task[t].deposit = d
        BY <2>2, <2>5 DEF AdminConfirmEnd, Settle, DepositTypeOK
      <3>2. task[t].at = "status"
        BY <2>5 DEF AdminConfirmEnd, At
      <3>3. UNCHANGED ledger /\ event' = event
        BY <2>5 DEF AdminConfirmEnd, walletVars
      <3> QED BY <1>1, <2>1, <2>2, <3>1, <3>2, <3>3 DEF Grounded
    <2>6. CASE ConfirmCommit(t)
      <3>1. Credit(t) /\ task[t].kind = "confirm" /\ provider' = provider
        BY <2>6 DEF ConfirmCommit, Credit, At
      <3>2. CASE task[t].deposit = d
        <4>1. Cardinality(Credits(d))' = Cardinality(Credits(d)) + 1
          BY <3>1, <3>2, CreditCounts
        <4>2. event'[d].confirmed = event[d].confirmed + 1
          BY <2>6, <3>2 DEF ConfirmCommit, Emit, DepositTypeOK
        <4>3. Credits(d)' # {}
          <5>1. Credits(d)' = {} => Cardinality(Credits(d))' = 0
            BY FS_EmptySet
          <5> QED BY <4>1, <5>1, CreditsFinite
        <4>4. provider'[d] = "paid"
          BY <2>1, <2>2, <3>1, <3>2 DEF Grounded
        <4>5. event[d].confirmed \in Nat /\ Cardinality(Credits(d)) \in Nat
          BY CreditsFinite DEF DepositTypeOK
        <4> QED BY <4>1, <4>2, <4>3, <4>4, <4>5 DEF Books
      <3>3. CASE task[t].deposit # d
        <4>1. Credits(d)' = Credits(d)
          BY <3>1, <3>3, CreditCounts
        <4>2. event'[d] = event[d] /\ deposit'[d] = deposit[d]
          BY <2>2, <2>6, <3>3 DEF ConfirmCommit, Emit, Settle, DepositTypeOK
        <4> QED BY <3>1, <4>1, <4>2 DEF Books
      <3> QED BY <3>2, <3>3
    <2>7. CASE AdminWriteLedger(t)
      <3>1. /\ Credit(t) /\ task[t].kind = "adminConfirm"
            /\ UNCHANGED <<provider, event, deposit>>
        BY <2>7 DEF AdminWriteLedger, Credit, At
      <3>2. CASE task[t].deposit = d
        <4>1. Cardinality(Credits(d))' = Cardinality(Credits(d)) + 1
          BY <3>1, <3>2, CreditCounts
        <4>2. d \in AdminSettles
          BY <2>1, <2>2, <3>1, <3>2 DEF Grounded
        <4>3. event[d].confirmed \in Nat /\ Cardinality(Credits(d)) \in Nat
          BY CreditsFinite DEF DepositTypeOK
        <4>4. Credits(d) # {} => Credits(d)' # {}
          BY CreditsLast
        <4> QED BY <3>1, <4>1, <4>2, <4>3, <4>4 DEF Books
      <3>3. CASE task[t].deposit # d
        <4>1. Credits(d)' = Credits(d)
          BY <3>1, <3>3, CreditCounts
        <4> QED BY <3>1, <4>1 DEF Books
      <3> QED BY <3>2, <3>3
    <2> QED BY <1>4, <2>3, <2>4, <2>5, <2>6, <2>7 DEF Advance
  <1>5. CASE WalletNext /\ UNCHANGED depositVars
    BY <1>1, <1>5 DEF depositVars
  <1>6. CASE UNCHANGED vars
    BY <1>1, <1>6 DEF vars, walletVars, depositVars
  <1> QED BY <1>2, <1>3, <1>4, <1>5, <1>6 DEF DepositNext

\* At the start nothing is credited: the opening rows are of other deposits.
LEMMA NothingCreditedYet ==
    ASSUME DepositInit, NEW d \in DepositIds
    PROVE  Credits(d) = {} /\ Cardinality(Credits(d)) = 0
  <1>1. Credits(d) = {}
    BY DepositsAssumption DEF DepositInit, WalletInit, Credits
  <1> QED BY <1>1, FS_EmptySet

LEMMA BooksAlways == DepositSpec => []BooksInv
  <1>1. DepositInit => BooksInv
    BY NothingCreditedYet DEF BooksInv, Grounded, Books, DepositInit
  <1>2. DepositTypeOK /\ PermittedInv /\ BooksInv /\ [DepositNext]_vars
        => BooksInv'
    BY BooksStep, GroundedStep DEF BooksInv
  <1> QED BY <1>1, <1>2, DepositTypeCorrect, RequestsStayPermitted, PTL
          DEF DepositSpec

\* Whatever races, webhooks and the expiry worker credit only deposits that
\* were paid for, and every credit they make is announced with it: of a
\* deposit that no administrator settles by hand there are as many
\* deposit.confirmed events as credits in the ledger.
THEOREM OnlyPaidIsCredited == DepositSpec => []CreditedWasPaid
  <1>1. BooksInv => CreditedWasPaid
    BY DEF BooksInv, Books, CreditedWasPaid
  <1> QED BY <1>1, BooksAlways, PTL

\* Whatever races, dies or fails between the statements of an administrator:
\* a deposit is CONFIRMED only with a credit in its owner's ledger, and never
\* announced more often than credited.
THEOREM NoConfirmationWithoutCredit == DepositSpec => []ConfirmedWasCredited
  <1>1. BooksInv => ConfirmedWasCredited
    BY DEF BooksInv, Books, ConfirmedWasCredited
  <1> QED BY <1>1, BooksAlways, PTL

-----------------------------------------------------------------------------
(* One task at a time.                                                     *)

\* While nothing else runs, a task finds its deposit as it read it.
FreshInv ==
    \A t \in Tasks :
        task[t] # Resting => deposit[task[t].deposit] = "PENDING"

\* How many credits the status of d allows.
CreditsAllowed(d) == IF deposit[d] = "CONFIRMED" THEN 1 ELSE 0

OnceInv ==
    \A d \in DepositIds : Cardinality(Credits(d)) = CreditsAllowed(d)

LEMMA FreshStep ==
    ASSUME DepositTypeOK, FreshInv, [DepositNext]_vars,
           \A s, t \in Tasks : s = t
    PROVE  FreshInv'
  <1>1. ASSUME NEW c \in DepositIds, Outside(c)
        PROVE  FreshInv'
    <2>1. task' = task
      BY <1>1 DEF Outside, PrepareDepositCheckout, AttachSession,
           ProviderDecides, BecomesDue
    <2>2. \A d \in DepositIds :
             deposit[d] = "PENDING" => deposit'[d] = "PENDING"
      BY <1>1 DEF Outside, PrepareDepositCheckout, AttachSession,
           ProviderDecides, BecomesDue, DepositTypeOK
    <2> QED BY <2>1, <2>2, RunningTask DEF FreshInv
  <1>2. ASSUME NEW s \in Tasks, NEW c \in DepositIds, Arrive(s, c)
        PROVE  FreshInv'
    <2>1. PICK kind, at : Start(s, kind, c, at)
      BY <1>2 DEF Arrive, ConfirmBegin, FailBegin, AdminConfirmBegin,
           AdminExpireBegin
    <2>2. /\ task'[s].deposit = c
          /\ deposit' = deposit
          /\ deposit[c] = "PENDING"
      BY <2>1 DEF Start, DepositTypeOK
    <2> QED BY <2>2 DEF FreshInv
  <1>3. ASSUME NEW s \in Tasks, Advance(s) \/ Abort(s)
        PROVE  FreshInv'
    <2>1. task[s] # Resting
      BY <1>3 DEF Advance, ReadWallet, ConfirmCommit, FailCommit,
           AdminWriteWallet, AdminWriteLedger, AdminConfirmEnd,
           AdminExpireEnd, At, Abort
    <2>2. task[s] \in Running
      BY <2>1, RunningTask
    <2>3. \/ task'[s] = Resting
          \/ /\ task'[s].deposit = task[s].deposit
             /\ deposit' = deposit
      BY <1>3, <2>2 DEF Advance, ReadWallet, ConfirmCommit, FailCommit,
           AdminWriteWallet, AdminWriteLedger, AdminConfirmEnd,
           AdminExpireEnd, Abort, Finish, DepositTypeOK, Running
    <2> QED BY <2>1, <2>3 DEF FreshInv
  <1>4. CASE UNCHANGED <<task, deposit>>
    BY <1>4 DEF FreshInv
  <1> QED BY <1>1, <1>2, <1>3, <1>4 DEF DepositNext, vars, depositVars

LEMMA OnceStep ==
    ASSUME DepositTypeOK, PermittedInv, BooksInv, FreshInv, OnceInv,
           [DepositNext]_vars, AdminSettles = {}
    PROVE  OnceInv'
  <1> SUFFICES ASSUME NEW d \in DepositIds
               PROVE  (Cardinality(Credits(d)) = CreditsAllowed(d))'
    BY DEF OnceInv
  <1>1. ASSUME UNCHANGED ledger \/ WalletNext,
               deposit'[d] = "CONFIRMED" <=> deposit[d] = "CONFIRMED"
        PROVE  (Cardinality(Credits(d)) = CreditsAllowed(d))'
    <2>1. Credits(d)' = Credits(d)
      BY <1>1, CreditsUntouched
    <2> QED BY <1>1, <2>1 DEF OnceInv, CreditsAllowed
  <1>2. ASSUME NEW c \in DepositIds, Outside(c)
        PROVE  (Cardinality(Credits(d)) = CreditsAllowed(d))'
    BY <1>1, <1>2 DEF Outside, PrepareDepositCheckout, AttachSession,
         ProviderDecides, BecomesDue, walletVars, DepositTypeOK
  <1>3. ASSUME NEW s \in Tasks, NEW c \in DepositIds, Arrive(s, c)
        PROVE  (Cardinality(Credits(d)) = CreditsAllowed(d))'
    BY <1>1, <1>3 DEF Arrive, ConfirmBegin, FailBegin, AdminConfirmBegin,
         AdminExpireBegin, Start, walletVars
  <1>4. ASSUME NEW t \in Tasks, Advance(t) \/ Abort(t)
        PROVE  (Cardinality(Credits(d)) = CreditsAllowed(d))'
    <2>1. task[t] # Resting
      BY <1>4 DEF Advance, ReadWallet, ConfirmCommit, FailCommit,
           AdminWriteWallet, AdminWriteLedger, AdminConfirmEnd,
           AdminExpireEnd, At, Abort
    <2>2. /\ task[t] \in Running
          /\ task[t].kind \notin {"adminConfirm", "adminExpire"}
          /\ deposit[task[t].deposit] = "PENDING"
          /\ task[t].deposit \in DepositIds
      BY <2>1, RunningTask DEF BooksInv, Grounded, FreshInv
    <2>3. CASE ReadWallet(t) \/ Abort(t)
      BY <1>1, <2>3 DEF ReadWallet, Abort, walletVars
    <2>4. CASE FailCommit(t)
      <3>1. deposit'[d] = "CONFIRMED" <=> deposit[d] = "CONFIRMED"
        BY <2>2, <2>4 DEF FailCommit, Settle, DepositTypeOK
      <3> QED BY <1>1, <2>4, <3>1 DEF FailCommit, walletVars
    <2>5. CASE ConfirmCommit(t)
      <3>1. Credit(t)
        BY <2>5 DEF ConfirmCommit, Credit
      <3>2. CASE task[t].deposit = d
        <4>1. Cardinality(Credits(d))' = Cardinality(Credits(d)) + 1
          BY <3>1, <3>2, CreditCounts
        <4>2. Cardinality(Credits(d)) = 0
          BY <2>2, <3>2 DEF OnceInv, CreditsAllowed
        <4>3. deposit'[d] = "CONFIRMED"
          BY <2>5, <3>2 DEF ConfirmCommit, Settle, DepositTypeOK
        <4> QED BY <4>1, <4>2, <4>3 DEF CreditsAllowed
      <3>3. CASE task[t].deposit # d
        <4>1. Credits(d)' = Credits(d)
          BY <3>1, <3>3, CreditCounts
        <4>2. deposit'[d] = deposit[d]
          BY <2>2, <2>5, <3>3 DEF ConfirmCommit, Settle, DepositTypeOK
        <4> QED BY <4>1, <4>2 DEF OnceInv, CreditsAllowed
      <3> QED BY <3>2, <3>3
    <2>6. ~ (\/ AdminWriteWallet(t) \/ AdminWriteLedger(t)
             \/ AdminConfirmEnd(t) \/ AdminExpireEnd(t))
      BY <2>2 DEF AdminWriteWallet, AdminWriteLedger, AdminConfirmEnd,
           AdminExpireEnd, At
    <2> QED BY <1>4, <2>3, <2>4, <2>5, <2>6 DEF Advance
  <1>5. CASE WalletNext /\ UNCHANGED depositVars
    BY <1>1, <1>5 DEF depositVars
  <1>6. CASE UNCHANGED vars
    BY <1>1, <1>6 DEF vars, walletVars, depositVars
  <1> QED BY <1>2, <1>3, <1>4, <1>5, <1>6 DEF DepositNext

\* Where tasks come one at a time and no administrator interferes, a deposit
\* is credited and announced exactly when it is CONFIRMED, and once, whatever
\* dies between its statements and however often its webhook is repeated.
THEOREM SequentialTasksCreditOnce ==
    ASSUME AdminSettles = {}, \A s, t \in Tasks : s = t
    PROVE  DepositSpec => []CreditedOnceIfConfirmed
  <1>1. DepositInit => FreshInv /\ OnceInv
    BY NothingCreditedYet
    DEF DepositInit, FreshInv, OnceInv, CreditsAllowed
  <1>2. /\ DepositTypeOK /\ PermittedInv /\ BooksInv
        /\ FreshInv /\ OnceInv /\ [DepositNext]_vars
        => FreshInv' /\ OnceInv'
    BY FreshStep, OnceStep
  <1>3. BooksInv /\ OnceInv => CreditedOnceIfConfirmed
    BY DEF BooksInv, Books, OnceInv, CreditsAllowed, CreditedOnceIfConfirmed
  <1> QED BY <1>1, <1>2, <1>3, DepositTypeCorrect, RequestsStayPermitted,
             BooksAlways, PTL DEF DepositSpec

-----------------------------------------------------------------------------
(* What the wallet promises, with deposits credited next to the requests.  *)

\* The rows that tasks have read are covered, as those of requests are.
SeenCovered == \A t \in Tasks : task[t] # Resting => Covered(task[t].seen)

LEMMA SeenCoveredStep ==
    ASSUME DepositTypeOK, HoldCovered, SeenCovered, [DepositNext]_vars
    PROVE  SeenCovered'
  <1>1. ASSUME NEW s \in Tasks, NEW c \in DepositIds, Arrive(s, c)
        PROVE  SeenCovered'
    <2>1. PICK kind, at : Start(s, kind, c, at)
      BY <1>1 DEF Arrive, ConfirmBegin, FailBegin, AdminConfirmBegin,
           AdminExpireBegin
    <2>2. task'[s].seen = Unread
      BY <2>1 DEF Start, DepositTypeOK
    <2>3. \A t \in Tasks : t # s => task'[t] = task[t]
      BY <2>1 DEF Start, DepositTypeOK
    <2> QED BY <2>2, <2>3 DEF SeenCovered, Unread, Covered
  <1>2. ASSUME NEW s \in Tasks, Advance(s) \/ Abort(s)
        PROVE  SeenCovered'
    <2>1. task[s] # Resting
      BY <1>2 DEF Advance, ReadWallet, ConfirmCommit, FailCommit,
           AdminWriteWallet, AdminWriteLedger, AdminConfirmEnd,
           AdminExpireEnd, At, Abort
    <2>2. task[s] \in Running /\ Owner[task[s].deposit] \in Users
      BY <2>1, RunningTask
    <2>3. \A t \in Tasks : t # s => task'[t] = task[t]
      BY <1>2 DEF Advance, ReadWallet, ConfirmCommit, FailCommit,
           AdminWriteWallet, AdminWriteLedger, AdminConfirmEnd,
           AdminExpireEnd, Abort, Finish, DepositTypeOK
    <2>4. \/ task'[s] = Resting
          \/ task'[s].seen = task[s].seen
          \/ task'[s].seen = wallet[Owner[task[s].deposit]]
      BY <1>2, <2>2 DEF Advance, ReadWallet, ConfirmCommit, FailCommit,
           AdminWriteWallet, AdminWriteLedger, AdminConfirmEnd,
           AdminExpireEnd, Abort, Finish, DepositTypeOK, Running
    <2> QED BY <2>1, <2>2, <2>3, <2>4 DEF SeenCovered, HoldCovered
  <1>3. CASE UNCHANGED task
    BY <1>3 DEF SeenCovered
  <1> QED BY <1>1, <1>2, <1>3
          DEF DepositNext, Outside, PrepareDepositCheckout, AttachSession,
              ProviderDecides, BecomesDue, vars, depositVars

LEMMA DepositCoveredStep ==
    ASSUME \A a \in Adjustments : a >= 0,
           DepositTypeOK, PermittedInv, HoldCovered, SeenCovered,
           [DepositNext]_vars
    PROVE  HoldCovered'
  <1>0. WalletTypeOK
    BY DEF DepositTypeOK
  <1>1. CASE [WalletNext]_walletVars
    BY <1>0, <1>1, HoldCoveredStep
  <1>2. ASSUME NEW t \in Tasks, CreditWallet(t), request' = request,
               task[t] # Resting
        PROVE  HoldCovered'
    <2>1. /\ task[t].deposit \in DepositIds
          /\ Owner[task[t].deposit] \in Users
          /\ task[t].seen \in WalletRow
      BY <1>2, RunningTask
    <2>2. Covered(Credited(task[t].seen, Value[task[t].deposit]))
      BY <1>2, <2>1, DepositsAssumption
      DEF SeenCovered, Covered, Credited, WalletRow
    <2> QED BY <1>0, <1>2, <2>1, <2>2
            DEF CreditWallet, HoldCovered, WalletTypeOK
  <1>3. ASSUME NEW t \in Tasks, ConfirmCommit(t) \/ AdminWriteWallet(t)
        PROVE  HoldCovered'
    BY <1>2, <1>3 DEF ConfirmCommit, AdminWriteWallet, At
  <1>4. ASSUME NEW t \in Tasks, AdminWriteLedger(t)
        PROVE  HoldCovered'
    BY <1>4 DEF AdminWriteLedger, HoldCovered
  <1> QED BY <1>1, <1>3, <1>4
          DEF DepositNext, Outside, PrepareDepositCheckout, AttachSession,
              ProviderDecides, BecomesDue, Arrive, ConfirmBegin, FailBegin,
              AdminConfirmBegin, AdminExpireBegin, Start, Advance,
              ReadWallet, FailCommit, AdminConfirmEnd, AdminExpireEnd,
              Abort, vars

\* Crediting deposits next to the requests of orders, even from a stale row,
\* never leaves held money without a balance behind it, as long as
\* administrators only ever adjust upwards.
THEOREM HoldsStayCoveredByDeposits ==
    ASSUME \A a \in Adjustments : a >= 0
    PROVE  DepositSpec => []HoldCovered
  <1>1. DepositInit => HoldCovered /\ SeenCovered
    BY WalletAssumption
    DEF DepositInit, WalletInit, HoldCovered, SeenCovered, Covered
  <1>2. DepositTypeOK /\ PermittedInv /\ HoldCovered /\ SeenCovered
        /\ [DepositNext]_vars => HoldCovered' /\ SeenCovered'
    BY DepositCoveredStep, SeenCoveredStep
  <1> QED BY <1>1, <1>2, DepositTypeCorrect, RequestsStayPermitted, PTL
          DEF DepositSpec

\* Where only webhooks and the expiry worker settle deposits, the newest
\* ledger row keeps showing the balance: confirmDepositTransaction commits
\* both writes together, which an administrator's confirmation does not.
THEOREM WebhooksKeepLedgerHead ==
    ASSUME AdminSettles = {}
    PROVE  DepositSpec => []LedgerHead
  <1>1. DepositInit => LedgerHead
    BY DEF DepositInit, WalletInit, LedgerHead
  <1>2. ASSUME DepositTypeOK, BooksInv, LedgerHead, [DepositNext]_vars
        PROVE  LedgerHead'
    <2>0. WalletTypeOK
      BY <1>2 DEF DepositTypeOK
    <2>1. CASE [WalletNext]_walletVars
      BY <1>2, <2>0, <2>1, LedgerHeadStep
    <2>2. ASSUME NEW t \in Tasks, ConfirmCommit(t)
          PROVE  LedgerHead'
      <3> DEFINE d == task[t].deposit
                 w == Credited(task[t].seen, Value[d])
                 e == Entry("DEPOSIT", Value[d], task[t].seen, w, d)
      <3>1. task[t] # Resting
        BY <2>2 DEF ConfirmCommit, At
      <3>2. /\ w \in WalletRow
            /\ e \in LedgerRow
            /\ e.after = w.balance
            /\ Owner[d] \in Users
        BY <1>2, <3>1, CreditTyped, RunningTask DEF Entry
      <3>3. /\ wallet' = [wallet EXCEPT ![Owner[d]] = w]
            /\ ledger' = [ledger EXCEPT ![Owner[d]] = Append(@, e)]
        BY <2>2 DEF ConfirmCommit, CreditWallet, CreditLedger
      <3> HIDE DEF d, w, e
      <3> QED BY <1>2, <2>0, <3>2, <3>3, PairedWrite
    <2>3. ASSUME NEW t \in Tasks
          PROVE  ~AdminWriteWallet(t) /\ ~AdminWriteLedger(t)
      BY <1>2 DEF AdminWriteWallet, AdminWriteLedger, At, BooksInv, Grounded
    <2> QED BY <1>2, <2>1, <2>2, <2>3
            DEF DepositNext, Outside, PrepareDepositCheckout, AttachSession,
                ProviderDecides, BecomesDue, Arrive, ConfirmBegin, FailBegin,
                AdminConfirmBegin, AdminExpireBegin, Start, Advance,
                ReadWallet, FailCommit, AdminConfirmEnd, AdminExpireEnd,
                Abort, vars
  <1> QED BY <1>1, <1>2, DepositTypeCorrect, BooksAlways, PTL DEF DepositSpec
=============================================================================
