-------------------------- MODULE PortfolioProofs ---------------------------
(***************************************************************************)
(* Proofs about Portfolio, for any accounts, requests, holdings and calls: *)
(* an inductive invariant (types, the row lock, the foreign key), and that *)
(* the SQL statements and transactions implement the atomic Ledger.        *)
(***************************************************************************)
EXTENDS Portfolio, TLAPS

\* What a sale in progress has established about its row and its call.
SaleChecked ==
    \A r \in Request : phase[r] \in InSale =>
        /\ job[r].op = "sell" /\ job[r].holding \in HoldingId
        /\ seen[r] \in Holding /\ seen[r].user = job[r].user
        /\ 0 < job[r].shares /\ job[r].shares <= seen[r].shares
        /\ phase[r] = "written" => Remaining(r) > 0

\* A request has inserted nothing before it answers.
NothingYet ==
    \A r \in Request : phase[r] \notin Answer => holdings[r] = NoRow /\ trades[r] = NoRow

\* Between CreateTrade's two statements the holding can go, but not change hands.
OwnerChecked ==
    \A r \in Request : phase[r] = "owned" =>
        LET h == job[r].holding
        IN  /\ h \in HoldingId /\ job[r].shares > 0
            /\ h \in Request => phase[h] \in Answer
            /\ holdings[h] # NoRow => holdings[h].user = job[r].user

JobsAreCalls == job \in [Request -> Calls]

\* The inductive invariant.
IInv == /\ TypeOK /\ JobsAreCalls
        /\ SaleSeesCurrentRow /\ SaleChecked
        /\ NothingYet /\ OwnerChecked
        /\ TradesPointHome

USE DEF HoldingId, Basis

LEMMA Sorts ==
    /\ NoRow \notin Holding /\ NoRow \notin Trade
    /\ NoHolding \notin HoldingId /\ NoHolding \notin Basis
    /\ Calls \subseteq Call /\ Stock \cap Request = {} /\ OpeningRows \subseteq Holding
    /\ \A c \in Calls : c.holding = NoHolding => c.op \in {"create", "trade", "void"}
BY Distinct

LEMMA InitInv == Init => IInv
<1> SUFFICES ASSUME Init PROVE IInv
  OBVIOUS
<1>1. TypeOK
  <2>1. PICK c \in Calls : TRUE
    BY Distinct
  <2>2. (CHOOSE x \in Calls : TRUE) \in Call
    BY <2>1, Sorts
  <2>3. holdings \in [HoldingId -> Holding \cup {NoRow}]
    BY Sorts DEF Init
  <2> QED
    BY <2>2, <2>3 DEF Init, TypeOK, Phase
<1>2. \A r \in Request : phase[r] = "idle" /\ trades[r] = NoRow /\ holdings[r] = NoRow
  BY Sorts DEF Init
<1>3. JobsAreCalls
  BY Distinct DEF Init, JobsAreCalls
<1> QED
  BY <1>1, <1>2, <1>3 DEF IInv, SaleSeesCurrentRow, SaleChecked, NothingYet, OwnerChecked,
     TradesPointHome, InSale

-----------------------------------------------------------------------------
(* A request that answers and changes no row.                              *)

LEMMA ReplyKeeps ==
    ASSUME IInv, NEW r \in Request, NEW a \in Answer, NoEffect, Reply(r, a)
    PROVE  IInv'
<1> USE DEF IInv, NoEffect, Reply
<1>1. TypeOK' /\ JobsAreCalls'
  BY DEF TypeOK, JobsAreCalls, Phase
<1>2. \A q \in Request : phase'[q] \in InSale => q # r /\ phase'[q] = phase[q] /\ seen'[q] = seen[q]
  BY DEF TypeOK, InSale, Answer
<1>3. SaleSeesCurrentRow'
  BY <1>2 DEF SaleSeesCurrentRow
<1>4. SaleChecked'
  BY <1>2 DEF SaleChecked, Remaining
<1>5. NothingYet' /\ OwnerChecked'
  BY DEF NothingYet, OwnerChecked, TypeOK, Answer
<1>6. TradesPointHome'
  BY DEF TradesPointHome
<1> QED
  BY <1>1, <1>3, <1>4, <1>5, <1>6

(* One statement that writes row h of holdings and answers.                *)

LEMMA StoreKeeps ==
    ASSUME IInv, NEW r \in Request, phase[r] = "received",
           NEW h \in HoldingId, NEW row \in Holding \cup {NoRow},
           NEW a \in Answer, Store(h, row), Reply(r, a),
           ~Locked(h),
           h = r \/ holdings[h] # NoRow,
           holdings[h] # NoRow /\ row # NoRow => row.user = holdings[h].user,
           row = NoRow => ~Referenced(h)
    PROVE  IInv'
<1> USE DEF IInv, Store, Reply
<1>1. TypeOK' /\ JobsAreCalls'
  BY DEF TypeOK, JobsAreCalls, Phase
<1>2. \A q \in Request : phase'[q] \in InSale =>
        /\ q # r /\ phase'[q] = phase[q] /\ seen'[q] = seen[q]
        /\ holdings'[job[q].holding] = holdings[job[q].holding]
  BY DEF TypeOK, InSale, Answer, Locked
<1>3. SaleSeesCurrentRow'
  BY <1>2 DEF SaleSeesCurrentRow
<1>4. SaleChecked'
  BY <1>2 DEF SaleChecked, Remaining
<1>5. NothingYet'
  <2>1. h \in Request => h = r \/ phase[h] \in Answer
    BY DEF NothingYet
  <2> QED
    BY <2>1 DEF NothingYet, TypeOK, Answer
<1>6. OwnerChecked'
  <2> SUFFICES ASSUME NEW q \in Request, phase'[q] = "owned"
               PROVE  LET g == job'[q].holding
                      IN  /\ g \in HoldingId /\ job'[q].shares > 0
                          /\ g \in Request => phase'[g] \in Answer
                          /\ holdings'[g] # NoRow => holdings'[g].user = job'[q].user
    BY DEF OwnerChecked
  <2>1. q # r /\ phase[q] = "owned"
    BY DEF TypeOK, Answer
  <2>2. job[q].holding # r
    BY <2>1, r \in Request DEF OwnerChecked, Answer
  <2>3. holdings'[job[q].holding] # NoRow => holdings'[job[q].holding].user = job[q].user
    BY <2>1, <2>2 DEF OwnerChecked, TypeOK
  <2> QED
    BY <2>1, <2>2, <2>3 DEF OwnerChecked, TypeOK
<1>7. TradesPointHome'
  BY DEF TradesPointHome, Referenced, NothingYet, TypeOK, Trade, Answer
<1> QED
  BY <1>1, <1>3, <1>4, <1>5, <1>6, <1>7

(* One statement that writes row t of trades and answers.                  *)

LEMMA FileKeeps ==
    ASSUME IInv, NEW r \in Request, phase[r] \in {"received", "owned"},
           NEW t \in Request, NEW row \in Trade \cup {NoRow},
           NEW a \in Answer, File(t, row), Reply(r, a),
           t = r \/ (row = NoRow /\ trades[t] # NoRow),
           row # NoRow /\ row.holding # NoHolding =>
             holdings[row.holding] # NoRow /\ holdings[row.holding].user = row.user
    PROVE  IInv'
<1> USE DEF IInv, File, Reply
<1>1. TypeOK' /\ JobsAreCalls'
  BY DEF TypeOK, JobsAreCalls, Phase
<1>2. \A q \in Request : phase'[q] \in InSale => q # r /\ phase'[q] = phase[q] /\ seen'[q] = seen[q]
  BY DEF TypeOK, InSale, Answer
<1>3. SaleSeesCurrentRow'
  BY <1>2 DEF SaleSeesCurrentRow
<1>4. SaleChecked'
  BY <1>2 DEF SaleChecked, Remaining
<1>5. NothingYet' /\ OwnerChecked'
  BY DEF NothingYet, OwnerChecked, TypeOK, Answer
<1>6. TradesPointHome'
  BY DEF TradesPointHome, TypeOK
<1> QED
  BY <1>1, <1>3, <1>4, <1>5, <1>6

-----------------------------------------------------------------------------
(* One lemma per request.                                                  *)

LEMMA ReceiveKeeps == ASSUME IInv, NEW r \in Request, Receive(r) PROVE IInv'
<1> USE DEF IInv, Receive
<1>1. TypeOK' /\ JobsAreCalls'
  BY Sorts DEF TypeOK, JobsAreCalls, Phase, InFlight
<1>2. \A q \in Request : phase'[q] \in InSale \cup {"owned"} =>
        q # r /\ phase'[q] = phase[q] /\ job'[q] = job[q]
  BY DEF TypeOK, InSale
<1>3. SaleSeesCurrentRow' /\ SaleChecked'
  BY <1>2 DEF SaleSeesCurrentRow, SaleChecked, Remaining
<1>4. NothingYet' /\ OwnerChecked'
  BY <1>2 DEF NothingYet, OwnerChecked, TypeOK, Answer
<1>5. TradesPointHome'
  BY DEF TradesPointHome
<1> QED
  BY <1>1, <1>3, <1>4, <1>5

\* A call that names a row does so with an id.
LEMMA NamesARow ==
    ASSUME IInv, NEW r \in Request,
           job[r].op \notin {"create", "trade", "void"} \/ job[r].holding # NoHolding
    PROVE  job[r].holding \in HoldingId
BY Sorts DEF IInv, JobsAreCalls, Call

LEMMA CreateKeeps == ASSUME IInv, NEW r \in Request, CreateHolding(r) PROVE IInv'
<1>1. PICK a \in Committed : Reply(r, a)
  BY DEF CreateHolding
<1>2. phase[r] = "received" /\ a \in Answer
  BY <1>1 DEF CreateHolding, Starts, Committed, Answer
<1>3. holdings[r] = NoRow
  BY <1>2 DEF IInv, NothingYet, Answer
<1>4. ~Locked(r)
  BY <1>3, Sorts DEF IInv, Locked, SaleSeesCurrentRow, SaleChecked
<1>5. [user |-> job[r].user, shares |-> job[r].shares, basis |-> r] \in Holding
  BY DEF IInv, TypeOK, Call, Holding
<1> QED
  BY <1>1, <1>2, <1>3, <1>4, <1>5, Sorts, StoreKeeps DEF CreateHolding

LEMMA UpdateKeeps == ASSUME IInv, NEW r \in Request, UpdateHolding(r) PROVE IInv'
<1>1. CASE Owned(r)
  <2> DEFINE c == job[r]
             old == holdings[c.holding]
             row == [old EXCEPT !.shares = IF "shares" \in c.sets THEN c.shares ELSE @,
                                !.basis = IF "avg_price" \in c.sets THEN r ELSE @]
  <2>1. PICK a \in Committed : Reply(r, a)
    BY <1>1 DEF UpdateHolding
  <2>2. phase[r] = "received" /\ a \in Answer /\ Store(c.holding, row) /\ ~Locked(c.holding)
    BY <1>1 DEF UpdateHolding, Starts, Committed, Answer
  <2>3. c.holding \in HoldingId
    BY NamesARow DEF UpdateHolding, Starts
  <2>4. old \in Holding
    BY <1>1, <2>3 DEF Owned, Mine, IInv, TypeOK
  <2>5. row \in Holding /\ row.user = old.user
    BY <2>4 DEF IInv, TypeOK, Call, Holding
  <2> QED
    BY <1>1, <2>1, <2>2, <2>3, <2>5, Sorts, StoreKeeps DEF Owned, Mine
<1>2. CASE ~Owned(r)
  BY <1>2, ReplyKeeps DEF UpdateHolding, Answer
<1> QED
  BY <1>1, <1>2

LEMMA AddKeeps == ASSUME IInv, NEW r \in Request, AddShares(r) PROVE IInv'
<1> DEFINE c == job[r]
           old == holdings[c.holding]
           row == [old EXCEPT !.shares = @ + c.shares, !.basis = r]
<1>1. CASE Owned(r) /\ old.shares + c.shares # 0
  <2>1. PICK a \in Committed : Reply(r, a)
    BY <1>1 DEF AddShares
  <2>2. phase[r] = "received" /\ a \in Answer /\ Store(c.holding, row) /\ ~Locked(c.holding)
    BY <1>1 DEF AddShares, Starts, Committed, Answer
  <2>3. c.holding \in HoldingId
    BY NamesARow DEF AddShares, Starts
  <2>4. old \in Holding
    BY <1>1, <2>3 DEF Owned, Mine, IInv, TypeOK
  <2>5. row \in Holding /\ row.user = old.user
    <3>1. c.shares \in Int /\ old.shares \in Int
      BY <2>4 DEF IInv, TypeOK, Call, Holding
    <3>2. old.shares + c.shares \in Int
      BY <3>1
    <3> HIDE DEF c
    <3> QED
      BY <2>4, <3>2 DEF Holding
  <2> QED
    BY <1>1, <2>1, <2>2, <2>3, <2>5, Sorts, StoreKeeps DEF Owned, Mine
<1>2. CASE ~(Owned(r) /\ old.shares + c.shares # 0)
  BY <1>2, ReplyKeeps DEF AddShares, Answer
<1> QED
  BY <1>1, <1>2

LEMMA DeleteKeeps == ASSUME IInv, NEW r \in Request, DeleteHolding(r) PROVE IInv'
<1>1. CASE Owned(r) /\ ~Referenced(job[r].holding)
  <2>1. PICK a \in {"ok", "not_found"} : Reply(r, a)
    BY <1>1 DEF DeleteHolding
  <2>2. /\ phase[r] = "received" /\ a \in Answer
        /\ Store(job[r].holding, NoRow) /\ ~Locked(job[r].holding)
    BY <1>1 DEF DeleteHolding, Starts, Answer
  <2>3. job[r].holding \in HoldingId
    BY NamesARow DEF DeleteHolding, Starts
  <2> QED
    BY <1>1, <2>1, <2>2, <2>3, Sorts, StoreKeeps DEF Owned, Mine
<1>2. CASE ~(Owned(r) /\ ~Referenced(job[r].holding))
  BY <1>2, ReplyKeeps DEF DeleteHolding, Answer
<1> QED
  BY <1>1, <1>2

LEMMA CheckOwnerKeeps == ASSUME IInv, NEW r \in Request, CheckOwner(r) PROVE IInv'
<1>1. CASE Mine(holdings[job[r].holding], r)
  <2> USE DEF IInv
  <2>1. /\ phase[r] = "received" /\ phase' = [phase EXCEPT ![r] = "owned"]
        /\ UNCHANGED <<holdings, trades, job, seen>>
        /\ job[r].holding \in HoldingId /\ job[r].shares > 0
    BY <1>1, NamesARow DEF CheckOwner, Starts, NoEffect, Mine, Invalid, TypeOK, Call
  <2>2. TypeOK' /\ JobsAreCalls'
    BY <2>1 DEF TypeOK, JobsAreCalls, Phase, InFlight
  <2>3. SaleSeesCurrentRow' /\ SaleChecked'
    BY <2>1 DEF TypeOK, SaleSeesCurrentRow, SaleChecked, InSale, Remaining
  <2>4. NothingYet' /\ TradesPointHome'
    BY <2>1 DEF TypeOK, NothingYet, TradesPointHome, Answer
  <2>5. OwnerChecked'
    BY <1>1, <2>1 DEF TypeOK, OwnerChecked, NothingYet, Answer, Mine
  <2> QED
    BY <2>2, <2>3, <2>4, <2>5
<1>2. CASE ~Mine(holdings[job[r].holding], r)
  BY <1>2, ReplyKeeps DEF CheckOwner, Answer, Mine
<1> QED
  BY <1>1, <1>2

LEMMA InsertTradeKeeps == ASSUME IInv, NEW r \in Request, InsertTrade(r) PROVE IInv'
<1> DEFINE c == job[r]
           row(act) == [user |-> c.user, holding |-> c.holding, action |-> act,
                        shares |-> c.shares, basis |-> NoHolding]
<1>1. CASE c.holding # NoHolding => holdings[c.holding] # NoRow
  <2>1. PICK a \in Committed, act \in {"BUY", "SELL"} :
          Reply(r, a) /\ File(r, row(act))
    BY <1>1 DEF InsertTrade
  <2>2. a \in Answer /\ phase[r] \in {"received", "owned"}
    BY DEF InsertTrade, Starts, Committed, Answer
  <2>3. row(act) \in Trade /\ row(act).holding = c.holding /\ row(act).user = c.user
    BY DEF IInv, TypeOK, Call, Trade
  <2>4. c.holding # NoHolding => holdings[c.holding].user = c.user
    BY <1>1 DEF InsertTrade, Starts, IInv, OwnerChecked
  <2>5. r = r \/ (row(act) = NoRow /\ trades[r] # NoRow)
    OBVIOUS
  <2>6. row(act) # NoRow /\ row(act).holding # NoHolding =>
          holdings[row(act).holding] # NoRow /\ holdings[row(act).holding].user = row(act).user
    BY <1>1, <2>3, <2>4
  <2>7. File(r, row(act)) /\ Reply(r, a)
    BY <2>1
  <2> HIDE DEF row
  <2> QED
    BY <2>2, <2>3, <2>5, <2>6, <2>7, FileKeeps
<1>2. CASE ~(c.holding # NoHolding => holdings[c.holding] # NoRow)
  BY <1>2, ReplyKeeps DEF InsertTrade, Answer
<1> QED
  BY <1>1, <1>2

LEMMA DeleteTradeKeeps == ASSUME IInv, NEW r \in Request, DeleteTrade(r) PROVE IInv'
<1> DEFINE t == job[r].trade
<1>1. CASE Mine(trades[t], r)
  <2>1. PICK a \in Committed : Reply(r, a)
    BY <1>1 DEF DeleteTrade
  <2>2. a \in Answer /\ phase[r] = "received" /\ t \in Request
    BY DEF DeleteTrade, Starts, Committed, Answer, IInv, TypeOK, Call
  <2> QED
    BY <1>1, <2>1, <2>2, FileKeeps DEF DeleteTrade, Mine
<1>2. CASE ~Mine(trades[t], r)
  BY <1>2, ReplyKeeps DEF DeleteTrade, Answer
<1> QED
  BY <1>1, <1>2

LEMMA LockRowKeeps == ASSUME IInv, NEW r \in Request, LockRow(r) PROVE IInv'
<1> DEFINE c == job[r]
           row == holdings[c.holding]
<1>1. CASE Owned(r) /\ c.shares <= row.shares
  <2> USE DEF IInv
  <2>1. /\ phase[r] = "received" /\ phase' = [phase EXCEPT ![r] = "locked"]
        /\ seen' = [seen EXCEPT ![r] = row]
        /\ UNCHANGED <<holdings, trades, job>>
        /\ c.op = "sell" /\ 0 < c.shares /\ ~Locked(c.holding)
    <3>1. /\ phase[r] = "received" /\ c.op = "sell" /\ ~Invalid(c) /\ ~Locked(c.holding)
          /\ UNCHANGED <<holdings, trades>>
      BY DEF LockRow, Starts, NoEffect
    <3>2. c.shares \in Int
      BY DEF TypeOK, Call
    <3>3. 0 < c.shares
      BY <3>1, <3>2 DEF Invalid
    <3>4. row # NoRow /\ ~(c.shares > row.shares)
      <4>1. row # NoRow /\ row \in Holding
        BY <1>1, NamesARow, <3>1 DEF Owned, Mine, TypeOK
      <4> QED
        BY <1>1, <3>2, <4>1 DEF Holding
    <3>5. /\ phase' = [phase EXCEPT ![r] = "locked"]
          /\ seen' = [seen EXCEPT ![r] = row] /\ job' = job
      BY <1>1, <3>4 DEF LockRow
    <3> QED
      BY <3>1, <3>3, <3>5
  <2>2. c.holding \in HoldingId
    BY <2>1, NamesARow
  <2>3. row \in Holding /\ row.user = c.user
    BY <1>1, <2>2 DEF Owned, Mine, TypeOK
  <2>4. TypeOK' /\ JobsAreCalls'
    BY <2>1, <2>3 DEF TypeOK, JobsAreCalls, Phase, InFlight, InSale
  <2>5. SaleSeesCurrentRow'
    BY <2>1 DEF TypeOK, SaleSeesCurrentRow, InSale, Locked
  <2>6. SaleChecked'
    BY <1>1, <2>1, <2>2, <2>3 DEF TypeOK, SaleChecked, InSale, Remaining
  <2>7. NothingYet' /\ TradesPointHome'
    BY <2>1 DEF TypeOK, NothingYet, TradesPointHome, Answer
  <2>8. OwnerChecked'
    BY <2>1 DEF TypeOK, OwnerChecked, Answer
  <2> QED
    BY <2>4, <2>5, <2>6, <2>7, <2>8
<1>2. CASE ~(Owned(r) /\ c.shares <= row.shares)
  BY <1>2, ReplyKeeps DEF LockRow, Answer
<1> QED
  BY <1>1, <1>2

\* A sale that moves on inside its transaction.
LEMMA AdvanceKeeps ==
    ASSUME IInv, NEW r \in Request, NEW p \in InSale, phase[r] \in InSale,
           phase' = [phase EXCEPT ![r] = p],
           UNCHANGED <<holdings, trades, job, seen>>,
           p = "written" => Remaining(r) > 0
    PROVE  IInv'
<1> USE DEF IInv, InSale
<1>1. TypeOK' /\ JobsAreCalls'
  BY DEF TypeOK, JobsAreCalls, Phase, InFlight
<1>2. SaleSeesCurrentRow'
  BY DEF TypeOK, SaleSeesCurrentRow
<1>3. SaleChecked'
  BY DEF TypeOK, SaleChecked, Remaining
<1>4. NothingYet' /\ TradesPointHome' /\ OwnerChecked'
  BY DEF TypeOK, NothingYet, TradesPointHome, OwnerChecked, Answer
<1> QED
  BY <1>1, <1>2, <1>3, <1>4

LEMMA InsertSaleKeeps == ASSUME IInv, NEW r \in Request, InsertSale(r) PROVE IInv'
BY AdvanceKeeps DEF InsertSale, InSale

LEMMA WriteKeeps == ASSUME IInv, NEW r \in Request, WriteHolding(r) PROVE IInv'
<1>1. CASE Remaining(r) > 0
  <2>1. Remaining(r) \in Int
    BY DEF IInv, SaleChecked, WriteHolding, Remaining, Holding, TypeOK, Call, InSale
  <2> QED
    BY <1>1, <2>1, AdvanceKeeps DEF WriteHolding, NoEffect, InSale
<1>2. CASE ~(Remaining(r) > 0)
  BY <1>2, ReplyKeeps DEF WriteHolding, Answer
<1> QED
  BY <1>1, <1>2

\* What a commit writes: the row it read less the shares of the call, and a trade.
LEMMA CommitWrites ==
    ASSUME IInv, NEW r \in Request, Commit(r)
    PROVE  LET c == job[r]
               row == holdings[c.holding]
           IN  /\ c.holding \in HoldingId /\ row \in Holding /\ seen[r] = row
               /\ row.user = c.user /\ c.shares \in Int /\ row.shares \in Int
               /\ 0 < c.shares /\ c.shares < row.shares
               /\ trades[r] = NoRow
               /\ holdings'[c.holding] = [row EXCEPT !.shares = @ - c.shares]
               /\ holdings'[c.holding] \in Holding
               /\ holdings'[c.holding].user = row.user
               /\ \A h \in HoldingId : h # c.holding => holdings'[h] = holdings[h]
               /\ trades'[r] \in Trade
<1> USE DEF IInv
<1> DEFINE c == job[r]
           row == holdings[c.holding]
<1>1. phase[r] = "written" /\ phase[r] \in InSale
  BY DEF Commit, InSale
<1>2. c.holding \in HoldingId /\ seen[r] = row /\ row \in Holding /\ row.user = c.user
  BY <1>1 DEF SaleSeesCurrentRow, SaleChecked
<1>3. c.shares \in Int /\ row.shares \in Int /\ row.basis \in Basis /\ c.user \in User
  BY <1>2 DEF TypeOK, Call, Holding
<1>4. 0 < c.shares /\ c.shares < row.shares
  BY <1>1, <1>2, <1>3 DEF SaleChecked, Remaining
<1>5. trades[r] = NoRow
  BY <1>1 DEF NothingYet, Answer
<1>6. holdings' = [holdings EXCEPT ![c.holding].shares = row.shares - c.shares]
  BY <1>2 DEF Commit, Remaining
<1>7. holdings'[c.holding] = [row EXCEPT !.shares = row.shares - c.shares]
  BY <1>2, <1>6 DEF TypeOK
<1>8. row.shares - c.shares \in Int
  BY <1>3
<1>9. holdings'[c.holding] \in Holding /\ holdings'[c.holding].user = row.user
  <2> DEFINE left == row.shares - c.shares
  <2>1. left \in Int
    BY <1>8
  <2>2. holdings'[c.holding] = [row EXCEPT !.shares = left]
    BY <1>7
  <2> HIDE DEF left, c
  <2> QED
    BY <1>2, <2>1, <2>2 DEF Holding
<1>10. trades'[r] = [user |-> c.user, holding |-> c.holding, action |-> "SELL",
                     shares |-> c.shares, basis |-> seen[r].basis]
  BY DEF Commit, TypeOK
<1>11. trades'[r] \in Trade
  BY <1>2, <1>3, <1>10 DEF Trade
<1>12. \A h \in HoldingId : h # c.holding => holdings'[h] = holdings[h]
  BY <1>6 DEF TypeOK
<1> QED
  BY <1>2, <1>3, <1>4, <1>5, <1>7, <1>9, <1>11, <1>12

LEMMA CommitKeeps == ASSUME IInv, NEW r \in Request, Commit(r) PROVE IInv'
<1> USE DEF IInv
<1> DEFINE g == job[r].holding
<1>1. PICK a \in Committed : Reply(r, a)
  BY DEF Commit
<1>2. /\ phase[r] = "written" /\ a \in Answer
      /\ phase' = [phase EXCEPT ![r] = a] /\ seen' = [seen EXCEPT ![r] = NoRow]
      /\ job' = job /\ DOMAIN holdings' = HoldingId
      /\ \A t \in Request : t # r => trades'[t] = trades[t]
  BY <1>1 DEF Commit, Reply, Committed, Answer, TypeOK
<1>3. /\ g \in HoldingId /\ holdings[g] \in Holding /\ holdings[g].user = job[r].user
      /\ holdings'[g] \in Holding /\ holdings'[g].user = holdings[g].user
      /\ \A h \in HoldingId : h # g => holdings'[h] = holdings[h]
      /\ trades'[r] \in Trade
  BY CommitWrites
<1>4. TypeOK' /\ JobsAreCalls'
  <2>1. holdings' \in [HoldingId -> Holding \cup {NoRow}]
    <3>1. \A h \in HoldingId : holdings'[h] \in Holding \cup {NoRow}
      BY <1>3 DEF TypeOK
    <3>2. holdings' = [h \in HoldingId |-> holdings'[h]]
      BY DEF Commit, TypeOK
    <3> QED
      BY <3>1, <3>2
  <2>2. trades' \in [Request -> Trade \cup {NoRow}]
    <3>1. \A t \in Request : trades'[t] \in Trade \cup {NoRow}
      BY <1>2, <1>3 DEF TypeOK
    <3>2. trades' = [t \in Request |-> trades'[t]]
      BY DEF Commit, TypeOK
    <3> QED
      BY <3>1, <3>2
  <2> QED
    BY <1>2, <2>1, <2>2 DEF TypeOK, JobsAreCalls, Phase
<1>5. \A q \in Request : phase'[q] \in InSale =>
        /\ q # r /\ phase'[q] = phase[q] /\ seen'[q] = seen[q]
        /\ job[q].holding \in HoldingId /\ job[q].holding # g
  BY <1>2 DEF TypeOK, InSale, Answer, SaleSeesCurrentRow, SaleChecked
<1>6. SaleSeesCurrentRow' /\ SaleChecked'
  BY <1>2, <1>3, <1>5 DEF SaleSeesCurrentRow, SaleChecked, Remaining
<1>7. NothingYet'
  BY <1>2, <1>3, Sorts DEF TypeOK, NothingYet, Answer
<1>8. OwnerChecked'
  BY <1>2, <1>3, Sorts DEF TypeOK, OwnerChecked, Answer
<1>9. TradesPointHome'
  <2>1. trades'[r].holding = g /\ trades'[r].user = job[r].user
    BY DEF Commit, TypeOK
  <2>2. \A t \in Request : trades[t] # NoRow /\ trades[t].holding # NoHolding
                            => trades[t].holding \in HoldingId
    BY DEF TypeOK, Trade
  <2> QED
    BY <1>2, <1>3, <2>1, <2>2, Sorts DEF TradesPointHome
<1> QED
  BY <1>4, <1>6, <1>7, <1>8, <1>9

LEMMA StepKeeps == IInv /\ [Next]_vars => IInv'
<1> SUFFICES ASSUME IInv, [Next]_vars PROVE IInv'
  OBVIOUS
<1>1. CASE UNCHANGED vars
  BY <1>1 DEF vars, IInv, TypeOK, JobsAreCalls, SaleSeesCurrentRow, SaleChecked,
     NothingYet, OwnerChecked, TradesPointHome, Remaining
<1>2. ASSUME NEW r \in Request, Receive(r) PROVE IInv'
  BY <1>2, ReceiveKeeps
<1>3. ASSUME NEW r \in Request, Reject(r) \/ Abort(r) PROVE IInv'
  <2>1. OnError(r) \subseteq Answer
    BY DEF OnError, Answer
  <2> QED
    BY <1>3, <2>1, ReplyKeeps DEF Reject, Abort, Answer
<1>4. ASSUME NEW r \in Request, Serve(r), ~Reject(r) PROVE IInv'
  BY <1>4, CreateKeeps, UpdateKeeps, AddKeeps, DeleteKeeps, CheckOwnerKeeps,
     InsertTradeKeeps, DeleteTradeKeeps, LockRowKeeps, InsertSaleKeeps, WriteKeeps,
     CommitKeeps DEF Serve
<1> QED
  BY <1>1, <1>2, <1>3, <1>4 DEF Next

-----------------------------------------------------------------------------

THEOREM Invariance == Spec => []IInv
<1>1. Init => IInv
  BY InitInv
<1>2. IInv /\ [Next]_vars => IInv'
  BY StepKeeps
<1> QED
  BY <1>1, <1>2, PTL DEF Spec

\* Every variable keeps its type, whatever the interleaving of the statements.
THEOREM TypeCorrect == Spec => []TypeOK
BY Invariance, PTL DEF IInv

\* The FOR UPDATE lock of SellFromHolding does what it is there for: a holding has
\* one sale at a time, and it commits over the row that it read.
THEOREM SalesAreSerialised == Spec => []SaleSeesCurrentRow
BY Invariance, PTL DEF IInv

\* A trade's holding exists and belongs to the trade's account.
THEOREM ForeignKeyHolds == Spec => []TradesPointHome
BY Invariance, PTL DEF IInv

-----------------------------------------------------------------------------
(* Each request maps to one step of the ledger, or to none.                *)

LEMMA StoreAlters ==
    ASSUME TypeOK, NEW h \in HoldingId, NEW row, Store(h, row)
    PROVE  holdings'[h] = row /\ L!AltersHolding(h) /\ UNCHANGED trades
BY DEF TypeOK, Store, L!AltersHolding

LEMMA FileAlters ==
    ASSUME TypeOK, NEW t \in Request, NEW row, File(t, row)
    PROVE  trades'[t] = row /\ L!AltersTrade(t) /\ UNCHANGED holdings
BY DEF TypeOK, File, L!AltersTrade

LEMMA SameRows == L!Holding = Holding /\ L!Trade = Trade
BY DEF L!Holding, Holding, L!Trade, Trade

LEMMA CreateOpens == ASSUME IInv, NEW r \in Request, CreateHolding(r) PROVE L!Open(r)
<1> DEFINE row == [user |-> job[r].user, shares |-> job[r].shares, basis |-> r]
<1>1. holdings[r] = NoRow
  BY DEF IInv, NothingYet, CreateHolding, Starts, Answer
<1>2. row \in Holding
  BY DEF IInv, TypeOK, Call, Holding
<1>3. row.shares # 0
  BY DEF CreateHolding, Starts, Invalid
<1>4. Store(r, row)
  BY DEF CreateHolding
<1> HIDE DEF row
<1> QED
  BY <1>1, <1>2, <1>3, <1>4, StoreAlters, SameRows DEF IInv, L!Open, L!Held

LEMMA UpdateRevises ==
    ASSUME IInv, NEW r \in Request, UpdateHolding(r), Owned(r)
    PROVE  L!Revise(job[r].holding)
<1> DEFINE c == job[r]
           old == holdings[c.holding]
           row == [old EXCEPT !.shares = IF "shares" \in c.sets THEN c.shares ELSE @,
                              !.basis = IF "avg_price" \in c.sets THEN r ELSE @]
<1>1. c.holding \in HoldingId
  BY NamesARow DEF UpdateHolding, Starts
<1>2. old \in Holding /\ old # NoRow
  BY <1>1 DEF Owned, Mine, IInv, TypeOK
<1>3. row \in Holding /\ row.user = old.user
  BY <1>2 DEF IInv, TypeOK, Call, Holding
<1>4. Store(c.holding, row)
  BY DEF UpdateHolding
<1> HIDE DEF row
<1> QED
  BY <1>1, <1>2, <1>3, <1>4, StoreAlters, SameRows DEF IInv, L!Revise, L!Held

LEMMA AddRevises ==
    ASSUME IInv, NEW r \in Request, AddShares(r), Owned(r),
           holdings[job[r].holding].shares + job[r].shares # 0
    PROVE  L!Revise(job[r].holding)
<1> DEFINE c == job[r]
           old == holdings[c.holding]
           row == [old EXCEPT !.shares = @ + c.shares, !.basis = r]
<1>1. c.holding \in HoldingId
  BY NamesARow DEF AddShares, Starts
<1>2. old \in Holding /\ old # NoRow
  BY <1>1 DEF Owned, Mine, IInv, TypeOK
<1>3. row \in Holding /\ row.user = old.user
  <2>1. c.shares \in Int /\ old.shares \in Int
    BY <1>2 DEF IInv, TypeOK, Call, Holding
  <2>2. old.shares + c.shares \in Int
    BY <2>1
  <2> HIDE DEF c
  <2> QED
    BY <1>2, <2>2 DEF Holding
<1>4. Store(c.holding, row)
  BY DEF AddShares
<1> HIDE DEF row
<1> QED
  BY <1>1, <1>2, <1>3, <1>4, StoreAlters, SameRows DEF IInv, L!Revise, L!Held

LEMMA DeleteCloses ==
    ASSUME IInv, NEW r \in Request, DeleteHolding(r), Owned(r),
           ~Referenced(job[r].holding)
    PROVE  L!Close(job[r].holding)
<1>1. job[r].holding \in HoldingId
  BY NamesARow DEF DeleteHolding, Starts
<1>2. Store(job[r].holding, NoRow)
  BY DEF DeleteHolding
<1> QED
  BY <1>1, <1>2, StoreAlters
     DEF IInv, L!Close, L!Held, L!Referenced, L!Filed, Owned, Mine, Referenced

LEMMA InsertRecords ==
    ASSUME IInv, NEW r \in Request, InsertTrade(r),
           job[r].holding # NoHolding => holdings[job[r].holding] # NoRow
    PROVE  L!Record(r)
<1> DEFINE c == job[r]
           row(act) == [user |-> c.user, holding |-> c.holding, action |-> act,
                        shares |-> c.shares, basis |-> NoHolding]
<1>1. PICK act \in {"BUY", "SELL"} : File(r, row(act))
  BY DEF InsertTrade
<1>2. row(act) \in Trade /\ row(act).shares > 0 /\ row(act).basis = NoHolding
  <2>1. c.shares \in Int
    BY DEF IInv, TypeOK, Call
  <2>2. c.shares > 0
    BY <2>1 DEF IInv, OwnerChecked, InsertTrade, Starts, Invalid
  <2> QED
    BY <2>2 DEF IInv, TypeOK, Call, Trade
<1>3. row(act).holding = c.holding /\ row(act).user = c.user
  OBVIOUS
<1>4. c.holding # NoHolding => holdings[c.holding] # NoRow /\ holdings[c.holding].user = c.user
  BY DEF InsertTrade, Starts, IInv, OwnerChecked
<1>5. trades[r] = NoRow
  BY DEF InsertTrade, Starts, IInv, NothingYet, Answer
<1> HIDE DEF row, c
<1> QED
  BY <1>1, <1>2, <1>3, <1>4, <1>5, FileAlters, SameRows DEF IInv, L!Record, L!Filed, L!Held

LEMMA DeleteVoids ==
    ASSUME IInv, NEW r \in Request, DeleteTrade(r), Mine(trades[job[r].trade], r)
    PROVE  L!Void(job[r].trade)
<1>1. job[r].trade \in Request
  BY DEF IInv, TypeOK, Call
<1>2. File(job[r].trade, NoRow)
  BY DEF DeleteTrade
<1> QED
  BY <1>1, <1>2, FileAlters DEF IInv, L!Void, L!Filed, Mine

LEMMA CommitSells == ASSUME IInv, NEW r \in Request, Commit(r) PROVE L!Sell(r, job[r].holding)
<1> DEFINE c == job[r]
           row == holdings[c.holding]
<1>1. /\ c.holding \in HoldingId /\ row \in Holding /\ seen[r] = row /\ row.user = c.user
      /\ 0 < c.shares /\ c.shares < row.shares /\ trades[r] = NoRow
      /\ trades'[r] \in Trade
  BY CommitWrites
<1>2. trades'[r] = [user |-> row.user, holding |-> c.holding, action |-> "SELL",
                    shares |-> c.shares, basis |-> row.basis]
  BY <1>1 DEF Commit, IInv, TypeOK
<1>3. trades'[r].shares = c.shares
  BY <1>2
<1>4. holdings' = [holdings EXCEPT ![c.holding].shares = @ - c.shares]
  BY <1>1 DEF Commit, Remaining
<1>5. L!AltersTrade(r)
  BY <1>2 DEF L!AltersTrade, Commit, IInv, TypeOK
<1>6. L!Held(c.holding) /\ ~L!Filed(r)
  BY <1>1, Sorts DEF L!Held, L!Filed
<1> HIDE DEF c, row
<1> QED
  BY <1>1, <1>2, <1>3, <1>4, <1>5, <1>6, SameRows DEF L!Sell, c, row

LEMMA StepRefines == IInv /\ [Next]_vars => [L!Next]_(L!vars)
<1> SUFFICES ASSUME IInv, [Next]_vars, ~UNCHANGED <<holdings, trades>> PROVE L!Next
  BY DEF L!vars
<1>1. PICK r \in Request : Receive(r) \/ Serve(r) \/ Abort(r)
  BY DEF Next, vars
<1>2. Serve(r) /\ ~Reject(r)
  BY <1>1 DEF Receive, Abort, Reject, NoEffect
<1>3. CASE CreateHolding(r)
  BY <1>3, CreateOpens DEF L!Next
<1>4. CASE UpdateHolding(r)
  <2>1. Owned(r) /\ job[r].holding \in HoldingId
    BY <1>4, NamesARow DEF UpdateHolding, Starts, NoEffect
  <2> QED
    BY <1>4, <2>1, UpdateRevises DEF L!Next
<1>5. CASE AddShares(r)
  <2>1. /\ Owned(r) /\ job[r].holding \in HoldingId
        /\ holdings[job[r].holding].shares + job[r].shares # 0
    BY <1>5, NamesARow DEF AddShares, Starts, NoEffect
  <2> QED
    BY <1>5, <2>1, AddRevises DEF L!Next
<1>6. CASE DeleteHolding(r)
  <2>1. Owned(r) /\ ~Referenced(job[r].holding) /\ job[r].holding \in HoldingId
    BY <1>6, NamesARow DEF DeleteHolding, Starts, NoEffect
  <2> QED
    BY <1>6, <2>1, DeleteCloses DEF L!Next
<1>7. CASE InsertTrade(r)
  <2>1. job[r].holding # NoHolding => holdings[job[r].holding] # NoRow
    BY <1>7 DEF InsertTrade, NoEffect
  <2> QED
    BY <1>7, <2>1, InsertRecords DEF L!Next
<1>8. CASE DeleteTrade(r)
  <2>1. Mine(trades[job[r].trade], r) /\ job[r].trade \in Request
    BY <1>8 DEF DeleteTrade, NoEffect, IInv, TypeOK, Call
  <2> QED
    BY <1>8, <2>1, DeleteVoids DEF L!Next
<1>9. CASE Commit(r)
  <2>1. job[r].holding \in HoldingId
    BY <1>9, CommitWrites
  <2> QED
    BY <1>9, <2>1, CommitSells DEF L!Next
<1>10. CASE CheckOwner(r) \/ LockRow(r) \/ InsertSale(r) \/ WriteHolding(r)
  BY <1>10 DEF CheckOwner, LockRow, InsertSale, WriteHolding, NoEffect
<1> QED
  BY <1>2, <1>3, <1>4, <1>5, <1>6, <1>7, <1>8, <1>9, <1>10 DEF Serve

LEMMA InitRefines == Init => L!Init
BY InitInv, SameRows DEF Init, L!Init, IInv, TypeOK

\* The handlers, their SQL statements, row locks and aborted transactions implement
\* the ledger in which every request is one atomic step or none.
THEOREM PortfolioImplementsLedger == Spec => ImplementsLedger
<1>1. Init => L!Init
  BY InitRefines
<1>2. IInv /\ [Next]_vars => [L!Next]_(L!vars)
  BY StepRefines
<1> QED
  BY <1>1, <1>2, Invariance, PTL DEF Spec, ImplementsLedger, L!Spec

-----------------------------------------------------------------------------
(* The accounts.                                                           *)

\* A step that changes a holding is of a request that then answers, and whose
\* account the holding is: the last UPDATE of a sale, which does not name the
\* account, writes the row that was checked when it was locked.
LEMMA WriterIsOwner ==
    ASSUME IInv, NEW r \in Request, Serve(r), NEW h \in HoldingId,
           holdings[h] # NoRow, holdings'[h] # holdings[h]
    PROVE  phase'[r] # phase[r] /\ job[r].user = holdings[h].user
<1>1. CASE CreateHolding(r)
  <2>1. holdings[r] = NoRow
    BY <1>1 DEF IInv, NothingYet, CreateHolding, Starts, Answer
  <2> QED
    BY <1>1, <2>1 DEF CreateHolding, Store, IInv, TypeOK
<1>2. CASE UpdateHolding(r) \/ AddShares(r) \/ DeleteHolding(r)
  <2>1. phase[r] = "received" /\ job[r].holding \in HoldingId
    BY <1>2, NamesARow DEF UpdateHolding, AddShares, DeleteHolding, Starts
  <2>2. /\ Owned(r) /\ \E row : Store(job[r].holding, row)
        /\ \E a \in {"ok", "failed", "not_found"} : Reply(r, a)
    BY <1>2 DEF UpdateHolding, AddShares, DeleteHolding, NoEffect, Committed
  <2>3. h = job[r].holding
    BY <2>1, <2>2 DEF Store, IInv, TypeOK
  <2> QED
    BY <2>1, <2>2, <2>3 DEF Owned, Mine, Reply, IInv, TypeOK
<1>3. CASE Commit(r)
  <2>1. /\ h = job[r].holding /\ job[r].user = holdings[h].user
    BY <1>3, CommitWrites
  <2>2. phase[r] = "written" /\ \E a \in Committed : Reply(r, a)
    BY <1>3 DEF Commit
  <2> QED
    BY <2>1, <2>2 DEF Reply, Committed, IInv, TypeOK
<1>4. CASE \/ Reject(r) \/ CheckOwner(r) \/ InsertTrade(r) \/ DeleteTrade(r)
           \/ LockRow(r) \/ InsertSale(r) \/ WriteHolding(r)
  BY <1>4 DEF Reject, CheckOwner, InsertTrade, DeleteTrade, LockRow, InsertSale, WriteHolding,
     NoEffect, File
<1> QED
  BY <1>1, <1>2, <1>3, <1>4 DEF Serve

\* A holding only ever changes at the step of a request of its own account.
THEOREM AccountsApart == Spec => AccountsStayApart
<1> DEFINE P == \A h \in HoldingId :
          holdings[h] # NoRow /\ holdings'[h] # holdings[h]
            => \E r \in Request : /\ phase'[r] # phase[r]
                                  /\ job[r].user = holdings[h].user
<1>1. IInv /\ [Next]_vars => [P]_vars
  <2> SUFFICES ASSUME IInv, Next, NEW h \in HoldingId,
                      holdings[h] # NoRow, holdings'[h] # holdings[h]
               PROVE  \E r \in Request : phase'[r] # phase[r] /\ job[r].user = holdings[h].user
    OBVIOUS
  <2>1. PICK r \in Request : Serve(r)
    BY DEF Next, Receive, Abort, NoEffect
  <2> QED
    BY <2>1, WriterIsOwner
<1> HIDE DEF P
<1>2. Spec => [][P]_vars
  BY <1>1, Invariance, PTL DEF Spec
<1> QED
  BY <1>2 DEF P, AccountsStayApart
=============================================================================
