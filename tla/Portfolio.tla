----------------------------- MODULE Portfolio ------------------------------
(***************************************************************************)
(* The portfolio requests of api-go (handler/holdings.go, handler/trades.go *)
(* and their repositories) against PostgreSQL at READ COMMITTED.  A single *)
(* SQL statement is one step; SellFromHolding is a transaction of four     *)
(* statements that holds a FOR UPDATE lock on the holding; CreateTrade     *)
(* checks the owner in one statement and inserts in the next.              *)
(***************************************************************************)
EXTENDS Integers

CONSTANTS
    User,        \* accounts
    Stock,       \* values of holdings.id in use when the model starts, if any
    Request,     \* HTTP requests; a row one inserts has the request as its id
    Calls,       \* the calls that clients make, a subset of Call
    OpeningRows, \* what those rows may hold
    Opening,     \* the average price they came with
    NoRow,       \* there is no row under this id
    NoHolding    \* the call, or the trade, names no holding

VARIABLES
    holdings,    \* the committed rows of holdings
    trades,      \* the committed rows of trades
    phase,       \* where a request is, or the answer it got
    job,         \* what the request asks for
    seen         \* the row SellFromHolding read, while its transaction is open

vars == <<holdings, trades, phase, job, seen>>

HoldingId == Stock \cup Request
Basis == Request \cup {Opening}

Holding == [user: User, shares: Int, basis: Basis]

Trade == [user: User, holding: HoldingId \cup {NoHolding},
          action: {"BUY", "SELL"}, shares: Int, basis: Basis \cup {NoHolding}]

\* One request.  "sets" are the columns a PUT carries; "trade" is the row a
\* DELETE names; a field an operation does not use has any value.
Call == [op: {"create", "update", "add", "delete", "trade", "void", "sell"},
         user: User, holding: HoldingId \cup {NoHolding}, shares: Int,
         sets: SUBSET {"shares", "avg_price"}, trade: Request]

\* "refused" is a 500 because a constraint refused the statement, "failed" a
\* 500 because the connection, the server or the commit failed.
Answer == {"ok", "bad_request", "forbidden", "not_found", "refused", "failed"}
InSale == {"locked", "inserted", "written"}
InFlight == {"received", "owned"} \cup InSale
Phase == {"idle"} \cup InFlight \cup Answer

ASSUME Distinct ==
    /\ NoRow \notin Holding \cup Trade
    /\ NoHolding \notin HoldingId \cup Basis
    /\ Stock \cap Request = {} /\ OpeningRows \subseteq Holding
    /\ Calls \subseteq Call /\ Calls # {}
    /\ \A c \in Calls : c.holding = NoHolding => c.op \in {"create", "trade", "void"}

TypeOK ==
    /\ holdings \in [HoldingId -> Holding \cup {NoRow}]
    /\ trades \in [Request -> Trade \cup {NoRow}]
    /\ phase \in [Request -> Phase]
    /\ job \in [Request -> Call]
    /\ seen \in [Request -> Holding \cup {NoRow}]

-----------------------------------------------------------------------------

Init ==
    /\ \E row \in [Stock -> OpeningRows \cup {NoRow}] :
          holdings = [h \in HoldingId |-> IF h \in Stock THEN row[h] ELSE NoRow]
    /\ trades = [r \in Request |-> NoRow]
    /\ phase = [r \in Request |-> "idle"]
    /\ job = [r \in Request |-> CHOOSE c \in Calls : TRUE]
    /\ seen = [r \in Request |-> NoRow]

\* Mutant of Locked: the SELECT without FOR UPDATE.
Unlocked(h) == FALSE

\* SELECT ... FOR UPDATE keeps every other writer of the row waiting, and the
\* foreign-key check of an insert that points at it.
Locked(h) == \E q \in Request : phase[q] \in InSale /\ job[q].holding = h

\* Mutant of Mine: WHERE id = $1, without AND user_id = $2.
Anyones(row, r) == row # NoRow

\* WHERE id = $1 AND user_id = $2 finds the row.
Mine(row, r) == row # NoRow /\ row.user = job[r].user
Owned(r) == Mine(holdings[job[r].holding], r)

\* Mutant of Referenced: no foreign key on trades.holding_id.
NotReferenced(h) == FALSE

\* The foreign key trades.holding_id REFERENCES holdings(id) forbids a DELETE.
Referenced(h) == \E t \in Request : trades[t] # NoRow /\ trades[t].holding = h

\* The checks each handler makes on its input before it touches the database.
Invalid(c) ==
    \/ c.op = "create" /\ c.shares = 0
    \/ c.op \in {"add", "trade", "sell"} /\ c.shares <= 0

\* The handler answers; its transaction, if any, is over.
Reply(r, a) ==
    /\ phase' = [phase EXCEPT ![r] = a]
    /\ seen' = [seen EXCEPT ![r] = NoRow]
    /\ UNCHANGED job

Store(h, row) == holdings' = [holdings EXCEPT ![h] = row] /\ UNCHANGED trades
File(t, row) == trades' = [trades EXCEPT ![t] = row] /\ UNCHANGED holdings
NoEffect == UNCHANGED <<holdings, trades>>

\* A statement that took effect may still be answered by a 500: the connection
\* can be lost after the server committed.
Committed == {"ok", "failed"}

-----------------------------------------------------------------------------

Receive(r) ==
    /\ phase[r] = "idle"
    /\ \E c \in Calls : job' = [job EXCEPT ![r] = c]
    /\ phase' = [phase EXCEPT ![r] = "received"]
    /\ UNCHANGED <<holdings, trades, seen>>

Starts(r, op) == phase[r] = "received" /\ job[r].op = op /\ ~Invalid(job[r])

Reject(r) ==
    /\ phase[r] = "received" /\ Invalid(job[r])
    /\ Reply(r, "bad_request")
    /\ NoEffect

\* Mutant of CreateHolding: the INSERT leaves avg_price out.
CreateUnpriced(r) ==
    /\ Starts(r, "create")
    /\ Store(r, [user |-> job[r].user, shares |-> job[r].shares, basis |-> NoHolding])
    /\ \E a \in Committed : Reply(r, a)

CreateHolding(r) ==
    /\ Starts(r, "create")
    /\ Store(r, [user |-> job[r].user, shares |-> job[r].shares, basis |-> r])
    /\ \E a \in Committed : Reply(r, a)

\* UPDATE ... COALESCE: a column the body leaves out keeps its value.
UpdateHolding(r) ==
    LET c == job[r]
        old == holdings[c.holding]
    IN  /\ Starts(r, "update")
        /\ ~Locked(c.holding)
        /\ \/ /\ Owned(r)
              /\ Store(c.holding,
                       [old EXCEPT !.shares = IF "shares" \in c.sets THEN c.shares ELSE @,
                                   !.basis = IF "avg_price" \in c.sets THEN r ELSE @])
              /\ \E a \in Committed : Reply(r, a)
           \/ /\ ~Owned(r)
              /\ NoEffect
              /\ Reply(r, "not_found")

\* One UPDATE computes the new average and the new number of shares.  A short
\* position (shares < 0) that the purchase closes exactly divides by zero.
AddShares(r) ==
    LET c == job[r]
        old == holdings[c.holding]
    IN  /\ Starts(r, "add")
        /\ ~Locked(c.holding)
        /\ \/ /\ Owned(r) /\ old.shares + c.shares # 0
              /\ Store(c.holding, [old EXCEPT !.shares = @ + c.shares, !.basis = r])
              /\ \E a \in Committed : Reply(r, a)
           \/ /\ Owned(r) /\ old.shares + c.shares = 0
              /\ NoEffect
              /\ Reply(r, "refused")
           \/ /\ ~Owned(r)
              /\ NoEffect
              /\ Reply(r, "not_found")

\* The foreign key has no ON DELETE: a holding that a trade names stays.  The
\* handler answers every error of the repository by a 404.
DeleteHolding(r) ==
    LET h == job[r].holding
    IN  /\ Starts(r, "delete")
        /\ ~Locked(h)
        /\ \/ /\ Owned(r) /\ ~Referenced(h)
              /\ Store(h, NoRow)
              /\ \E a \in {"ok", "not_found"} : Reply(r, a)
           \/ /\ Owned(r) => Referenced(h)
              /\ NoEffect
              /\ Reply(r, "not_found")

-----------------------------------------------------------------------------

\* CreateTrade with a holding_id: first the SELECT of its owner ...
CheckOwner(r) ==
    LET row == holdings[job[r].holding]
    IN  /\ Starts(r, "trade")
        /\ job[r].holding # NoHolding
        /\ NoEffect
        /\ \/ /\ Mine(row, r)
              /\ phase' = [phase EXCEPT ![r] = "owned"]
              /\ UNCHANGED <<job, seen>>
           \/ /\ row # NoRow /\ ~Mine(row, r)
              /\ Reply(r, "forbidden")
           \/ /\ row = NoRow
              /\ Reply(r, "not_found")

\* ... then the INSERT, which the foreign key refuses if the holding has gone.
InsertTrade(r) ==
    LET c == job[r]
    IN  /\ \/ Starts(r, "trade") /\ c.holding = NoHolding
           \/ phase[r] = "owned" /\ ~Locked(c.holding)
        /\ \/ /\ c.holding # NoHolding => holdings[c.holding] # NoRow
              /\ \E act \in {"BUY", "SELL"} :
                   File(r, [user |-> c.user, holding |-> c.holding, action |-> act,
                            shares |-> c.shares, basis |-> NoHolding])
              /\ \E a \in Committed : Reply(r, a)
           \/ /\ c.holding # NoHolding /\ holdings[c.holding] = NoRow
              /\ NoEffect
              /\ Reply(r, "refused")

DeleteTrade(r) ==
    LET t == job[r].trade
    IN  /\ Starts(r, "void")
        /\ \/ /\ Mine(trades[t], r)
              /\ File(t, NoRow)
              /\ \E a \in Committed : Reply(r, a)
           \/ /\ ~Mine(trades[t], r)
              /\ NoEffect
              /\ Reply(r, "not_found")

-----------------------------------------------------------------------------

\* SellFromHolding, statement 1: SELECT ... FOR UPDATE, and the checks on the
\* row.  A check that fails ends the transaction and releases the lock.
LockRow(r) ==
    LET c == job[r]
        row == holdings[c.holding]
    IN  /\ Starts(r, "sell")
        /\ ~Locked(c.holding)
        /\ NoEffect
        /\ \/ /\ Owned(r) /\ c.shares <= row.shares
              /\ phase' = [phase EXCEPT ![r] = "locked"]
              /\ seen' = [seen EXCEPT ![r] = row]
              /\ UNCHANGED job
           \/ /\ Owned(r) /\ c.shares > row.shares
              /\ Reply(r, "bad_request")
           \/ /\ row # NoRow /\ ~Owned(r)
              /\ Reply(r, "forbidden")
           \/ /\ row = NoRow
              /\ Reply(r, "not_found")

\* Statement 2: INSERT INTO trades, not visible to others before the commit.
InsertSale(r) ==
    /\ phase[r] = "locked"
    /\ phase' = [phase EXCEPT ![r] = "inserted"]
    /\ UNCHANGED <<holdings, trades, job, seen>>

\* Mutant of Remaining: the sale files its trade and leaves the shares there.
Kept(r) == seen[r].shares

Remaining(r) == seen[r].shares - job[r].shares

\* Mutant of WriteHolding: a refused statement does not end the transaction.
WriteWithoutRollback(r) ==
    /\ phase[r] = "inserted" /\ Remaining(r) > 0
    /\ phase' = [phase EXCEPT ![r] = "written"]
    /\ UNCHANGED <<holdings, trades, job, seen>>

\* Statement 3: UPDATE holdings to what remains, or DELETE the row if nothing
\* does.  The DELETE meets the trade this transaction has just inserted, which
\* names the holding: the foreign key refuses it and the handler answers 500.
WriteHolding(r) ==
    /\ phase[r] = "inserted"
    /\ NoEffect
    /\ \/ /\ Remaining(r) > 0
          /\ phase' = [phase EXCEPT ![r] = "written"]
          /\ UNCHANGED <<job, seen>>
       \/ /\ Remaining(r) <= 0
          /\ Reply(r, "refused")

\* Statement 4: COMMIT makes the trade and the new number of shares visible.
Commit(r) ==
    LET c == job[r]
    IN  /\ phase[r] = "written"
        /\ trades' = [trades EXCEPT ![r] =
                        [user |-> c.user, holding |-> c.holding, action |-> "SELL",
                         shares |-> c.shares, basis |-> seen[r].basis]]
        /\ holdings' = [holdings EXCEPT ![c.holding].shares = Remaining(r)]
        /\ \E a \in Committed : Reply(r, a)

\* Some handlers take every error of their first statement for a missing row.
OnError(r) ==
    CASE job[r].op = "delete" -> {"not_found"}
      [] phase[r] = "received" /\ job[r].op = "trade" /\ job[r].holding # NoHolding
            -> {"not_found"}
      [] phase[r] = "received" /\ job[r].op = "sell" -> {"failed", "not_found"}
      [] OTHER -> {"failed"}

\* A client that hangs up, a lost connection or a server that dies before the
\* commit: the deferred Rollback, or PostgreSQL itself, undoes the transaction.
Abort(r) ==
    /\ phase[r] \in InFlight
    /\ NoEffect
    /\ \E a \in OnError(r) : Reply(r, a)

Serve(r) ==
    \/ Reject(r)
    \/ CreateHolding(r) \/ UpdateHolding(r) \/ AddShares(r) \/ DeleteHolding(r)
    \/ CheckOwner(r) \/ InsertTrade(r) \/ DeleteTrade(r)
    \/ LockRow(r) \/ InsertSale(r) \/ WriteHolding(r) \/ Commit(r)

Next == \E r \in Request : Receive(r) \/ Serve(r) \/ Abort(r)

Spec == Init /\ [][Next]_vars

\* The goroutine of a request runs until it has answered.
FairSpec == Spec /\ \A r \in Request : WF_vars(Serve(r))

-----------------------------------------------------------------------------

\* While a sale is in progress no other sale of the holding is, and the row it
\* read is still the committed one: the UPDATE of trades.go:293 writes a number
\* computed from that read, so any writer in between would be undone.
SaleSeesCurrentRow ==
    /\ \A q, r \in Request :
          phase[q] \in InSale /\ phase[r] \in InSale /\ job[q].holding = job[r].holding
             => q = r
    /\ \A r \in Request : phase[r] \in InSale => seen[r] = holdings[job[r].holding]

\* A trade names a holding that exists and that belongs to the trade's account,
\* although CreateTrade looks the owner up one statement before it inserts.
TradesPointHome ==
    \A t \in Request :
        trades[t] # NoRow /\ trades[t].holding # NoHolding
          => /\ holdings[trades[t].holding] # NoRow
             /\ holdings[trades[t].holding].user = trades[t].user

\* A holding only ever changes at the step of a request of its own account.
AccountsStayApart ==
    [][\A h \in HoldingId :
          holdings[h] # NoRow /\ holdings'[h] # holdings[h]
            => \E r \in Request : /\ phase'[r] # phase[r]
                                  /\ job[r].user = holdings[h].user]_vars

\* Seen through the committed tables alone, every request is one atomic step of
\* the ledger, or none: no lost update, no half sale, no profit taken against
\* an average price that no longer holds.
L == INSTANCE Ledger WITH TradeId <- Request
ImplementsLedger == L!Spec

\* A request that reached its handler is answered: no sale keeps its lock, and
\* no writer waits for a lock for ever.
EveryCallAnswered ==
    \A r \in Request : phase[r] = "received" ~> phase[r] \in Answer

\* trades.go:288 "Update or delete holding.": a sale of all the shares deletes
\* the holding, so no sale is refused once its shares have been checked.
WholeHoldingCanBeSold ==
    \A r \in Request : job[r].op = "sell" => phase[r] # "refused"

=============================================================================
