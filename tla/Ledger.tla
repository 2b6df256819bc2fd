------------------------------- MODULE Ledger -------------------------------
(***************************************************************************)
(* What the holdings and trades tables of Open Regime promise, one atomic  *)
(* step per request.  Portfolio.tla, which runs the same requests as SQL   *)
(* statements, row locks and transactions, is shown to implement this.     *)
(***************************************************************************)
EXTENDS Integers

CONSTANTS
    User,        \* accounts
    HoldingId,   \* values of holdings.id
    TradeId,     \* values of trades.id
    Basis,       \* who last wrote a holding's avg_price: it names that price
    NoRow,       \* there is no row under this id
    NoHolding    \* trades.holding_id IS NULL

VARIABLES holdings, trades

vars == <<holdings, trades>>

Holding == [user: User, shares: Int, basis: Basis]

\* basis is the average price a sale's profit was computed from.
Trade == [user: User, holding: HoldingId \cup {NoHolding},
          action: {"BUY", "SELL"}, shares: Int, basis: Basis \cup {NoHolding}]

Held(h) == holdings[h] # NoRow
Filed(t) == trades[t] # NoRow

\* The trades.holding_id foreign key: h is still pointed at.
Referenced(h) == \E t \in TradeId : Filed(t) /\ trades[t].holding = h

Init ==
    /\ holdings \in [HoldingId -> Holding \cup {NoRow}]
    /\ trades = [t \in TradeId |-> NoRow]

\* Only row h of holdings, only row t of trades, changes.
AltersHolding(h) == holdings' = [holdings EXCEPT ![h] = holdings'[h]]
AltersTrade(t) == trades' = [trades EXCEPT ![t] = trades'[t]]

Open(h) ==
    /\ ~Held(h)
    /\ holdings'[h] \in Holding /\ holdings'[h].shares # 0
    /\ AltersHolding(h) /\ UNCHANGED trades

\* The owner edits the number of shares, the average price, or both, or buys more.
Revise(h) ==
    /\ Held(h)
    /\ holdings'[h] \in Holding /\ holdings'[h].user = holdings[h].user
    /\ AltersHolding(h) /\ UNCHANGED trades

Close(h) ==
    /\ Held(h) /\ ~Referenced(h)
    /\ holdings'[h] = NoRow
    /\ AltersHolding(h) /\ UNCHANGED trades

\* A trade entered by hand moves no shares, and carries its own profit.
Record(t) ==
    /\ ~Filed(t)
    /\ trades'[t] \in Trade /\ trades'[t].shares > 0 /\ trades'[t].basis = NoHolding
    /\ LET h == trades'[t].holding
       IN  h # NoHolding => Held(h) /\ holdings[h].user = trades'[t].user
    /\ AltersTrade(t) /\ UNCHANGED holdings

\* A sale is one step: the shares it files are those that leave the holding as it
\* is now, some remain, and its profit is taken against the average price of now.
Sell(t, h) ==
    /\ ~Filed(t) /\ Held(h) /\ trades'[t] \in Trade
    /\ LET n == trades'[t].shares
       IN  /\ 0 < n /\ n < holdings[h].shares
           /\ trades'[t] = [user |-> holdings[h].user, holding |-> h, action |-> "SELL",
                            shares |-> n, basis |-> holdings[h].basis]
           /\ holdings' = [holdings EXCEPT ![h].shares = @ - n]
    /\ AltersTrade(t)

Void(t) ==
    /\ Filed(t)
    /\ trades'[t] = NoRow
    /\ AltersTrade(t) /\ UNCHANGED holdings

Next ==
    \/ \E h \in HoldingId : Open(h) \/ Revise(h) \/ Close(h)
    \/ \E t \in TradeId : Record(t) \/ Void(t) \/ \E h \in HoldingId : Sell(t, h)

Spec == Init /\ [][Next]_vars
=============================================================================
