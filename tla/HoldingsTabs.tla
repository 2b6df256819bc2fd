----------------------------- MODULE HoldingsTabs -----------------------------
(***************************************************************************)
(* The tabs of the holdings page (frontend app/holdings/page.tsx): what    *)
(* each reads, the trades and their filter, the statistics and the trend   *)
(* of the assets, with what the server makes of the trades (Go             *)
(* handler/trades.go) and of the snapshots (handler/holdings.go).          *)
(***************************************************************************)
EXTENDS Lists, Integers, FiniteSets, FiniteSetsExt, SequencesExt

CONSTANTS
    Profit,         \* what a sale may have made
    MaxTrades       \* a bound: trades

ASSUME HoldingsTabsConstants == MaxTrades \in Nat /\ Profit \subseteq Int

HoldingTabs == {"portfolio", "trends", "trades", "stats"}
TREND_PERIODS == {"1M", "3M", "6M", "YTD", "1Y", "ALL"}

VARIABLES
    ht,         \* the page: tab, period, currency, filter and what the trend shows
    htTrades    \* the trades of the user on the server

tabsVars == <<ht, htTrades>>

HoldingsTabsTypeOK ==
    /\ ht.tab \in HoldingTabs /\ ht.period \in TREND_PERIODS /\ ht.currency \in {"USD", "JPY"}
    /\ ht.action \in {"ALL", "BUY", "SELL"} /\ ht.trend \in {"unread", "skeleton", "failed", "none", "charts"}
    /\ \A i \in DOMAIN htTrades : htTrades[i].action \in {"BUY", "SELL"}

TabOpened(t) ==
    [tab |-> t, period |-> "1Y", currency |-> "JPY", action |-> "ALL",
     trend |-> IF t = "trends" THEN "skeleton" ELSE "unread"]

HoldingsTabsInit == ht = TabOpened("portfolio") /\ htTrades = <<>>

\* The contents of a tab are made anew when it is opened: the filter, the period and the
\* currency are forgotten.  An answer SWR still has is shown at once.
setActiveTab(t) ==
    /\ t # ht.tab
    /\ \/ ht' = TabOpened(t)
       \/ t = "trends" /\ \E a \in {"none", "charts"} : ht' = [TabOpened(t) EXCEPT !.trend = a]
    /\ UNCHANGED htTrades

\* The trades and the statistics are read only where they are shown.
Reads ==
    (IF ht.tab \in {"trades", "stats"} THEN {"/api/trades"} ELSE {})
        \cup (IF ht.tab = "stats" THEN {"/api/trades/stats"} ELSE {})
        \cup (IF ht.tab = "trends" THEN {"/api/holdings/portfolio-history"} ELSE {})

\* The buttons of the trend: another period is another read.
setPeriod(p) ==
    /\ ht.tab = "trends" /\ ht.trend = "charts" /\ p # ht.period
    /\ \E a \in {"skeleton", "none", "charts"} : ht' = [ht EXCEPT !.period = p, !.trend = a]
    /\ UNCHANGED htTrades
setCurrency(c) ==
    /\ ht.tab = "trends" /\ ht.trend = "charts" /\ ht' = [ht EXCEPT !.currency = c] /\ UNCHANGED htTrades
TrendAnswered(a) ==
    /\ ht.tab = "trends" /\ ht.trend \in {"skeleton", "failed"} /\ ht' = [ht EXCEPT !.trend = a]
    /\ UNCHANGED htTrades

setActionFilter(a) == ht.tab = "trades" /\ ht' = [ht EXCEPT !.action = a] /\ UNCHANGED htTrades

\* A trade is recorded, a purchase or a sale with what it made.
Traded(action, made) ==
    /\ Len(htTrades) < MaxTrades /\ UNCHANGED ht
    /\ htTrades' = Append(htTrades, [action |-> action, made |-> IF action = "SELL" THEN <<made>> ELSE <<>>])

HoldingsTabsNext ==
    \/ \E t \in HoldingTabs : setActiveTab(t)
    \/ \E p \in TREND_PERIODS : setPeriod(p)
    \/ \E c \in {"USD", "JPY"} : setCurrency(c)
    \/ \E a \in {"failed", "none", "charts"} : TrendAnswered(a)
    \/ \E a \in {"ALL", "BUY", "SELL"} : setActionFilter(a)
    \/ \E a \in {"BUY", "SELL"}, made \in Profit : Traded(a, made)

HoldingsTabsSpec == HoldingsTabsInit /\ [][HoldingsTabsNext]_tabsVars

-----------------------------------------------------------------------------
(* Trades and statistics. *)

\* TradesTab: GET /api/trades answers a bare list and the page reads its field "trades":
\* there is never a row, and the tab counts the same nothing.
ListTrades == [list |-> htTrades]
trades == IF "trades" \in DOMAIN ListTrades THEN ListTrades.trades ELSE <<>>
TradesTab ==
    [rows |-> At(trades, {i \in DOMAIN trades : ht.action \in {"ALL", trades[i].action}}), count |-> Len(trades)]

\* math.Round and Math.round of a quotient of what is not negative.
Rounded(a, b) == (2 * a + b) \div (2 * b)

\* computeStats: a sale that made nothing is neither won nor lost.  The rate is a
\* percentage and the factor what was won of what was lost; both have two digits and
\* are given in hundredths.
computeStats ==
    LET sells == {i \in DOMAIN htTrades : htTrades[i].made # <<>>}
        made == [i \in sells |-> htTrades[i].made[1]]
        won == {i \in sells : made[i] > 0}
        lost == {i \in sells : made[i] < 0}
        profit == SumFunction([i \in won |-> made[i]])
        lossAbs == SumFunction([i \in lost |-> 0 - made[i]])
    IN  [total |-> Len(htTrades), made |-> SumFunction(made),
         buy |-> Cardinality({i \in DOMAIN htTrades : htTrades[i].action = "BUY"}),
         sell |-> Cardinality({i \in DOMAIN htTrades : htTrades[i].action = "SELL"}),
         win |-> Cardinality(won), loss |-> Cardinality(lost),
         lossAbs |-> lossAbs,
         win_rate |-> IF won \cup lost = {} THEN 0
                      ELSE Rounded(10000 * Cardinality(won), Cardinality(won) + Cardinality(lost)),
         profit_factor |-> IF lossAbs = 0 THEN 0 ELSE Rounded(100 * profit, lossAbs)]

\* StatsTab: it multiplies the percentage by a hundred once more, which leaves its
\* hundredths.  The factor is green from 2, amber from 1, red below and also where
\* nothing was lost, which is sent as 0.
StatsTab ==
    LET s == computeStats
    IN  [rate |-> s.win_rate, ring |-> Min({s.win_rate, 100}),
         total |-> IF s.made >= 0 THEN "green" ELSE "red",
         factor |-> IF s.profit_factor >= 200 THEN "green" ELSE IF s.profit_factor >= 100 THEN "amber" ELSE "red",
         won |-> s.win, lost |-> s.loss, decided |-> s.sell, buy |-> s.buy, count |-> s.total]

-----------------------------------------------------------------------------
(* The trend of the assets. *)

\* activeMonths in a month of the year (1 to 12).
activeMonths(period, month) ==
    CASE period = "1M" -> 1 [] period = "3M" -> 3 [] period = "6M" -> 6
      [] period = "YTD" -> month [] period = "1Y" -> 12 [] period = "ALL" -> 120

\* A snapshot, in dollars, with the rate of its day.
Snapshots == [market : {0, 3, 5}, cost : {0, 4}, cash : {0, 1}, fx : {2, 3}]

\* The series of the two charts at a snapshot; the return has no point where nothing
\* was paid.
conv(usd, fx) == IF ht.currency = "JPY" THEN usd * fx ELSE usd
ChartPoint(p) ==
    [assets |-> conv(p.market + p.cash, p.fx), market |-> conv(p.market, p.fx), cost |-> conv(p.cost, p.fx),
     pnl |-> conv(p.market - p.cost, p.fx),
     rate |-> IF p.cost > 0 THEN <<(100 * (p.market - p.cost)) \div p.cost>> ELSE <<>>]

\* The cards above them read totals of the summary, which holds "count" and "months":
\* each card shows zero, at a rate of 150.
SummaryCards(summary) ==
    LET Of(field) == IF field \in DOMAIN summary THEN summary[field] ELSE 0
    IN  [assets |-> conv(Of("total_assets_usd"), 150), market |-> conv(Of("total_market_value_usd"), 150),
         pnl |-> conv(Of("unrealized_pnl_usd"), 150), cash |-> conv(Of("total_cash_usd"), 150),
         rate |-> IF Of("total_cost_usd") > 0 THEN (100 * Of("unrealized_pnl_usd")) \div Of("total_cost_usd") ELSE 0]
PortfolioHistory(months) == IF months \in 1..120 THEN <<[f \in {"count", "months"} |-> months]>> ELSE <<>>

-----------------------------------------------------------------------------

\* What the tabs say is of the trades: what was bought and sold is all there is, the sales
\* won and lost are sales.  Where something was lost a red factor is a red total, and a
\* red total a red factor, unless its rounding hides a loss of half a percent of what
\* was lost at most.  The ring says the true rate only where everything was won, or
\* nothing, for which it takes a share below half a hundredth of a percent too.
StatsAreTrue ==
    LET s == StatsTab
        stats == computeStats
    IN  ht.tab = "stats" =>
        /\ s.count = s.buy + s.decided /\ s.won + s.lost <= s.decided
        /\ s.lost > 0 /\ s.factor = "red" => s.total = "red"
        /\ s.lost > 0 /\ s.total = "red" => s.factor = "red" \/ 200 * (0 - stats.made) <= stats.lossAbs
        /\ s.ring = 0 <=> s.won = 0 \/ 20000 * s.won < s.won + s.lost
        /\ s.won > 0 /\ s.lost = 0 => s.ring = 100
        /\ {"/api/trades", "/api/trades/stats"} \subseteq Reads

\* Every period asks for months the server accepts, in any month of the year; the charts
\* of both currencies agree, point by point: assets cover the holdings, the bar is the
\* distance of two lines and has the sign of the return.
TrendIsTrue ==
    ht.trend = "charts" =>
        /\ \A month \in 1..12 : PortfolioHistory(activeMonths(ht.period, month)) # <<>>
        /\ \A p \in Snapshots :
            LET c == ChartPoint(p)
            IN  /\ c.assets >= c.market /\ c.pnl = c.market - c.cost
                /\ c.rate # <<>> => (c.rate[1] < 0 <=> c.pnl < 0)
                /\ c.rate = <<>> => c.pnl >= 0

HoldingsTabsSound == StatsAreTrue /\ TrendIsTrue

=============================================================================
