--------------------------- MODULE HoldingsFigures ---------------------------
(***************************************************************************)
(* The figures of the holdings page (frontend app/holdings/page.tsx, the   *)
(* portfolio tab, and components/charts/DonutChart.tsx): the same lots are *)
(* summed by the hero, by account, by sector, by the three rings and row   *)
(* by row, each time by code of its own, in dollars and in yen.  The rate  *)
(* may be overridden on the page; the rings and the order of the table are *)
(* memoised on the holdings and the quotes only.                           *)
(***************************************************************************)
EXTENDS Lists, Integers, FiniteSets, FiniteSetsExt, SequencesExt

CONSTANTS
    Lot,            \* holdings as served: id, ticker, account, sector, shares, avg, fx (0: none)
    Japanese,       \* the tickers inferCountry takes for Japanese; tickers are numbered in their order
    Rate,           \* yen per dollar: the rates served and typed
    Price,          \* the prices a quote may have, by ticker
    MaxSegments     \* maxSegments of a ring

DefaultRate == 150

\* Amounts in yen are whole dollars at each rate, so that the quotients are exact, as
\* they are in the code up to the precision of its numbers.
ASSUME HoldingsFiguresConstants ==
    /\ Rate \subseteq Nat \ {0} /\ MaxSegments \in 2..10 /\ IsFiniteSet(Lot)
    /\ \A l \in Lot : l.id \in Nat /\ l.ticker \in Nat
    /\ \A l \in Lot : l.shares \in Nat \ {0} /\ l.avg \in Nat \ {0} /\ l.fx \in Nat
    /\ \A l, m \in Lot : l.id = m.id => l = m
    /\ \A l \in Lot : Price[l.ticker] \subseteq Nat
    /\ \A l \in Lot : l.ticker \in Japanese =>
        \A r \in Rate \cup {DefaultRate}, y \in Price[l.ticker] \cup {l.avg} : y % r = 0

NoQuote == -1
Stocks == {l.ticker : l \in Lot}
SortKey == {"ticker", "shares", "avg_price", "price", "market_value", "pnl"}

VARIABLE hv     \* what was served, the rate, and the rates the memoised parts were made with

holdingFigureVars == <<hv>>

HoldingsFiguresTypeOK ==
    /\ hv.held \subseteq Lot /\ hv.served \in Rate \cup {0} /\ hv.fx \in Rate \cup {DefaultRate}
    /\ hv.quotes \in [Stocks -> (UNION {Price[t] : t \in Stocks}) \cup {NoQuote}]
    /\ hv.loading \in BOOLEAN /\ hv.ringFx \in Rate \cup {DefaultRate}
    /\ hv.sortKey \in SortKey /\ hv.sortDir \in {"asc", "desc"} /\ hv.sortFx \in Rate \cup {DefaultRate}

HoldingsFiguresInit ==
    hv = [held |-> {}, served |-> 0, fx |-> DefaultRate, quotes |-> [t \in Stocks |-> NoQuote],
          loading |-> FALSE, ringFx |-> DefaultRate, sortKey |-> "pnl", sortDir |-> "desc",
          sortFx |-> DefaultRate]

-----------------------------------------------------------------------------
(* What changes the figures. *)

\* /api/holdings/init answers something new.  The page is drawn with it and with the
\* rate it has, then the effect takes the rate served, if there is one: the memoised
\* parts keep the earlier rate.  Other tickers are another key of the quotes.
HoldingsServed(held, rate) ==
    /\ <<held, rate>> # <<hv.held, hv.served>>
    /\ hv' = [hv EXCEPT !.held = held, !.served = rate, !.fx = IF rate = 0 THEN @ ELSE rate,
                        !.ringFx = hv.fx, !.sortFx = hv.fx,
                        !.loading = held # {}
                            /\ (@ \/ {l.ticker : l \in held} # {l.ticker : l \in hv.held})]

\* useBatchQuotes: the chunks of 20 are one answer; one chunk that fails fails them all
\* and the quotes shown stay.
QuotesServed(quotes) ==
    /\ hv.held # {} /\ \A t \in Stocks \ {l.ticker : l \in hv.held} : quotes[t] = NoQuote
    /\ hv' = [hv EXCEPT !.quotes = quotes, !.loading = FALSE,
                        !.ringFx = IF quotes = hv.quotes THEN @ ELSE hv.fx,
                        !.sortFx = IF quotes = hv.quotes THEN @ ELSE hv.fx]
QuotesFailed == hv.loading /\ hv' = [hv EXCEPT !.loading = FALSE]

\* The field of FxBar, left with a positive number in it.
onFxRateChange(rate) == hv' = [hv EXCEPT !.fx = rate]

handleSort(key) ==
    hv' = [hv EXCEPT !.sortKey = key, !.sortFx = hv.fx,
                     !.sortDir = IF key # hv.sortKey THEN "desc" ELSE IF @ = "asc" THEN "desc" ELSE "asc"]

\* Another tab and back: the contents of a tab are made anew.
TabReopened ==
    hv' = [hv EXCEPT !.ringFx = hv.fx, !.sortFx = hv.fx, !.sortKey = "pnl", !.sortDir = "desc"]

HoldingsFiguresNext ==
    \/ \E held \in SUBSET Lot, rate \in Rate \cup {0} : HoldingsServed(held, rate)
    \/ \E quotes \in [Stocks -> (UNION {Price[t] : t \in Stocks}) \cup {NoQuote}] :
        (\A t \in Stocks : quotes[t] \in Price[t] \cup {NoQuote}) /\ QuotesServed(quotes)
    \/ QuotesFailed
    \/ \E rate \in Rate : onFxRateChange(rate)
    \/ \E key \in SortKey : handleSort(key)
    \/ TabReopened

HoldingsFiguresSpec == HoldingsFiguresInit /\ [][HoldingsFiguresNext]_holdingFigureVars

-----------------------------------------------------------------------------
(* The figures.  A lot without a quote is worth what it cost. *)

inferCountry(ticker) == IF ticker \in Japanese THEN "JP" ELSE "US"
toUsd(value, country, fx) == IF country = "JP" THEN value \div (IF fx > 0 THEN fx ELSE 150) ELSE value
CurrentPrice(l) == IF hv.quotes[l.ticker] = NoQuote THEN l.avg ELSE hv.quotes[l.ticker]
MarketValue(l) == l.shares * CurrentPrice(l)
Cost(l) == l.shares * l.avg
BoughtAt(l, fx) == IF l.fx = 0 THEN fx ELSE l.fx
SumOver(lots, value(_)) == SumFunction([l \in lots |-> value(l)])

\* PortfolioHero: the totals of its six figures.
PortfolioHero ==
    LET US == {l \in hv.held : inferCountry(l.ticker) = "US"}
        JP == hv.held \ US
        InYen(l) == MarketValue(l) * hv.fx
        CostInYen(l) == Cost(l) * BoughtAt(l, hv.fx)
        InUsd(l) == MarketValue(l) \div hv.fx
        CostInUsd(l) == Cost(l) \div hv.fx
        OfTheRate(l) == Cost(l) * (hv.fx - BoughtAt(l, hv.fx))
        valUsd == SumOver(US, MarketValue) + SumOver(JP, InUsd)
        costUsd == SumOver(US, Cost) + SumOver(JP, CostInUsd)
        valJpy == SumOver(US, InYen) + SumOver(JP, MarketValue)
        costJpy == SumOver(US, CostInYen) + SumOver(JP, Cost)
    IN  [valUsd |-> valUsd, valJpy |-> valJpy, costUsd |-> costUsd, pnlUsd |-> valUsd - costUsd,
         pnlJpy |-> valJpy - costJpy, fxPnl |-> SumOver(US, OfTheRate), count |-> Cardinality(hv.held)]

ValueInUsd(l, fx) == toUsd(MarketValue(l), inferCountry(l.ticker), fx)
CostInUsd(l, fx) == toUsd(Cost(l), inferCountry(l.ticker), fx)

\* AccountBreakdown and SectorBreakdown: the sums of some of the lots.
GroupFigures(lots) ==
    LET Val(l) == ValueInUsd(l, hv.fx)
        Paid(l) == CostInUsd(l, hv.fx)
    IN  [val |-> SumOver(lots, Val), pnl |-> SumOver(lots, Val) - SumOver(lots, Paid),
         yen |-> SumOver(lots, Val) * hv.fx, count |-> Cardinality(lots)]
AccountBreakdown ==
    [nisa |-> GroupFigures({l \in hv.held : l.account = "nisa"}),
     tokutei |-> GroupFigures({l \in hv.held : l.account # "nisa"})]
SectorBreakdown ==
    [s \in {l.sector : l \in hv.held} |-> GroupFigures({l \in hv.held : l.sector = s})]

\* A ring: a segment per label, the largest first, the one met first if they are alike.
Segments(labels) ==
    LET Val(l) == ValueInUsd(l, hv.ringFx)
        Of(label) == {l \in hv.held : labels[l] = label}
        all == {[label |-> label, value |-> SumOver(Of(label), Val), first |-> Min({l.id : l \in Of(label)})] :
                    label \in Range(labels)}
    IN  InOrder(all, {p \in all \X all : \/ p[1].value > p[2].value
                                         \/ p[1].value = p[2].value /\ p[1].first < p[2].first})

\* PortfolioCharts: the three rings, and the total in the middle of the first; no rings
\* without holdings.
PortfolioCharts ==
    LET bySector == [l \in hv.held |-> <<l.sector>>]
        byCountry == [l \in hv.held |-> <<inferCountry(l.ticker)>>]
        byTicker == [l \in hv.held |-> <<l.ticker>>]
        Val(l) == ValueInUsd(l, hv.ringFx)
    IN  IF hv.held = {} THEN <<>>
        ELSE <<[segments |-> Segments(bySector), centre |-> SumOver(hv.held, Val)],
               [segments |-> Segments(byCountry), centre |-> Len(Segments(byCountry))],
               [segments |-> Segments(byTicker), centre |-> Cardinality({l.ticker : l \in hv.held})]>>

\* What the segments are worth together.
SumOf(segments) == SumFunction([i \in DOMAIN segments |-> segments[i].value])

\* A mutant: the first of the smallest is in none.
preparedShort(segments) ==
    IF Len(segments) <= MaxSegments THEN segments
    ELSE SubSeq(segments, 1, MaxSegments - 1)
            \o <<[label |-> <<"other">>,
                  value |-> SumOf(SubSeq(segments, MaxSegments + 1, Len(segments)))]>>

\* DonutChart: the smallest segments are one.
prepared(segments) ==
    IF Len(segments) <= MaxSegments THEN segments
    ELSE SubSeq(segments, 1, MaxSegments - 1)
            \o <<[label |-> <<"other">>,
                  value |-> SumOf(SubSeq(segments, MaxSegments, Len(segments)))]>>

\* The arcs from the top, with a gap of one after each: where one begins and ends.  The
\* full circle is the total and the gaps.
Arc(segments, i) ==
    LET start == SumOf(SubSeq(segments, 1, i - 1)) + (i - 1)
    IN  [from |-> start, to |-> start + segments[i].value]

\* The segment the pointer is on, counted again from the top: a gap is of the segment
\* before it.  It is drawn larger, the others paler, and its share is told.
hoveredIdx(segments, angle) ==
    CHOOSE i \in 1..Len(segments) :
        /\ angle < SumOf(SubSeq(segments, 1, i)) + i
        /\ \A j \in 1..(i - 1) : angle >= SumOf(SubSeq(segments, 1, j)) + j
Tooltip(segments, angle) == segments[hoveredIdx(segments, angle)]

\* The place of the box: to the right of the pointer unless it would leave the canvas.
TooltipAt(x, box, width) == IF x + 14 + box > width THEN x - box - 14 ELSE x + 14

\* The legend: one line per segment, 22 high, around the middle.
LegendLine(n, i, height) == Max({12, height \div 2 - (n * 22) \div 2}) + (i - 1) * 22

\* HoldingsTable: the order of the rows, and what a row says.
SortValue(l) ==
    CASE hv.sortKey = "ticker" -> l.ticker
      [] hv.sortKey = "shares" -> l.shares
      [] hv.sortKey = "avg_price" -> toUsd(l.avg, inferCountry(l.ticker), hv.sortFx)
      [] hv.sortKey = "price" -> toUsd(CurrentPrice(l), inferCountry(l.ticker), hv.sortFx)
      [] hv.sortKey = "market_value" -> toUsd(MarketValue(l), inferCountry(l.ticker), hv.sortFx)
      [] hv.sortKey = "pnl" -> toUsd(MarketValue(l) - Cost(l), inferCountry(l.ticker), hv.sortFx)
sorted ==
    InOrder(hv.held, {p \in hv.held \X hv.held :
        LET va == SortValue(p[1])  vb == SortValue(p[2])
        IN  (IF hv.sortDir = "asc" THEN va < vb ELSE va > vb) \/ (va = vb /\ p[1].id < p[2].id)})
HoldingRow(l) ==
    [id |-> l.id, value |-> MarketValue(l), pnl |-> MarketValue(l) - Cost(l),
     other |-> IF inferCountry(l.ticker) = "JP" THEN MarketValue(l) \div hv.fx ELSE MarketValue(l) * hv.fx,
     price |-> IF hv.quotes[l.ticker] # NoQuote THEN "price" ELSE IF hv.loading THEN "skeleton" ELSE "dash",
     fxPnl |-> IF inferCountry(l.ticker) = "JP" THEN <<>>
               ELSE <<l.shares * l.avg * (hv.fx - BoughtAt(l, hv.fx))>>]
HoldingsTable == [i \in DOMAIN sorted |-> HoldingRow(sorted[i])]

-----------------------------------------------------------------------------

NoYen == \A l \in hv.held : inferCountry(l.ticker) = "US"

\* The accounts, the sectors and the rows add up to the hero; so does the ring, unless
\* the rate has changed since and there are Japanese stocks.  The profit in yen is the
\* profit in dollars and what the rate has made of the dollars paid.
TotalsAgree ==
    LET a == AccountBreakdown
        s == SectorBreakdown
        rows == HoldingsTable
        ofTheRate == {i \in DOMAIN rows : rows[i].fxPnl # <<>>}
    IN  /\ PortfolioHero.valUsd = a.nisa.val + a.tokutei.val
        /\ PortfolioHero.valUsd = SumFunction([name \in DOMAIN s |-> s[name].val])
        /\ PortfolioHero.pnlUsd = a.nisa.pnl + a.tokutei.pnl
        /\ PortfolioHero.valJpy = a.nisa.yen + a.tokutei.yen
        /\ PortfolioHero.pnlJpy = PortfolioHero.pnlUsd * hv.fx + PortfolioHero.fxPnl
        /\ PortfolioHero.fxPnl = SumFunction([i \in ofTheRate |-> rows[i].fxPnl[1]])
        /\ PortfolioHero.count = a.nisa.count + a.tokutei.count /\ PortfolioHero.count = Len(rows)
        /\ hv.held # {} /\ (hv.ringFx = hv.fx \/ NoYen) =>
            PortfolioHero.valUsd = PortfolioCharts[1].centre

\* Every ring has the whole of its segments in at most MaxSegments arcs around the same
\* total; the arc under the pointer is the one told of, and the box of it is on the
\* canvas if there is room for it on one side.
RingsAreWhole ==
    \A k \in DOMAIN PortfolioCharts :
        LET ring == prepared(PortfolioCharts[k].segments)
            total == SumOf(ring)
        IN  /\ total = PortfolioCharts[1].centre /\ Len(ring) <= MaxSegments
            /\ \A i \in DOMAIN ring : \A angle \in {Arc(ring, i).from, Arc(ring, i).to - 1} :
                Arc(ring, i).from < Arc(ring, i).to => Tooltip(ring, angle) = ring[i]
            /\ Arc(ring, Len(ring)).to + 1 = total + Len(ring)
            /\ \A i \in DOMAIN ring : LegendLine(Len(ring), i, 240) + 14 <= 240
TooltipsAreInside ==
    \A x \in 0..40, box \in {8, 16} :
        (x + 14 + box <= 40 \/ x >= box + 14) => TooltipAt(x, box, 40) \in 0..(40 - box)

\* The rows are in the order of what they show, unless the rate has changed since they
\* were sorted and there are Japanese stocks; a row without a price claims no profit.
RowsAreInOrder ==
    /\ hv.sortKey = "market_value" /\ (hv.sortFx = hv.fx \/ NoYen) =>
        \A i \in 1..(Len(sorted) - 1) :
            LET here == ValueInUsd(sorted[i], hv.fx)  next == ValueInUsd(sorted[i + 1], hv.fx)
            IN  IF hv.sortDir = "desc" THEN here >= next ELSE here <= next
    /\ \A i \in DOMAIN HoldingsTable : HoldingsTable[i].price # "price" => HoldingsTable[i].pnl = 0

HoldingsFiguresSound == TotalsAgree /\ RingsAreWhole /\ TooltipsAreInside /\ RowsAreInOrder

=============================================================================
