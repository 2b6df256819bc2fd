---------------------------- MODULE HistoryFigures ----------------------------
(***************************************************************************)
(* The history charts of the liquidity page (frontend                      *)
(* app/liquidity/page.tsx, HistoryChartsTab): of the rows of one array,    *)
(* the series that are drawn, the figure and the change in the header, the *)
(* index laid over them and the events marked.                             *)
(***************************************************************************)
EXTENDS Integers, FiniteSets, FiniteSetsExt, SequencesExt

CONSTANTS
    Amount,         \* what a field of a row may hold, None included
    MaxRows,        \* a bound: rows of an array
    None            \* null

ASSUME HistoryConstants == MaxRows \in Nat /\ None \notin Int /\ None \in Amount

\* CHART_TYPES.
ChartType == {"net_liquidity", "margin_debt", "kre", "spreads", "vix", "layer_scores", "divergence"}

\* The fields of the rows each chart looks at.
Fields(type) ==
    CASE type = "net_liquidity" -> {"net_liquidity"} [] type = "margin_debt" -> {"debit_balance", "change_2y"}
      [] type = "kre" -> {"kre_close", "kre_52w_change"} [] type = "spreads" -> {"hy_spread", "ig_spread"}
      [] type = "vix" -> {"vix"} [] type = "layer_scores" -> {"layer1", "layer2a", "layer2b"}
      [] type = "divergence" -> {"divergence"}

\* CRISIS_PRESETS and MAJOR_EVENTS, in months of the era.
Month(year, month) == 12 * year + month
CRISIS_PRESETS ==
    [lehman |-> [start |-> Month(2007, 6), end |-> Month(2010, 6),
                 events |-> {Month(2008, 9), Month(2008, 10), Month(2009, 3)}],
     europe |-> [start |-> Month(2011, 1), end |-> Month(2012, 12),
                 events |-> {Month(2011, 8), Month(2012, 7)}],
     covid |-> [start |-> Month(2019, 10), end |-> Month(2021, 6), events |-> {Month(2020, 3)}],
     qt |-> [start |-> Month(2021, 10), end |-> Month(2023, 12),
             events |-> {Month(2022, 3), Month(2023, 3)}]]
MAJOR_EVENTS == {Month(2008, 9), Month(2020, 3), Month(2022, 3), Month(2023, 3)}

\* A short one of PERIODS and a long one; the others mark the same events.
PERIODS == {"2y", "5y"}

VARIABLE hf         \* the chart, the rows of its array, the index, what is selected

historyVars == <<hf>>

HistoryTypeOK ==
    /\ hf.type \in ChartType /\ Len(hf.rows) <= MaxRows
    /\ \A i \in DOMAIN hf.rows : hf.rows[i].y \in [Fields(hf.type) -> Amount]
    /\ hf.index \in [DOMAIN hf.rows -> Amount]
    /\ {hf.showSP500, hf.showNASDAQ, hf.showEvents} \subseteq BOOLEAN
    /\ hf.period \in PERIODS /\ hf.crisis \in DOMAIN CRISIS_PRESETS \cup {"none"}

HistoryInit ==
    hf = [type |-> "net_liquidity", rows |-> <<>>, index |-> <<>>, showSP500 |-> FALSE,
          showNASDAQ |-> FALSE, showEvents |-> TRUE, period |-> "2y", crisis |-> "none"]

\* One row more is served, and the close of the index on its date.
RowServed(y, close) ==
    /\ Len(hf.rows) < MaxRows
    /\ hf' = [hf EXCEPT !.rows = Append(@, [date |-> Len(@) + 1, y |-> y]), !.index = Append(@, close)]

setChartType(type) == hf' = [hf EXCEPT !.type = type, !.rows = <<>>, !.index = <<>>]
selectPeriod(p) == hf' = [hf EXCEPT !.period = p, !.crisis = "none", !.rows = <<>>, !.index = <<>>]
selectCrisis(c) == hf' = [hf EXCEPT !.crisis = c, !.rows = <<>>, !.index = <<>>]
toggleEvents == hf' = [hf EXCEPT !.showEvents = ~@]

allowOverlay(type) == type \notin {"divergence", "layer_scores"}

\* The boxes for the indices are there only for a chart they may be laid over.
toggleOverlay ==
    /\ allowOverlay(hf.type)
    /\ \/ hf' = [hf EXCEPT !.showSP500 = ~@]
       \/ hf' = [hf EXCEPT !.showNASDAQ = ~@]

HistoryNext ==
    \/ \E f \in Fields(hf.type), v, w \in Amount :
        RowServed([g \in Fields(hf.type) |-> IF g = f THEN v ELSE w], w)
    \/ \E type \in ChartType \ {hf.type} : setChartType(type)
    \/ \E p \in PERIODS : selectPeriod(p)
    \/ \E c \in DOMAIN CRISIS_PRESETS : selectCrisis(c)
    \/ toggleEvents \/ toggleOverlay

HistorySpec == HistoryInit /\ [][HistoryNext]_historyVars

-----------------------------------------------------------------------------

toSeries(field) == [i \in DOMAIN hf.rows |-> [x |-> hf.rows[i].date, y |-> hf.rows[i].y[field]]]

\* mergeOverlay: the closes of the dates of the rows.
mergeOverlay ==
    LET line == [i \in DOMAIN hf.rows |-> [x |-> hf.rows[i].date, y |-> hf.index[i]]]
    IN  (IF hf.showSP500 THEN <<line>> ELSE <<>>) \o (IF hf.showNASDAQ THEN <<line>> ELSE <<>>)

\* buildChartConfig: the series from left to right, or that there are none; scores and
\* divergences say so themselves if they have no rows.
buildChartConfig(type) ==
    LET own == CASE type = "net_liquidity" -> <<"net_liquidity">>
                 [] type = "margin_debt" -> <<"debit_balance", "change_2y">>
                 [] type = "kre" -> <<"kre_close", "kre_52w_change">>
                 [] type = "spreads" -> <<"hy_spread", "ig_spread">>
                 [] type = "vix" -> <<"vix">>
                 [] type = "layer_scores" -> <<"layer1", "layer2a", "layer2b">>
                 [] type = "divergence" -> <<"divergence">>
    IN  IF ~allowOverlay(type) /\ hf.rows = <<>> THEN [series |-> <<>>, empty |-> TRUE]
        ELSE [series |-> [i \in DOMAIN own |-> toSeries(own[i])]
                            \o (IF allowOverlay(type) THEN mergeOverlay ELSE <<>>),
              empty |-> FALSE]

\* lastOfRows (lastAndDelta): the last figure and the first, whatever lies between.
lastOfRows(field) ==
    LET known == {i \in DOMAIN hf.rows : hf.rows[i].y[field] # None}
    IN  IF known = {} THEN <<None, None>>
        ELSE <<hf.rows[Max(known)].y[field], hf.rows[Min(known)].y[field]>>

\* statFor: the value, the two figures the change beside it compares, in percent of
\* the first, and its unit: points for the spreads, though it is a percentage.
statFor(type) ==
    LET field == CASE type = "net_liquidity" -> "net_liquidity" [] type = "margin_debt" -> "debit_balance"
                   [] type = "kre" -> "kre_close" [] type = "spreads" -> "hy_spread" [] type = "vix" -> "vix"
                   [] type = "layer_scores" -> "layer1" [] type = "divergence" -> "divergence"
        r == lastOfRows(field)
    IN  IF ~allowOverlay(type) /\ hf.rows = <<>> THEN <<>>
        ELSE <<[value |-> r[1], unit |-> IF type = "spreads" THEN "pp" ELSE "%",
                delta |-> IF r[2] \in {None, 0} \/ type = "divergence" THEN None ELSE r[2]]>>

\* eventMarkers: of the crisis selected, or the major ones of a long period.
activeCrisis == {c \in DOMAIN CRISIS_PRESETS : c = hf.crisis}
eventMarkers ==
    IF ~hf.showEvents THEN {}
    ELSE IF activeCrisis # {} THEN UNION {CRISIS_PRESETS[c].events : c \in activeCrisis}
    ELSE IF hf.period = "5y" THEN MAJOR_EVENTS ELSE {}

\* A tile, and the card of one chart: a header unless there is nothing to say, and the
\* chart or that there are no data.
HistoryTile(type) ==
    [header |-> statFor(type), empty |-> buildChartConfig(type).empty,
     change |-> statFor(type) # <<>> /\ statFor(type)[1].delta # None]

-----------------------------------------------------------------------------

\* The header is of the first series drawn, which is chosen a second time for it: its
\* last figure and, for the change, its first.  Every series has the dates of the first
\* one, an index is drawn only where its box is, and a chart without data has no
\* header.  The events of a crisis lie in its range.
HistoryIsTrue ==
    LET chart == buildChartConfig(hf.type)
        tile == HistoryTile(hf.type)
        known == {i \in DOMAIN hf.rows : chart.series[1][i].y # None}
    IN  /\ tile.empty <=> tile.header = <<>>
        /\ ~tile.empty =>
            /\ tile.header[1].value = IF known = {} THEN None ELSE chart.series[1][Max(known)].y
            /\ tile.change => tile.header[1].delta = chart.series[1][Min(known)].y
            /\ \A i \in DOMAIN chart.series : \A k \in DOMAIN hf.rows :
                chart.series[i][k].x = chart.series[1][k].x
            /\ Len(chart.series) > Cardinality(Fields(hf.type)) => allowOverlay(hf.type)
        /\ hf.crisis # "none" => \A m \in eventMarkers :
            CRISIS_PRESETS[hf.crisis].start <= m /\ m <= CRISIS_PRESETS[hf.crisis].end

=============================================================================
