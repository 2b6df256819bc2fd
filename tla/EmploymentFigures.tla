-------------------------- MODULE EmploymentFigures --------------------------
(***************************************************************************)
(* What the employment page (frontend app/employment/page.tsx) makes of    *)
(* the monthly figures the API serves, month by month: the panels of its   *)
(* dashboard, the risk history beside the score of today, the series of    *)
(* the indicator charts and the number in the header of each.  The Sahm    *)
(* rule is computed twice, by the API for the score (api-go                *)
(* internal/analysis/employment_score.go) and by the page for its chart.   *)
(***************************************************************************)
EXTENDS Glass, Lists, Integers, FiniteSets, FiniteSetsExt, SequencesExt

CONSTANTS
    Reading,        \* what a month may report: [u3, u6, nfp, level, income, close], figures or NoFigure
    Rest,           \* the scores besides the Sahm rule's: [employment, consumption, structure]
    Year,           \* months of a year (12)
    MaxMonths,      \* a bound: months reported
    NoFigure        \* not reported

ASSUME EmploymentFiguresConstants ==
    /\ Year \in Nat \ {0} /\ MaxMonths \in Nat /\ NoFigure \notin Int \cup (Int \X Int)
    /\ \A r \in Reading : {r.u3, r.u6} \subseteq Nat \cup {NoFigure}
    /\ \A r \in Reading : {r.nfp, r.level, r.income, r.close} \subseteq Int \cup {NoFigure}
    /\ Rest \subseteq [employment: 0..35, consumption: 0..25, structure: 0..25]

VARIABLES
    efMonths,       \* nfpChron: the months in order
    efRest          \* scores of the other components

figuresVars == <<efMonths, efRest>>

FiguresTypeOK ==
    /\ efMonths \in Seq(Reading) /\ Len(efMonths) <= MaxMonths
    /\ efRest \in Rest

FiguresInit == efMonths = <<>> /\ efRest \in Rest

\* A month is reported; the score may change with it.
MonthReported(r, rest) ==
    /\ Len(efMonths) < MaxMonths
    /\ efMonths' = Append(efMonths, r)
    /\ efRest' = rest

FiguresNext == \E r \in Reading, rest \in Rest : MonthReported(r, rest)

FiguresSpec == FiguresInit /\ [][FiguresNext]_figuresVars

-----------------------------------------------------------------------------
\* Figures: u3 and u6 in tenths of a percent, the Sahm value in hundredths, a
\* moving average of three months as their sum.

Column(field) == [i \in DOMAIN efMonths |-> efMonths[i][field]]
Reported(s) == At(s, {i \in DOMAIN s : s[i] # NoFigure})
RoundedThird(a) == (2 * a + 3) \div 6              \* of a >= 0
Averages(s) == [k \in 1..(Len(s) - 2) |-> s[k] + s[k + 1] + s[k + 2]]
Lowest(s, from, to) == Min({s[k] : k \in from..to})
Larger(a, b) == IF a > b THEN a ELSE b

\* How far the k-th average lies over the lowest of the year that ends with it,
\* in the API: the last of avgs3m, or the one before it.
Rise(avg, k) == avg[k] - Lowest(avg, Larger(1, k - Year + 1), k)

\* CalcSahmRule.
CalcSahmRule ==
    LET avg == Averages(Reported(Column("u3")))
        n == Len(avg)
        value == RoundedThird(10 * Rise(avg, n))
        before == IF n < 2 THEN NoFigure ELSE RoundedThird(10 * Rise(avg, n - 1))
        eased == 10 * Rise(avg, n - 1) - 3 * value     \* riseDiff, in thirds of hundredths
    IN  IF Len(Reported(Column("u3"))) < 3
        THEN [value |-> NoFigure, score |-> 0, triggered |-> FALSE, peak_out |-> FALSE,
              near_peak_out |-> FALSE]
        ELSE [value |-> value,
              score |-> IF value >= 100 \/ (value >= 50 /\ before # NoFigure /\ before >= 50) THEN 15
                        ELSE IF value >= 50 THEN 10 ELSE IF value >= 30 THEN 8
                        ELSE IF value >= 15 THEN 4 ELSE 0,
              triggered |-> value >= 50,
              peak_out |-> value >= 50 /\ n >= 2 /\ eased >= 15,
              near_peak_out |-> value >= 50 /\ n >= 2 /\ eased \in 0..14]

\* The scores of the three categories, and GetPhase of their sum.
Categories ==
    <<[name |-> "employment", score |-> CalcSahmRule.score + efRest.employment, max |-> 50],
      [name |-> "consumption", score |-> efRest.consumption, max |-> 25],
      [name |-> "structure", score |-> efRest.structure, max |-> 25]>>

total_score == Min({100, Categories[1].score + Categories[2].score + Categories[3].score})

Phases == <<"EXPANSION", "SLOWDOWN", "CAUTION", "CONTRACTION", "CRISIS">>
GetPhase(score) ==
    Phases[IF score <= 20 THEN 1 ELSE IF score <= 40 THEN 2 ELSE IF score <= 60 THEN 3
           ELSE IF score <= 80 THEN 4 ELSE 5]

-----------------------------------------------------------------------------
\* The dashboard.

Percent(c) == (200 * c.score + c.max) \div (2 * c.max)     \* Math.round
\* What a peak adds to an active Sahm rule.
PeakNote ==
    IF CalcSahmRule.peak_out THEN "peak"
    ELSE IF CalcSahmRule.near_peak_out THEN "near peak" ELSE "none"

EconomicPhaseHero ==
    [phase |-> GetPhase(total_score), score |-> total_score,
     danger |-> GetPhase(total_score) \in {"CONTRACTION", "CRISIS"},
     rings |-> [i \in 1..3 |-> Percent(Categories[i])],
     sahm |-> IF CalcSahmRule.triggered THEN PeakNote ELSE "off"]

\* Each tile has a tone by two thresholds, none if there is no figure.
Tone(v, amber, red) ==
    IF v = NoFigure THEN "" ELSE IF v >= red THEN "red" ELSE IF v >= amber THEN "amber" ELSE "green"

KeyMetricsBar ==
    LET latest == efMonths[Len(efMonths)]
    IN  [nfp |-> IF latest.nfp = NoFigure THEN "" ELSE Tone(-latest.nfp, -99, 1),
         u3 |-> Tone(latest.u3, 46, 51),
         sahm |-> Tone(CalcSahmRule.value, 30, 50)]

CategoryCard(c) == [ring |-> Percent(c), label |-> scoreLabel(Percent(c))]

SahmRulePanel ==
    [badges |-> IF CalcSahmRule.triggered THEN {"active", PeakNote} \ {"none"} ELSE {},
     gauge |-> IF CalcSahmRule.value = NoFigure THEN 0 ELSE Min({CalcSahmRule.value, 100}),
     mark |-> 50]

DashboardCards == [i \in 1..3 |-> CategoryCard(Categories[i])]

-----------------------------------------------------------------------------
\* The risk history: the score of today beside the last one of the history.

\* phaseForScore: the first phase with min <= score < max, the last one otherwise.
phaseForScore(score) ==
    LET in == {i \in 1..5 : 20 * (i - 1) <= score /\ score < 20 * i}
    IN  Phases[IF in = {} THEN 5 ELSE Min(in)]

Point(x, y) == [x |-> x, y |-> y]

\* The closes of the index by month, beside a series of those months.
Aligned(xs) == [k \in DOMAIN xs |-> Point(xs[k], efMonths[xs[k]].close)]

RiskSeries(scores, showSP500) ==
    LET months == [k \in DOMAIN efMonths |-> k]
        line == [k \in DOMAIN efMonths |-> Point(k, scores[k])]
    IN  IF showSP500 /\ Reported(Column("close")) # <<>> THEN <<line, Aligned(months)>> ELSE <<line>>

RiskHeader(scores) ==
    [now |-> phaseForScore(total_score), last |-> scores[Len(scores)],
     phase |-> phaseForScore(scores[Len(scores)]), delta |-> scores[Len(scores)] - scores[1]]

-----------------------------------------------------------------------------
\* The series of the indicator charts (useChartData, getChartConfig).

Indicator == {"nfp", "nfp-level", "unemployment", "sahm", "income"}

MonthsWith(field) == Ascending({k \in DOMAIN efMonths : efMonths[k][field] # NoFigure})
Series(xs, field) == [k \in DOMAIN xs |-> Point(xs[k], efMonths[xs[k]][field])]
AllMonths == [k \in DOMAIN efMonths |-> k]

\* nfpWithAvg: the average of three changes, when all three are known.
nfpWithAvg ==
    [k \in DOMAIN efMonths |->
        Point(k, IF k > 2 /\ \A j \in (k - 2)..k : efMonths[j].nfp # NoFigure
                 THEN (efMonths[k].nfp + efMonths[k - 1].nfp + efMonths[k - 2].nfp) \div 3
                 ELSE NoFigure)]

\* sahmChartData: over the months with a rate, from the third on, the average
\* against the lowest of the averages of at most a year up to it.
sahmChartData ==
    LET xs == MonthsWith("u3")
        avg == Averages(Reported(Column("u3")))
        lowest(i) == Min({avg[j - 2] : j \in {j \in Larger(1, i - (Year - 1))..i : j >= 3}})
    IN  [k \in 1..(Len(xs) - 2) |-> Point(xs[k + 2], RoundedThird(10 * (avg[k] - lowest(k + 2))))]

\* Of an element of a series to the one a year of elements before it.
OverYear(s) ==
    [k \in DOMAIN s |->
        Point(s[k].x, IF k > Year THEN <<s[k].y, s[k - Year].y>> ELSE NoFigure)]

\* nfpLevelYoY compares the last level to the one Year elements before.
nfpLevelYoY ==
    LET s == OverYear(Series(MonthsWith("level"), "level"))
    IN  IF Len(s) < Year + 1 THEN NoFigure ELSE s[Len(s)].y

\* incomeChron: the change of the real income, cut to the elements that have one.
incomeChron ==
    LET s == OverYear(Series(MonthsWith("income"), "income"))
    IN  At(s, {k \in DOMAIN s : s[k].y # NoFigure})

\* The first series gives the dates of the axis and the points of all are drawn
\* by their position; the index is drawn only if some month has a close.
getChartConfig(type) ==
    CASE type = "nfp" -> <<Series(AllMonths, "nfp"), nfpWithAvg>>
      [] type = "nfp-level" ->
            LET xs == MonthsWith("level")
            IN  IF \E k \in DOMAIN xs : efMonths[xs[k]].close # NoFigure
                THEN <<Series(xs, "level"), Aligned(xs)>> ELSE <<Series(xs, "level")>>
      [] type = "unemployment" -> <<Series(AllMonths, "u3"), Series(AllMonths, "u6")>>
      [] type = "sahm" -> <<sahmChartData>>
      [] type = "income" -> <<incomeChron>>

-----------------------------------------------------------------------------
\* The header of a chart.

\* lastAndDelta: the last figure and the first, of all the points: the comment
\* over it speaks of the window, which is not considered.
lastAndDelta(s) ==
    LET known == {k \in DOMAIN s : s[k].y # NoFigure}
    IN  IF known = {} THEN [last |-> NoFigure, first |-> NoFigure]
        ELSE [last |-> s[Max(known)].y, first |-> s[Min(known)].y]

\* indicatorStat: the value, what the change beside it compares, and its unit. The
\* change of a rate is in percent of it, but labelled "pp".
indicatorStat(type) ==
    LET s == getChartConfig(type)[1]
        r == lastAndDelta(s)
    IN  CASE type = "nfp-level" ->
                [value |-> IF s = <<>> THEN NoFigure ELSE s[Len(s)].y, delta |-> nfpLevelYoY, unit |-> "%"]
          [] type \in {"sahm", "income"} -> [value |-> r.last, delta |-> NoFigure, unit |-> "%"]
          [] OTHER -> [value |-> r.last,
                       delta |-> IF r.first = 0 \/ r.first = NoFigure THEN NoFigure ELSE <<r.last, r.first>>,
                       unit |-> IF type = "unemployment" THEN "pp" ELSE "%"]

\* A tile of the overview, and the card of one indicator, show the chart or that
\* there are no data, and the header.
IndicatorTile(type) ==
    [empty |-> getChartConfig(type)[1] = <<>>, value |-> indicatorStat(type).value,
     change |-> indicatorStat(type).delta # NoFigure]
IndicatorDetail(type) == IndicatorTile(type)

-----------------------------------------------------------------------------

\* The Sahm value the API serves is the last one the page draws, and the alert of
\* the hero, the badge of the panel, the red tile and the gauge past its mark
\* come together.
SahmIsServed ==
    LET drawn == sahmChartData
    IN  /\ (drawn = <<>>) <=> (CalcSahmRule.value = NoFigure)
        /\ drawn # <<>> =>
            /\ drawn[Len(drawn)].y = CalcSahmRule.value
            /\ \A k \in DOMAIN drawn : drawn[k].y >= 0
        /\ efMonths # <<>> =>
            /\ (EconomicPhaseHero.sahm # "off") <=> ("active" \in SahmRulePanel.badges)
            /\ (KeyMetricsBar.sahm = "red") <=> ("active" \in SahmRulePanel.badges)
            /\ (SahmRulePanel.gauge >= SahmRulePanel.mark) <=> ("active" \in SahmRulePanel.badges)

\* A peak is announced only if the rise shrank by some hundredths, a near peak
\* only if it did not grow -- where the value is rounded and the rise of the month
\* before is not, so that a rise that stands still may be announced as easing.
PeakIsSeen ==
    LET avg == Averages(Reported(Column("u3")))
        n == Len(avg)
        shrank == Rise(avg, n - 1) - Rise(avg, n)           \* in thirds of tenths
    IN  /\ ~(CalcSahmRule.peak_out /\ CalcSahmRule.near_peak_out)
        /\ CalcSahmRule.peak_out => shrank >= 1
        /\ CalcSahmRule.near_peak_out => shrank >= 0

\* The phase of the dashboard is the one the risk history shows for the same
\* score, except at the four scores where one ends: the page counts 20, 40, 60
\* and 80 to the next phase, the API and the page's own legend ("0-20") do not.
PhasesAgree ==
    \A score \in 0..100 :
        GetPhase(score) = phaseForScore(score) <=> score \notin {20, 40, 60, 80}

\* The category rings and the total tell the same: full rings are a full score.
RingsAddUp ==
    /\ 2 * Percent(Categories[1]) + Percent(Categories[2]) + Percent(Categories[3])
         \in (4 * total_score - 3)..(4 * total_score + 3)
    /\ \A i \in 1..3 : Percent(Categories[i]) \in 0..100

\* The series of a chart have the dates of the first one, point by point; the
\* header shows the last figure drawn, and none exactly if none is drawn.
HeaderIsChart ==
    \A type \in Indicator :
        LET chart == getChartConfig(type)
            figures == {k \in DOMAIN chart[1] : chart[1][k].y # NoFigure}
        IN  /\ \A i \in DOMAIN chart : [k \in DOMAIN chart[i] |-> chart[i][k].x]
                                         = [k \in DOMAIN chart[1] |-> chart[1][k].x]
            /\ indicatorStat(type).value =
                IF figures = {} THEN NoFigure ELSE chart[1][Max(figures)].y
            /\ IndicatorTile(type).empty => ~IndicatorTile(type).change

\* A change over the year is one over a year, unless a month between them has no
\* figure: the arrays are cut to the months that have one, and counted.
YearIsAYear ==
    LET xs == MonthsWith("level")
        n == Len(xs)
    IN  n > Year =>
            LET gaps == {m \in xs[n - Year]..xs[n] : efMonths[m].level = NoFigure}
            IN  xs[n] - xs[n - Year] = Year + Cardinality(gaps)

EmploymentFiguresSound ==
    SahmIsServed /\ PeakIsSeen /\ PhasesAgree /\ RingsAddUp /\ HeaderIsChart /\ YearIsAYear

=============================================================================
