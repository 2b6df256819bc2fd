--------------------------- MODULE LiquidityFigures ---------------------------
(***************************************************************************)
(* What the dashboard of the liquidity page shows of one group of figures  *)
(* at a time, while they are reported one by one: the market state of the  *)
(* three layers, the Fed's balance sheet, the events, the credit pressure  *)
(* and the months of the backtest.  The judgements are the API's (api-go   *)
(* internal/analysis/liquidity_score.go, internal/handler/liquidity.go),   *)
(* the panels the page's (frontend app/liquidity/page.tsx), which judges   *)
(* some of the figures again by thresholds of its own.                     *)
(***************************************************************************)
EXTENDS Glass, Lists, Integers, FiniteSets, FiniteSetsExt, SequencesExt

CONSTANTS
    Figures,        \* a group of series -> a series -> the figures it may have
    FedRow,         \* a week of the balance sheet: [soma, rrp, tga]
    MaxWeeks,       \* a bound: weeks, and months of the backtest
    LatestRows,     \* the weeks in which fed_data looks for a figure (30)
    Unknown         \* a figure that was not reported

\* The changes that are a warning when they fall, and the figures that are when they rise.
Falling == {"reserves1m", "reserves1w", "nl3m", "nl1m", "kre2m", "kre1m", "rrp1w"}
Rising == {"vix", "vixWeek", "vixMonth", "hy", "hyMonth", "igMonth", "sofr"}
Layers == {"l1", "l2a", "l2b"}
FiguresOf(series) == {f \in [series -> SUBSET (Int \cup {Unknown})] : \A s \in series : f[s] # {}}

ASSUME LiquidityFiguresConstants ==
    /\ MaxWeeks \in Nat /\ LatestRows \in Nat \ {0} /\ Unknown \notin Int
    /\ {"layers", "falls", "shocks", "margin", "dashboard"} \subseteq DOMAIN Figures
    /\ \A g \in DOMAIN Figures : Figures[g] \in FiguresOf(DOMAIN Figures[g])
    /\ \A row \in FedRow : {row.soma, row.rrp, row.tga} \subseteq Nat \cup {Unknown}
    /\ Layers \subseteq DOMAIN Figures["layers"] /\ \A s \in Layers : Figures["layers"][s] \subseteq 0..100
    /\ "margin2y" \in DOMAIN Figures["margin"] /\ Figures["margin"]["margin2y"] \subseteq Int
    /\ Layers \cup {"total"} \subseteq DOMAIN Figures["dashboard"]
    /\ \A s \in Layers \cup {"total"} : Figures["dashboard"][s] \subseteq 0..100
    /\ Figures["falls"] \in FiguresOf(Falling) /\ Figures["shocks"] \in FiguresOf(Rising)

Group == {"layers", "falls", "shocks", "credit", "policy", "margin",
          "fed", "backtest", "dashboard", "events"}

VARIABLE lf         \* the group looked at, the latest figures, the weeks so far

liquidityVars == <<lf>>

Known(g) == IF g \in DOMAIN Figures THEN Figures[g] ELSE <<>>

\* The codes of the market states, by priority.
States == <<"LIQUIDITY_SHOCK", "CREDIT_CONTRACTION", "POLICY_TIGHTENING", "SPLIT_BUBBLE",
            "MARKET_OVERSHOOT", "FINANCIAL_RALLY", "HEALTHY">>

LiquidityTypeOK ==
    /\ lf.group \in Group
    /\ \A s \in DOMAIN Known(lf.group) : lf.now[s] \in Known(lf.group)[s]
    /\ lf.fed \in Seq(FedRow) /\ Len(lf.fed) <= MaxWeeks
    /\ lf.months \in Seq({"LIQUIDITY_SHOCK", "HEALTHY", "NEUTRAL"}) /\ Len(lf.months) <= MaxWeeks

\* Each series begins with some figure.
AFigure(figures) == CHOOSE v \in figures : TRUE
LiquidityInit ==
    \E g \in Group :
        lf = [group |-> g, fed |-> <<>>, months |-> <<>>,
              now |-> [s \in DOMAIN Known(g) |-> AFigure(Known(g)[s])]]

Observe(s, v) ==
    /\ s \in DOMAIN Known(lf.group) /\ v \in Known(lf.group)[s]
    /\ lf' = [lf EXCEPT !.now[s] = v]

WeekReported(row) ==
    /\ lf.group = "fed" /\ Len(lf.fed) < MaxWeeks
    /\ lf' = [lf EXCEPT !.fed = Append(@, row)]

MonthJudged(code) ==
    /\ lf.group = "backtest" /\ Len(lf.months) < MaxWeeks
    /\ lf' = [lf EXCEPT !.months = Append(@, code)]

LiquidityNext ==
    \/ \E s \in DOMAIN Known(lf.group) : \E v \in Known(lf.group)[s] : Observe(s, v)
    \/ \E row \in FedRow : WeekReported(row)
    \/ \E code \in {"LIQUIDITY_SHOCK", "HEALTHY", "NEUTRAL"} : MonthJudged(code)

LiquiditySpec == LiquidityInit /\ [][LiquidityNext]_liquidityVars

Now(s) == IF s \in DOMAIN lf.now THEN lf.now[s] ELSE Unknown
AtLeast(s, v) == Now(s) # Unknown /\ Now(s) >= v
AtMost(s, v) == Now(s) # Unknown /\ Now(s) <= v

-----------------------------------------------------------------------------
\* The layers.

Matches(code) ==
    LET l1 == Now("l1") l2a == Now("l2a") l2b == Now("l2b")
    IN  CASE code = "LIQUIDITY_SHOCK" -> l2a >= 65
          [] code = "CREDIT_CONTRACTION" -> l2a >= 50
          [] code = "POLICY_TIGHTENING" -> l1 >= 45
          [] code = "SPLIT_BUBBLE" -> l2a >= 40 /\ l2b >= 70
          [] code = "MARKET_OVERSHOOT" -> l2b >= 80 /\ l2a < 35
          [] code = "FINANCIAL_RALLY" -> l1 < 30 /\ l2b > 60
          [] code = "HEALTHY" -> l1 < 35 /\ l2a < 35 /\ l2b < 40

Color(code) ==
    CASE code = "LIQUIDITY_SHOCK" -> "red" [] code \in {"CREDIT_CONTRACTION", "SPLIT_BUBBLE"} -> "orange"
      [] code \in {"POLICY_TIGHTENING", "MARKET_OVERSHOOT"} -> "yellow"
      [] code = "FINANCIAL_RALLY" -> "cyan" [] code = "HEALTHY" -> "green" [] OTHER -> "gray"

\* A mutant: the last one is named.
DetermineLastState ==
    LET all == At(States, {i \in DOMAIN States : Matches(States[i])})
    IN  [code |-> IF all = <<>> THEN "NEUTRAL" ELSE all[Len(all)],
         all_states |-> IF all = <<>> THEN <<"NEUTRAL">> ELSE all]

\* DetermineMarketState: every state that matches, by priority; the first is the
\* one that is named.
DetermineMarketState ==
    LET all == At(States, {i \in DOMAIN States : Matches(States[i])})
    IN  [code |-> IF all = <<>> THEN "NEUTRAL" ELSE all[1],
         all_states |-> IF all = <<>> THEN <<"NEUTRAL">> ELSE all]

\* The hero names the state, and the others as badges.
MarketStateHero ==
    [state |-> DetermineMarketState.code, badges |-> Tail(DetermineMarketState.all_states),
     danger |-> Color(DetermineMarketState.code) \in {"red", "orange"},
     rings |-> <<Now("l1"), Now("l2a"), Now("l2b")>>]

LayerHeader(score) == [ring |-> score, label |-> scoreLabel(score)]

-----------------------------------------------------------------------------
\* The Fed's balance sheet, latest week last.

Complete(row) == Unknown \notin {row.soma, row.rrp, row.tga}
CompleteWeeks == At(lf.fed, {w \in DOMAIN lf.fed : Complete(lf.fed[w])})
Net(row) == row.soma - row.rrp - row.tga

LatestWeeks == {w \in DOMAIN lf.fed : w > Len(lf.fed) - LatestRows}

\* fed_data: each figure from the last of the latest weeks that has it.
forwardFill(field) ==
    LET known == {w \in LatestWeeks : lf.fed[w][field] # Unknown}
    IN  IF known = {} THEN Unknown ELSE lf.fed[Max(known)][field]
fed_data == [soma |-> forwardFill("soma"), rrp |-> forwardFill("rrp"), tga |-> forwardFill("tga")]

\* Layer 1, served only if some week is complete: the figures, and the net
\* liquidity of the last complete week.
Layer1Card ==
    IF CompleteWeeks = <<>> THEN <<>>
    ELSE <<[net |-> Net(CompleteWeeks[Len(CompleteWeeks)]), fed |-> fed_data]>>

\* The flow below computes it again from the figures, those it lacks counted as
\* nothing; bars between 0 and 100 %.
OrNothing(v) == IF v = Unknown THEN 0 ELSE v
Width(v, most) == LET w == (100 * v) \div (IF most = 0 THEN 1 ELSE most)
                  IN  IF w < 0 THEN 0 ELSE IF w > 100 THEN 100 ELSE w

NetLiquidityFlow ==
    LET f == [field \in {"soma", "rrp", "tga"} |-> OrNothing(fed_data[field])]
    IN  [net |-> Net(f), widths |-> <<100, Width(f.rrp, f.soma), Width(f.tga, f.soma), Width(Net(f), f.soma)>>]

-----------------------------------------------------------------------------
\* Events: changes in percent, spreads in hundredths.

Severity == {"none", "WARNING", "ALERT", "CRITICAL"}
Rank(sev) == CASE sev = "none" -> 0 [] sev = "WARNING" -> 1 [] sev = "ALERT" -> 2 [] sev = "CRITICAL" -> 3

detectFundingStress ==
    IF AtMost("reserves1m", -15) THEN "CRITICAL" ELSE IF AtMost("reserves1m", -10) THEN "ALERT"
    ELSE IF AtMost("reserves1m", -5) THEN "WARNING"
    ELSE IF AtMost("reserves1w", -5) THEN "ALERT" ELSE "none"

detectLiquidityDrain ==
    IF AtMost("nl3m", -20) THEN "CRITICAL" ELSE IF AtMost("nl3m", -15) THEN "ALERT"
    ELSE IF AtMost("nl3m", -10) THEN "WARNING"
    ELSE IF AtMost("nl1m", -10) THEN "ALERT" ELSE "none"

detectBankStress ==
    IF AtMost("kre2m", -25) THEN "CRITICAL"
    ELSE IF AtMost("kre2m", -15) \/ AtMost("kre1m", -15) THEN "ALERT" ELSE "none"

detectVolatilityShock ==
    IF Now("vix") = Unknown THEN "none" ELSE IF AtLeast("vix", 40) THEN "CRITICAL"
    ELSE IF AtLeast("vix", 30) \/ AtLeast("vixWeek", 15) THEN "ALERT"
    ELSE IF AtLeast("vixMonth", 20) THEN "WARNING" ELSE "none"

\* A mutant: the rise of the month is looked at first.
detectCreditSpikeMonthFirst ==
    IF AtLeast("igMonth", 50) THEN "WARNING" ELSE IF AtLeast("hy", 600) THEN "CRITICAL"
    ELSE IF AtLeast("hy", 500) \/ AtLeast("hyMonth", 150) THEN "ALERT" ELSE "none"

detectCreditSpike ==
    IF AtLeast("hy", 600) THEN "CRITICAL"
    ELSE IF AtLeast("hy", 500) \/ (Now("hy") # Unknown /\ AtLeast("hyMonth", 150)) THEN "ALERT"
    ELSE IF AtLeast("igMonth", 50) THEN "WARNING" ELSE "none"

detectRepoStress ==
    IF AtLeast("sofr", 30) THEN "CRITICAL" ELSE IF AtLeast("sofr", 15) THEN "ALERT"
    ELSE IF AtMost("rrp1w", -30) THEN "WARNING" ELSE "none"

\* DetectMarketEvents: those found, the gravest first.
DetectMarketEvents ==
    LET all == <<detectFundingStress, detectLiquidityDrain, detectBankStress,
                 detectVolatilityShock, detectCreditSpike, detectRepoStress>>
        found == At(all, {i \in DOMAIN all : all[i] # "none"})
    IN  ByKey(found, [i \in DOMAIN found |-> Rank(found[i])])

\* The panel is green without events, else it has the colour of the gravest.
EventDetectionPanel ==
    IF DetectMarketEvents = <<>> THEN [header |-> "none", rows |-> <<>>]
    ELSE [header |-> DetectMarketEvents[1], rows |-> DetectMarketEvents]

-----------------------------------------------------------------------------
\* Credit pressure.

Judged(s, warning, danger) ==
    IF Now(s) # Unknown /\ Now(s) > danger THEN "danger"
    ELSE IF Now(s) # Unknown /\ Now(s) > warning THEN "warning" ELSE "normal"

CalculateCreditPressure ==
    LET curve == IF AtMost("curve", -1) THEN "danger" ELSE IF AtMost("curve", 49) THEN "warning" ELSE "normal"
        status == [hy |-> Judged("hy", 350, 500), ig |-> Judged("ig", 100, 150), curve |-> curve,
                   dxy |-> IF AtLeast("dxy", 106) THEN "warning" ELSE "normal"]
        points == 2 * Cardinality({s \in DOMAIN status : status[s] = "danger"})
                    + Cardinality({s \in DOMAIN status : status[s] = "warning"})
    IN  [status |-> status, alerts |-> {s \in DOMAIN status : status[s] # "normal"},
         level |-> IF points >= 5 THEN "High" ELSE IF points >= 2 THEN "Medium" ELSE "Low"]

CreditPressurePanel ==
    [badge |-> CalculateCreditPressure.level, dots |-> CalculateCreditPressure.status,
     alerts |-> CalculateCreditPressure.alerts]

\* The risk layer: the change of margin debt over two years and that of the money
\* market funds over three months (mmf), in percent; four fifths of the score are
\* the one's, and one fifth the other's if it was reported.
getPhaseStress(v) ==
    IF v < 40 THEN 20 ELSE IF v < 60 THEN 40 ELSE IF v < 80 THEN 70 ELSE IF v < 100 THEN 90 ELSE 100
mmfScore == Max({0, Min({(100 - 5 * Now("mmf")) \div 2, 100})})
CalculateLayer2BStress ==
    LET marginScore == getPhaseStress(Now("margin2y"))
    IN  IF Now("mmf") = Unknown THEN marginScore ELSE (4 * marginScore + mmfScore) \div 5

\* How the change compares to the peak of the IT bubble (in hundredths), with a tone
\* of its own; the marker is held at the right end of its scale, not at the left.
ITBubblePeak2YChange == 10468
itPct == (10000 * Now("margin2y")) \div ITBubblePeak2YChange
Layer2BCard ==
    [header |-> LayerHeader(CalculateLayer2BStress), marker |-> Min({itPct, 100}),
     tone |-> IF itPct >= 80 THEN "red" ELSE IF itPct >= 60 THEN "amber" ELSE "green"]

\* The bank layer's card judges one of the spreads again.
Layer2ACard ==
    IF Now("ig") = Unknown THEN "" ELSE IF Now("ig") > 150 THEN "red"
    ELSE IF Now("ig") > 100 THEN "amber" ELSE "green"

-----------------------------------------------------------------------------
\* The policy: rates and changes in hundredths of a percent, balances in billions.

Over(s, v) == Now(s) # Unknown /\ Now(s) > v
Under(s, v) == Now(s) # Unknown /\ Now(s) < v

\* DetectPolicyRegime: cut6m is the cut of the rate over six months.
DetectPolicyRegime ==
    IF AtLeast("cut6m", 100) THEN "PIVOT_CONFIRMED"
    ELSE IF Over("cut6m", 0) THEN "PIVOT_EARLY"
    ELSE IF Over("soma3m", 200) THEN "QE_MODE"
    ELSE IF Under("soma3m", -50) /\ Over("rrp", 200) THEN "QT_ACTIVE"
    ELSE IF Under("rrp", 50) /\ Under("soma3m", 50) /\ Now("soma3m") # -50 THEN "QT_EXHAUSTED"
    ELSE "NEUTRAL_POLICY"

\* calculateFedActionRoom: the levels of the three rooms; only the first has a
\* percentage, which is the rate itself.
rate_cut_room ==
    IF Now("ff") = Unknown THEN "Unknown"
    ELSE IF Over("inflation", 300) THEN "Low"
    ELSE IF Now("ff") >= 400 THEN "High" ELSE IF Now("ff") >= 200 THEN "Medium" ELSE "Low"
absorption_room ==
    IF Now("rrp") = Unknown THEN "Unknown"
    ELSE IF Now("rrp") > 500 THEN "High" ELSE IF Now("rrp") > 200 THEN "Medium" ELSE "Low"
fiscal_assist_potential ==
    IF Now("tga") = Unknown THEN "Unknown" ELSE IF Now("tga") > 500 THEN "Available" ELSE "Limited"

\* levelToPct: a percentage is taken for a share of one and multiplied by 100.
levelToPct(level, room_pct) ==
    IF room_pct # Unknown THEN Max({0, Min({room_pct, 100})})
    ELSE CASE level = "High" -> 80 [] level = "Available" -> 70 [] level = "Medium" -> 50
           [] level \in {"Low", "Limited"} -> 20 [] level = "Unknown" -> 5

PolicyRegimeCard ==
    [regime |-> DetectPolicyRegime,
     meters |-> <<levelToPct(rate_cut_room, Now("ff")), levelToPct(absorption_room, Unknown),
                  levelToPct(fiscal_assist_potential, Unknown)>>]

MeterColor(width) == IF width >= 60 THEN "green" ELSE IF width >= 30 THEN "amber" ELSE "red"

-----------------------------------------------------------------------------
\* The backtest: a button for every state that occurred, and the months of the
\* one selected, latest first.

CountOf(code) == Cardinality({m \in DOMAIN lf.months : lf.months[m] = code})

\* Definitions exist for the seven states and for NEUTRAL.
FilterButtons ==
    {[code |-> c, count |-> CountOf(c)] : c \in {c \in Range(States) \cup {"NEUTRAL"} : CountOf(c) > 0}}
        \cup {[code |-> "ALL", count |-> Len(lf.months)]}

Occurrences(filter) ==
    Reverse(Ascending({m \in DOMAIN lf.months : filter \in {"ALL", lf.months[m]}}))

-----------------------------------------------------------------------------

\* The badges beside the state are other states that match, never the named one;
\* a calm headline does not hide a state in which the page counsels defence.
StateIsGravest ==
    lf.group = "layers" =>
        LET hero == MarketStateHero
        IN  /\ hero.state \notin Range(hero.badges)
            /\ \A c \in Range(hero.badges) : Color(c) = "red" => Color(hero.state) = "red"
            /\ hero.state = "HEALTHY" => \A i \in 1..3 : scoreLabel(hero.rings[i]) \in {"safe", "attention"}
            /\ hero.state \in {"LIQUIDITY_SHOCK", "CREDIT_CONTRACTION"} => hero.danger

\* The two net liquidities of the dashboard are one number, unless the last week
\* lacks a figure: the card is then of an older week than the flow.  The flow has
\* all of its figures if one of the latest weeks has -- the card may be of a week
\* before those, and what the flow lacks then counts as nothing.
OneNetLiquidity ==
    lf.group = "fed" /\ Layer1Card # <<>> =>
        /\ Complete(lf.fed[Len(lf.fed)]) => Layer1Card[1].net = NetLiquidityFlow.net
        /\ (\E w \in LatestWeeks : Complete(lf.fed[w])) => Complete(fed_data)
        /\ \A i \in 1..4 : NetLiquidityFlow.widths[i] \in 0..100

\* The header has the colour of the gravest event.  A red sensor of the high-yield
\* spread comes with an alert of the spreads, and such an alert with the red sensor
\* unless it is for the rise of a month, or the spread is at exactly 5 %, where
\* there is an event and the sensor is amber.
EventsAgree ==
    LET panel == EventDetectionPanel
        sensor == CreditPressurePanel.dots.hy
    IN  /\ \A i \in DOMAIN panel.rows : Rank(panel.rows[i]) <= Rank(panel.header)
        /\ sensor = "danger" => Rank(detectCreditSpike) >= 2
        /\ Rank(detectCreditSpike) >= 2 =>
            sensor = "danger" \/ Now("hy") = 500 \/ AtLeast("hyMonth", 150)

\* One spread has the same tone in the card of its layer and among the sensors;
\* a high pressure has its alerts.
SensorsAgree ==
    lf.group = "credit" =>
        LET panel == CreditPressurePanel
        IN  /\ (Layer2ACard = "red") <=> (panel.dots.ig = "danger")
            /\ (Layer2ACard = "amber") <=> (panel.dots.ig = "warning")
            /\ panel.badge = "High" => Cardinality(panel.alerts) >= 3
            /\ panel.badge = "Low" => \A s \in DOMAIN panel.dots : panel.dots[s] # "danger"

\* The buttons count every month once, and each leads to as many rows as it says.
ButtonsCountRows ==
    lf.group = "backtest" =>
        /\ \A b \in FilterButtons : Len(Occurrences(b.code)) = b.count
        /\ SumFunction([b \in FilterButtons |-> b.count]) = 2 * Len(lf.months)

\* The risk layer's header and its comparison to the IT bubble tell one story,
\* though the funds weigh in the one only: a comparison in red comes with a header
\* in danger, and that with a comparison in red or amber -- but for a change of 60
\* to 62 % while the funds shrank by 8 % or more, or were not reported.
MarkerIsScore ==
    lf.group = "margin" =>
        LET card == Layer2BCard
        IN  /\ card.marker <= 100
            /\ card.tone = "red" => card.header.label = "danger"
            /\ card.header.label = "danger" =>
                \/ card.tone # "green"
                \/ Now("margin2y") \in 60..62 /\ (AtMost("mmf", -8) \/ Now("mmf") = Unknown)

\* A meter is full and green only where its level is high -- but for the room for
\* cuts, which is full from a rate of one percent on, even where the level is low.
MetersTellLevels ==
    lf.group = "policy" =>
        LET m == PolicyRegimeCard.meters
        IN  /\ MeterColor(m[2]) = "green" <=> absorption_room = "High"
            /\ MeterColor(m[3]) = "green" <=> fiscal_assist_potential = "Available"
            /\ MeterColor(m[1]) = "green" => rate_cut_room = "High" \/ Now("ff") >= 60
            /\ PolicyRegimeCard.regime = "QT_ACTIVE" => absorption_room \in {"Medium", "High"}
            /\ PolicyRegimeCard.regime = "QT_EXHAUSTED" => MeterColor(m[2]) = "red"

LiquidityFiguresSound ==
    MarkerIsScore /\ MetersTellLevels /\
    StateIsGravest /\ OneNetLiquidity /\ EventsAgree /\ SensorsAgree /\ ButtonsCountRows

\* When one figure gets worse, no event gets milder -- except the two whose fall over
\* the longer term, once it reaches the warning, hides the alert of the shorter one.
NotMilder ==
    \A s \in DOMAIN Known(lf.group) :
        lf.group \in {"falls", "shocks"} /\ lf'.now[s] # lf.now[s] /\ Unknown \notin {lf.now[s], lf'.now[s]}
        /\ (IF lf.group = "shocks" THEN lf'.now[s] > lf.now[s] ELSE lf'.now[s] < lf.now[s]) =>
            /\ Rank(detectVolatilityShock') >= Rank(detectVolatilityShock)
            /\ Rank(detectCreditSpike') >= Rank(detectCreditSpike)
            /\ Rank(detectBankStress') >= Rank(detectBankStress)
            /\ Rank(detectRepoStress') >= Rank(detectRepoStress)
            /\ \/ Rank(detectFundingStress') >= Rank(detectFundingStress)
               \/ s = "reserves1m" /\ detectFundingStress' = "WARNING"
            /\ \/ Rank(detectLiquidityDrain') >= Rank(detectLiquidityDrain)
               \/ s = "nl3m" /\ detectLiquidityDrain' = "WARNING"

WorseIsNotMilder == [][NotMilder]_liquidityVars

=============================================================================
