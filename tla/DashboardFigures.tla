--------------------------- MODULE DashboardFigures ---------------------------
(***************************************************************************)
(* The integrated dashboard (frontend components/dashboard/DashboardTab):  *)
(* the verdict it draws from the market state (LiquidityFigures) and the   *)
(* phase of the economy (EmploymentFigures), once as a sentence and once   *)
(* as a cell of a matrix, and the cards beside it.  It is looked at as the *)
(* groups "dashboard" and "events" of LiquidityFigures.                    *)
(***************************************************************************)
EXTENDS LiquidityFigures, EmploymentFigures

stateCode == DetermineMarketState.code
phaseCode == GetPhase(Now("total"))

\* getIntegratedInsight: the sentence, by its colour.
getIntegratedInsight(state, phase) ==
    LET isShock == state = "LIQUIDITY_SHOCK"
        isCrisis == phase \in {"CRISIS", "CONTRACTION"}
        isTight == state \in {"POLICY_TIGHTENING", "CREDIT_CONTRACTION", "SPLIT_BUBBLE"}
        isHealthy == state \in {"HEALTHY", "FINANCIAL_RALLY"}
    IN  IF isShock \/ isCrisis THEN "red"
        ELSE IF isTight /\ phase = "CAUTION" THEN "orange"
        ELSE IF isTight \/ phase = "CAUTION" THEN "yellow"
        ELSE IF isHealthy /\ phase = "EXPANSION" THEN "green" ELSE "cyan"

MATRIX_COLORS ==
    <<<<"green", "green", "yellow", "orange", "red">>,
      <<"green", "cyan", "yellow", "orange", "red">>,
      <<"yellow", "yellow", "orange", "orange", "red">>,
      <<"orange", "orange", "red", "red", "red">>,
      <<"red", "red", "red", "red", "red">>>>

stateToRow(code) ==
    CASE code \in {"HEALTHY", "FINANCIAL_RALLY"} -> 1 [] code \in {"NEUTRAL", "MARKET_OVERSHOOT"} -> 2
      [] code = "POLICY_TIGHTENING" -> 3 [] code \in {"CREDIT_CONTRACTION", "SPLIT_BUBBLE"} -> 4
      [] code = "LIQUIDITY_SHOCK" -> 5 [] OTHER -> 2

phaseToCol(code) == IF \E i \in 1..5 : Phases[i] = code THEN CHOOSE i \in 1..5 : Phases[i] = code ELSE 2

TodaysVerdictBanner ==
    [text |-> getIntegratedInsight(stateCode, phaseCode),
     tone |-> MATRIX_COLORS[stateToRow(stateCode)][phaseToCol(phaseCode)]]

\* The one cell of the matrix that is framed.
StatePhaseMatrix ==
    {cell \in (1..5) \X (1..5) : cell = <<stateToRow(stateCode), phaseToCol(phaseCode)>>}

\* getInsightCards asks for policies by codes of its own: of those the API sends,
\* DetectPolicyRegime, only the easing is among them.
PolicyCard(regime) ==
    CASE regime = "QT_MODE" -> {"QT"} [] regime = "QE_MODE" -> {"QE"}
      [] regime = "PIVOT_WATCH" -> {"pivot"} [] OTHER -> {}

getInsightCards ==
    PolicyCard(DetectPolicyRegime)
        \cup (IF AtLeast("l1", 60) THEN {"policy tightens"} ELSE IF AtMost("l1", 30) THEN {"policy eases"} ELSE {})
        \cup {c \in {"bank stress"} : AtLeast("l2a", 65)}
        \cup {c \in {"leverage"} : AtLeast("l2b", 70)}
        \cup {c \in {"downturn"} : AtLeast("total", 60)}
        \cup {c \in {"sahm"} : AtLeast("sahm", 50)}
        \cup {c \in {"critical event"} : "CRITICAL" \in Range(DetectMarketEvents)}

\* Nothing at all is shown without cards.
InsightCardsSection == IF getInsightCards = {} THEN <<>> ELSE <<getInsightCards>>

\* The two systems' cards: a badge, rings, and no more than three events.
PlumbingCard ==
    [badge |-> Color(stateCode), rings |-> [i \in 1..3 |-> ScoreRing(Now(<<"l1", "l2a", "l2b">>[i]))],
     events |-> SubSeq(DetectMarketEvents, 1, Min({3, Len(DetectMarketEvents)}))]

EconomicCard == [badge |-> phaseCode, ring |-> ScoreRing(Now("total"))]

-----------------------------------------------------------------------------

\* The sentence of the banner is never of a calmer kind than its colour but where
\* credit has tightened and the economy is at caution (the colour is then red, the
\* sentence orange), and where only credit has (orange, and yellow); and danger in
\* the sentence shows in the colour.
VerdictIsOne ==
    LET rank == [green |-> 0, cyan |-> 1, yellow |-> 2, orange |-> 3, red |-> 4]
        banner == TodaysVerdictBanner
    IN  /\ rank[banner.text] >= rank[banner.tone] \/ stateToRow(stateCode) = 4
        /\ banner.text = "red" => rank[banner.tone] >= 3
        /\ banner.text = "green" => banner.tone = "green"
        /\ rank[banner.text] - rank[banner.tone] \in -1..1
        /\ Cardinality(StatePhaseMatrix) = 1

\* The cards say what the banner and the two systems say: stress of the banks is the
\* shock of the matrix, a downturn is a phase past caution (or its last score), no
\* card calms while another of the same layer warns.
CardsAreOfTheVerdict ==
    LET cards == getInsightCards
    IN  /\ "bank stress" \in cards <=> stateCode = "LIQUIDITY_SHOCK"
        /\ "downturn" \in cards <=> phaseCode \in {"CONTRACTION", "CRISIS"} \/ Now("total") = 60
        /\ "policy eases" \in cards => stateCode # "POLICY_TIGHTENING"
        /\ "leverage" \in cards => stateCode # "HEALTHY"
        /\ scoreLabel(Now("l2b")) = "danger" <=> "leverage" \in cards

\* A policy that is not neutral has its card -- but only the easing does: the cards
\* for tightening and for a pivot wait for codes that are never sent.
PolicyHasItsCard ==
    /\ DetectPolicyRegime = "NEUTRAL_POLICY" => PolicyCard(DetectPolicyRegime) = {}
    /\ PolicyCard(DetectPolicyRegime) = {} =>
        DetectPolicyRegime \in {"NEUTRAL_POLICY", "QT_ACTIVE", "QT_EXHAUSTED", "PIVOT_EARLY", "PIVOT_CONFIRMED"}

\* The three events listed are the gravest: a critical one is among them, and each of
\* them if there are no more than three.
GravestAreListed ==
    LET listed == PlumbingCard.events
        Criticals(events) == Cardinality({i \in DOMAIN events : events[i] = "CRITICAL"})
    IN  /\ "critical event" \in getInsightCards => listed[1] = "CRITICAL"
        /\ Criticals(DetectMarketEvents) <= 3 => Criticals(listed) = Criticals(DetectMarketEvents)

\* The legend names the limits the rings have.
LegendIsTrue ==
    \A score \in 0..100 : score \in ScoreLegend[ScoreRing(score).hue]

DashboardSound ==
    /\ lf.group = "dashboard" =>
        VerdictIsOne /\ CardsAreOfTheVerdict /\ PolicyHasItsCard /\ LegendIsTrue
    /\ lf.group = "events" => GravestAreListed

=============================================================================
