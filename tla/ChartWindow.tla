----------------------------- MODULE ChartWindow -----------------------------
(***************************************************************************)
(* The canvas charts (frontend components/charts) and the tabs that hold   *)
(* them: the window of data points a chart shows, moved by the wheel, by   *)
(* dragging and by the range buttons beside it, while new data arrive; and *)
(* what is drawn of the points in the window.                              *)
(*                                                                         *)
(* The window lives in a ref of the chart and the highlighted range in the *)
(* state of the tab, which only meet when a range button is pressed.       *)
(***************************************************************************)
EXTENDS Integers, FiniteSets, FiniteSetsExt

CONSTANTS
    MinVisible,     \* fewest points the wheel leaves (10, 20 for prices)
    DefaultVisible, \* points a chart shows at first that does not show all (120)
    LastPoint,      \* the date of the latest point, a bound on their number
    Lengths,        \* how many points the data may have
    Spans,          \* ranges "the last k points" of the range buttons
    Crises,         \* ranges <<from, to>> of dates of the crisis buttons
    Bars,           \* the price of each date: [low, high, close, ema]
    Signs,          \* what is marked on prices: [kind, date, active]
    Ratios,         \* where the wheel takes the pointer to be, see Zoomed
    NoEma           \* the average of a date that has none

ASSUME ChartConstants ==
    /\ MinVisible \in Nat /\ MinVisible >= 4   \* round(3 * 1.15) = 3: see ZoomMoves
    /\ DefaultVisible \in Nat /\ DefaultVisible >= MinVisible
    /\ LastPoint \in Nat /\ Lengths \subseteq 0..LastPoint
    /\ Spans \subseteq Nat \ {0} /\ Crises \subseteq (1..LastPoint) \X (1..LastPoint)
    /\ \A c \in Crises : c[1] <= c[2]
    /\ \A d \in 1..LastPoint :
        {Bars[d].low, Bars[d].high, Bars[d].close} \subseteq Int /\ Bars[d].ema \in Int \cup {NoEma}
    /\ Ratios \subseteq Int
    /\ \A s \in Signs : s.kind \in {"FVG", "BOS", "CHoCH", "OB", "OTE"} /\ s.date \in Int

VARIABLE cw

chartVars == <<cw>>

ChartPage == {"risk", "indicators", "liquidity", "price"}
AllPoints == <<>>               \* the range button ALL
Ranges == {AllPoints} \cup {<<k>> : k \in Spans} \cup Crises
Index == 0..LastPoint
NoDrag == [active |-> FALSE, start |-> 0, end |-> 0]

\* user: the user moved the window since a range was chosen; redone: the chart
\* started again, or took data of another length, under a range other than ALL;
\* missed: the button was released while nothing listened.
ChartTypeOK ==
    cw \in [page: ChartPage, len: Lengths, start: Index, end: Index, range: Ranges,
            drag: [active: BOOLEAN, start: Index, end: Index], button: BOOLEAN,
            user: BOOLEAN, redone: BOOLEAN, missed: BOOLEAN]

\* The effect that runs when the chart mounts or its data change.
FirstWindow(page, n) ==
    IF page \in {"risk", "indicators"} \/ n < DefaultVisible THEN <<0, n>>
    ELSE <<n - DefaultVisible, n>>

ChartInit ==
    \E page \in ChartPage, n \in Lengths :
        cw = [page |-> page, len |-> n, start |-> FirstWindow(page, n)[1], end |-> n,
              range |-> AllPoints, drag |-> NoDrag, button |-> FALSE, user |-> FALSE,
              redone |-> FALSE, missed |-> FALSE]

Shows(s, w) == [s EXCEPT !.start = w[1], !.end = w[2]]

\* The handlers of the mouse are attached only to a chart that can be zoomed.
Listens == cw.len > MinVisible

-----------------------------------------------------------------------------
\* The wheel and the mouse.

\* A mutant: only the end is held.
InsideTheEnd(start, size, n) == <<start, IF start + size > n THEN n ELSE start + size>>

\* Keeps a window of the data inside of it.
Inside(start, size, n) ==
    LET s == IF start < 0 THEN 0 ELSE start
        t == IF s + size > n THEN n - size ELSE s
    IN  <<IF t < 0 THEN 0 ELSE t, IF t + size > n THEN n ELSE t + size>>

Abs(a) == IF a < 0 THEN -a ELSE a

\* Math.round of a quotient.
Round(a, b) == (2 * a + b) \div (2 * b)

Halves == 2                     \* the parts of the plot that a ratio counts

Resized(size, out, n) ==
    LET scaled == Round(size * (IF out THEN 115 ELSE 87), 100)
        most == IF scaled > n THEN n ELSE scaled
    IN  IF most < MinVisible THEN MinVisible ELSE most

\* A mutant: the point at the ratio moves away from it, the signs swapped.
ZoomedAway(w, out, q, n) ==
    LET size == w[2] - w[1]
        new == Resized(size, out, n)
    IN  Inside(Round(Halves * w[1] + (new - size) * q, Halves), new, n)

\* onWheel: the point at the ratio q stays there.  The ratio is not quite where
\* the pointer is in the plot: it counts other margins than those drawn, in the
\* width the chart had when the handlers were attached, and is below nothing or
\* above the whole over the axes.
Zoomed(w, out, q, n) ==
    LET size == w[2] - w[1]
        new == Resized(size, out, n)
    IN  Inside(Round(Halves * w[1] + (size - new) * q, Halves), new, n)

onWheel(out, q) ==
    /\ Listens
    /\ cw' = [Shows(cw, Zoomed(<<cw.start, cw.end>>, out, q, cw.len)) EXCEPT !.user = TRUE]

onMouseDown ==
    /\ ~cw.button
    /\ cw' = [cw EXCEPT !.button = TRUE,
                        !.drag = IF Listens THEN [active |-> TRUE, start |-> cw.start,
                                                  end |-> cw.end] ELSE @]

\* Any distance: the pointer is followed outside of the chart too.
onMouseMove(shift) ==
    /\ Listens /\ cw.drag.active
    /\ LET size == cw.drag.end - cw.drag.start
       IN  cw' = [Shows(cw, Inside(cw.drag.start + (IF size = 0 THEN 0 ELSE shift), size, cw.len))
                    EXCEPT !.user = TRUE]

onMouseUp ==
    /\ cw.button
    /\ cw' = [cw EXCEPT !.button = FALSE, !.drag.active = ~Listens /\ @,
                        !.missed = ~Listens /\ (@ \/ cw.drag.active)]

\* Only the chart of series listens for it; a drag ends with the button pressed.
onMouseLeave ==
    /\ cw.page # "price" /\ Listens /\ cw.drag.active
    /\ cw' = [cw EXCEPT !.drag.active = FALSE]

-----------------------------------------------------------------------------
\* The range buttons.

DateOf(i, n) == LastPoint - n + 1 + i       \* of the point with index i

\* setViewport: the first point on or after the one date, the first after the other.
Viewport(from, to, n) ==
    LET on == {i \in 0..(n - 1) : DateOf(i, n) >= from}
        after == {i \in 0..(n - 1) : DateOf(i, n) > to}
    IN  <<IF on = {} THEN 0 ELSE Min(on), IF after = {} THEN n ELSE Min(after)>>

\* applyRange of the risk history counts points, applyPeriod of the indicators
\* goes back from the date of the last one.
WindowOf(page, range, n) ==
    IF range = AllPoints THEN <<0, n>>
    ELSE IF range \in Crises THEN Viewport(range[1], range[2], n)
    ELSE LET k == IF page = "risk" THEN range[1] ELSE range[1] + 1
         IN  Viewport(DateOf(IF k > n THEN 0 ELSE n - k, n), LastPoint, n)

ApplyRange(range) ==
    /\ cw.len > 0
    /\ \/ cw.page = "risk"
       \/ cw.page = "indicators" /\ range \notin Crises
    /\ cw' = [Shows(cw, WindowOf(cw.page, range, cw.len))
                EXCEPT !.range = range, !.user = FALSE, !.redone = FALSE]

\* The data are read again, or the tab draws another series in the same chart: a
\* chart of series begins again only if their number changed, one of prices always.
DataArrive(n) ==
    LET begins == n > 0 /\ (cw.page = "price" \/ n # cw.len)
        s == [cw EXCEPT !.len = n, !.redone = @ \/ (begins /\ cw.range # AllPoints),
                        !.user = @ /\ ~begins]
    IN  cw' = IF begins THEN Shows(s, FirstWindow(cw.page, n)) ELSE s

\* The chart is mounted again: the overview and back, an error and a retry, a
\* new analysis.  The range stays highlighted.
Remount ==
    cw' = [Shows(cw, FirstWindow(cw.page, cw.len))
            EXCEPT !.drag = NoDrag, !.missed = FALSE, !.user = FALSE,
                   !.redone = cw.range # AllPoints]

\* Another indicator: its chart has a key of its own, and an effect selects ALL.
SelectIndicator(n) ==
    /\ cw.page = "indicators"
    /\ cw' = [Shows(cw, <<0, n>>)
                EXCEPT !.len = n, !.range = AllPoints, !.drag = NoDrag,
                       !.missed = FALSE, !.user = FALSE, !.redone = FALSE]

ChartNext ==
    \/ \E out \in BOOLEAN, q \in Ratios : onWheel(out, q)
    \/ onMouseDown \/ onMouseUp \/ onMouseLeave
    \/ \E shift \in -LastPoint..LastPoint : onMouseMove(shift)
    \/ \E range \in Ranges : ApplyRange(range)
    \/ \E n \in Lengths : DataArrive(n) \/ SelectIndicator(n)
    \/ Remount

ChartSpec == ChartInit /\ [][ChartNext]_chartVars

-----------------------------------------------------------------------------
\* What is drawn of the points in the window: their number, and their dates.

Seen == cw.end - cw.start
SeenDates == {DateOf(i, cw.len) : i \in cw.start..(cw.end - 1)}
Place(date) == date - DateOf(cw.start, cw.len)

\* The values the axis of prices has to span: candles, or the line of closes.
Drawn(showEMA, candles) ==
    UNION {(IF candles THEN {Bars[d].low, Bars[d].high} ELSE {Bars[d].close}) \cup
           (IF showEMA THEN {Bars[d].ema} \ {NoEma} ELSE {}) : d \in SeenDates}

\* minPrice and maxPrice, in twentieths: a margin of 5 % on either side.
PriceAxis(showEMA, candles) ==
    LET v == Drawn(showEMA, candles)
        range == Max(v) - Min(v)
    IN  <<20 * Min(v) - range, 20 * Max(v) + range>>

\* The axis of series: bars take zero in, reference lines widen the left one, and
\* a range of nothing counts as one.
SeriesAxis(values, bars, lines) ==
    LET v == values \cup (IF bars /\ values # {} THEN {0} ELSE {}) \cup lines
        range == IF Max(v) = Min(v) THEN 1 ELSE Max(v) - Min(v)
    IN  IF v = {} THEN <<-5 * 20, 105 * 20>>
        ELSE <<20 * Min(v) - range, 20 * Max(v) + range>>

\* A zone between two dates: the first point on or after the one, the last on or
\* before the other; nothing if it is narrower than two points.
ZoneDrawn(from, to) ==
    LET in == {d \in SeenDates : d >= from /\ d <= to}
    IN  IF Cardinality(in) < 2 THEN <<>> ELSE <<Place(Min(in)), Place(Max(in))>>

\* The labels of dates: every step-th point, about eight (ten for prices).
LabelStep(most) == (Seen + most - 1) \div most
Labels(most) == {i \in 0..(Seen - 1) : i % (IF LabelStep(most) < 1 THEN 1 ELSE LabelStep(most)) = 0}

\* What is marked on prices: a sign is drawn at its date if that is in the
\* window, and stretches over so many points; order blocks and entry zones only
\* while they are active, and of the entry zones the last three, right across.
Stretch(kind) ==
    CASE kind = "FVG" -> <<0, 30>> [] kind = "BOS" -> <<0, 12>> [] kind = "CHoCH" -> <<5, 10>>
      [] kind = "OB" -> <<0, LastPoint>> [] kind = "OTE" -> <<LastPoint, LastPoint>>

SignDrawn(s) ==
    /\ s.kind \in {"OB", "OTE"} => s.active
    /\ IF s.kind # "OTE" THEN s.date \in SeenDates
       ELSE Cardinality({t \in Signs : t.kind = "OTE" /\ t.active /\ t.date > s.date}) < 3

SignSpan(s) ==
    LET at == IF s.kind = "OTE" THEN 0 ELSE Place(s.date)
        from == at - Stretch(s.kind)[1]
        to == at + Stretch(s.kind)[2]
    IN  <<IF from < 0 THEN 0 ELSE from, IF to > Seen - 1 THEN Seen - 1 ELSE to>>

\* The numbers in the legend.
LegendCount(kind) ==
    Cardinality({s \in Signs : s.kind = kind /\ IF kind = "OTE" THEN s.active
                                                ELSE s.date \in SeenDates})

\* The bar under a chart, in hundredths of its width: where the window is.
Thumb == <<(100 * cw.start) \div cw.len, (100 * Seen) \div cw.len>>

-----------------------------------------------------------------------------

\* The window lies in the data and shows something whenever there is something
\* -- but for a crisis button whose dates are all before the first point, which
\* leaves the chart blank until the wheel is turned.
WindowInData ==
    /\ 0 <= cw.start /\ cw.start <= cw.end
    /\ cw.len > 0 => cw.end <= cw.len
    /\ cw.start = cw.end /\ cw.len > 0 =>
        cw.page = "risk" /\ \E c \in Crises, n \in Lengths : Viewport(c[1], c[2], n)[2] = 0

\* Turning the wheel widens the window until everything is seen and narrows it
\* down to the fewest points.  The point under the pointer, at p of the plot, is
\* moved by no more than a half and the share of the points won or lost by which
\* the handler's ratio q is off p, unless the window meets an end of the data.
ZoomMoves ==
    Listens /\ Seen > 0 => \A out \in BOOLEAN, p, q \in Ratios :
        LET w == Zoomed(<<cw.start, cw.end>>, out, q, cw.len)
            size == w[2] - w[1]
            moved == Halves * (w[1] - cw.start) + p * (size - Seen)
            off == (p - q) * (size - Seen)
        IN  /\ IF out THEN size > Seen \/ size = cw.len \/ Seen < MinVisible
               ELSE size < Seen \/ size = MinVisible
            /\ 2 * Abs(moved) <= Halves + 2 * Abs(off) \/ w[1] = 0 \/ w[2] = cw.len

\* The highlighted range is the one shown, until the user moves the window -- and
\* until the chart begins again by itself, when it shows everything and the tab
\* goes on highlighting the range (new data, an error, the overview and back).
RangeIsShown ==
    cw.page \in {"risk", "indicators"} /\ cw.len > 0 /\ ~cw.user /\ ~cw.redone =>
        <<cw.start, cw.end>> = WindowOf(cw.page, cw.range, cw.len)

\* A window follows the pointer only while the button is held, or was released
\* over a chart that had no handlers at that moment (data of a few points only).
DragIsHeld == cw.drag.active => cw.button \/ cw.missed

\* Every mark lies in the window; the legend counts the marks that are drawn,
\* but for order blocks (inactive ones are counted) and entry zones; a zone covers the points
\* between its dates; the first point has a label and no more than asked have;
\* and the axis holds every price drawn with room to spare, unless all of them
\* are equal (the axis of prices is then empty, and nothing is drawn).
PlotIsTrue ==
    cw.page = "price" /\ Seen > 0 /\ cw.len > 0 =>
        /\ \A s \in {m \in Signs : SignDrawn(m)} :
            LET w == SignSpan(s) IN 0 <= w[1] /\ w[1] <= w[2] /\ w[2] < Seen
        /\ \A kind \in {"FVG", "BOS", "CHoCH"} :
            LegendCount(kind) = Cardinality({s \in Signs : s.kind = kind /\ SignDrawn(s)})
        /\ 0 \in Labels(8) /\ Cardinality(Labels(8)) <= 8 /\ Cardinality(Labels(10)) <= 10
        /\ Thumb[1] + Thumb[2] <= 100
        /\ \A from \in SeenDates : \A to \in {d \in SeenDates : d > from} :
            ZoneDrawn(from, to) = <<Place(from), Place(to)>>
        /\ \A ema, candles \in BOOLEAN :
            LET axis == PriceAxis(ema, candles)
                v == Drawn(ema, candles)
            IN  \/ Cardinality(v) = 1
                \/ \A p \in v : axis[1] < 20 * p /\ 20 * p < axis[2]
        /\ \A bars \in BOOLEAN :
            LET v == {Bars[d].close : d \in SeenDates}
                axis == SeriesAxis(v, bars, {})
            IN  \A p \in v \cup (IF bars THEN {0} ELSE {}) :
                    axis[1] < 20 * p /\ 20 * p < axis[2]

ChartIsTrue == WindowInData /\ ZoomMoves /\ RangeIsShown /\ DragIsHeld /\ PlotIsTrue

=============================================================================
