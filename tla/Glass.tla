-------------------------------- MODULE Glass --------------------------------
(***************************************************************************)
(* The small components the pages share to show a score (frontend          *)
(* components/shared/glass.tsx).                                           *)
(***************************************************************************)
EXTENDS Integers

\* scoreLabel, and the colours of scoreHue and scoreBarClass, which have the same limits.
scoreLabel(score) ==
    IF score < 30 THEN "safe" ELSE IF score < 50 THEN "attention"
    ELSE IF score < 70 THEN "caution" ELSE "danger"

\* How much of a ring or a bar is filled; not held at zero.
ScoreRing(score) == [fill |-> IF score > 100 THEN 100 ELSE score, hue |-> scoreLabel(score)]

\* The limits the legend beside the rings names.
ScoreLegend == [safe |-> 0..29, attention |-> 30..49, caution |-> 50..69, danger |-> 70..100]

=============================================================================
