----------------------------- MODULE Employment ------------------------------
(***************************************************************************)
(* POST /api/employment/indicators (handler/employment.go): the figure of  *)
(* a month is stored, or revised, in up to three statements that commit    *)
(* one by one.  Requests interleave between statements, and with whatever  *)
(* else writes the table.                                                  *)
(***************************************************************************)
EXTENDS Integers, FiniteSets

CONSTANTS
    Month,       \* reference periods of one indicator
    Value,       \* figures
    Change,      \* changes from the month before
    Null,
    Post,        \* requests
    None

VARIABLES
    indicators,  \* the table economic_indicators
    revisions,   \* the table economic_indicator_revisions
    input,       \* what each request carries, None for a request that is not made
    stage,       \* the statement it has reached, or its answer
    existing,    \* the row it has read
    irregular,   \* months whose count has fallen behind, for the properties
    touched      \* months changed since a batch run compared them (see Batch)

postVars == <<revisions, input, stage, existing, irregular>>

Row == [value: Value \cup {Null}, change: Change \cup {Null}, count: Nat]
Input == [month: Month, value: Value \cup {Null}, change: Change \cup {Null}]
Revision == [month: Month, number: Nat, value: Value]

ASSUME NullIsNoFigure == Value \subseteq Int /\ Change \subseteq Int /\ Null \notin Int
ASSUME NoneIsNothing == None \notin Month \cup Row \cup Input

EmploymentTypeOK ==
    /\ indicators \in [Month -> Row \cup {None}]
    /\ revisions \subseteq Revision
    /\ input \in [Post -> Input \cup {None}]
    /\ stage \in [Post -> {"idle", "insert", "initial", "revise", "update", "ok", "failed"}]
    /\ existing \in [Post -> Row \cup {None}]
    /\ irregular \subseteq Month

EmploymentInit ==
    /\ input \in [Post -> Input \cup {None}]
    /\ indicators = [m \in Month |-> None] /\ revisions = {}
    /\ stage = [p \in Post |-> "idle"] /\ existing = [p \in Post |-> None]
    /\ irregular = {}

-----------------------------------------------------------------------------

Goto(p, s) == stage' = [stage EXCEPT ![p] = s]
Answer(p, a) == Goto(p, a) /\ existing' = [existing EXCEPT ![p] = None]
MonthOf(p) == input[p].month

\* The value counts as revised when both are given and differ.
Revised(p, row) == input[p].value # Null /\ row.value # Null /\ input[p].value # row.value

\* (indicator_id, revision_number) is unique, and value is NOT NULL.
Insertable(m, n, v) == v # Null /\ \A r \in revisions : r.month = m => r.number # n
NewRevision(m, n, v) == revisions' = revisions \cup {[month |-> m, number |-> n, value |-> v]}

\* A statement that changes the row of a month, noted for the batch runs under way.
Touch(m) == touched' = [b \in DOMAIN touched |-> touched[b] \cup {m}]

FindExistingIndicator(p) ==
    /\ stage[p] = "idle" /\ input[p] # None
    /\ LET row == indicators[MonthOf(p)]
       IN  \/ /\ existing' = [existing EXCEPT ![p] = row]
              /\ Goto(p, IF row = None THEN "insert" ELSE IF Revised(p, row) THEN "revise" ELSE "update")
           \/ Answer(p, "failed")
    /\ UNCHANGED <<indicators, revisions, input, irregular, touched>>

\* (indicator, reference_period) is unique.  A statement may commit and be
\* reported as failed all the same, here and below: its request is answered 500.
InsertIndicator(p) ==
    LET m == MonthOf(p)
    IN  /\ stage[p] = "insert"
        /\ \/ /\ indicators[m] = None
              /\ indicators' = [indicators EXCEPT ![m] =
                                  [value |-> input[p].value, change |-> input[p].change, count |-> 0]]
              /\ Touch(m)
              /\ Goto(p, "initial") \/ Goto(p, "failed")
           \/ Goto(p, "failed") /\ UNCHANGED <<indicators, touched>>
        /\ UNCHANGED <<revisions, input, existing, irregular>>

\* Revision 0, whose error is ignored.
InsertInitialRevision(p) ==
    /\ stage[p] = "initial"
    /\ \/ Insertable(MonthOf(p), 0, input[p].value) /\ NewRevision(MonthOf(p), 0, input[p].value)
       \/ UNCHANGED revisions
    /\ Goto(p, "ok")
    /\ UNCHANGED <<indicators, input, existing, irregular, touched>>

\* Mutant of InsertRevision: its error is ignored here too.
InsertRevisionIfPossible(p) ==
    LET n == existing[p].count + 1
    IN  /\ stage[p] = "revise"
        /\ \/ Insertable(MonthOf(p), n, input[p].value) /\ NewRevision(MonthOf(p), n, input[p].value)
           \/ UNCHANGED revisions
        /\ Goto(p, "update")
        /\ UNCHANGED <<indicators, input, existing, irregular, touched>>

InsertRevision(p) ==
    LET n == existing[p].count + 1
    IN  /\ stage[p] = "revise"
        /\ \/ /\ Insertable(MonthOf(p), n, input[p].value)
              /\ NewRevision(MonthOf(p), n, input[p].value)
              /\ \/ Goto(p, "update") /\ UNCHANGED <<existing, irregular>>
                 \/ Answer(p, "failed") /\ irregular' = irregular \cup {MonthOf(p)}
           \/ Answer(p, "failed") /\ UNCHANGED <<revisions, irregular>>
        /\ UNCHANGED <<indicators, input, touched>>

\* Mutant of CountAfter: the count that was read is written back.
CountAsRead(p) == existing[p].count

CountAfter(p) == IF Revised(p, existing[p]) THEN existing[p].count + 1 ELSE existing[p].count

\* The UPDATE names the row by id alone, whatever its count is by now.
UpdateIndicator(p) ==
    LET m == MonthOf(p)
        count == CountAfter(p)
        behind == IF Revised(p, existing[p]) THEN {m} ELSE {}
    IN  /\ stage[p] = "update"
        /\ \/ /\ indicators' = [indicators EXCEPT ![m] =
                                  [value |-> input[p].value, change |-> input[p].change, count |-> count]]
              /\ irregular' = IF indicators[m].count > existing[p].count THEN irregular \cup {m} ELSE irregular
              /\ Touch(m)
              /\ Answer(p, "ok") \/ Answer(p, "failed")
           \/ Answer(p, "failed") /\ irregular' = irregular \cup behind /\ UNCHANGED <<indicators, touched>>
        /\ UNCHANGED <<revisions, input>>

UpsertIndicator(p) ==
    \/ FindExistingIndicator(p) \/ InsertIndicator(p) \/ InsertInitialRevision(p)
    \/ InsertRevision(p) \/ UpdateIndicator(p)

-----------------------------------------------------------------------------

\* The revisions of a month are numbered without gaps, whatever fails or
\* overlaps: a revision follows on the one before.
RevisionsWithoutGaps ==
    \A r \in revisions : r.number > 1 =>
        \E q \in revisions : q.month = r.month /\ q.number = r.number - 1

\* A month can be revised again once the requests about it are answered: the
\* number after its count is free.  The three ways in which it ceases to be are
\* a revision that was inserted although the INSERT was reported as failed, an
\* UPDATE that failed after its revision was inserted, and one that wrote an
\* older count over a newer.
NextNumberIsFree ==
    \A m \in Month \ irregular :
        indicators[m] # None /\ (\A p \in Post : stage[p] = "update" => MonthOf(p) # m)
          => \A r \in revisions : r.month = m => r.number <= indicators[m].count
=============================================================================
