------------------------------- MODULE Batch ---------------------------------
(***************************************************************************)
(* The batch jobs that store the employment figures of FRED (batch/run.py, *)
(* batch/db.py): a run fetches the months from some month on, compares     *)
(* them with the table, records the revisions in data_revisions and        *)
(* upserts the rows page by page, each statement committing by itself.     *)
(* A run may fail or be killed anywhere; runs overlap one another and the  *)
(* requests of Employment, which write the same table.                     *)
(***************************************************************************)
EXTENDS Employment

CONSTANTS
    Run,
    Figures      \* what FRED may publish at a time: functions from Month to Value or Null

VARIABLES
    begins,         \* the first month a run fetches, None for a run that is not made
    at,             \* the step a run has reached
    fetched,        \* its rows, by month
    detected,       \* the revisions it has found
    written,        \* the months it has upserted
    dataRevisions,  \* the table data_revisions
    batchLogs       \* the status of a run in batch_logs

batchVars == <<begins, at, fetched, detected, written, dataRevisions, batchLogs>>
vars == <<indicators, postVars, touched, batchVars>>

ASSUME MonthsInOrder == Month \subseteq Int
ASSUME FiguresByMonth == Figures \subseteq [Month -> Value \cup {Null}]
ASSUME Differences == \A v, w \in Value : v - w \in Change

DataRevision == [run: Run, month: Month, column: {"value", "change"}, old: Int, new: Int]
Figure == [value: Value \cup {Null}, change: Change \cup {Null}]
Status == {"running", "success", "error"}

ASSUME NoneIsNoFigure == None \notin Figure \cup Status

TypeOK ==
    /\ EmploymentTypeOK
    /\ touched \in [Run -> SUBSET Month]
    /\ begins \in [Run -> Month \cup {None}]
    /\ at \in [Run -> {"idle", "fetch", "detect", "save", "write", "finish", "error", "done", "failed"}]
    /\ fetched \in [Run -> [Month -> Figure \cup {None}]]
    /\ detected \in [Run -> SUBSET DataRevision] /\ dataRevisions \subseteq DataRevision
    /\ written \in [Run -> SUBSET Month]
    /\ batchLogs \in [Run -> Status \cup {None}]

NoRows == [m \in Month |-> None]

Init ==
    /\ EmploymentInit
    /\ touched = [b \in Run |-> {}]
    /\ begins \in [Run -> Month \cup {None}]
    /\ at = [b \in Run |-> "idle"]
    /\ fetched = [b \in Run |-> NoRows]
    /\ detected = [b \in Run |-> {}] /\ written = [b \in Run |-> {}]
    /\ dataRevisions = {} /\ batchLogs = [b \in Run |-> None]

-----------------------------------------------------------------------------

GoOn(b, s) == at' = [at EXCEPT ![b] = s]
Log(b, s) == batchLogs' = [batchLogs EXCEPT ![b] = s]

\* _log_start, whose error is swallowed: such a run has no row.
LogStart(b) ==
    /\ at[b] = "idle" /\ begins[b] # None
    /\ Log(b, "running") \/ UNCHANGED batchLogs
    /\ GoOn(b, "fetch")
    /\ UNCHANGED <<indicators, postVars, touched, begins, fetched, detected, written, dataRevisions>>

\* The last month before m that FRED gave a figure for, among those fetched, if any.
Previous(src, from, m) ==
    LET known == {q \in Month : from <= q /\ q < m /\ src[q] # Null}
    IN  {q \in known : \A o \in known : o <= q}

ChangeFrom(src, previous, m) ==
    IF src[m] = Null \/ previous = {} THEN Null ELSE src[m] - src[CHOOSE q \in previous : TRUE]

\* The rows of fetch_employment_indicators: nfp_change is computed from the
\* months that were fetched, so that the first has none.
RowsFrom(src, from) ==
    [m \in Month |->
        IF m < from THEN None
        ELSE [value |-> src[m], change |-> ChangeFrom(src, Previous(src, from, m), m)]]

Fetch(b) ==
    /\ at[b] = "fetch"
    /\ \E src \in Figures : fetched' = [fetched EXCEPT ![b] = RowsFrom(src, begins[b])]
    /\ GoOn(b, "detect")
    /\ UNCHANGED <<indicators, postVars, touched, begins, detected, written, dataRevisions, batchLogs>>

\* Mutant of Differs: only upward revisions.
Exceeds(old, new) == old # Null /\ new # Null /\ new > old

\* A missing value on either side is no revision.
Differs(old, new) == old # Null /\ new # Null /\ new # old

RevisionsOf(b, m, row, new) ==
    LET record(c) == [run |-> b, month |-> m, column |-> c, old |-> row[c], new |-> new[c]]
    IN  {record(c) : c \in {d \in {"value", "change"} : Differs(row[d], new[d])}}

\* _detect_revisions: one SELECT, then the comparison.
DetectRevisions(b) ==
    /\ at[b] = "detect"
    /\ detected' = [detected EXCEPT ![b] =
          UNION {RevisionsOf(b, m, indicators[m], fetched[b][m]) :
                   m \in {n \in Month : fetched[b][n] # None /\ indicators[n] # None}}]
    /\ touched' = [touched EXCEPT ![b] = {}]
    /\ GoOn(b, "save")
    /\ UNCHANGED <<indicators, postVars, begins, fetched, written, dataRevisions, batchLogs>>

\* _save_revisions.
SaveRevisions(b) ==
    /\ at[b] = "save"
    /\ dataRevisions' = dataRevisions \cup detected[b]
    /\ detected' = [detected EXCEPT ![b] = {}]
    /\ GoOn(b, "write")
    /\ UNCHANGED <<indicators, postVars, touched, begins, fetched, written, batchLogs>>

\* Mutant of Unwritten: the last page is not sent.
UnwrittenButLast(b) == {m \in Month : fetched[b][m] # None /\ m \notin written[b]
                                        /\ \E q \in Month : q > m}

Unwritten(b) == {m \in Month : fetched[b][m] # None /\ m \notin written[b]}

\* Mutant of Upserted: the column revision_count has no default.
UpsertedUncounted(row, new) ==
    IF row = None THEN [value |-> new.value, change |-> new.change, count |-> Null]
                  ELSE [row EXCEPT !.value = new.value, !.change = new.change]

\* What the upsert makes of a row: the columns of the batch, and no others.
Upserted(row, new) ==
    IF row = None THEN [value |-> new.value, change |-> new.change, count |-> 0]
                  ELSE [row EXCEPT !.value = new.value, !.change = new.change]

\* A page of _upsert_batch: the earliest month that is left.
UpsertPage(b) ==
    \E m \in Unwritten(b) :
        /\ at[b] = "write" /\ \A o \in Unwritten(b) : m <= o
        /\ indicators' = [indicators EXCEPT ![m] = Upserted(@, fetched[b][m])]
        /\ written' = [written EXCEPT ![b] = @ \cup {m}]
        /\ touched' = [c \in Run |-> IF c = b THEN touched[c] ELSE touched[c] \cup {m}]
        /\ UNCHANGED <<postVars, begins, at, fetched, detected, dataRevisions, batchLogs>>

AllUpserted(b) ==
    /\ at[b] = "write" /\ Unwritten(b) = {}
    /\ GoOn(b, "finish")
    /\ UNCHANGED <<indicators, postVars, touched, begins, fetched, detected, written, dataRevisions, batchLogs>>

\* An exception of the service or of a statement, which the run does not survive.
Raise(b) ==
    /\ at[b] \in {"fetch", "detect", "save", "write"}
    /\ fetched' = [fetched EXCEPT ![b] = NoRows]
    /\ detected' = [detected EXCEPT ![b] = {}]
    /\ GoOn(b, "error")
    /\ UNCHANGED <<indicators, postVars, touched, begins, written, dataRevisions, batchLogs>>

\* _log_finish, for a run that has a row; its error is swallowed too.
LogFinish(b) ==
    /\ at[b] \in {"finish", "error"}
    /\ \/ batchLogs[b] # None /\ Log(b, IF at[b] = "finish" THEN "success" ELSE "error")
       \/ UNCHANGED batchLogs
    /\ GoOn(b, IF at[b] = "finish" THEN "done" ELSE "failed")
    /\ UNCHANGED <<indicators, postVars, touched, begins, fetched, detected, written, dataRevisions>>

\* A run that is killed takes no further step; Spec obliges none to.
RunBatch(b) ==
    \/ LogStart(b) \/ Fetch(b) \/ DetectRevisions(b) \/ SaveRevisions(b)
    \/ UpsertPage(b) \/ AllUpserted(b) \/ Raise(b) \/ LogFinish(b)

Next ==
    \/ \E p \in Post : UpsertIndicator(p) /\ UNCHANGED batchVars
    \/ \E b \in Run : RunBatch(b)

Spec == Init /\ [][Next]_vars

-----------------------------------------------------------------------------

Recorded(b, m, c, old, new) ==
    [run |-> b, month |-> m, column |-> c, old |-> old, new |-> new] \in dataRevisions

\* What a run's upsert changes from one value to another is in data_revisions,
\* with the value that is replaced, unless somebody changed the row after the
\* run had compared it.
NoSilentRevision ==
    [][\A b \in Run, m \in Month, c \in {"value", "change"} :
          /\ m \in written'[b] \ written[b]
          /\ indicators[m] # None /\ m \notin touched[b]
          /\ indicators[m][c] # Null /\ indicators'[m][c] \notin {Null, indicators[m][c]}
          => Recorded(b, m, c, indicators[m][c], indicators'[m][c])]_vars

\* "If the value has changed, it is recorded in data_revisions": so is, in
\* particular, the change of a month that loses it while its value is given.
EveryChangeRecorded ==
    [][\A b \in Run, m \in Month :
          /\ m \in written'[b] \ written[b]
          /\ indicators[m] # None /\ m \notin touched[b]
          /\ indicators'[m].value # Null
          /\ indicators[m].change # Null /\ indicators'[m].change # indicators[m].change
          => \E r \in dataRevisions : r.run = b /\ r.month = m /\ r.column = "change"]_vars

\* A run that is logged as a success has left what it fetched in the table, but
\* for months that somebody changed after it had compared them.
SuccessMeansStored ==
    \A b \in Run : batchLogs[b] = "success" =>
        \A m \in Month : fetched[b][m] # None /\ m \notin touched[b] =>
            /\ indicators[m] # None
            /\ indicators[m].value = fetched[b][m].value
            /\ indicators[m].change = fetched[b][m].change
=============================================================================
