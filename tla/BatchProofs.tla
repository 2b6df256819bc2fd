----------------------------- MODULE BatchProofs -----------------------------
(***************************************************************************)
(* Proofs about Batch and Employment, for any months, figures, requests    *)
(* and runs: how revisions are numbered, which of them a run records, and  *)
(* what a run logged as a success has left.                                *)
(***************************************************************************)
EXTENDS Batch, TLAPS

HasRevisions(m, n) == \A k \in 1 .. n : \E r \in revisions : r.month = m /\ r.number = k

\* The revisions that a row counts are there, and a month without a row has none.
Counted ==
    \A m \in Month :
        IF indicators[m] = None THEN \A r \in revisions : r.month # m
                                ELSE HasRevisions(m, indicators[m].count)

\* What a request that has found a row knows.
Knows(p) ==
    /\ existing[p] # None /\ indicators[MonthOf(p)] # None
    /\ HasRevisions(MonthOf(p), existing[p].count)
    /\ MonthOf(p) \notin irregular => existing[p].count <= indicators[MonthOf(p)].count

InProgress ==
    \A p \in Post :
        /\ stage[p] # "idle" => input[p] # None
        /\ stage[p] = "initial" => indicators[MonthOf(p)] # None
        /\ stage[p] \in {"revise", "update"} => Knows(p)
        /\ stage[p] = "revise" => Revised(p, existing[p])
        /\ stage[p] = "update" /\ Revised(p, existing[p])
             => HasRevisions(MonthOf(p), existing[p].count + 1)

\* The number after the count of a month is free, or taken by a request that is
\* about to count it.
Counting(m) ==
    \E p \in Post : /\ stage[p] = "update" /\ MonthOf(p) = m
                    /\ Revised(p, existing[p]) /\ existing[p].count = indicators[m].count

FreeOrCounting ==
    \A m \in Month \ irregular : indicators[m] # None =>
        \A r \in revisions : r.month = m =>
            \/ r.number <= indicators[m].count
            \/ r.number = indicators[m].count + 1 /\ Counting(m)

PostInv == Counted /\ InProgress /\ FreeOrCounting /\ RevisionsWithoutGaps

\* What a run has written is in the table, but for what others changed since.
Stored ==
    \A b \in Run :
        /\ at[b] \in {"idle", "fetch", "detect", "save"} => written[b] = {}
        /\ batchLogs[b] = "success" => at[b] = "done"
        /\ at[b] \in {"finish", "done"} => Unwritten(b) = {}
        /\ \A m \in written[b] : fetched[b][m] # None /\ m \notin touched[b] =>
              /\ indicators[m] # None
              /\ indicators[m].value = fetched[b][m].value
              /\ indicators[m].change = fetched[b][m].change

\* What a run is about to change, it has found or recorded.
Compared ==
    \A b \in Run : \A m \in Month \ (touched[b] \cup written[b]) :
        fetched[b][m] # None /\ indicators[m] # None =>
            /\ at[b] = "save" => RevisionsOf(b, m, indicators[m], fetched[b][m]) \subseteq detected[b]
            /\ at[b] = "write" => RevisionsOf(b, m, indicators[m], fetched[b][m]) \subseteq dataRevisions

\* The inductive invariant.
IInv == TypeOK /\ PostInv /\ Stored /\ Compared

LEMMA InitInv == Init => IInv
<1> SUFFICES ASSUME Init PROVE IInv
  OBVIOUS
<1> USE DEF Init, EmploymentInit, NoRows
<1>1. TypeOK
  BY DEF TypeOK, EmploymentTypeOK
<1>2. Counted /\ InProgress /\ FreeOrCounting /\ RevisionsWithoutGaps
  BY DEF Counted, InProgress, FreeOrCounting, RevisionsWithoutGaps
<1>3. Stored
  <2>1. \A b \in Run : at[b] = "idle" /\ written[b] = {} /\ batchLogs[b] = None
    OBVIOUS
  <2>2. None # "success"
    BY NoneIsNoFigure DEF Status
  <2> QED
    BY <2>1, <2>2 DEF Stored
<1>4. Compared
  BY DEF Compared
<1> QED
  BY <1>1, <1>2, <1>3, <1>4 DEF IInv, PostInv

-----------------------------------------------------------------------------
(* Requests.  Whatever they write, they touch for every run.               *)

LEMMA TouchedIsEnough ==
    ASSUME Stored, Compared, TypeOK, UNCHANGED batchVars,
           touched' \in [Run -> SUBSET Month],
           \A b \in Run : touched[b] \subseteq touched'[b],
           \A m \in Month : indicators'[m] # indicators[m] => \A b \in Run : m \in touched'[b]
    PROVE  Stored' /\ Compared'
<1> USE DEF batchVars
<1>1. Stored'
  <2> SUFFICES ASSUME NEW b \in Run PROVE Stored!(b)'
    BY DEF Stored
  <2>1. Unwritten(b)' = Unwritten(b)
    BY DEF Unwritten
  <2>2. written[b] \subseteq Month
    BY DEF TypeOK
  <2> QED
    BY <2>1, <2>2 DEF Stored
<1>2. Compared'
  BY DEF Compared, RevisionsOf
<1> QED
  BY <1>1, <1>2

LEMMA PostTouches ==
    ASSUME IInv, NEW p \in Post, UpsertIndicator(p)
    PROVE  touched' \in [Run -> SUBSET Month] /\ \A b \in Run : touched[b] \subseteq touched'[b]
<1>1. CASE UNCHANGED touched
  BY <1>1 DEF IInv, TypeOK
<1>2. CASE Touch(MonthOf(p)) /\ stage[p] # "idle"
  <2>1. input[p] \in Input
    BY <1>2 DEF IInv, PostInv, InProgress, TypeOK, EmploymentTypeOK
  <2> QED
    BY <1>2, <2>1 DEF Touch, MonthOf, Input, IInv, TypeOK
<1> QED
  BY <1>1, <1>2 DEF UpsertIndicator, FindExistingIndicator, InsertIndicator,
       InsertInitialRevision, InsertRevision, UpdateIndicator

LEMMA PostKeepsRuns ==
    ASSUME IInv, NEW p \in Post, UpsertIndicator(p), UNCHANGED batchVars
    PROVE  Stored' /\ Compared'
<1>2. \A m \in Month : indicators'[m] # indicators[m] => \A b \in Run : m \in touched'[b]
  BY DEF UpsertIndicator, FindExistingIndicator, InsertIndicator, InsertInitialRevision,
       InsertRevision, UpdateIndicator, Touch, IInv, TypeOK, EmploymentTypeOK
<1> QED
  BY <1>2, PostTouches, TouchedIsEnough DEF IInv

LEMMA PostKeepsType ==
    ASSUME TypeOK, NEW p \in Post, UpsertIndicator(p), UNCHANGED batchVars,
           InProgress, touched' \in [Run -> SUBSET Month]
    PROVE  TypeOK'
<1>1. input[p] \in Input /\ MonthOf(p) \in Month
  BY NoneIsNothing DEF InProgress, UpsertIndicator, FindExistingIndicator, InsertIndicator,
       InsertInitialRevision, InsertRevision, UpdateIndicator, Input, MonthOf, TypeOK, EmploymentTypeOK
<1>2. input[p].value \in Value \cup {Null} /\ input[p].change \in Change \cup {Null}
  BY <1>1 DEF Input
<1>3. stage[p] \in {"revise", "update"} => existing[p] \in Row /\ existing[p].count \in Nat
  BY DEF InProgress, Knows, Row, TypeOK, EmploymentTypeOK
<1>4. indicators' \in [Month -> Row \cup {None}]
  <2>1. [value |-> input[p].value, change |-> input[p].change, count |-> 0] \in Row
    BY <1>2 DEF Row
  <2>2. stage[p] = "update" =>
          [value |-> input[p].value, change |-> input[p].change, count |-> CountAfter(p)] \in Row
    BY <1>2, <1>3 DEF CountAfter, Row
  <2> QED
    BY <1>1, <2>1, <2>2 DEF UpsertIndicator, FindExistingIndicator, InsertIndicator,
         InsertInitialRevision, InsertRevision, UpdateIndicator, TypeOK, EmploymentTypeOK
<1>5. revisions' \subseteq Revision
  <2>1. 0 \in Nat /\ (stage[p] = "revise" => existing[p].count + 1 \in Nat)
    BY <1>3
  <2> QED
    BY <1>1, <1>2, <2>1 DEF UpsertIndicator, FindExistingIndicator, InsertIndicator,
         InsertInitialRevision, InsertRevision, UpdateIndicator, Insertable, NewRevision, Revision,
         TypeOK, EmploymentTypeOK
<1>6. input' = input /\ irregular' \subseteq Month
  BY <1>1 DEF UpsertIndicator, FindExistingIndicator, InsertIndicator,
       InsertInitialRevision, InsertRevision, UpdateIndicator, TypeOK, EmploymentTypeOK
<1>7. stage' \in [Post -> {"idle", "insert", "initial", "revise", "update", "ok", "failed"}]
  BY DEF UpsertIndicator, FindExistingIndicator, InsertIndicator, InsertInitialRevision,
       InsertRevision, UpdateIndicator, Goto, Answer, TypeOK, EmploymentTypeOK
<1>8. existing' \in [Post -> Row \cup {None}]
  BY <1>1 DEF UpsertIndicator, FindExistingIndicator, InsertIndicator, InsertInitialRevision,
       InsertRevision, UpdateIndicator, Answer, TypeOK, EmploymentTypeOK
<1>9. EmploymentTypeOK'
  BY <1>4, <1>5, <1>6, <1>7, <1>8 DEF TypeOK, EmploymentTypeOK
<1> QED
  BY <1>9 DEF TypeOK, batchVars

LEMMA FindKeeps == ASSUME IInv, NEW p \in Post, FindExistingIndicator(p), TypeOK' PROVE PostInv'
<1> USE DEF IInv, PostInv
<1>0. input[p] \in Input /\ MonthOf(p) \in Month
  BY NoneIsNothing DEF FindExistingIndicator, Input, MonthOf, TypeOK, EmploymentTypeOK
<1>1. Counted' /\ RevisionsWithoutGaps'
  BY DEF FindExistingIndicator, Counted, HasRevisions, RevisionsWithoutGaps
<1>2. InProgress'
  <2> SUFFICES ASSUME NEW q \in Post PROVE InProgress!(q)'
    BY DEF InProgress
  <2>1. CASE q # p
    <3>1. stage'[q] = stage[q] /\ existing'[q] = existing[q]
      BY <2>1 DEF FindExistingIndicator, Goto, Answer, TypeOK, EmploymentTypeOK
    <3> QED
      BY <3>1 DEF InProgress, FindExistingIndicator, Knows, HasRevisions, MonthOf, Revised
  <2>2. CASE q = p /\ stage'[p] \in {"revise", "update"}
    <3>1. /\ existing'[p] = indicators[MonthOf(p)] /\ existing'[p] # None
          /\ stage'[p] = "revise" <=> Revised(p, existing'[p])
      BY <2>2 DEF FindExistingIndicator, Goto, Answer, TypeOK, EmploymentTypeOK
    <3>2. HasRevisions(MonthOf(p), existing'[p].count)
      BY <1>0, <3>1 DEF Counted
    <3>3. existing'[p].count \in Nat
      BY <1>0, <3>1 DEF Row, TypeOK, EmploymentTypeOK
    <3> QED
      BY <2>2, <3>1, <3>2, <3>3 DEF FindExistingIndicator, Knows, HasRevisions, MonthOf, Revised
  <2>3. CASE q = p /\ stage'[p] \in {"insert", "failed"}
    BY <2>3 DEF FindExistingIndicator
  <2>4. stage'[p] \in {"revise", "update", "insert", "failed"}
    BY DEF FindExistingIndicator, Goto, Answer, TypeOK, EmploymentTypeOK
  <2> QED
    BY <2>1, <2>2, <2>3, <2>4
<1>3. FreeOrCounting'
  <2>1. \A m \in Month : Counting(m) => Counting(m)'
    BY ZenonT(60) DEF Counting, FindExistingIndicator, Goto, Answer, Revised, MonthOf, TypeOK, EmploymentTypeOK
  <2> QED
    BY <2>1 DEF FreeOrCounting, FindExistingIndicator
<1> QED
  BY <1>1, <1>2, <1>3

LEMMA InsertKeeps == ASSUME IInv, NEW p \in Post, InsertIndicator(p), TypeOK' PROVE PostInv'
<1> USE DEF IInv, PostInv
<1> DEFINE m == MonthOf(p)
<1>0. input[p] \in Input /\ m \in Month
  BY NoneIsNothing DEF InsertIndicator, InProgress, Input, MonthOf, TypeOK, EmploymentTypeOK
<1>1. \A n \in Month : \/ indicators'[n] = indicators[n]
                       \/ n = m /\ indicators[n] = None /\ indicators'[n] # None /\ indicators'[n].count = 0
  <2> DEFINE row == [value |-> input[p].value, change |-> input[p].change, count |-> 0]
  <2>1. row # None /\ row.count = 0
    <3>1. row \in Row
      BY <1>0 DEF Input, Row
    <3> QED
      BY <3>1, NoneIsNothing
  <2>2. \/ indicators' = indicators
        \/ indicators[m] = None /\ indicators' = [indicators EXCEPT ![m] = row]
    BY DEF InsertIndicator
  <2>3. indicators \in [Month -> Row \cup {None}]
    BY DEF TypeOK, EmploymentTypeOK
  <2>4. CASE indicators' = indicators
    BY <2>4
  <2>5. CASE indicators[m] = None /\ indicators' = [indicators EXCEPT ![m] = row]
    <3>1. indicators'[m] = row
      BY <1>0, <2>3, <2>5
    <3>2. \A n \in Month : n # m => indicators'[n] = indicators[n]
      BY <2>3, <2>5
    <3> QED
      BY <2>1, <2>5, <3>1, <3>2
  <2> QED
    BY <2>2, <2>4, <2>5
<1>2. Counted' /\ RevisionsWithoutGaps'
  BY <1>1 DEF InsertIndicator, Counted, HasRevisions, RevisionsWithoutGaps
<1>3. InProgress'
  <2> SUFFICES ASSUME NEW q \in Post PROVE InProgress!(q)'
    BY DEF InProgress
  <2>1. CASE q # p
    <3>1. stage'[q] = stage[q] /\ existing'[q] = existing[q] /\ input' = input
          /\ irregular' = irregular /\ revisions' = revisions
      BY <2>1 DEF InsertIndicator, Goto, TypeOK, EmploymentTypeOK
    <3>2. stage[q] # "idle" => MonthOf(q) \in Month
      BY NoneIsNothing DEF InProgress, MonthOf, Input, TypeOK, EmploymentTypeOK
    <3>3. /\ MonthOf(q)' = MonthOf(q)
          /\ Revised(q, existing[q])' <=> Revised(q, existing[q])
          /\ \A k : HasRevisions(MonthOf(q), k)' <=> HasRevisions(MonthOf(q), k)
      BY <3>1 DEF MonthOf, Revised, HasRevisions
    <3>4. stage[q] # "idle" /\ indicators[MonthOf(q)] # None =>
            indicators'[MonthOf(q)] = indicators[MonthOf(q)]
      BY <1>1, <3>2
    <3>5. Knows(q) /\ stage[q] # "idle" => Knows(q)'
      BY <3>1, <3>3, <3>4 DEF Knows, HasRevisions
    <3> QED
      BY <3>1, <3>3, <3>4, <3>5 DEF InProgress, HasRevisions
  <2>2. CASE q = p
    <3>1. CASE Goto(p, "failed")
      <4>1. stage'[p] = "failed"
        BY <3>1 DEF Goto, TypeOK, EmploymentTypeOK
      <4> QED
        BY <2>2, <4>1, <1>0, NoneIsNothing DEF InsertIndicator, InProgress, MonthOf
    <3>2. CASE Goto(p, "initial") /\ m \in DOMAIN indicators /\ indicators'[m] # None
      <4>1. stage'[p] = "initial"
        BY <3>2 DEF Goto, TypeOK, EmploymentTypeOK
      <4> QED
        BY <2>2, <3>2, <4>1, <1>0, NoneIsNothing DEF InsertIndicator, InProgress, MonthOf
    <3>3. Goto(p, "initial") => m \in DOMAIN indicators /\ indicators'[m] # None
      <4> SUFFICES ASSUME Goto(p, "initial") PROVE m \in DOMAIN indicators /\ indicators'[m] # None
        OBVIOUS
      <4>1. stage'[p] # "failed"
        BY DEF Goto, TypeOK, EmploymentTypeOK
      <4>2. ~ Goto(p, "failed")
        BY <4>1 DEF Goto, TypeOK, EmploymentTypeOK
      <4> DEFINE row == [value |-> input[p].value, change |-> input[p].change, count |-> 0]
      <4>3. indicators' = [indicators EXCEPT ![m] = row]
        BY <4>2 DEF InsertIndicator
      <4>4. row \in Row
        BY <1>0 DEF Input, Row
      <4>5. indicators'[m] = row
        BY <1>0, <4>3 DEF TypeOK, EmploymentTypeOK
      <4> QED
        BY <1>0, <4>4, <4>5, NoneIsNothing DEF TypeOK, EmploymentTypeOK
    <3> QED
      BY <3>1, <3>2, <3>3 DEF InsertIndicator
  <2> QED
    BY <2>1, <2>2
<1>4. FreeOrCounting'
  <2> SUFFICES ASSUME NEW n \in Month \ irregular', indicators'[n] # None,
                      NEW r \in revisions', r.month = n
               PROVE  \/ r.number <= indicators'[n].count
                      \/ r.number = indicators'[n].count + 1 /\ Counting(n)'
    BY DEF FreeOrCounting
  <2>1. indicators'[n] = indicators[n] /\ indicators[n] # None
    BY <1>1 DEF InsertIndicator, Counted
  <2>2. Counting(n) => Counting(n)'
    BY <2>1 DEF Counting, InsertIndicator, Goto, Revised, MonthOf, TypeOK, EmploymentTypeOK
  <2> QED
    BY <2>1, <2>2 DEF FreeOrCounting, InsertIndicator
<1> QED
  BY <1>2, <1>3, <1>4

LEMMA InitialKeeps == ASSUME IInv, NEW p \in Post, InsertInitialRevision(p), TypeOK' PROVE PostInv'
<1> USE DEF IInv, PostInv
<1> DEFINE m == MonthOf(p)
<1>0. m \in Month /\ indicators[m] # None /\ input[p].value \in Value \cup {Null}
  BY NoneIsNothing DEF InsertInitialRevision, InProgress, Input, MonthOf, TypeOK, EmploymentTypeOK
<1>1. \A r \in revisions' : r \in revisions \/ (r.month = m /\ r.number = 0)
  BY DEF InsertInitialRevision, NewRevision
<1>2. revisions \subseteq revisions' /\ UNCHANGED <<indicators, input, existing, irregular>>
  BY DEF InsertInitialRevision, NewRevision
<1>3. Counted' /\ RevisionsWithoutGaps'
  BY <1>0, <1>1, <1>2 DEF Counted, HasRevisions, RevisionsWithoutGaps
<1>4. \A q \in Post : stage'[q] = stage[q] \/ (q = p /\ stage[p] = "initial" /\ stage'[p] = "ok")
  BY DEF InsertInitialRevision, Goto, TypeOK, EmploymentTypeOK
<1>5. InProgress'
  BY <1>2, <1>4 DEF InProgress, Knows, HasRevisions, MonthOf, Revised
<1>6. FreeOrCounting'
  <2>1. \A n \in Month : Counting(n) => Counting(n)'
    BY <1>2, <1>4 DEF Counting, MonthOf, Revised
  <2>2. \A n \in Month : indicators[n] # None => indicators[n].count >= 0
    BY DEF Row, TypeOK, EmploymentTypeOK
  <2> QED
    BY <1>1, <1>2, <2>1, <2>2 DEF FreeOrCounting
<1> QED
  BY <1>3, <1>5, <1>6

LEMMA ReviseKeeps == ASSUME IInv, NEW p \in Post, InsertRevision(p), TypeOK' PROVE PostInv'
<1> USE DEF IInv, PostInv
<1> DEFINE m == MonthOf(p)
           n == existing[p].count + 1
<1>0. /\ m \in Month /\ indicators[m] # None /\ stage[p] = "revise"
      /\ Knows(p) /\ Revised(p, existing[p]) /\ existing[p].count \in Nat /\ indicators[m].count \in Nat
  BY NoneIsNothing DEF InsertRevision, InProgress, Knows, Row, Input, MonthOf, TypeOK, EmploymentTypeOK
<1>1. UNCHANGED <<indicators, input>>
  BY DEF InsertRevision
<1>2. CASE NewRevision(m, n, input[p].value) /\ Goto(p, "update") /\ UNCHANGED <<existing, irregular>>
  <2>1. revisions \subseteq revisions'
        /\ \A r \in revisions' : r \in revisions \/ (r.month = m /\ r.number = n)
    BY <1>2 DEF NewRevision
  <2>2. \E r \in revisions' : r.month = m /\ r.number = n
    <3> DEFINE r0 == [month |-> m, number |-> n, value |-> input[p].value]
    <3>1. r0 \in revisions' /\ r0.month = m /\ r0.number = n
      BY <1>2 DEF NewRevision
    <3> QED
      BY <3>1
  <2>3. stage'[p] = "update" /\ \A q \in Post : q # p => stage'[q] = stage[q]
    BY <1>2 DEF Goto, TypeOK, EmploymentTypeOK
  <2>4. Counted'
    BY <1>0, <1>1, <2>1 DEF Counted, HasRevisions
  <2>5. RevisionsWithoutGaps'
    <3>1. n > 1 => \E r \in revisions : r.month = m /\ r.number = n - 1
      BY <1>0 DEF Knows, HasRevisions
    <3> QED
      BY <2>1, <3>1 DEF RevisionsWithoutGaps
  <2>6. HasRevisions(m, n)'
    <3> SUFFICES ASSUME NEW k \in 1 .. n PROVE \E r \in revisions' : r.month = m /\ r.number = k
      BY <1>0, <1>1, <1>2 DEF HasRevisions, MonthOf
    <3>1. CASE k = n
      BY <2>2, <3>1
    <3>2. CASE k # n
      <4>1. k \in 1 .. existing[p].count
        BY <1>0, <3>2
      <4> QED
        BY <1>0, <2>1, <4>1 DEF Knows, HasRevisions
    <3> QED
      BY <3>1, <3>2
  <2>7. \A q \in Post : Knows(q) => Knows(q)'
    BY <1>1, <1>2, <2>1 DEF Knows, HasRevisions, MonthOf
  <2>8. InProgress'
    BY <1>0, <1>1, <1>2, <2>1, <2>3, <2>6, <2>7 DEF InProgress, HasRevisions, MonthOf, Revised
  <2>9. FreeOrCounting'
    <3>1. \A k \in Month : Counting(k) => Counting(k)'
      BY <1>0, <1>1, <1>2, <2>3 DEF Counting, MonthOf, Revised
    <3>2. m \notin irregular => n <= indicators[m].count \/ (n = indicators[m].count + 1 /\ Counting(m)')
      <4> SUFFICES ASSUME m \notin irregular, ~ (n <= indicators[m].count)
                   PROVE  n = indicators[m].count + 1 /\ Counting(m)'
        OBVIOUS
      <4>1. existing[p].count = indicators[m].count
        BY <1>0 DEF Knows
      <4> QED
        BY <1>0, <1>1, <1>2, <2>3, <4>1 DEF Counting, MonthOf, Revised
    <3> SUFFICES ASSUME NEW k \in Month \ irregular, indicators[k] # None,
                        NEW r \in revisions', r.month = k
                 PROVE  \/ r.number <= indicators[k].count
                        \/ r.number = indicators[k].count + 1 /\ Counting(k)'
      BY <1>1, <1>2 DEF FreeOrCounting
    <3>3. CASE r \in revisions
      BY <3>1, <3>3 DEF FreeOrCounting
    <3>4. CASE k = m /\ r.number = n
      <4>1. n <= indicators[m].count \/ (n = indicators[m].count + 1 /\ Counting(m)')
        BY <3>2, <3>4
      <4>2. Counting(m)' => Counting(k)'
        BY <3>4, <1>1 DEF Counting, MonthOf
      <4> QED
        BY <3>4, <4>1, <4>2
    <3> QED
      BY <2>1, <3>3, <3>4
  <2> QED
    BY <2>4, <2>5, <2>8, <2>9
<1>3. CASE Answer(p, "failed") /\ UNCHANGED <<revisions, irregular>>
  <2>1. /\ stage'[p] = "failed" /\ \A q \in Post : q # p => stage'[q] = stage[q]
        /\ \A q \in Post : q # p => existing'[q] = existing[q]
    BY <1>3 DEF Answer, Goto, TypeOK, EmploymentTypeOK
  <2>2. Counted' /\ RevisionsWithoutGaps'
    BY <1>1, <1>3 DEF Counted, HasRevisions, RevisionsWithoutGaps
  <2>3. InProgress'
    BY <1>0, <1>1, <1>3, <2>1 DEF InProgress, Knows, HasRevisions, MonthOf, Revised
  <2>4. \A k \in Month : Counting(k) => Counting(k)'
    BY <1>0, <1>1, <2>1 DEF Counting, MonthOf, Revised
  <2> QED
    BY <1>1, <1>3, <2>2, <2>3, <2>4 DEF FreeOrCounting
<1>4. CASE /\ NewRevision(m, n, input[p].value) /\ Answer(p, "failed")
           /\ irregular' = irregular \cup {m}
  <2>1. revisions \subseteq revisions'
        /\ \A r \in revisions' : r \in revisions \/ (r.month = m /\ r.number = n)
    BY <1>4 DEF NewRevision
  <2>2. /\ stage'[p] = "failed" /\ \A q \in Post : q # p => stage'[q] = stage[q]
        /\ \A q \in Post : q # p => existing'[q] = existing[q]
    BY <1>4 DEF Answer, Goto, TypeOK, EmploymentTypeOK
  <2>3. Counted'
    BY <1>0, <1>1, <2>1 DEF Counted, HasRevisions
  <2>4. RevisionsWithoutGaps'
    <3>1. n > 1 => \E r \in revisions : r.month = m /\ r.number = n - 1
      BY <1>0 DEF Knows, HasRevisions
    <3> QED
      BY <2>1, <3>1 DEF RevisionsWithoutGaps
  <2>5. \A q \in Post : q # p /\ Knows(q) => Knows(q)'
    BY <1>1, <1>4, <2>1, <2>2 DEF Knows, HasRevisions, MonthOf
  <2>6. InProgress'
    BY <1>0, <1>1, <2>1, <2>2, <2>5 DEF InProgress, HasRevisions, MonthOf, Revised
  <2>7. \A k \in Month : Counting(k) => Counting(k)'
    BY <1>0, <1>1, <2>2 DEF Counting, MonthOf, Revised
  <2> QED
    BY <1>1, <1>4, <2>1, <2>3, <2>4, <2>6, <2>7 DEF FreeOrCounting
<1> QED
  BY <1>2, <1>3, <1>4 DEF InsertRevision

LEMMA UpdateKeeps == ASSUME IInv, NEW p \in Post, UpdateIndicator(p), TypeOK' PROVE PostInv'
<1> USE DEF IInv, PostInv
<1> DEFINE m == MonthOf(p)
           c == CountAfter(p)
<1>0. /\ m \in Month /\ indicators[m] # None /\ stage[p] = "update"
      /\ Knows(p) /\ existing[p].count \in Nat /\ indicators[m].count \in Nat
  BY NoneIsNothing DEF UpdateIndicator, InProgress, Knows, Row, Input, MonthOf, TypeOK, EmploymentTypeOK
<1>1. HasRevisions(m, c) /\ c = IF Revised(p, existing[p]) THEN existing[p].count + 1 ELSE existing[p].count
  BY <1>0 DEF InProgress, Knows, CountAfter
<1>2. UNCHANGED <<revisions, input>>
  BY DEF UpdateIndicator
<1>3. /\ stage'[p] \in {"ok", "failed"} /\ \A q \in Post : q # p => stage'[q] = stage[q]
      /\ \A q \in Post : q # p => existing'[q] = existing[q]
  BY DEF UpdateIndicator, Answer, Goto, TypeOK, EmploymentTypeOK
<1>4. \A k \in Month : \A j : HasRevisions(k, j)' <=> HasRevisions(k, j)
  BY <1>2 DEF HasRevisions
<1>5. RevisionsWithoutGaps'
  BY <1>2 DEF RevisionsWithoutGaps
<1>6. \A q \in Post : MonthOf(q)' = MonthOf(q) /\ (q # p => Revised(q, existing[q])' = Revised(q, existing[q]))
  BY <1>2, <1>3 DEF MonthOf, Revised
<1>7. \A q \in Post : stage[q] # "idle" => MonthOf(q) \in Month
  BY NoneIsNothing DEF InProgress, MonthOf, Input, TypeOK, EmploymentTypeOK
<1>8. \A q \in Post : stage[q] \in {"revise", "update"} => existing[q].count \in Nat
  BY DEF InProgress, Knows, Row, TypeOK, EmploymentTypeOK
<1>9. CASE UNCHANGED indicators /\ irregular' = irregular \cup (IF Revised(p, existing[p]) THEN {m} ELSE {})
  <2>1. Counted'
    BY <1>2, <1>9 DEF Counted, HasRevisions
  <2>2. \A q \in Post : q # p /\ Knows(q) => Knows(q)'
    BY <1>2, <1>3, <1>6, <1>9 DEF Knows, HasRevisions
  <2>3. InProgress'
    BY <1>0, <1>2, <1>3, <1>6, <1>9, <2>2 DEF InProgress, HasRevisions
  <2>4. \A k \in Month \ irregular' : Counting(k) => Counting(k)'
    BY <1>3, <1>6, <1>9 DEF Counting
  <2> QED
    BY <1>2, <1>5, <1>9, <2>1, <2>3, <2>4 DEF FreeOrCounting
<1>10. CASE /\ indicators' = [indicators EXCEPT ![m] =
                                 [value |-> input[p].value, change |-> input[p].change, count |-> c]]
            /\ irregular' = IF indicators[m].count > existing[p].count THEN irregular \cup {m} ELSE irregular
  <2>1. indicators'[m] # None /\ indicators'[m].count = c
    <3>1. indicators'[m] = [value |-> input[p].value, change |-> input[p].change, count |-> c]
      BY <1>0, <1>10 DEF TypeOK, EmploymentTypeOK
    <3>2. [value |-> input[p].value, change |-> input[p].change, count |-> c] \in Row
      BY <1>0, <1>1, NoneIsNothing DEF InProgress, Input, Row, TypeOK, EmploymentTypeOK
    <3> QED
      BY <3>1, <3>2, NoneIsNothing
  <2>2. \A k \in Month : k # m => indicators'[k] = indicators[k]
    BY <1>10 DEF TypeOK, EmploymentTypeOK
  <2>3. Counted'
    <3> SUFFICES ASSUME NEW k \in Month PROVE Counted!(k)'
      BY DEF Counted
    <3>1. CASE k = m
      BY <1>1, <1>4, <2>1, <3>1
    <3>2. CASE k # m
      BY <1>2, <1>4, <2>2, <3>2 DEF Counted
    <3> QED
      BY <3>1, <3>2
  <2>4. m \notin irregular' => m \notin irregular /\ existing[p].count = indicators[m].count
    BY <1>0, <1>10 DEF Knows
  <2>5. \A q \in Post : q # p /\ stage[q] \in {"revise", "update"} => Knows(q)'
    <3> SUFFICES ASSUME NEW q \in Post, q # p, stage[q] \in {"revise", "update"} PROVE Knows(q)'
      OBVIOUS
    <3>1. Knows(q) /\ MonthOf(q) \in Month /\ existing[q].count \in Nat
      BY <1>7, <1>8 DEF InProgress
    <3>2. MonthOf(q) = m /\ m \notin irregular' => existing[q].count <= c
      BY <1>0, <1>1, <2>4, <3>1 DEF Knows
    <3>3. MonthOf(q) # m => indicators'[MonthOf(q)] = indicators[MonthOf(q)]
      BY <2>2, <3>1
    <3>4. MonthOf(q) # m /\ MonthOf(q) \notin irregular' => MonthOf(q) \notin irregular
      BY <1>10
    <3>5. HasRevisions(MonthOf(q), existing[q].count)'
      BY <1>2, <1>3, <1>6, <3>1 DEF Knows, HasRevisions
    <3> QED
      BY <1>3, <1>6, <2>1, <3>1, <3>2, <3>3, <3>4, <3>5 DEF Knows
  <2>6. InProgress'
    <3> SUFFICES ASSUME NEW q \in Post PROVE InProgress!(q)'
      BY DEF InProgress
    <3>1. CASE q = p
      BY <1>0, <1>2, <1>3, <3>1 DEF InProgress
    <3>2. CASE q # p
      <4>1. stage[q] = "initial" => indicators'[MonthOf(q)] # None
        BY <1>7, <2>1, <2>2 DEF InProgress
      <4> QED
        BY <1>2, <1>3, <1>6, <2>5, <3>2, <4>1 DEF InProgress, HasRevisions
    <3> QED
      BY <3>1, <3>2
  <2>7. FreeOrCounting'
    <3> SUFFICES ASSUME NEW k \in Month \ irregular', indicators'[k] # None,
                        NEW r \in revisions, r.month = k
                 PROVE  \/ r.number <= indicators'[k].count
                        \/ r.number = indicators'[k].count + 1 /\ Counting(k)'
      BY <1>2 DEF FreeOrCounting
    <3>0. r.number \in Nat
      BY DEF Revision, TypeOK, EmploymentTypeOK
    <3>1. CASE k # m
      <4>1. k \notin irregular /\ indicators'[k] = indicators[k]
        BY <1>10, <2>2, <3>1
      <4>2. Counting(k) => Counting(k)'
        BY <1>3, <1>6, <3>1, <4>1 DEF Counting
      <4> QED
        BY <4>1, <4>2 DEF FreeOrCounting
    <3>2. CASE k = m
      <4>1. m \notin irregular /\ existing[p].count = indicators[m].count
        BY <2>4, <3>2
      <4>2. r.number <= indicators[m].count \/ (r.number = indicators[m].count + 1 /\ Counting(m))
        BY <1>0, <3>2, <4>1 DEF FreeOrCounting
      <4>3. CASE Revised(p, existing[p])
        BY <1>0, <1>1, <2>1, <3>0, <3>2, <4>1, <4>2, <4>3
      <4>4. CASE ~ Revised(p, existing[p])
        <5>1. c = indicators[m].count
          BY <1>1, <4>1, <4>4
        <5>2. Counting(m) => Counting(m)'
          BY <1>3, <1>6, <2>1, <4>4, <5>1 DEF Counting
        <5>3. Counting(m)' => Counting(k)'
          BY <1>6, <3>2 DEF Counting
        <5>4. Counting(m) => Counting(k)'
          BY <5>2, <5>3
        <5> QED
          BY <2>1, <3>2, <4>2, <5>1, <5>4
      <4> QED
        BY <4>3, <4>4
    <3> QED
      BY <3>1, <3>2
  <2> QED
    BY <1>5, <2>3, <2>6, <2>7
<1> QED
  BY <1>9, <1>10 DEF UpdateIndicator

-----------------------------------------------------------------------------
(* Runs.  What a run does to a row leaves its count alone.                  *)

LEMMA UpsertedIs ==
    ASSUME NEW row \in Row \cup {None}, NEW new \in Figure
    PROVE  /\ Upserted(row, new) \in Row
           /\ Upserted(row, new).value = new.value /\ Upserted(row, new).change = new.change
           /\ Upserted(row, new).count = IF row = None THEN 0 ELSE row.count
BY DEF Upserted, Figure, Row

LEMMA RowsAreFigures ==
    ASSUME NEW src \in Figures, NEW from
    PROVE  RowsFrom(src, from) \in [Month -> Figure \cup {None}]
<1> SUFFICES ASSUME NEW m \in Month
             PROVE  [value |-> src[m], change |-> ChangeFrom(src, Previous(src, from, m), m)] \in Figure
  BY DEF RowsFrom
<1>1. src \in [Month -> Value \cup {Null}]
  BY FiguresByMonth
<1>2. Previous(src, from, m) \subseteq Month /\ \A q \in Previous(src, from, m) : src[q] # Null
  BY DEF Previous
<1>3. ChangeFrom(src, Previous(src, from, m), m) \in Change \cup {Null}
  <2>1. CASE src[m] = Null \/ Previous(src, from, m) = {}
    BY <2>1 DEF ChangeFrom
  <2>2. CASE src[m] # Null /\ Previous(src, from, m) # {}
    <3> DEFINE q == CHOOSE q \in Previous(src, from, m) : TRUE
    <3>1. q \in Previous(src, from, m)
      BY <2>2
    <3>2. src[m] - src[q] \in Change
      BY <1>1, <1>2, <2>2, <3>1, Differences
    <3> QED
      BY <2>2, <3>2 DEF ChangeFrom
  <2> QED
    BY <2>1, <2>2
<1> QED
  BY <1>1, <1>3 DEF Figure

LEMMA RevisionsAreTyped ==
    ASSUME NEW b \in Run, NEW m \in Month, NEW row \in Row, NEW new \in Figure
    PROVE  RevisionsOf(b, m, row, new) \subseteq DataRevision
<1> SUFFICES ASSUME NEW c \in {"value", "change"}, Differs(row[c], new[c])
             PROVE  [run |-> b, month |-> m, column |-> c, old |-> row[c], new |-> new[c]] \in DataRevision
  BY DEF RevisionsOf
<1>1. row[c] \in Int /\ new[c] \in Int
  <2>1. CASE c = "value"
    BY <2>1, NullIsNoFigure DEF Differs, Row, Figure
  <2>2. CASE c = "change"
    BY <2>2, NullIsNoFigure DEF Differs, Row, Figure
  <2> QED
    BY <2>1, <2>2
<1> QED
  BY <1>1 DEF DataRevision

\* The rows that an action of a run changes.
LEMMA RunChangesRows ==
    ASSUME TypeOK, NEW b \in Run, RunBatch(b)
    PROVE  \/ UNCHANGED indicators
           \/ \E m \in Unwritten(b) :
                 /\ m \in Month /\ fetched[b][m] \in Figure /\ m \notin written[b]
                 /\ indicators' = [indicators EXCEPT ![m] = Upserted(@, fetched[b][m])]
                 /\ written' = [written EXCEPT ![b] = @ \cup {m}]
<1>1. \A m \in Unwritten(b) : m \in Month /\ fetched[b][m] \in Figure /\ m \notin written[b]
  BY DEF Unwritten, TypeOK
<1>2. CASE UpsertPage(b)
  BY <1>1, <1>2 DEF UpsertPage
<1>3. CASE ~ UpsertPage(b)
  BY <1>3 DEF RunBatch, LogStart, Fetch, DetectRevisions, SaveRevisions, AllUpserted, Raise, LogFinish
<1> QED
  BY <1>2, <1>3

LEMMA RunKeepsType == ASSUME TypeOK, NEW b \in Run, RunBatch(b) PROVE TypeOK'
<1>1. indicators' \in [Month -> Row \cup {None}]
  <2>1. ASSUME NEW m \in Month, fetched[b][m] \in Figure,
               indicators' = [indicators EXCEPT ![m] = Upserted(@, fetched[b][m])]
        PROVE  indicators' \in [Month -> Row \cup {None}]
    <3>1. Upserted(indicators[m], fetched[b][m]) \in Row
      BY <2>1, UpsertedIs DEF TypeOK, EmploymentTypeOK
    <3> QED
      BY <2>1, <3>1 DEF TypeOK, EmploymentTypeOK
  <2> QED
    BY <2>1, RunChangesRows DEF TypeOK, EmploymentTypeOK
<1>2. UNCHANGED postVars /\ UNCHANGED begins
  BY DEF RunBatch, LogStart, Fetch, DetectRevisions, SaveRevisions, UpsertPage, AllUpserted, Raise, LogFinish
<1>3. EmploymentTypeOK'
  BY <1>1, <1>2 DEF TypeOK, EmploymentTypeOK, postVars
<1>4. touched' \in [Run -> SUBSET Month] /\ written' \in [Run -> SUBSET Month]
  <2>1. CASE UpsertPage(b)
    <3>1. PICK m \in Unwritten(b) :
            /\ written' = [written EXCEPT ![b] = @ \cup {m}]
            /\ touched' = [c \in Run |-> IF c = b THEN touched[c] ELSE touched[c] \cup {m}]
      BY <2>1 DEF UpsertPage
    <3>2. m \in Month
      BY DEF Unwritten
    <3>3. touched \in [Run -> SUBSET Month] /\ written \in [Run -> SUBSET Month]
      BY DEF TypeOK
    <3>4. \A c \in Run : touched[c] \cup {m} \in SUBSET Month /\ written[c] \cup {m} \in SUBSET Month
      BY <3>2, <3>3
    <3> QED
      BY <3>1, <3>3, <3>4
  <2>2. CASE ~ UpsertPage(b)
    BY <2>2 DEF RunBatch, LogStart, Fetch, DetectRevisions, SaveRevisions, AllUpserted, Raise, LogFinish, TypeOK
  <2> QED
    BY <2>1, <2>2
<1>5. /\ at' \in [Run -> {"idle", "fetch", "detect", "save", "write", "finish", "error", "done", "failed"}]
      /\ batchLogs' \in [Run -> Status \cup {None}]
  BY DEF RunBatch, LogStart, Fetch, DetectRevisions, SaveRevisions, UpsertPage, AllUpserted, Raise,
       LogFinish, GoOn, Log, Status, TypeOK
<1>6. fetched' \in [Run -> [Month -> Figure \cup {None}]]
  <2>1. CASE Fetch(b)
    BY <2>1, RowsAreFigures DEF Fetch, TypeOK
  <2>2. CASE Raise(b)
    BY <2>2 DEF Raise, NoRows, TypeOK
  <2>3. CASE UNCHANGED fetched
    BY <2>3 DEF TypeOK
  <2> QED
    BY <2>1, <2>2, <2>3 DEF RunBatch, LogStart, DetectRevisions, SaveRevisions, UpsertPage, AllUpserted, LogFinish
<1>7. detected' \in [Run -> SUBSET DataRevision] /\ dataRevisions' \subseteq DataRevision
  <2>1. CASE DetectRevisions(b)
    <3> DEFINE found == UNION {RevisionsOf(b, m, indicators[m], fetched[b][m]) :
                   m \in {n \in Month : fetched[b][n] # None /\ indicators[n] # None}}
    <3>1. ASSUME NEW m \in Month, fetched[b][m] # None, indicators[m] # None
          PROVE  RevisionsOf(b, m, indicators[m], fetched[b][m]) \subseteq DataRevision
      BY <3>1, RevisionsAreTyped DEF TypeOK, EmploymentTypeOK
    <3>2. found \subseteq DataRevision
      BY <3>1
    <3> QED
      BY <2>1, <3>2 DEF DetectRevisions, TypeOK
  <2>2. CASE SaveRevisions(b) \/ Raise(b) \/ UNCHANGED <<detected, dataRevisions>>
    BY <2>2 DEF SaveRevisions, Raise, TypeOK
  <2> QED
    BY <2>1, <2>2 DEF RunBatch, LogStart, Fetch, UpsertPage, AllUpserted, LogFinish
<1> QED
  BY <1>2, <1>3, <1>4, <1>5, <1>6, <1>7 DEF TypeOK

LEMMA RunKeepsPosts == ASSUME IInv, NEW b \in Run, RunBatch(b), TypeOK' PROVE PostInv'
<1> USE DEF IInv, PostInv
<1>1. UNCHANGED postVars
  BY DEF RunBatch, LogStart, Fetch, DetectRevisions, SaveRevisions, UpsertPage, AllUpserted, Raise, LogFinish
<1>2. ASSUME NEW m \in Month
      PROVE  IF indicators[m] = None
             THEN indicators'[m] = None \/ (indicators'[m] # None /\ indicators'[m].count = 0)
             ELSE indicators'[m] # None /\ indicators'[m].count = indicators[m].count
  <2>1. CASE UNCHANGED indicators
    BY <2>1
  <2>2. ASSUME NEW n \in Month, fetched[b][n] \in Figure,
               indicators' = [indicators EXCEPT ![n] = Upserted(@, fetched[b][n])]
        PROVE  <1>2!2
    <3>1. CASE m # n
      BY <2>2, <3>1 DEF TypeOK, EmploymentTypeOK
    <3>2. CASE m = n
      <4>1. indicators'[m] = Upserted(indicators[m], fetched[b][m])
        BY <2>2, <3>2 DEF TypeOK, EmploymentTypeOK
      <4>2. indicators[m] \in Row \cup {None} /\ fetched[b][m] \in Figure
        BY <2>2, <3>2 DEF TypeOK, EmploymentTypeOK
      <4> QED
        BY <4>1, <4>2, UpsertedIs, NoneIsNothing
    <3> QED
      BY <3>1, <3>2
  <2> QED
    BY <2>1, <2>2, RunChangesRows
<1>3. \A m \in Month : indicators[m] # None => indicators[m].count \in Nat
  BY DEF Row, TypeOK, EmploymentTypeOK
<1>4. \A q \in Post : stage[q] # "idle" => MonthOf(q) \in Month
  BY NoneIsNothing DEF InProgress, MonthOf, Input, TypeOK, EmploymentTypeOK
<1>5. Counted' /\ RevisionsWithoutGaps'
  BY <1>1, <1>2 DEF Counted, HasRevisions, RevisionsWithoutGaps, postVars
<1>6. InProgress'
  BY <1>1, <1>2, <1>4 DEF InProgress, Knows, HasRevisions, MonthOf, Revised, postVars
<1>7. FreeOrCounting'
  <2>1. ASSUME NEW m \in Month, indicators[m] # None, Counting(m) PROVE Counting(m)'
    BY <1>1, <1>2, <2>1 DEF Counting, MonthOf, Revised, postVars
  <2> QED
    BY <1>1, <1>2, <2>1 DEF FreeOrCounting, Counted, postVars
<1> QED
  BY <1>5, <1>6, <1>7

\* What a run does to another one is to touch it.
LEMMA RunKeepsOthers ==
    ASSUME IInv, NEW b \in Run, RunBatch(b), TypeOK', NEW c \in Run, c # b
    PROVE  Stored!(c)' /\ Compared!(c)'
<1> USE DEF IInv
<1>1. /\ at'[c] = at[c] /\ fetched'[c] = fetched[c] /\ detected'[c] = detected[c]
      /\ written'[c] = written[c] /\ batchLogs'[c] = batchLogs[c]
      /\ dataRevisions \subseteq dataRevisions'
  BY DEF RunBatch, LogStart, Fetch, DetectRevisions, SaveRevisions, UpsertPage, AllUpserted, Raise,
       LogFinish, GoOn, Log, TypeOK
<1>2. /\ touched[c] \subseteq touched'[c]
      /\ \A m \in Month : indicators'[m] # indicators[m] => m \in touched'[c]
  <2>1. CASE UpsertPage(b)
    BY <2>1 DEF UpsertPage, TypeOK, EmploymentTypeOK
  <2>2. CASE ~ UpsertPage(b)
    BY <2>2 DEF RunBatch, LogStart, Fetch, DetectRevisions, SaveRevisions, AllUpserted, Raise, LogFinish, TypeOK
  <2> QED
    BY <2>1, <2>2
<1>3. Unwritten(c)' = Unwritten(c) /\ written[c] \subseteq Month
  BY <1>1 DEF Unwritten, TypeOK
<1>4. Stored!(c)'
  BY <1>1, <1>2, <1>3 DEF Stored
<1>5. Compared!(c)'
  BY <1>1, <1>2 DEF Compared, RevisionsOf
<1> QED
  BY <1>4, <1>5

LEMMA RunKeepsItsRecord ==
    ASSUME IInv, NEW b \in Run, RunBatch(b), TypeOK'
    PROVE  Stored!(b)' /\ Compared!(b)'
<1> USE DEF IInv
<1>0. "running" # "success" /\ "error" # "success" /\ None # "success"
  BY NoneIsNoFigure DEF Status
<1>1. CASE LogStart(b)
  BY <1>0, <1>1 DEF LogStart, GoOn, Log, Stored, Compared, TypeOK
<1>2. CASE Fetch(b)
  BY <1>0, <1>2 DEF Fetch, GoOn, Stored, Compared, TypeOK
<1>3. CASE DetectRevisions(b)
  <2>1. at'[b] = "save" /\ written'[b] = {} /\ UNCHANGED <<indicators, fetched, batchLogs>>
    BY <1>3 DEF DetectRevisions, GoOn, Stored, TypeOK
  <2>2. Stored!(b)'
    BY <1>0, <1>3, <2>1 DEF DetectRevisions, Stored
  <2>3. ASSUME NEW m \in Month, fetched[b][m] # None, indicators[m] # None
        PROVE  RevisionsOf(b, m, indicators[m], fetched[b][m]) \subseteq detected'[b]
    BY <1>3, <2>3 DEF DetectRevisions, TypeOK
  <2> QED
    BY <2>1, <2>2, <2>3 DEF Compared, RevisionsOf
<1>4. CASE SaveRevisions(b)
  <2>1. at[b] = "save" /\ at'[b] = "write" /\ detected[b] \subseteq dataRevisions'
        /\ UNCHANGED <<indicators, touched, fetched, written, batchLogs>>
    BY <1>4 DEF SaveRevisions, GoOn, TypeOK
  <2>2. Stored!(b)'
    BY <2>1 DEF Stored
  <2> QED
    BY <2>1, <2>2 DEF Compared, RevisionsOf
<1>5. CASE UpsertPage(b)
  <2>1. PICK m \in Unwritten(b) :
          /\ at[b] = "write"
          /\ indicators' = [indicators EXCEPT ![m] = Upserted(@, fetched[b][m])]
          /\ written' = [written EXCEPT ![b] = @ \cup {m}]
          /\ touched' = [c \in Run |-> IF c = b THEN touched[c] ELSE touched[c] \cup {m}]
          /\ UNCHANGED <<at, fetched, dataRevisions, batchLogs>>
    BY <1>5 DEF UpsertPage
  <2>2. m \in Month /\ fetched[b][m] \in Figure /\ m \notin written[b]
    BY <2>1 DEF Unwritten, TypeOK
  <2>3. /\ indicators'[m] # None
        /\ indicators'[m].value = fetched[b][m].value /\ indicators'[m].change = fetched[b][m].change
    <3>1. indicators'[m] = Upserted(indicators[m], fetched[b][m])
      BY <2>1, <2>2 DEF TypeOK, EmploymentTypeOK
    <3>2. indicators[m] \in Row \cup {None}
      BY <2>2 DEF TypeOK, EmploymentTypeOK
    <3>3. Upserted(indicators[m], fetched[b][m]) # None
      BY <2>2, <3>2, UpsertedIs, NoneIsNothing
    <3> QED
      BY <2>2, <3>1, <3>2, <3>3, UpsertedIs
  <2>4. \A n \in Month : n # m => indicators'[n] = indicators[n]
    BY <2>1 DEF TypeOK, EmploymentTypeOK
  <2>5. at'[b] = "write" /\ written'[b] = written[b] \cup {m} /\ touched'[b] = touched[b] /\ written[b] \subseteq Month
    BY <2>1 DEF TypeOK
  <2>6. Stored!(b)'
    BY <1>0, <2>1, <2>2, <2>3, <2>4, <2>5 DEF Stored
  <2>7. Compared!(b)'
    BY <2>1, <2>4, <2>5 DEF Compared, RevisionsOf
  <2> QED
    BY <2>6, <2>7
<1>6. CASE AllUpserted(b)
  <2>1. at[b] = "write" /\ at'[b] = "finish" /\ Unwritten(b)' = {}
        /\ UNCHANGED <<indicators, touched, fetched, written, batchLogs>>
    BY <1>6 DEF AllUpserted, GoOn, Unwritten, TypeOK
  <2> QED
    BY <2>1 DEF Stored, Compared
<1>7. CASE Raise(b)
  <2>1. at[b] \in {"fetch", "detect", "save", "write"} /\ at'[b] = "error" /\ batchLogs' = batchLogs
        /\ \A m \in Month : fetched'[b][m] = None
    BY <1>7 DEF Raise, GoOn, NoRows, TypeOK
  <2>2. written'[b] \subseteq Month
    BY DEF TypeOK
  <2> QED
    BY <2>1, <2>2 DEF Stored, Compared
<1>8. CASE LogFinish(b)
  <2>1. /\ UNCHANGED <<indicators, touched, fetched, written>>
        /\ \/ at[b] = "finish" /\ at'[b] = "done"
           \/ at[b] = "error" /\ at'[b] = "failed" /\ batchLogs'[b] \in {"error", batchLogs[b]}
    BY <1>8 DEF LogFinish, GoOn, Log, TypeOK
  <2>2. Unwritten(b)' = Unwritten(b)
    BY <2>1 DEF Unwritten
  <2> QED
    BY <1>0, <2>1, <2>2 DEF Stored, Compared
<1> QED
  BY <1>1, <1>2, <1>3, <1>4, <1>5, <1>6, <1>7, <1>8 DEF RunBatch

LEMMA StepInv == IInv /\ [Next]_vars => IInv'
<1> SUFFICES ASSUME IInv, [Next]_vars PROVE IInv'
  OBVIOUS
<1>1. ASSUME NEW p \in Post, UpsertIndicator(p), UNCHANGED batchVars PROVE IInv'
  <2>1. touched' \in [Run -> SUBSET Month]
    BY <1>1, PostTouches
  <2>2. TypeOK'
    BY <1>1, <2>1, PostKeepsType DEF IInv, PostInv
  <2>3. PostInv'
    BY <1>1, <2>2, FindKeeps, InsertKeeps, InitialKeeps, ReviseKeeps, UpdateKeeps DEF UpsertIndicator
  <2> QED
    BY <1>1, <2>2, <2>3, PostKeepsRuns DEF IInv
<1>2. ASSUME NEW b \in Run, RunBatch(b) PROVE IInv'
  <2>1. TypeOK' /\ PostInv'
    BY <1>2, RunKeepsType, RunKeepsPosts DEF IInv
  <2>2. ASSUME NEW c \in Run PROVE Stored!(c)' /\ Compared!(c)'
    BY <1>2, <2>1, RunKeepsOthers, RunKeepsItsRecord
  <2> QED
    BY <2>1, <2>2 DEF IInv, Stored, Compared
<1>3. CASE UNCHANGED vars
  BY <1>3 DEF vars, postVars, batchVars, IInv, PostInv, TypeOK, EmploymentTypeOK, Counted, InProgress,
       Knows, HasRevisions, MonthOf, Revised, FreeOrCounting, Counting, RevisionsWithoutGaps,
       Stored, Compared, Unwritten, RevisionsOf
<1> QED
  BY <1>1, <1>2, <1>3 DEF Next

THEOREM Invariance == Spec => []IInv
BY InitInv, StepInv, PTL DEF Spec

-----------------------------------------------------------------------------

\* The tables and the runs have the types TypeOK gives them: in particular a
\* row that a batch run inserts has a count.
THEOREM TypeCorrect == Spec => []TypeOK
<1>1. IInv => TypeOK
  BY DEF IInv
<1> QED
  BY <1>1, Invariance, PTL

\* POST /indicators numbers the revisions of a month without gaps.
THEOREM RevisionsContiguous == Spec => []RevisionsWithoutGaps
<1>1. IInv => RevisionsWithoutGaps
  BY DEF IInv, PostInv
<1> QED
  BY <1>1, Invariance, PTL

\* POST /indicators can revise a month again, but for a month whose count has
\* fallen behind.
THEOREM NumbersStayFree == Spec => []NextNumberIsFree
<1>1. IInv => NextNumberIsFree
  <2> SUFFICES ASSUME IInv, NEW m \in Month \ irregular, indicators[m] # None,
                      \A p \in Post : stage[p] = "update" => MonthOf(p) # m,
                      NEW r \in revisions, r.month = m
               PROVE  r.number <= indicators[m].count
    BY DEF NextNumberIsFree
  <2> QED
    BY DEF IInv, PostInv, FreeOrCounting, Counting
<1> QED
  BY <1>1, Invariance, PTL

\* A run of batch/run.py that is logged as a success has left its rows.
THEOREM SuccessIsStored == Spec => []SuccessMeansStored
<1>1. IInv => SuccessMeansStored
  BY DEF IInv, SuccessMeansStored, Stored, Unwritten
<1> QED
  BY <1>1, Invariance, PTL

\* What a run of batch/run.py changes from one value to another, it has recorded
\* in data_revisions beforehand.
THEOREM RevisionsAreRecorded == Spec => NoSilentRevision
<1>1. IInv /\ TypeOK' /\ [Next]_vars =>
        [\A b \in Run, m \in Month, c \in {"value", "change"} :
          /\ m \in written'[b] \ written[b]
          /\ indicators[m] # None /\ m \notin touched[b]
          /\ indicators[m][c] # Null /\ indicators'[m][c] \notin {Null, indicators[m][c]}
          => Recorded(b, m, c, indicators[m][c], indicators'[m][c])]_vars
  <2> SUFFICES ASSUME IInv, Next,
                      NEW b \in Run, NEW m \in Month, NEW c \in {"value", "change"},
                      m \in written'[b] \ written[b],
                      indicators[m] # None, m \notin touched[b],
                      indicators[m][c] # Null, indicators'[m][c] \notin {Null, indicators[m][c]}
               PROVE  Recorded(b, m, c, indicators[m][c], indicators'[m][c])
    OBVIOUS
  <2>1. UpsertPage(b)
    <3>1. PICK d \in Run : RunBatch(d)
      BY DEF Next, batchVars
    <3>2. UpsertPage(d)
      BY <3>1 DEF RunBatch, LogStart, Fetch, DetectRevisions, SaveRevisions, AllUpserted, Raise, LogFinish
    <3>3. d = b
      BY <3>2 DEF UpsertPage, IInv, TypeOK
    <3> QED
      BY <3>2, <3>3
  <2>2. /\ at[b] = "write" /\ fetched[b][m] \in Figure
        /\ indicators'[m] = Upserted(indicators[m], fetched[b][m])
    BY <2>1 DEF UpsertPage, Unwritten, IInv, TypeOK, EmploymentTypeOK
  <2>3. indicators'[m][c] = fetched[b][m][c]
    BY <2>2, UpsertedIs DEF IInv, TypeOK, EmploymentTypeOK
  <2>4. RevisionsOf(b, m, indicators[m], fetched[b][m]) \subseteq dataRevisions
    BY <2>2, NoneIsNoFigure DEF IInv, Compared
  <2> QED
    BY <2>3, <2>4 DEF RevisionsOf, Differs, Recorded
<1>2. IInv => TypeOK
  BY DEF IInv
<1> QED
  BY <1>1, <1>2, Invariance, PTL DEF NoSilentRevision, Spec
=============================================================================
