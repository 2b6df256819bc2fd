-------------------------- MODULE WatchlistProofs ---------------------------
(***************************************************************************)
(* What the watchlist API and the ticker bar keep true for any number of   *)
(* lists, requests and tickers.                                            *)
(***************************************************************************)
EXTENDS QuickTickers, FiniteSetTheorems, WellFoundedInduction, TLAPS

-----------------------------------------------------------------------------

\* The order of the numbers is well-founded; stated without an operator, so that
\* the facts about well-founded relations apply to it.
LEMMA Numbers == \E R : IsWellFoundedOn(R, Nat) /\ \A x, y \in Nat : x < y => <<x, y>> \in R
<1> DEFINE R == OpToRel(<, Nat)
<1>1. IsWellFoundedOn(R, Nat)
  BY NatLessThanWellFounded
<1>2. R = {ss \in Nat \X Nat : ss[1] < ss[2]}
  BY DEF OpToRel
<1> HIDE DEF R
<1>3. \A x, y \in Nat : x < y => <<x, y>> \in R
  BY <1>2
<1> QED
  BY <1>1, <1>3

\* A set of numbers with an element has a least one.
LEMMA Least ==
  ASSUME NEW T \in SUBSET Nat, T # {}
  PROVE  \E k \in T : \A m \in T : k <= m
<1>1. PICK R : IsWellFoundedOn(R, Nat) /\ \A x, y \in Nat : x < y => <<x, y>> \in R
  BY Numbers
<1>2. IsWellFoundedOn(R, Nat) /\ T \subseteq Nat
  BY <1>1
<1>3. \E x \in T : \A y \in T : ~(<<y, x>> \in R)
  BY <1>2, WFMin, Zenon
<1>4. PICK k \in T : \A y \in T : ~(<<y, k>> \in R)
  BY <1>3
<1>5. \A m \in T : k <= m
  <2> SUFFICES ASSUME NEW m \in T, ~(k <= m) PROVE FALSE
    OBVIOUS
  <2>1. m < k /\ m \in Nat /\ k \in Nat
    OBVIOUS
  <2>2. <<m, k>> \in R
    BY <2>1, <1>1
  <2> QED
    BY <2>2, <1>4
<1> QED
  BY <1>5

\* Induction on the numbers up to n: what fails has a least place to fail at.
LEMMA Upwards ==
  ASSUME NEW n \in Nat, NEW S, 0 \in S, \A i \in 0 .. n : i \in S /\ i < n => i + 1 \in S
  PROVE  0 .. n \subseteq S
<1> DEFINE T == {i \in 0 .. n : i \notin S}
<1> SUFFICES ASSUME NEW j \in T PROVE FALSE
  OBVIOUS
<1>1. PICK k \in T : \A m \in T : k <= m
  <2> T \in SUBSET Nat
    OBVIOUS
  <2> QED
    BY Least
<1>2. k # 0 /\ k - 1 \in 0 .. n /\ k - 1 \notin T
  BY <1>1
<1> QED
  BY <1>2

\* f gives what a loop over the positions up to n holds after each of them, when
\* it starts with a and F goes on from what it held.
Loops(f, n, A, a, F) ==
    /\ f \in [0 .. n -> A]
    /\ f[0] = a
    /\ \A i \in 1 .. n : f[i] = F[<<i, f[i - 1]>>]

\* Every loop has such a function.
LEMMA Loop ==
  ASSUME NEW n \in Nat, NEW A, NEW a \in A, NEW F \in [(1 .. n) \X A -> A]
  PROVE  \E f : Loops(f, n, A, a, F)
<1> USE DEF Loops
<1> DEFINE Is(f, k) == Loops(f, k, A, a, F)
           S == {k \in 0 .. n : \E f : Is(f, k)}
<1>1. 0 \in S
  <2>1. Is([i \in 0 .. 0 |-> a], 0)
    OBVIOUS
  <2> HIDE DEF Is
  <2> QED
    BY <2>1
<1>2. ASSUME NEW k \in 0 .. n, k \in S, k < n PROVE k + 1 \in S
  <2>1. PICK f : Is(f, k)
    BY <1>2
  <2> DEFINE g == [i \in 0 .. k + 1 |-> IF i = k + 1 THEN F[<<k + 1, f[k]>>] ELSE f[i]]
  <2>2. F[<<k + 1, f[k]>>] \in A
    <3> <<k + 1, f[k]>> \in (1 .. n) \X A
      BY <2>1, <1>2
    <3> QED
      OBVIOUS
  <2>3. Is(g, k + 1)
    <3>1. g \in [0 .. k + 1 -> A]
      BY <2>1, <2>2
    <3>2. g[0] = a
      BY <2>1, <1>2
    <3>3. ASSUME NEW i \in 1 .. k + 1 PROVE g[i] = F[<<i, g[i - 1]>>]
      <4>1. i \in 0 .. k + 1 /\ i - 1 \in 0 .. k + 1 /\ i - 1 # k + 1
        BY <1>2
      <4>2. g[i - 1] = f[i - 1]
        BY <4>1
      <4>3. CASE i = k + 1
        <5>1. i - 1 = k
          BY <4>3, <1>2
        <5> QED
          BY <4>1, <4>2, <4>3, <5>1
      <4>4. CASE i # k + 1
        <5>1. i \in 1 .. k
          BY <4>4, <1>2
        <5>2. g[i] = f[i]
          BY <4>1, <4>4
        <5> QED
          BY <5>1, <5>2, <4>2, <2>1
      <4> QED
        BY <4>3, <4>4
    <3> QED
      BY <3>1, <3>2, <3>3
  <2> HIDE DEF g, Is
  <2> QED
    BY <1>2, <2>3
<1> HIDE DEF S
<1>3. 0 .. n \subseteq S
  BY <1>1, <1>2, Upwards
<1>4. PICK f : Is(f, n)
  BY <1>3 DEF S
<1> QED
  BY <1>4

-----------------------------------------------------------------------------

\* One step of the loop of validateTickers.
LEMMA Accepted ==
  ASSUME NEW s \in Seq(Ticker), Legal(s), NEW t
  PROVE  accept(s, t) \in Seq(Ticker) /\ Legal(accept(s, t))
<1>1. CASE t \in Ticker /\ ~Contains(s, t) /\ Len(s) < Cap
  <2>1. accept(s, t) = Append(s, t)
    BY <1>1 DEF accept
  <2>2. Append(s, t) \in Seq(Ticker) /\ Len(Append(s, t)) = Len(s) + 1
    BY <1>1
  <2>3. \A i, j \in DOMAIN Append(s, t) : Append(s, t)[i] = Append(s, t)[j] => i = j
    BY <1>1 DEF Contains, Legal, IsInjective
  <2>4. Len(Append(s, t)) <= Cap
    BY <1>1, Inputs
  <2> QED
    BY <2>1, <2>2, <2>3, <2>4 DEF Legal, IsInjective
<1>2. CASE ~(t \in Ticker /\ ~Contains(s, t) /\ Len(s) < Cap)
  BY <1>2 DEF accept
<1> QED
  BY <1>1, <1>2

\* What validateTickers returns may be stored, whatever the client sent.
LEMMA ValidIsLegal ==
  ASSUME NEW texts \in Seq(Text)
  PROVE  validateTickers(texts) \in Seq(Ticker) /\ Legal(validateTickers(texts))
<1> DEFINE n == Len(texts)
           A == {s \in Seq(Ticker) : Legal(s)}
           F == [p \in (1 .. n) \X A |-> accept(p[2], Upper(texts[p[1]]))]
           Is(f) == f = [i \in 0 .. n |-> IF i = 0 THEN <<>> ELSE accept(f[i - 1], Upper(texts[i]))]
           result[i \in 0 .. n] == IF i = 0 THEN <<>> ELSE accept(result[i - 1], Upper(texts[i]))
<1>1. validateTickers(texts) = result[n]
  BY DEF validateTickers
<1>2. result = CHOOSE f : Is(f)
  BY Zenon
<1> HIDE DEF result
<1>3. <<>> \in A
  BY Inputs DEF Legal, IsInjective
<1>4. F \in [(1 .. n) \X A -> A]
  BY Accepted
<1>5. \E f : Is(f)
  <2> DEFINE start == <<>>
  <2>1. n \in Nat /\ start \in A
    BY <1>3
  <2> HIDE DEF F, A, n, start
  <2>2. PICK f : Loops(f, n, A, start, F)
    BY <2>1, <1>4, Loop
  <2>3. f \in [0 .. n -> A] /\ f[0] = start /\ \A i \in 1 .. n : f[i] = F[<<i, f[i - 1]>>]
    BY <2>2 DEF Loops
  <2>4. ASSUME NEW i \in 0 .. n, i # 0
        PROVE  F[<<i, f[i - 1]>>] = accept(f[i - 1], Upper(texts[i]))
    <3>1. <<i, f[i - 1]>> \in (1 .. n) \X A
      BY <2>1, <2>3, <2>4
    <3> QED
      BY <3>1 DEF F
  <2>5. Is(f)
    <3>1. \A i \in 0 .. n : f[i] = IF i = 0 THEN <<>> ELSE accept(f[i - 1], Upper(texts[i]))
      BY <2>1, <2>3, <2>4 DEF start
    <3> QED
      BY <2>3, <3>1
  <2> QED
    BY <2>5
<1>6. Is(result)
  BY <1>2, <1>5
<1> DEFINE S == {i \in 0 .. n : result[i] \in A}
<1>7. 0 \in S
  BY <1>3, <1>6
<1>8. ASSUME NEW i \in 0 .. n, i \in S, i < n PROVE i + 1 \in S
  <2>1. result[i + 1] = accept(result[i], Upper(texts[i + 1]))
    BY <1>6, <1>8
  <2> QED
    BY <2>1, <1>8, Accepted
<1> HIDE DEF S
<1>9. 0 .. n \subseteq S
  BY <1>7, <1>8, Upwards
<1> QED
  BY <1>1, <1>9 DEF S

\* The loop of "remove" keeps every element but t, and a legal list legal.
LEMMA WithoutOne ==
  ASSUME NEW T, NEW s \in Seq(T), NEW t
  PROVE  /\ without(s, t) \in Seq(T)
         /\ Legal(s) => Legal(without(s, t))
         /\ \A x : Contains(s, x) /\ x # t => Contains(without(s, t), x)
<1> DEFINE n == Len(s)
           A == Seq(T)
           F == [p \in (1 .. n) \X A |-> keep(p[2], s[p[1]], t)]
           Is(f) == f = [i \in 0 .. n |-> IF i = 0 THEN <<>> ELSE keep(f[i - 1], s[i], t)]
           filtered[i \in 0 .. n] == IF i = 0 THEN <<>> ELSE keep(filtered[i - 1], s[i], t)
<1>1. without(s, t) = filtered[n]
  BY DEF without
<1>2. filtered = CHOOSE f : Is(f)
  BY Zenon
<1> HIDE DEF filtered
<1>3. ASSUME NEW f \in A, NEW i \in 1 .. n PROVE keep(f, s[i], t) \in A
  BY DEF keep
<1>4. F \in [(1 .. n) \X A -> A]
  BY <1>3
<1>5. \E f : Is(f)
  <2> DEFINE start == <<>>
  <2>1. n \in Nat /\ start \in A
    OBVIOUS
  <2> HIDE DEF F, A, n, start
  <2>2. PICK f : Loops(f, n, A, start, F)
    BY <2>1, <1>4, Loop
  <2>3. f \in [0 .. n -> A] /\ f[0] = start /\ \A i \in 1 .. n : f[i] = F[<<i, f[i - 1]>>]
    BY <2>2 DEF Loops
  <2>4. ASSUME NEW i \in 0 .. n, i # 0 PROVE F[<<i, f[i - 1]>>] = keep(f[i - 1], s[i], t)
    <3>1. <<i, f[i - 1]>> \in (1 .. n) \X A
      BY <2>1, <2>3, <2>4
    <3> QED
      BY <3>1 DEF F
  <2>5. ASSUME NEW i \in 0 .. n PROVE f[i] = IF i = 0 THEN <<>> ELSE keep(f[i - 1], s[i], t)
    <3>1. CASE i = 0
      BY <2>3, <3>1 DEF start
    <3>2. CASE i # 0
      <4>1. i \in 1 .. n
        BY <2>1, <3>2
      <4> QED
        BY <2>3, <2>4, <3>2, <4>1
    <3> QED
      BY <3>1, <3>2
  <2>6. Is(f)
    BY <2>3, <2>5
  <2> QED
    BY <2>6
<1>6. Is(filtered)
  BY <1>2, <1>5
<1> DEFINE Holds(f, i) ==
             /\ f \in A /\ Len(f) <= i
             /\ \A k \in 1 .. Len(f) : \E j \in 1 .. i : f[k] = s[j]
             /\ \A j \in 1 .. i : s[j] # t => \E k \in 1 .. Len(f) : f[k] = s[j]
             /\ IsInjective(s) => \A j, k \in 1 .. Len(f) : f[j] = f[k] => j = k
           S == {i \in 0 .. n : Holds(filtered[i], i)}
<1>7. 0 \in S
  <2>1. filtered[0] = <<>>
    BY <1>6
  <2>2. Holds(<<>>, 0)
    OBVIOUS
  <2> HIDE DEF Holds
  <2> QED
    BY <2>1, <2>2
<1>8. ASSUME NEW i \in 0 .. n, i \in S, i < n PROVE i + 1 \in S
  <2> DEFINE f == filtered[i]
             x == s[i + 1]
             g == filtered[i + 1]
  <2>1. Holds(f, i) /\ i + 1 \in 1 .. n /\ x \in T
    <3>1. Holds(f, i)
      <4> HIDE DEF Holds
      <4> QED
        BY <1>8
    <3>2. i + 1 \in 1 .. n /\ x \in T
      BY <1>8
    <3> QED
      BY <3>1, <3>2
  <2>2. g = keep(f, x, t)
    BY <1>6, <1>8
  <2> HIDE DEF f, x, g
  <2>3. CASE x = t
    <3>1. g = f
      BY <2>2, <2>3 DEF keep
    <3>2. Holds(g, i + 1)
      BY <3>1, <2>1, <2>3, <1>8 DEF x
    <3> HIDE DEF Holds
    <3> QED
      BY <3>2, <2>1 DEF g
  <2>4. CASE x # t
    <3>1. g = Append(f, x)
      BY <2>2, <2>4 DEF keep
    <3>2. /\ g \in A /\ Len(g) = Len(f) + 1 /\ Len(f) \in Nat
          /\ g[Len(f) + 1] = x /\ \A k \in 1 .. Len(f) : g[k] = f[k]
      BY <3>1, <2>1
    <3>3. \A k \in 1 .. Len(g) : \E j \in 1 .. i + 1 : g[k] = s[j]
      <4> SUFFICES ASSUME NEW k \in 1 .. Len(g) PROVE \E j \in 1 .. i + 1 : g[k] = s[j]
        OBVIOUS
      <4>1. CASE k = Len(f) + 1
        BY <4>1, <3>2, <1>8 DEF x
      <4>2. CASE k # Len(f) + 1
        <5>1. k \in 1 .. Len(f)
          BY <4>2, <3>2
        <5>2. PICK j \in 1 .. i : f[k] = s[j]
          BY <5>1, <2>1
        <5>3. j \in 1 .. i + 1 /\ g[k] = s[j]
          BY <5>1, <5>2, <3>2, <1>8
        <5> QED
          BY <5>3
      <4> QED
        BY <4>1, <4>2
    <3>4. \A j \in 1 .. i + 1 : s[j] # t => \E k \in 1 .. Len(g) : g[k] = s[j]
      <4> SUFFICES ASSUME NEW j \in 1 .. i + 1, s[j] # t PROVE \E k \in 1 .. Len(g) : g[k] = s[j]
        OBVIOUS
      <4>1. CASE j = i + 1
        <5>1. Len(f) + 1 \in 1 .. Len(g) /\ g[Len(f) + 1] = s[j]
          BY <4>1, <3>2 DEF x
        <5> QED
          BY <5>1
      <4>2. CASE j # i + 1
        <5>1. j \in 1 .. i
          BY <4>2, <1>8
        <5>2. PICK k \in 1 .. Len(f) : f[k] = s[j]
          BY <5>1, <2>1
        <5>3. k \in 1 .. Len(g) /\ g[k] = s[j]
          BY <5>2, <3>2
        <5> QED
          BY <5>3
      <4> QED
        BY <4>1, <4>2
    <3>5. ASSUME IsInjective(s), NEW j \in 1 .. Len(g), NEW k \in 1 .. Len(g), g[j] = g[k]
          PROVE  j = k
      <4>1. ASSUME NEW m \in 1 .. Len(f) PROVE f[m] # x
        <5>1. PICK l \in 1 .. i : f[m] = s[l]
          BY <4>1, <2>1
        <5>2. s[l] # s[i + 1]
          BY <3>5, <1>8 DEF IsInjective
        <5> QED
          BY <5>1, <5>2 DEF x
      <4>2. CASE j = Len(f) + 1 \/ k = Len(f) + 1
        BY <4>1, <4>2, <3>2, <3>5
      <4>3. CASE j # Len(f) + 1 /\ k # Len(f) + 1
        <5>1. j \in 1 .. Len(f) /\ k \in 1 .. Len(f)
          BY <4>3, <3>2
        <5> QED
          BY <5>1, <3>2, <3>5, <2>1
      <4> QED
        BY <4>2, <4>3
    <3>6. Holds(g, i + 1)
      <4>1. Len(g) <= i + 1
        BY <3>2, <2>1, <1>8
      <4> QED
        BY <4>1, <3>2, <3>3, <3>4, <3>5
    <3> HIDE DEF Holds
    <3> QED
      BY <3>6, <2>1 DEF g
  <2> QED
    BY <2>3, <2>4
<1> HIDE DEF S, Holds
<1>9. 0 .. n \subseteq S
  BY <1>7, <1>8, Upwards
<1>10. Holds(without(s, t), n)
  BY <1>1, <1>9 DEF S
<1>11. Legal(s) => Legal(without(s, t))
  BY <1>10, Inputs DEF Legal, IsInjective, Holds
<1> QED
  BY <1>10, <1>11 DEF Contains, Holds

-----------------------------------------------------------------------------

\* What a request that is under way relies on: the checks of its body were made
\* before, and what it is about to write is its edit of what it read.  The row a
\* request inserts is there only once it was answered.
RequestsKnow ==
    \A r \in Request :
        /\ phase[r] \in {"absent", "found", "edited"} =>
              ~Invalid(job[r]) /\ job[r].op \in {"add", "remove"}
        /\ phase[r] = "absent" => job[r].op = "add"
        /\ phase[r] \in {"found", "edited"} => list[r] \in ListId
        /\ phase[r] = "edited" =>
              /\ Legal(tickers[r])
              /\ tickers[r] = edited(job[r].op, read[r], Upper(job[r].text))
        /\ lists[r] # NoRow => phase[r] \in Committed

\* Whoever wrote a row has been answered.
Answered(row) == row.writer \in Request => phase[row.writer] \in Answer
WritersAnswered == \A h \in ListId : lists[h] # NoRow => Answered(lists[h])

WatchInv == TypeOK /\ ListsStayLegal /\ RequestsKnow /\ WritersAnswered

\* Request r went on; no other did.
Moved(r) ==
    /\ job' = job
    /\ phase' \in [Request -> Phase] /\ list' \in [Request -> ListId \cup {NoRow}]
    /\ read' \in [Request -> Seq(Ticker)] /\ tickers' \in [Request -> Seq(Ticker)]
    /\ \A q \in Request : q # r =>
          phase'[q] = phase[q] /\ list'[q] = list[q] /\ read'[q] = read[q] /\ tickers'[q] = tickers[q]

\* Request r was answered, and wrote or deleted row k.
Wrote(r, k) ==
    /\ lists' \in [ListId -> Row \cup {NoRow}]
    /\ \A h \in ListId : h # k => lists'[h] = lists[h]
    /\ \/ /\ lists'[k] \in Row /\ lists'[k].writer = r /\ Legal(lists'[k].tickers)
          /\ lists[k] # NoRow \/ (k = r /\ phase'[r] \in Committed)
       \/ lists'[k] = NoRow
    /\ phase'[r] \in Answer

\* What the step of a request that is under way has to show.
LEMMA StepKeeps ==
  ASSUME WatchInv, NEW r \in Request, phase[r] \in InFlight, phase'[r] # "idle", Moved(r),
         lists' = lists \/ \E k \in ListId : Wrote(r, k),
         phase'[r] \in {"absent", "found", "edited"} => ~Invalid(job[r]) /\ job[r].op \in {"add", "remove"},
         phase'[r] = "absent" => job[r].op = "add",
         phase'[r] \in {"found", "edited"} => list'[r] \in ListId,
         phase'[r] = "edited" =>
            Legal(tickers'[r]) /\ tickers'[r] = edited(job[r].op, read'[r], Upper(job[r].text))
  PROVE  WatchInv'
<1>0. r \in ListId /\ NoRow \notin ListId /\ NoRow \notin Row
  BY Inputs DEF ListId
<1>1. lists[r] = NoRow
  BY DEF WatchInv, RequestsKnow, Committed, InFlight
<1>2. TypeOK'
  BY DEF WatchInv, TypeOK, Moved, Wrote
<1>3. ListsStayLegal'
  BY DEF WatchInv, ListsStayLegal, Wrote
<1>4. RequestsKnow'
  <2> SUFFICES ASSUME NEW q \in Request
               PROVE /\ phase'[q] \in {"absent", "found", "edited"} =>
                           ~Invalid(job'[q]) /\ job'[q].op \in {"add", "remove"}
                     /\ phase'[q] = "absent" => job'[q].op = "add"
                     /\ phase'[q] \in {"found", "edited"} => list'[q] \in ListId
                     /\ phase'[q] = "edited" =>
                           /\ Legal(tickers'[q])
                           /\ tickers'[q] = edited(job'[q].op, read'[q], Upper(job'[q].text))
                     /\ lists'[q] # NoRow => phase'[q] \in Committed
    BY DEF RequestsKnow
  <2>1. CASE q = r
    <3>1. lists'[q] # NoRow => phase'[q] \in Committed
      BY <1>0, <1>1, <2>1 DEF Wrote
    <3> QED
      BY <2>1, <3>1 DEF Moved
  <2>2. CASE q # r
    <3>1. q \in ListId
      BY DEF ListId
    <3>2. lists'[q] # NoRow => lists[q] # NoRow
      BY <2>2, <3>1 DEF Wrote
    <3> QED
      BY <2>2, <3>2 DEF Moved, WatchInv, RequestsKnow
  <2> QED
    BY <2>1, <2>2
<1>5. WritersAnswered'
  <2> SUFFICES ASSUME NEW h \in ListId, lists'[h] # NoRow, lists'[h].writer \in Request
               PROVE  phase'[lists'[h].writer] \in Answer
    BY DEF WritersAnswered, Answered
  <2>1. CASE lists'[h] = lists[h]
    <3>1. phase[lists[h].writer] \in Answer
      BY <2>1 DEF WatchInv, WritersAnswered, Answered
    <3>2. lists[h].writer # r
      BY <3>1 DEF Answer, InFlight
    <3> QED
      BY <2>1, <3>1, <3>2 DEF Moved
  <2>2. CASE lists'[h] # lists[h]
    BY <2>2 DEF Wrote
  <2> QED
    BY <2>1, <2>2
<1> QED
  BY <1>2, <1>3, <1>4, <1>5 DEF WatchInv

\* What an answer leaves behind.
LEMMA ReplyMoves ==
  ASSUME TypeOK, NEW r \in Request, NEW a \in Answer \cup {"absent"}, Reply(r, a)
  PROVE  Moved(r) /\ phase'[r] = a
<1>1. a \in Phase /\ <<>> \in Seq(Ticker)
  BY DEF Phase, InFlight
<1> QED
  BY <1>1 DEF Reply, Moved, TypeOK

\* A row that may be stored.
LEMMA StoreWrites ==
  ASSUME TypeOK, NEW r \in Request, NEW k \in ListId, NEW row \in Row,
         Store(k, row), row.writer = r, Legal(row.tickers), phase'[r] \in Answer,
         lists[k] # NoRow \/ (k = r /\ phase'[r] \in Committed)
  PROVE  Wrote(r, k)
BY DEF Store, Wrote, TypeOK

\* A step of a request keeps the invariant.
LEMMA ServeKeeps ==
  ASSUME WatchInv, NEW r \in Request, Serve(r) \/ Abort(r)
  PROVE  WatchInv'
<1>0. TypeOK /\ r \in ListId
  BY DEF WatchInv, ListId
<1>13. job[r] \in Call /\ job[r].user \in User /\ job[r].texts \in Seq(Text) /\ job[r].text \in Text
      /\ job[r].is_default \in BOOLEAN /\ job[r].list \in ListId \cup {Default}
      /\ job[r].op \in {"create", "update", "delete", "add", "remove"}
  BY <1>0 DEF TypeOK, Call
<1>11. ASSUME NEW a \in Answer, Reply(r, a), phase[r] \in InFlight, lists' = lists PROVE WatchInv'
  BY <1>0, <1>11, ReplyMoves, StepKeeps DEF Answer
<1>12. ASSUME NEW a \in Answer, Reply(r, a), phase[r] \in InFlight, NEW k \in ListId, NEW row \in Row,
             Store(k, row), row.writer = r, Legal(row.tickers),
             lists[k] # NoRow \/ (k = r /\ a \in Committed)
      PROVE  WatchInv'
  <2>1. Moved(r) /\ phase'[r] = a
    BY <1>0, <1>12, ReplyMoves
  <2>2. Wrote(r, k)
    BY <1>0, <1>12, <2>1, StoreWrites
  <2> QED
    BY <1>12, <2>1, <2>2, StepKeeps DEF Answer
<1>14. Committed \subseteq Answer
  BY DEF Committed, Answer
<1>1. CASE Reject(r)
  BY <1>1, <1>11 DEF Reject, InFlight, Answer
<1>2. CASE Create(r)
  <2> DEFINE t == validateTickers(job[r].texts)
             d == job[r].is_default
             row == [user |-> job[r].user, tickers |-> t, is_default |-> d, writer |-> r]
  <2>1. PICK a \in Committed : Reply(r, a)
    BY <1>2 DEF Create
  <2>2. phase[r] \in InFlight /\ Store(r, row)
    BY <1>2 DEF Create, Starts, InFlight
  <2>3. t \in Seq(Ticker) /\ Legal(t) /\ d \in BOOLEAN
    BY <1>13, ValidIsLegal
  <2> HIDE DEF t, d
  <2>4. row \in Row /\ row.writer = r /\ Legal(row.tickers)
    BY <1>13, <2>3 DEF Row
  <2> HIDE DEF row
  <2> QED
    BY <1>0, <1>12, <1>14, <2>1, <2>2, <2>4
<1>3. CASE Update(r)
  <2> DEFINE k == job[r].list
             old == lists[k]
             t == IF "tickers" \in job[r].sets THEN validateTickers(job[r].texts) ELSE old.tickers
             d == IF "is_default" \in job[r].sets THEN job[r].is_default ELSE old.is_default
             row == [old EXCEPT !.tickers = t, !.is_default = d, !.writer = r]
  <2>1. phase[r] \in InFlight
    BY <1>3 DEF Update, Starts, InFlight
  <2>2. CASE ~Mine(r, k)
    BY <1>3, <1>11, <2>1, <2>2 DEF Update, Answer
  <2>3. CASE Mine(r, k)
    <3>1. Store(k, row) /\ \E a \in {"ok", "not_found"} : Reply(r, a)
      BY <1>3, <2>3 DEF Update
    <3>2. k \in ListId /\ old # NoRow /\ old \in Row
      BY <1>0, <1>13, <2>3 DEF Mine, TypeOK
    <3>3. Legal(old.tickers)
      BY <3>2 DEF WatchInv, ListsStayLegal
    <3>4. t \in Seq(Ticker) /\ Legal(t)
      BY <1>13, <3>2, <3>3, ValidIsLegal DEF Row
    <3>5. d \in BOOLEAN
      BY <1>13, <3>2 DEF Row
    <3> HIDE DEF t, d
    <3>6. row \in Row /\ row.writer = r /\ row.tickers = t
      BY <3>2, <3>4, <3>5 DEF Row
    <3> HIDE DEF row
    <3>7. PICK a \in {"ok", "not_found"} : Reply(r, a)
      BY <3>1
    <3>8. a \in Answer
      BY DEF Answer
    <3> QED
      BY <1>12, <2>1, <3>1, <3>2, <3>4, <3>6, <3>7, <3>8
  <2> QED
    BY <2>2, <2>3
<1>4. CASE Delete(r)
  <2> DEFINE k == job[r].list
  <2>1. phase[r] \in InFlight
    BY <1>4 DEF Delete, Starts, InFlight
  <2>2. CASE ~Mine(r, k)
    BY <1>4, <1>11, <2>1, <2>2 DEF Delete, Answer
  <2>3. CASE Mine(r, k)
    <3>1. PICK a \in {"ok", "not_found"} : Reply(r, a)
      BY <1>4, <2>3 DEF Delete
    <3>2. a \in Answer /\ k \in ListId /\ Store(k, NoRow)
      BY <1>4, <1>13, <2>3 DEF Delete, Mine, Answer
    <3>3. Moved(r) /\ phase'[r] = a
      BY <1>0, <3>1, <3>2, ReplyMoves
    <3>4. Wrote(r, k)
      BY <1>0, <3>2, <3>3 DEF Wrote, Store, TypeOK
    <3> QED
      BY <2>1, <3>2, <3>3, <3>4, StepKeeps DEF Answer
  <2> QED
    BY <2>2, <2>3
<1>15. ASSUME Starts(r, {"add", "remove"}), NoneFound(r), lists' = lists PROVE WatchInv'
  <2>1. phase[r] \in InFlight /\ ~Invalid(job[r]) /\ job[r].op \in {"add", "remove"}
    BY <1>15 DEF Starts, InFlight
  <2>2. CASE job[r].op = "add"
    <3>1. Moved(r) /\ phase'[r] = "absent"
      BY <1>0, <1>15, <2>2, ReplyMoves DEF NoneFound
    <3> QED
      BY <1>15, <2>1, <2>2, <3>1, StepKeeps
  <2>3. CASE job[r].op # "add"
    BY <1>11, <1>15, <2>1, <2>3 DEF NoneFound, Answer
  <2> QED
    BY <2>2, <2>3
<1>5. CASE FindList(r)
  <2>1. Starts(r, {"add", "remove"}) /\ lists' = lists
    BY <1>5 DEF FindList
  <2>2. ASSUME NEW h \in ListId, list' = [list EXCEPT ![r] = h], phase' = [phase EXCEPT ![r] = "found"],
               UNCHANGED <<job, read, tickers>>
        PROVE  WatchInv'
    <3>1. Moved(r) /\ phase'[r] = "found" /\ list'[r] = h
      BY <1>0, <2>2 DEF Moved, TypeOK, Phase, InFlight
    <3>2. phase[r] \in InFlight /\ ~Invalid(job[r]) /\ job[r].op \in {"add", "remove"}
      BY <2>1 DEF Starts, InFlight
    <3> QED
      BY <2>1, <3>1, <3>2, StepKeeps
  <2>3. CASE NoneFound(r)
    BY <1>15, <2>1, <2>3
  <2>4. CASE ~NoneFound(r)
    <3>1. PICK h \in ListId : list' = [list EXCEPT ![r] = h] /\ phase' = [phase EXCEPT ![r] = "found"]
                              /\ UNCHANGED <<job, read, tickers>>
      BY <1>5, <1>13, <2>4 DEF FindList, Defaults
    <3> QED
      BY <2>2, <3>1
  <2> QED
    BY <2>3, <2>4
<1>6. CASE CreateDefault(r)
  <2> DEFINE t == Upper(job[r].text)
             row == [user |-> job[r].user, tickers |-> <<t>>, is_default |-> TRUE, writer |-> r]
  <2>1. PICK a \in Committed : Reply(r, a)
    BY <1>6 DEF CreateDefault
  <2>2. phase[r] \in InFlight /\ Store(r, row)
    BY <1>6 DEF CreateDefault, InFlight
  <2>3. t \in Ticker
    BY <1>6 DEF CreateDefault, WatchInv, RequestsKnow, Invalid
  <2> HIDE DEF t
  <2>4. <<t>> \in Seq(Ticker) /\ Legal(<<t>>)
    BY <2>3, Inputs DEF Legal, IsInjective
  <2>5. row \in Row /\ row.writer = r /\ Legal(row.tickers)
    BY <1>13, <2>4 DEF Row
  <2> HIDE DEF row
  <2> QED
    BY <1>0, <1>12, <1>14, <2>1, <2>2, <2>5
<1>7. CASE ReadList(r)
  <2> DEFINE t == Upper(job[r].text)
             s == lists[list[r]].tickers
             op == job[r].op
  <2>1. phase[r] = "found" /\ lists' = lists /\ phase[r] \in InFlight
    BY <1>7 DEF ReadList, InFlight
  <2>2. CASE \E a \in {"not_found", "ok", "bad_request"} : Reply(r, a)
    BY <1>11, <2>1, <2>2 DEF Answer
  <2>3. CASE ~\E a \in {"not_found", "ok", "bad_request"} : Reply(r, a)
    <3>1. /\ Mine(r, list[r]) /\ (op = "add" => ~Contains(s, t) /\ ~full(s))
          /\ phase' = [phase EXCEPT ![r] = "edited"]
          /\ read' = [read EXCEPT ![r] = s]
          /\ tickers' = [tickers EXCEPT ![r] = edited(op, s, t)]
          /\ UNCHANGED <<job, list>>
      BY <1>7, <2>3, Zenon DEF ReadList
    <3>2. /\ ~Invalid(job[r]) /\ op \in {"add", "remove"} /\ list[r] \in ListId
      BY <2>1 DEF WatchInv, RequestsKnow
    <3>3. t \in Ticker
      BY <3>2 DEF Invalid
    <3>4. s \in Seq(Ticker) /\ Legal(s)
      BY <1>0, <3>1, <3>2 DEF Mine, TypeOK, Row, WatchInv, ListsStayLegal
    <3> DEFINE e == edited(op, s, t)
    <3>5. e \in Seq(Ticker) /\ Legal(e)
      <4> HIDE DEF s, t, op
      <4>1. CASE op = "add"
        <5>1. e = accept(s, t)
          BY <3>1, <3>3, <3>4, <4>1, Inputs DEF edited, accept, full
        <5> QED
          BY <3>4, <5>1, Accepted
      <4>2. CASE op # "add"
        <5>1. e = without(s, t)
          BY <4>2 DEF edited
        <5> QED
          BY <3>4, <5>1, WithoutOne
      <4> QED
        BY <4>1, <4>2
    <3> HIDE DEF e, s, t
    <3>6. Moved(r) /\ phase'[r] = "edited" /\ list'[r] = list[r] /\ read'[r] = s /\ tickers'[r] = e
      BY <1>0, <3>1, <3>4, <3>5 DEF Moved, TypeOK, Phase, InFlight, e
    <3> QED
      BY <2>1, <3>2, <3>5, <3>6, StepKeeps DEF e, t
  <2> QED
    BY <2>2, <2>3
<1>8. CASE UpdateTickers(r)
  <2> DEFINE k == list[r]
             row == [lists[k] EXCEPT !.tickers = tickers[r], !.writer = r]
  <2>1. phase[r] = "edited" /\ phase[r] \in InFlight
    BY <1>8 DEF UpdateTickers, InFlight
  <2>2. CASE ~Mine(r, k)
    BY <1>8, <1>11, <2>1, <2>2 DEF UpdateTickers, Answer
  <2>3. CASE Mine(r, k)
    <3>1. PICK a \in Committed : Reply(r, a)
      BY <1>8, <2>3 DEF UpdateTickers
    <3>2. Store(k, row)
      BY <1>8, <2>3 DEF UpdateTickers
    <3>3. k \in ListId /\ Legal(tickers[r])
      BY <2>1 DEF WatchInv, RequestsKnow
    <3>4. lists[k] # NoRow /\ lists[k] \in Row /\ tickers[r] \in Seq(Ticker)
      BY <1>0, <2>3, <3>3 DEF Mine, TypeOK
    <3>5. row \in Row /\ row.writer = r /\ row.tickers = tickers[r]
      BY <3>4 DEF Row
    <3> HIDE DEF row
    <3> QED
      BY <1>12, <1>14, <2>1, <3>1, <3>2, <3>3, <3>4, <3>5
  <2> QED
    BY <2>2, <2>3
<1>9. CASE Abort(r)
  <2>1. lists' = lists
    BY <1>9 DEF Abort
  <2>2. CASE Starts(r, {"add", "remove"}) /\ NoneFound(r)
    BY <1>15, <2>1, <2>2
  <2>3. CASE ~(Starts(r, {"add", "remove"}) /\ NoneFound(r))
    <3>1. phase[r] \in InFlight /\ \E a \in Answer : Reply(r, a)
      BY <1>9, <2>3 DEF Abort, Starts, InFlight, Answer
    <3> QED
      BY <1>11, <2>1, <3>1
  <2> QED
    BY <2>2, <2>3
<1> QED
  BY <1>1, <1>2, <1>3, <1>4, <1>5, <1>6, <1>7, <1>8, <1>9 DEF Serve

\* New requests keep it.
LEMMA ArriveKeeps ==
  ASSUME WatchInv, NEW Q \in SUBSET Request, \A q \in Q : phase[q] = "idle",
         job' \in [Request -> Call], \A q \in Request \ Q : job'[q] = job[q],
         phase' = [q \in Request |-> IF q \in Q THEN "received" ELSE phase[q]],
         UNCHANGED <<lists, list, read, tickers>>
  PROVE  WatchInv'
<1>1. TypeOK'
  BY DEF WatchInv, TypeOK, Phase, InFlight
<1>2. ListsStayLegal'
  BY DEF WatchInv, ListsStayLegal
<1>3. RequestsKnow'
  <2>1. \A q \in Q : lists[q] = NoRow
    BY DEF WatchInv, RequestsKnow, Committed
  <2> QED
    BY <2>1 DEF WatchInv, RequestsKnow
<1>4. WritersAnswered'
  BY DEF WatchInv, WritersAnswered, Answered, Answer
<1> QED
  BY <1>1, <1>2, <1>3, <1>4 DEF WatchInv

\* The requests Q come in.
Arrive(Q) ==
    /\ \A q \in Q : phase[q] = "idle"
    /\ job' \in [Request -> Call] /\ \A q \in Request \ Q : job'[q] = job[q]
    /\ phase' = [q \in Request |-> IF q \in Q THEN "received" ELSE phase[q]]
    /\ UNCHANGED <<lists, list, read, tickers>>

\* A request that comes in.
LEMMA ReceiveArrives ==
  ASSUME TypeOK, NEW r \in Request, NEW c \in Call, Receive(r, c)
  PROVE  Arrive({r})
BY DEF Receive, Arrive, TypeOK

\* What the page sends is a call of the API.
LEMMA EditIsCall ==
  ASSUME NEW op \in {"add", "remove"}, NEW t \in Text
  PROVE  /\ Edit(op, t) \in Call /\ Edit(op, t).user = me /\ Edit(op, t).list = Default
         /\ Edit(op, t).op = op /\ Edit(op, t).text = t
BY Page DEF Edit, Call

\* The migration's requests come in together.
LEMMA MigrateArrives ==
  ASSUME TypeOK, Migrate
  PROVE  /\ migration' \in SUBSET Request
         /\ migration' # {} \/ saved = <<>>
         /\ Arrive(migration')
         /\ \A q \in migration' : \E t \in Text : job'[q] = Edit("add", t)
         /\ migrated' = TRUE /\ sent' = sent \cup migration'
<1>1. PICK r \in [DOMAIN saved -> {q \in Request : phase[q] = "idle"}] :
        LET its(q) == CHOOSE i \in DOMAIN saved : r[i] = q
        IN  /\ IsInjective(r)
            /\ migration' = Range(r) /\ sent' = sent \cup Range(r)
            /\ migrated' = TRUE
            /\ job' = [q \in Request |-> IF q \in Range(r) THEN Edit("add", saved[its(q)])
                                         ELSE job[q]]
            /\ phase' = [q \in Request |-> IF q \in Range(r) THEN "received" ELSE phase[q]]
            /\ UNCHANGED <<lists, list, read, tickers>>
  BY DEF Migrate
<1> DEFINE its(q) == CHOOSE i \in DOMAIN saved : r[i] = q
           Q == Range(r)
<1>2. Q \subseteq Request /\ \A q \in Q : phase[q] = "idle"
  BY DEF Range
<1>3. Q # {} \/ saved = <<>>
  BY Page DEF Range
<1>4. \A q \in Q : saved[its(q)] \in Text
  <2> SUFFICES ASSUME NEW q \in Q PROVE saved[its(q)] \in Text
    OBVIOUS
  <2>1. \E i \in DOMAIN saved : r[i] = q
    BY DEF Range
  <2>2. its(q) \in DOMAIN saved
    BY <2>1
  <2> QED
    BY <2>2, Page
<1>5. \A q \in Q : Edit("add", saved[its(q)]) \in Call
  BY <1>4, EditIsCall
<1> HIDE DEF its, Q
<1>6. /\ migration' = Q /\ sent' = sent \cup Q /\ migrated' = TRUE
      /\ job' = [q \in Request |-> IF q \in Q THEN Edit("add", saved[its(q)]) ELSE job[q]]
      /\ phase' = [q \in Request |-> IF q \in Q THEN "received" ELSE phase[q]]
      /\ UNCHANGED <<lists, list, read, tickers>>
  BY <1>1 DEF its, Q
<1>7. Arrive(Q)
  BY <1>2, <1>5, <1>6 DEF Arrive, TypeOK
<1>8. \A q \in Q : job'[q] = Edit("add", saved[its(q)])
  BY <1>2, <1>6
<1> QED
  BY <1>2, <1>3, <1>4, <1>6, <1>7, <1>8

\* What a step of the page and its surroundings is to the requests.
LEMMA PageSteps ==
  ASSUME TypeOK, PageNext
  PROVE  \/ \E r \in Request : Serve(r) \/ Abort(r)
         \/ \E Q \in SUBSET Request : Arrive(Q)
         \/ UNCHANGED vars
<1>1. CASE Server
  BY <1>1 DEF Server
<1>2. CASE Other
  <2>1. PICK r \in Request, c \in Calls : Receive(r, c)
    BY <1>2 DEF Other
  <2> QED
    BY <2>1, Inputs, ReceiveArrives
<1>3. ASSUME NEW r \in Request, NEW x \in Typed, AddQuickTicker(r, x) \/ RemoveQuickTicker(r, x)
      PROVE  \E Q \in SUBSET Request : Arrive(Q)
  <2>1. x \in Text /\ Upper(x) \in Text
    BY Page, Inputs
  <2>2. PICK c \in Call : Receive(r, c)
    BY <1>3, <2>1, EditIsCall DEF AddQuickTicker, RemoveQuickTicker
  <2> QED
    BY <2>2, ReceiveArrives
<1>4. CASE (\E r \in Request : EditAnswered(r)) \/ MigrationAnswered \/ ServeGet \/ GetFails \/ Revalidate
  BY <1>4 DEF EditAnswered, MigrationAnswered, ServeGet, GetFails, Revalidate
<1>5. CASE GetAnswered
  <2>1. CASE Migrate
    BY <2>1, MigrateArrives
  <2>2. CASE ~Migrate
    BY <1>5, <2>2 DEF GetAnswered
  <2> QED
    BY <2>1, <2>2
<1> QED
  BY <1>1, <1>2, <1>3, <1>4, <1>5 DEF PageNext

\* The invariant of the requests, through the steps of the page.
LEMMA WatchInitOK == Init => WatchInv
<1> SUFFICES ASSUME Init PROVE WatchInv
  OBVIOUS
<1>0. /\ \A r \in Request : lists[r] = NoRow
      /\ phase = [r \in Request |-> "idle"]
      /\ <<>> \in Seq(Ticker)
  BY DEF Init
<1>1. TypeOK
  <2>1. (CHOOSE c \in Calls : TRUE) \in Call
    BY Inputs
  <2> HIDE DEF Call
  <2>2. job \in [Request -> Call]
    BY <2>1 DEF Init
  <2>3. lists \in [ListId -> Row \cup {NoRow}]
    BY Before DEF Init
  <2>4. phase \in [Request -> Phase]
    BY <1>0 DEF Phase
  <2> QED
    BY <1>0, <2>2, <2>3, <2>4 DEF Init, TypeOK
<1>2. \A h \in ListId : lists[h] # NoRow => lists[h] \in Opening
  BY DEF Init
<1>3. ListsStayLegal
  BY <1>2, Before DEF ListsStayLegal
<1>4. RequestsKnow
  BY <1>0 DEF RequestsKnow
<1>5. WritersAnswered
  <2>1. NoRow \notin Request
    BY Inputs DEF ListId
  <2> QED
    BY <1>2, <2>1, Before DEF WritersAnswered, Answered
<1> QED
  BY <1>1, <1>3, <1>4, <1>5 DEF WatchInv

\* Every step of the page and its surroundings keeps the invariant of the requests.
LEMMA WatchStep == WatchInv /\ [PageNext]_<<vars, pageVars>> => WatchInv'
<1>1. ASSUME WatchInv, UNCHANGED vars PROVE WatchInv'
  BY <1>1 DEF WatchInv, vars, TypeOK, ListsStayLegal, RequestsKnow, WritersAnswered, Answered
<1>2. ASSUME WatchInv, PageNext PROVE WatchInv'
  <2>1. TypeOK
    BY <1>2 DEF WatchInv
  <2>2. CASE \E r \in Request : Serve(r) \/ Abort(r)
    BY <1>2, <2>2, ServeKeeps
  <2>3. CASE \E Q \in SUBSET Request : Arrive(Q)
    BY <1>2, <2>3, ArriveKeeps DEF Arrive
  <2>4. CASE UNCHANGED vars
    BY <1>1, <1>2, <2>4
  <2> QED
    BY <1>2, <2>1, <2>2, <2>3, <2>4, PageSteps
<1> QED
  BY <1>1, <1>2

\* The invariant of the requests holds throughout.
LEMMA WatchInductive == PageSpec => []WatchInv
<1>1. PageInit => WatchInv
  BY WatchInitOK DEF PageInit
<1> QED
  BY <1>1, WatchStep, PTL DEF PageSpec

\* However adds, removes and replacements of a list overlap, it never holds a
\* ticker twice nor more than maxTickersPerWatchlist (ModifyTicker's edit in
\* memory, UpdateTickers, validateTickers).
THEOREM ListsAreLegal == PageSpec => []ListsStayLegal
<1>1. WatchInv => ListsStayLegal
  BY DEF WatchInv
<1> QED
  BY <1>1, WatchInductive, PTL

-----------------------------------------------------------------------------

\* A statement writes one row.
LEMMA StoreOne ==
  ASSUME TypeOK, NEW k, NEW row, Store(k, row)
  PROVE  \A h \in ListId : lists'[h] # lists[h] => h = k /\ lists'[h] = row
BY DEF Store, TypeOK

\* Where a step of a request leaves a list that was not there.
LEMMA AppearsOnce ==
  ASSUME WatchInv, NEW r \in Request, Serve(r) \/ Abort(r),
         NEW h \in ListId, lists[h] = NoRow, lists'[h] # NoRow
  PROVE  h = r /\ job[h].op \in {"create", "add"} /\ phase'[h] \in Committed
<1>0. TypeOK
  BY DEF WatchInv
<1>1. CASE Create(r)
  <2>1. PICK a \in Committed : Reply(r, a)
    BY <1>1 DEF Create
  <2>2. phase'[r] = a
    BY <1>0, <2>1 DEF Reply, TypeOK
  <2> QED
    BY <1>1, <2>1, <2>2 DEF Create, Starts, Store
<1>2. CASE Update(r)
  <2>1. Mine(r, h)
    BY <1>0, <1>2, StoreOne DEF Update
  <2> QED
    BY <2>1 DEF Mine
<1>3. CASE Delete(r)
  BY <1>0, <1>3 DEF Delete, Store, TypeOK
<1>4. CASE CreateDefault(r)
  <2>1. PICK a \in Committed : Reply(r, a)
    BY <1>4 DEF CreateDefault
  <2>2. phase'[r] = a
    BY <1>0, <2>1 DEF Reply, TypeOK
  <2>3. job[r].op = "add"
    BY <1>4 DEF CreateDefault, WatchInv, RequestsKnow
  <2> QED
    BY <1>4, <2>1, <2>2, <2>3 DEF CreateDefault, Store
<1>5. CASE UpdateTickers(r)
  <2>1. Mine(r, h)
    BY <1>0, <1>5, StoreOne DEF UpdateTickers
  <2> QED
    BY <2>1 DEF Mine
<1>6. CASE Reject(r) \/ FindList(r) \/ ReadList(r) \/ Abort(r)
  BY <1>6 DEF Reject, FindList, ReadList, Abort
<1> QED
  BY <1>1, <1>2, <1>3, <1>4, <1>5, <1>6 DEF Serve

\* A deleted list stays deleted, although a request may still hold what it read
\* of it: a row appears only under a fresh id (UpdateTickers is an UPDATE).
THEOREM DeletedStaysDeleted == PageSpec => NoResurrection
<1> DEFINE P == \A h \in ListId : lists[h] = NoRow /\ lists'[h] # NoRow =>
                   h \in Request /\ job[h].op \in {"create", "add"} /\ phase'[h] \in Committed
<1>1. WatchInv /\ [PageNext]_<<vars, pageVars>> => [P]_vars
  <2> SUFFICES ASSUME WatchInv, [PageNext]_<<vars, pageVars>>, vars' # vars PROVE P
    OBVIOUS
  <2>1. PageNext /\ TypeOK
    BY DEF pageVars, vars, WatchInv
  <2>2. CASE \E r \in Request : Serve(r) \/ Abort(r)
    BY <2>2, AppearsOnce
  <2>3. CASE \E Q \in SUBSET Request : Arrive(Q)
    BY <2>3 DEF Arrive
  <2> QED
    BY <2>1, <2>2, <2>3, PageSteps DEF vars
<1> HIDE DEF P
<1>2. PageSpec => [][P]_vars
  BY <1>1, WatchInductive, PTL DEF PageSpec
<1> QED
  BY <1>2 DEF P, NoResurrection

\* Where a step of a request takes a ticker from a list.
LEMMA LostAsAsked ==
  ASSUME WatchInv, NEW r \in Request, Serve(r) \/ Abort(r),
         NEW h \in ListId, NEW t \in Ticker, lists[h] # NoRow, lists'[h] # NoRow,
         Contains(lists[h].tickers, t), ~Contains(lists'[h].tickers, t)
  PROVE  /\ phase'[r] # phase[r]
         /\ \/ job[r].op = "update"
            \/ job[r].op = "remove" /\ Upper(job[r].text) = t
            \/ list[r] = h /\ read[r] # lists[h].tickers
<1>0. TypeOK /\ lists'[h] # lists[h]
  BY DEF WatchInv
<1>1. CASE Create(r) \/ CreateDefault(r)
  <2>1. phase[r] \in InFlight
    BY <1>1 DEF Create, CreateDefault, Starts, InFlight
  <2>2. lists[r] = NoRow
    BY <2>1 DEF WatchInv, RequestsKnow, InFlight, Committed
  <2> QED
    BY <1>0, <1>1, <2>2, StoreOne DEF Create, CreateDefault
<1>2. CASE Update(r)
  <2>1. PICK a \in {"ok", "not_found"} : Reply(r, a)
    BY <1>2 DEF Update
  <2>2. phase'[r] = a /\ phase[r] = "received" /\ job[r].op = "update"
    BY <1>0, <1>2, <2>1 DEF Update, Starts, Reply, TypeOK
  <2> QED
    BY <2>1, <2>2
<1>3. CASE Delete(r)
  BY <1>0, <1>3 DEF Delete, Store, TypeOK
<1>4. CASE UpdateTickers(r)
  <2>1. phase[r] = "edited" /\ Mine(r, list[r]) /\ h = list[r]
    BY <1>0, <1>4, StoreOne DEF UpdateTickers
  <2>2. PICK a \in Committed : Reply(r, a)
    BY <1>4 DEF UpdateTickers, Committed
  <2>3. phase'[r] # phase[r]
    BY <1>0, <2>1, <2>2 DEF Reply, TypeOK, Committed
  <2>4. lists'[h].tickers = tickers[r]
    <3>1. lists[h] \in Row
      BY <1>0 DEF TypeOK
    <3> QED
      BY <1>0, <1>4, <2>1, <3>1 DEF UpdateTickers, Store, Row, TypeOK
  <2>5. tickers[r] = edited(job[r].op, read[r], Upper(job[r].text)) /\ job[r].op \in {"add", "remove"}
    BY <2>1 DEF WatchInv, RequestsKnow
  <2>6. CASE read[r] # lists[h].tickers
    BY <2>1, <2>3, <2>6
  <2>7. CASE read[r] = lists[h].tickers
    <3> DEFINE s == read[r]
               x == Upper(job[r].text)
    <3>1. s \in Seq(Ticker) /\ Contains(s, t) /\ ~Contains(edited(job[r].op, s, x), t)
      BY <1>0, <2>4, <2>5, <2>7 DEF TypeOK
    <3> HIDE DEF s, x
    <3>2. CASE job[r].op = "add"
      BY <3>1, <3>2 DEF edited, Contains
    <3>3. CASE job[r].op = "remove"
      <4>1. t = x
        BY <3>1, <3>3, WithoutOne DEF edited
      <4> QED
        BY <2>3, <3>3, <4>1 DEF x
    <3> QED
      BY <2>5, <3>2, <3>3
  <2> QED
    BY <2>6, <2>7
<1>5. CASE Reject(r) \/ FindList(r) \/ ReadList(r) \/ Abort(r)
  BY <1>0, <1>5 DEF Reject, FindList, ReadList, Abort
<1> QED
  BY <1>1, <1>2, <1>3, <1>4, <1>5 DEF Serve

\* A ticker leaves a list it stays in only at the step of a request that asks for
\* that, or of one that had read other contents: ModifyTicker loses nothing that
\* was there when it read.
THEOREM LosesOnlyByOverlap == PageSpec => LostOnlyByOverlap
<1> DEFINE P == \A h \in ListId, t \in Ticker :
                   lists[h] # NoRow /\ lists'[h] # NoRow
                   /\ Contains(lists[h].tickers, t) /\ ~Contains(lists'[h].tickers, t)
                     => \E r \in Request :
                           /\ phase'[r] # phase[r]
                           /\ \/ job[r].op = "update"
                              \/ job[r].op = "remove" /\ Upper(job[r].text) = t
                              \/ list[r] = h /\ read[r] # lists[h].tickers
<1>1. WatchInv /\ [PageNext]_<<vars, pageVars>> => [P]_vars
  <2> SUFFICES ASSUME WatchInv, [PageNext]_<<vars, pageVars>>, vars' # vars PROVE P
    OBVIOUS
  <2>1. PageNext /\ TypeOK
    BY DEF pageVars, vars, WatchInv
  <2>2. CASE \E r \in Request : Serve(r) \/ Abort(r)
    BY <2>2, LostAsAsked
  <2>3. CASE \E Q \in SUBSET Request : Arrive(Q)
    BY <2>3 DEF Arrive
  <2> QED
    BY <2>1, <2>2, <2>3, PageSteps DEF vars
<1> HIDE DEF P
<1>2. PageSpec => [][P]_vars
  BY <1>1, WatchInductive, PTL DEF PageSpec
<1> QED
  BY <1>2 DEF P, LostOnlyByOverlap

-----------------------------------------------------------------------------

\* What GET /api/watchlist may answer with, before they are put in order.
RowsOf(ls, u) ==
    {[id |-> h, row |-> ls[h]] : h \in {g \in ListId : ls[g] # NoRow /\ ls[g].user = u}}

\* There are finitely many rows.
LEMMA RowsFinite ==
  ASSUME NEW ls, NEW u
  PROVE  IsFiniteSet(RowsOf(ls, u))
<1> DEFINE S == RowsOf(ls, u)
           f == [x \in S |-> x.id]
<1>1. f \in Injection(S, ListId)
  BY DEF RowsOf, Injection, IsInjective
<1> HIDE DEF f, S
<1>2. IsFiniteSet(S)
  BY <1>1, Page, FS_Injection
<1> QED
  BY <1>2 DEF S

\* A finite set's elements in some order: each of them is there.
LEMMA InOrder ==
  ASSUME NEW S, IsFiniteSet(S), NEW s \in SetToSeqs(S)
  PROVE  s \in Seq(S) /\ \A x \in S : \E i \in DOMAIN s : s[i] = x
<1> DEFINE n == Cardinality(S)
           D == 1 .. n
<1>1. n \in Nat
  BY FS_CardinalityType
<1>2. s \in [D -> S] /\ \A i, j \in D : i # j => s[i] # s[j]
  BY DEF SetToSeqs
<1>3. s \in Injection(D, S)
  BY <1>2 DEF Injection, IsInjective
<1>4. IsFiniteSet(D) /\ Cardinality(D) = n
  BY <1>1, FS_Interval
<1> HIDE DEF D, n
<1>5. s \in Surjection(D, S)
  BY <1>3, <1>4, FS_Injection DEF n
<1>6. \A x \in S : \E i \in D : s[i] = x
  BY <1>5 DEF Surjection
<1> QED
  BY <1>1, <1>2, <1>6 DEF D

\* A list of lists the server answers with: every row, each as it is.
LEMMA ListedRows ==
  ASSUME TypeOK, NEW s \in ListByUserID(me)
  PROVE  /\ s \in Seq(Listed)
         /\ \A i \in DOMAIN s : /\ s[i].id \in ListId /\ s[i].row = lists[s[i].id]
                                /\ lists[s[i].id] # NoRow /\ lists[s[i].id].user = me
         /\ \A h \in ListId : lists[h] # NoRow /\ lists[h].user = me
              => \E i \in DOMAIN s : s[i].id = h /\ s[i].row = lists[h]
<1> DEFINE S == RowsOf(lists, me)
<1>1. s \in SetToSeqs(S)
  BY DEF ListByUserID, RowsOf
<1>2. S \subseteq Listed
  BY DEF RowsOf, Listed, TypeOK
<1>3. \A h \in ListId : lists[h] # NoRow /\ lists[h].user = me => [id |-> h, row |-> lists[h]] \in S
  BY DEF RowsOf
<1>4. \A x \in S : x.id \in ListId /\ x.row = lists[x.id] /\ lists[x.id] # NoRow /\ lists[x.id].user = me
  BY DEF RowsOf
<1> HIDE DEF S
<1>5. IsFiniteSet(S)
  BY RowsFinite DEF S
<1>6. s \in Seq(S) /\ \A x \in S : \E i \in DOMAIN s : s[i] = x
  BY <1>1, <1>5, InOrder
<1>7. s \in Seq(Listed)
  BY <1>2, <1>6
<1>8. ASSUME NEW h \in ListId, lists[h] # NoRow, lists[h].user = me
      PROVE  \E i \in DOMAIN s : s[i].id = h /\ s[i].row = lists[h]
  <2>1. [id |-> h, row |-> lists[h]] \in S
    BY <1>3, <1>8
  <2>2. PICK i \in DOMAIN s : s[i] = [id |-> h, row |-> lists[h]]
    BY <1>6, <2>1
  <2>3. s[i].id = h /\ s[i].row = lists[h]
    BY <2>2
  <2> QED
    BY <2>3
<1> QED
  BY <1>4, <1>6, <1>7, <1>8

\* The bar of an account with one default list shows that list.
LEMMA ShownIsDefault ==
  ASSUME TypeOK, NEW s \in ListByUserID(me), NEW h \in Defaults(me), \A g \in Defaults(me) : g = h
  PROVE  s # <<>> /\ Shown(s) = lists[h].tickers
<1> DEFINE D == {i \in DOMAIN s : s[i].row.is_default}
<1>0. h \in ListId /\ lists[h] # NoRow /\ lists[h].user = me /\ lists[h].is_default
  BY DEF Defaults
<1>1. PICK i \in DOMAIN s : s[i].id = h /\ s[i].row = lists[h]
  BY <1>0, ListedRows
<1>2. s \in Seq(Listed) /\ i \in D
  BY <1>0, <1>1, ListedRows
<1>3. \A j \in D : s[j].row = lists[h]
  BY ListedRows DEF Defaults
<1>4. D \subseteq Nat
  BY <1>2
<1>5. Shown(s) = s[IF D = {} THEN 1 ELSE Min(D)].row.tickers
  BY DEF Shown
<1> HIDE DEF D
<1>6. \E k \in D : \A m \in D : k <= m
  BY <1>2, <1>4, Least
<1>7. Min(D) \in D
  BY <1>6 DEF Min
<1> QED
  BY <1>1, <1>2, <1>3, <1>5, <1>7

\* What a list of lists shows is a sequence of tickers.
LEMMA ShownTypeOK ==
  ASSUME NEW s \in Seq(Listed), s # <<>>
  PROVE  Shown(s) \in Seq(Text)
<1> DEFINE D == {i \in DOMAIN s : s[i].row.is_default}
<1>1. Shown(s) = s[IF D = {} THEN 1 ELSE Min(D)].row.tickers
  BY DEF Shown
<1>2. D \subseteq Nat /\ D \subseteq DOMAIN s /\ 1 \in DOMAIN s
  OBVIOUS
<1>3. \A i \in DOMAIN s : s[i].row.tickers \in Seq(Text)
  <2> SUFFICES ASSUME NEW i \in DOMAIN s PROVE s[i].row.tickers \in Seq(Text)
    OBVIOUS
  <2>1. s[i] \in Listed
    OBVIOUS
  <2>2. s[i].row \in Row
    BY <2>1 DEF Listed
  <2>3. s[i].row.tickers \in Seq(Ticker)
    BY <2>2 DEF Row
  <2> QED
    BY <2>3, Inputs
<1> HIDE DEF D
<1>4. CASE D = {}
  BY <1>1, <1>2, <1>3, <1>4
<1>5. CASE D # {}
  <2>1. \E k \in D : \A m \in D : k <= m
    BY <1>2, <1>5, Least
  <2>2. Min(D) \in DOMAIN s
    BY <1>2, <2>1 DEF Min
  <2> QED
    BY <1>1, <1>3, <1>5, <2>2
<1> QED
  BY <1>4, <1>5

-----------------------------------------------------------------------------

\* What the page's requests ask for, and who waits for them.
SentKnow ==
    /\ \A r \in sent :
          /\ phase[r] # "idle" /\ (phase[r] \in InFlight => r \in edits \cup migration)
          /\ job[r].user = me /\ job[r].list = Default /\ job[r].op \in {"add", "remove"}
    /\ migrated \/ migration = {}

\* The rows the page holds were written by requests that have been answered.
SnapshotsAreOld ==
    /\ \A i \in DOMAIN answer : Answered(answer[i].row)
    /\ wlData # NoData => \A i \in DOMAIN wlData : Answered(wlData[i].row)

\* No one but the page has sent anything, and nothing it sent has failed.
Alone ==
    /\ \A r \in Request : phase[r] # "idle" => r \in sent
    /\ \A r \in sent : phase[r] \in InFlight \cup {"ok"}

\* Then its edits work on a default list.
OnDefault == \A r \in sent : phase[r] \in {"found", "edited"} => list[r] \in Defaults(me)

\* When it waits for no edit, what was read last is what the server holds.
DataComeBack ==
    edits = {} /\ migration = {} =>
        /\ get = "answered" => answer \in ListByUserID(me)
        /\ get = "none" => wlData \in ListByUserID(me)

\* A request under way that will still change the list the page has loaded.
Differs(r) ==
    /\ phase[r] \in InFlight
    /\ job[r].op = "add" => ~Contains(Shown(wlData), Upper(job[r].text))

\* As long as the server's lists are those the page has loaded, the bar shows
\* them, or else an edit is under way that will change them.
BarFollows ==
    /\ wlData \in ListByUserID(me) /\ wlData # <<>>
    /\ \A g, h \in Defaults(me) : g = h
    => quickTickers = Shown(wlData) \/ \E r \in sent : Differs(r)

Follows == Alone => OnDefault /\ DataComeBack /\ BarFollows

PageInv == WatchInv /\ PageTypeOK /\ SentKnow /\ SnapshotsAreOld /\ Follows

\* The lists a page may be told of do not change if no list does.
LEMMA SameLists ==
  ASSUME lists' = lists
  PROVE  ListByUserID(me)' = ListByUserID(me) /\ Defaults(me)' = Defaults(me)
BY DEF ListByUserID, Defaults

\* A request that writes makes what was read before out of date: the row is its own.
LEMMA WriteShows ==
  ASSUME TypeOK', NEW r \in Request, phase[r] \in InFlight,
         NEW k \in ListId, lists'[k] # NoRow, lists'[k].user = me, lists'[k].writer = r,
         NEW s, \A i \in DOMAIN s : Answered(s[i].row)
  PROVE  s \notin ListByUserID(me)'
<1> SUFFICES ASSUME s \in ListByUserID(me)' PROVE FALSE
  OBVIOUS
<1> DEFINE S == RowsOf(lists', me)
<1>1. s \in SetToSeqs(S)
  BY DEF ListByUserID, RowsOf
<1>2. [id |-> k, row |-> lists'[k]] \in S
  BY DEF RowsOf
<1> HIDE DEF S
<1>3. IsFiniteSet(S)
  BY RowsFinite DEF S
<1>4. PICK i \in DOMAIN s : s[i] = [id |-> k, row |-> lists'[k]]
  BY <1>1, <1>2, <1>3, InOrder
<1>5. Answered(lists'[k])
  BY <1>4
<1> QED
  BY <1>5 DEF Answered, Answer, InFlight

-----------------------------------------------------------------------------

\* A step of a request, to the others and to who was alone.
LEMMA ServeMoves ==
  ASSUME WatchInv, NEW r \in Request, Serve(r) \/ Abort(r)
  PROVE  /\ job' = job /\ phase[r] \in InFlight /\ phase'[r] # "idle"
         /\ \A q \in Request : q # r => phase'[q] = phase[q] /\ list'[q] = list[q]
<1>0. TypeOK
  BY DEF WatchInv
<1>1. ASSUME NEW a \in Answer \cup {"absent"}, Reply(r, a)
      PROVE  /\ job' = job /\ phase'[r] # "idle"
             /\ \A q \in Request : q # r => phase'[q] = phase[q] /\ list'[q] = list[q]
  BY <1>0, <1>1, ReplyMoves DEF Moved, Answer
<1>2. phase[r] \in InFlight
  BY DEF Serve, Abort, Reject, Create, Update, Delete, FindList, CreateDefault, ReadList, UpdateTickers,
         Starts, InFlight
<1>3. CASE \E a \in Answer \cup {"absent"} : Reply(r, a)
  BY <1>1, <1>2, <1>3
<1>4. CASE ~\E a \in Answer \cup {"absent"} : Reply(r, a)
  <2>1. Committed \subseteq Answer /\ {"ok", "not_found", "bad_request", "failed", "empty"} \subseteq Answer
    BY DEF Committed, Answer
  <2>2. FindList(r) \/ ReadList(r)
    BY <1>4, <2>1 DEF Serve, Abort, Reject, Create, Update, Delete, CreateDefault, UpdateTickers, NoneFound
  <2>3. /\ job' = job /\ phase' = [phase EXCEPT ![r] = phase'[r]] /\ phase'[r] \in {"found", "edited"}
        /\ \A q \in Request : q # r => list'[q] = list[q]
    <3>1. CASE FindList(r)
      <4>1. ~NoneFound(r)
        BY <1>4, <2>1 DEF NoneFound
      <4>2. PICK h : list' = [list EXCEPT ![r] = h] /\ phase' = [phase EXCEPT ![r] = "found"] /\ job' = job
        BY <3>1, <4>1 DEF FindList
      <4> QED
        BY <1>0, <4>2 DEF TypeOK
    <3>2. CASE ReadList(r)
      <4>1. phase' = [phase EXCEPT ![r] = "edited"] /\ job' = job /\ list' = list
        BY <1>4, <2>1, <3>2 DEF ReadList
      <4> QED
        BY <1>0, <4>1 DEF TypeOK
    <3> QED
      BY <2>2, <3>1, <3>2
  <2> QED
    BY <1>0, <1>2, <2>3 DEF TypeOK
<1> QED
  BY <1>3, <1>4

\* Who is alone after a step was alone before it.
LEMMA AloneBefore ==
  ASSUME TypeOK, sent \subseteq Request, sent \subseteq sent', Alone',
         \A q \in Request : phase[q] # "idle" => phase'[q] # "idle",
         \A q \in Request : phase[q] \notin InFlight => phase'[q] = phase[q] \/ phase[q] = "idle",
         \A q \in sent' \ sent : q \in Request /\ phase[q] = "idle",
         \A q \in sent : phase[q] # "idle"
  PROVE  Alone
BY DEF Alone, TypeOK, Phase, Answer, InFlight

\* What a request of the page does to the lists, when it is not to fail: it goes
\* on; or it is an add that finds its ticker there; or it writes a row of its own.
Goes(r) ==
    /\ lists' = lists /\ phase'[r] \in InFlight
    /\ phase'[r] \in {"found", "edited"} => list'[r] \in Defaults(me)
Finds(r) ==
    /\ lists' = lists /\ phase'[r] = "ok" /\ list[r] \in Defaults(me)
    /\ job[r].op = "add" /\ Contains(lists[list[r]].tickers, Upper(job[r].text))
Writes(r) ==
    /\ phase'[r] = "ok"
    /\ \E k \in ListId :
          /\ lists'[k] # NoRow /\ lists'[k].user = me /\ lists'[k].writer = r
          /\ k \in Defaults(me) => lists'[k].is_default
          /\ \A h \in ListId : h # k => lists'[h] = lists[h]

\* A request of the page goes on, finds or writes.
LEMMA AloneServe ==
  ASSUME WatchInv, NEW r \in Request, Serve(r) \/ Abort(r),
         job[r].user = me, job[r].list = Default, job[r].op \in {"add", "remove"},
         phase'[r] \in InFlight \cup {"ok"},
         phase[r] \in {"found", "edited"} => list[r] \in Defaults(me)
  PROVE  Goes(r) \/ Finds(r) \/ Writes(r)
<1>0. TypeOK
  BY DEF WatchInv
<1>1. ASSUME NEW a \in Answer \cup {"absent"}, Reply(r, a) PROVE phase'[r] = a
  BY <1>0, <1>1, ReplyMoves
<1>2. {"bad_request", "not_found", "failed", "empty", "ok"} \subseteq Answer /\ Committed = {"ok", "failed"}
  BY DEF Committed, Answer
<1>3. "bad_request" \notin InFlight \cup {"ok"} /\ "not_found" \notin InFlight \cup {"ok"}
      /\ "failed" \notin InFlight \cup {"ok"} /\ "empty" \notin InFlight \cup {"ok"}
  BY DEF InFlight
<1>4. ASSUME NEW a \in {"bad_request", "not_found", "failed", "empty"}, Reply(r, a) PROVE FALSE
  BY <1>1, <1>2, <1>3, <1>4
<1>11. ASSUME NoneFound(r), lists' = lists PROVE Goes(r)
  <2>1. phase'[r] = "absent"
    BY <1>11, <1>1, <1>4 DEF NoneFound
  <2> QED
    BY <1>11, <2>1 DEF Goes, InFlight
<1>5. CASE Reject(r) \/ Create(r) \/ Update(r) \/ Delete(r)
  BY <1>4, <1>5 DEF Reject, Create, Update, Delete, Starts
<1>6. CASE FindList(r)
  <2>1. CASE NoneFound(r)
    BY <1>6, <1>11, <2>1 DEF FindList
  <2>2. CASE ~NoneFound(r)
    <3>1. PICK h \in Defaults(me) : list' = [list EXCEPT ![r] = h] /\ phase' = [phase EXCEPT ![r] = "found"]
      BY <1>6, <2>2 DEF FindList
    <3>2. list'[r] = h /\ phase'[r] = "found" /\ lists' = lists
      BY <1>0, <1>6, <3>1 DEF TypeOK, FindList
    <3> QED
      BY <3>1, <3>2 DEF Goes, InFlight
  <2> QED
    BY <2>1, <2>2
<1>7. CASE CreateDefault(r)
  <2> DEFINE row == [user |-> job[r].user, tickers |-> <<Upper(job[r].text)>>,
                     is_default |-> TRUE, writer |-> r]
  <2>1. Store(r, row) /\ \E a \in Committed : Reply(r, a)
    BY <1>7 DEF CreateDefault
  <2>2. phase'[r] = "ok"
    BY <1>1, <1>2, <1>4, <2>1
  <2>3. row.user = me /\ row.writer = r /\ row.is_default /\ row \in Row
    <3>1. Upper(job[r].text) \in Ticker /\ phase[r] = "absent"
      BY <1>7 DEF CreateDefault, WatchInv, RequestsKnow, Invalid
    <3>2. job[r].user \in User
      BY <1>0 DEF TypeOK, Call
    <3> QED
      BY <3>1, <3>2 DEF Row
  <2> HIDE DEF row
  <2>4. r \in ListId /\ row # NoRow
    BY <2>3, Inputs DEF ListId
  <2>5. lists'[r] = row /\ \A h \in ListId : h # r => lists'[h] = lists[h]
    BY <1>0, <2>1, <2>4 DEF Store, TypeOK
  <2> QED
    BY <2>2, <2>3, <2>4, <2>5 DEF Writes
<1>8. CASE ReadList(r)
  <2>1. phase[r] = "found" /\ lists' = lists /\ list[r] \in Defaults(me)
    BY <1>8 DEF ReadList
  <2>2. CASE Reply(r, "ok") /\ job[r].op = "add" /\ Contains(lists[list[r]].tickers, Upper(job[r].text))
    BY <1>1, <1>2, <2>1, <2>2 DEF Finds
  <2>3. CASE phase' = [phase EXCEPT ![r] = "edited"] /\ list' = list
    <3>1. phase'[r] = "edited"
      BY <1>0, <2>3 DEF TypeOK
    <3> QED
      BY <2>1, <2>3, <3>1 DEF Goes, InFlight
  <2> QED
    BY <1>4, <1>8, <2>2, <2>3 DEF ReadList
<1>9. CASE UpdateTickers(r)
  <2> DEFINE k == list[r]
             row == [lists[k] EXCEPT !.tickers = tickers[r], !.writer = r]
  <2>1. k \in ListId /\ lists[k] # NoRow /\ lists[k].user = me /\ lists[k].is_default
    BY <1>9 DEF UpdateTickers, Defaults
  <2>2. lists[k] \in Row /\ tickers[r] \in Seq(Ticker)
    BY <1>0, <2>1 DEF TypeOK
  <2>3. Store(k, row) /\ \E a \in Committed : Reply(r, a)
    BY <1>4, <1>9 DEF UpdateTickers
  <2>4. phase'[r] = "ok"
    BY <1>1, <1>2, <1>4, <2>3
  <2>5. row \in Row /\ row.user = me /\ row.writer = r /\ row.is_default
    <3>1. r \in Request \cup {NoRow}
      OBVIOUS
    <3>2. /\ row.user = lists[k].user /\ row.writer = r /\ row.is_default = lists[k].is_default
          /\ row.tickers = tickers[r] /\ row \in Row
      BY <2>2, <3>1 DEF Row
    <3> HIDE DEF row
    <3> QED
      BY <2>1, <3>2, Zenon
  <2> HIDE DEF row
  <2>6. lists'[k] = row /\ \A h \in ListId : h # k => lists'[h] = lists[h]
    BY <1>0, <2>1, <2>3 DEF Store, TypeOK
  <2>7. row # NoRow
    BY <2>5, Inputs
  <2> HIDE DEF k
  <2>8. lists'[k] # NoRow /\ lists'[k].user = me /\ lists'[k].writer = r /\ lists'[k].is_default
    BY <2>5, <2>6, <2>7, Zenon
  <2> QED
    BY <2>1, <2>4, <2>6, <2>8 DEF Writes
<1>10. CASE Abort(r)
  <2>1. NoneFound(r) /\ lists' = lists
    BY <1>4, <1>10 DEF Abort
  <2> QED
    BY <1>11, <2>1
<1> QED
  BY <1>5, <1>6, <1>7, <1>8, <1>9, <1>10 DEF Serve

-----------------------------------------------------------------------------

\* The server goes on with a request.
LEMMA ServerKeeps ==
  ASSUME PageInv, NEW r \in Request, Serve(r) \/ Abort(r), UNCHANGED pageVars
  PROVE  SentKnow' /\ SnapshotsAreOld' /\ Follows'
<1>0. /\ WatchInv /\ PageTypeOK /\ SentKnow /\ SnapshotsAreOld /\ Follows /\ TypeOK
      /\ sent \subseteq Request
  BY DEF PageInv, PageTypeOK
<1>1. /\ job' = job /\ phase[r] \in InFlight /\ phase'[r] # "idle"
      /\ \A q \in Request : q # r => phase'[q] = phase[q] /\ list'[q] = list[q]
  BY <1>0, ServeMoves
<1>2. /\ quickTickers' = quickTickers /\ migrated' = migrated /\ wlData' = wlData /\ get' = get
      /\ answer' = answer /\ sent' = sent /\ edits' = edits /\ migration' = migration
  BY DEF pageVars
<1>3. WatchInv' /\ TypeOK'
  BY <1>0, ServeKeeps DEF WatchInv
<1>4. SentKnow'
  BY <1>0, <1>1, <1>2 DEF SentKnow
<1>5. SnapshotsAreOld'
  <2>1. \A row : Answered(row) => Answered(row)'
    BY <1>1 DEF Answered, Answer, InFlight
  <2> QED
    BY <1>0, <1>2, <2>1 DEF SnapshotsAreOld, Answered
<1>6. ASSUME Alone' PROVE OnDefault' /\ DataComeBack' /\ BarFollows'
  <2>1. Alone
    <3>1. phase[r] \notin {"idle"} \cup Answer
      BY <1>1 DEF InFlight, Answer
    <3> QED
      BY <1>0, <1>1, <1>2, <1>6, <3>1 DEF Alone
  <2>2. OnDefault /\ DataComeBack /\ BarFollows
    BY <1>0, <2>1 DEF Follows
  <2>3. /\ r \in sent /\ r \in edits \cup migration
        /\ job[r].user = me /\ job[r].list = Default /\ job[r].op \in {"add", "remove"}
    BY <1>0, <1>1, <2>1 DEF Alone, SentKnow, InFlight
  <2>4. phase'[r] \in InFlight \cup {"ok"}
    BY <1>2, <1>6, <2>3 DEF Alone
  <2>5. phase[r] \in {"found", "edited"} => list[r] \in Defaults(me)
    BY <2>2, <2>3 DEF OnDefault
  <2>6. Goes(r) \/ Finds(r) \/ Writes(r)
    BY <1>0, <2>3, <2>4, <2>5, AloneServe
  <2>7. DataComeBack'
    BY <1>2, <2>3 DEF DataComeBack
  <2>8. CASE Goes(r) \/ Finds(r)
    <3>1. ListByUserID(me)' = ListByUserID(me) /\ Defaults(me)' = Defaults(me)
      BY <2>8, SameLists DEF Goes, Finds
    <3>2. OnDefault'
      <4> SUFFICES ASSUME NEW q \in sent, phase'[q] \in {"found", "edited"} PROVE list'[q] \in Defaults(me)
        BY <1>2, <3>1 DEF OnDefault
      <4>1. CASE q = r
        BY <2>8, <4>1 DEF Goes, Finds
      <4>2. CASE q # r
        BY <1>0, <1>1, <2>2, <4>2 DEF OnDefault
      <4> QED
        BY <4>1, <4>2
    <3>3. BarFollows'
      <4> SUFFICES ASSUME wlData \in ListByUserID(me), wlData # <<>>, \A g, h \in Defaults(me) : g = h,
                          quickTickers # Shown(wlData)
                   PROVE  \E q \in sent : Differs(q)'
        BY <1>2, <3>1 DEF BarFollows
      <4>1. PICK q \in sent : Differs(q)
        BY <2>2 DEF BarFollows
      <4>2. phase'[q] \in InFlight => Differs(q)'
        BY <1>1, <1>2, <4>1 DEF Differs
      <4>3. CASE q # r
        BY <1>0, <1>1, <4>1, <4>2, <4>3 DEF Differs
      <4>4. CASE q = r /\ Goes(r)
        BY <4>2, <4>4 DEF Goes
      <4>5. CASE q = r /\ Finds(r)
        <5>1. list[r] \in Defaults(me) /\ job[r].op = "add"
              /\ Contains(lists[list[r]].tickers, Upper(job[r].text))
          BY <4>5 DEF Finds
        <5>2. Shown(wlData) = lists[list[r]].tickers
          BY <1>0, <5>1, ShownIsDefault
        <5> QED
          BY <4>1, <4>5, <5>1, <5>2 DEF Differs
      <4> QED
        BY <2>8, <4>3, <4>4, <4>5
    <3> QED
      BY <2>7, <3>2, <3>3
  <2>9. CASE Writes(r)
    <3>1. PICK k \in ListId :
                /\ lists'[k] # NoRow /\ lists'[k].user = me /\ lists'[k].writer = r
                /\ k \in Defaults(me) => lists'[k].is_default
                /\ \A h \in ListId : h # k => lists'[h] = lists[h]
      BY <2>9 DEF Writes
    <3>2. Defaults(me) \subseteq Defaults(me)'
      BY <3>1 DEF Defaults
    <3>3. OnDefault'
      <4> SUFFICES ASSUME NEW q \in sent, phase'[q] \in {"found", "edited"} PROVE list'[q] \in Defaults(me)'
        BY <1>2 DEF OnDefault
      <4>1. q # r
        BY <2>9 DEF Writes
      <4> QED
        BY <1>0, <1>1, <2>2, <3>2, <4>1 DEF OnDefault
    <3>4. BarFollows'
      <4>1. CASE wlData = NoData
        <5>1. wlData' \notin Seq(Listed)
          BY <1>2, <4>1, NothingLoaded
        <5>2. wlData' \notin ListByUserID(me)'
          <6> SUFFICES ASSUME wlData' \in ListByUserID(me)' PROVE FALSE
            OBVIOUS
          <6> DEFINE S == RowsOf(lists', me)
          <6>1. wlData' \in SetToSeqs(S)
            BY DEF ListByUserID, RowsOf
          <6>2. S \subseteq Listed
            BY <1>3 DEF RowsOf, Listed, TypeOK
          <6> HIDE DEF S
          <6>3. wlData' \in Seq(S)
            BY <6>1, RowsFinite, InOrder DEF S
          <6> QED
            BY <5>1, <6>2, <6>3
        <5> QED
          BY <5>2 DEF BarFollows
      <4>2. CASE wlData # NoData
        <5>1. \A i \in DOMAIN wlData : Answered(wlData[i].row)
          BY <1>0, <4>2 DEF SnapshotsAreOld
        <5>2. wlData \notin ListByUserID(me)'
          BY <1>1, <1>3, <3>1, <5>1, WriteShows
        <5> QED
          BY <1>2, <5>2 DEF BarFollows
      <4> QED
        BY <4>1, <4>2
    <3> QED
      BY <2>7, <3>3, <3>4
  <2> QED
    BY <2>6, <2>8, <2>9
<1> QED
  BY <1>4, <1>5, <1>6 DEF Follows

\* Another client's request comes in: the page is not alone any more.
LEMMA OtherKeeps ==
  ASSUME PageInv, NEW r \in Request, NEW c, Receive(r, c), UNCHANGED pageVars
  PROVE  SentKnow' /\ SnapshotsAreOld' /\ Follows'
<1>0. /\ SentKnow /\ SnapshotsAreOld /\ TypeOK /\ sent \subseteq Request
  BY DEF PageInv, PageTypeOK
<1>1. /\ phase[r] = "idle" /\ phase'[r] = "received"
      /\ \A q \in Request : q # r => phase'[q] = phase[q] /\ job'[q] = job[q]
  BY <1>0 DEF Receive, TypeOK
<1>2. /\ wlData' = wlData /\ answer' = answer /\ sent' = sent /\ edits' = edits /\ migration' = migration
      /\ migrated' = migrated
  BY DEF pageVars
<1>3. r \notin sent
  BY <1>0, <1>1 DEF SentKnow
<1>4. SentKnow'
  BY <1>0, <1>1, <1>2, <1>3 DEF SentKnow
<1>5. SnapshotsAreOld'
  <2>1. \A row : Answered(row) => Answered(row)'
    BY <1>1 DEF Answered, Answer
  <2> QED
    BY <1>0, <1>2, <2>1 DEF SnapshotsAreOld, Answered
<1>6. ~Alone'
  BY <1>1, <1>2, <1>3 DEF Alone
<1> QED
  BY <1>4, <1>5, <1>6 DEF Follows

\* The owner adds or removes a ticker: the bar has it at once, and the request
\* that is sent will change the list unless it holds what the bar held.
LEMMA ClickKeeps ==
  ASSUME PageInv, NEW r \in Request, NEW x \in Typed, AddQuickTicker(r, x) \/ RemoveQuickTicker(r, x)
  PROVE  SentKnow' /\ SnapshotsAreOld' /\ Follows'
<1>0. /\ SentKnow /\ SnapshotsAreOld /\ TypeOK /\ Follows /\ sent \subseteq Request
      /\ x \in Text /\ Upper(x) \in Text /\ Upper(Upper(x)) = Upper(x)
  BY Page, Inputs DEF PageInv, PageTypeOK
<1>1. /\ phase[r] = "idle" /\ phase'[r] = "received" /\ lists' = lists /\ list' = list
      /\ \A q \in Request : q # r => phase'[q] = phase[q] /\ job'[q] = job[q]
      /\ job'[r].user = me /\ job'[r].list = Default
      /\ \/ /\ job'[r].op = "add" /\ job'[r].text = Upper(x) /\ ~Contains(quickTickers, Upper(x))
         \/ job'[r].op = "remove"
  <2>1. CASE AddQuickTicker(r, x)
    <3>1. Receive(r, Edit("add", Upper(x))) /\ ~Contains(quickTickers, Upper(x))
      BY <2>1 DEF AddQuickTicker
    <3> QED
      BY <1>0, <3>1, EditIsCall DEF Receive, TypeOK
  <2>2. CASE RemoveQuickTicker(r, x)
    <3>1. Receive(r, Edit("remove", x))
      BY <2>2 DEF RemoveQuickTicker
    <3> QED
      BY <1>0, <3>1, EditIsCall DEF Receive, TypeOK
  <2> QED
    BY <2>1, <2>2
<1>2. /\ wlData' = wlData /\ get' = get /\ answer' = answer /\ migration' = migration /\ migrated' = migrated
      /\ sent' = sent \cup {r} /\ edits' = edits \cup {r}
  BY DEF AddQuickTicker, RemoveQuickTicker
<1>3. r \notin sent
  BY <1>0, <1>1 DEF SentKnow
<1>4. SentKnow'
  <2> SUFFICES ASSUME NEW q \in sent'
               PROVE  /\ phase'[q] # "idle" /\ (phase'[q] \in InFlight => q \in edits' \cup migration')
                      /\ job'[q].user = me /\ job'[q].list = Default /\ job'[q].op \in {"add", "remove"}
    BY <1>0, <1>2 DEF SentKnow
  <2>1. CASE q = r
    BY <1>1, <1>2, <2>1
  <2>2. CASE q # r
    BY <1>0, <1>1, <1>2, <2>2 DEF SentKnow
  <2> QED
    BY <2>1, <2>2
<1>5. SnapshotsAreOld'
  <2>1. \A row : Answered(row) => Answered(row)'
    BY <1>1 DEF Answered, Answer
  <2> QED
    BY <1>0, <1>2, <2>1 DEF SnapshotsAreOld, Answered
<1>6. ASSUME Alone' PROVE OnDefault' /\ DataComeBack' /\ BarFollows'
  <2>1. Alone
    BY <1>0, <1>1, <1>2, <1>3, <1>6 DEF Alone
  <2>2. OnDefault /\ BarFollows
    BY <1>0, <2>1 DEF Follows
  <2>3. ListByUserID(me)' = ListByUserID(me) /\ Defaults(me)' = Defaults(me)
    BY <1>1, SameLists
  <2>4. OnDefault'
    BY <1>0, <1>1, <1>2, <1>3, <2>2, <2>3 DEF OnDefault
  <2>5. DataComeBack'
    BY <1>2 DEF DataComeBack
  <2>6. BarFollows'
    <3> SUFFICES ASSUME wlData \in ListByUserID(me), wlData # <<>>, \A g, h \in Defaults(me) : g = h
                 PROVE  \E q \in sent' : Differs(q)'
      BY <1>2, <2>3 DEF BarFollows
    <3>1. CASE quickTickers = Shown(wlData)
      <4>1. Differs(r)'
        BY <1>0, <1>1, <1>2, <3>1 DEF Differs, InFlight
      <4> QED
        BY <1>2, <4>1
    <3>2. CASE quickTickers # Shown(wlData)
      <4>1. PICK q \in sent : Differs(q)
        BY <2>2, <3>2 DEF BarFollows
      <4>2. Differs(q)'
        BY <1>0, <1>1, <1>2, <1>3, <4>1 DEF Differs
      <4> QED
        BY <1>2, <4>2
    <3> QED
      BY <3>1, <3>2
  <2> QED
    BY <2>4, <2>5, <2>6
<1> QED
  BY <1>4, <1>5, <1>6 DEF Follows

\* A request of the page is answered, or a GET asked for, answered or lost.
LEMMA ReadKeeps ==
  ASSUME PageInv,
         (\E r \in Request : EditAnswered(r)) \/ MigrationAnswered \/ ServeGet \/ GetFails \/ Revalidate
  PROVE  SentKnow' /\ SnapshotsAreOld' /\ Follows'
<1>0. /\ SentKnow /\ SnapshotsAreOld /\ TypeOK /\ WritersAnswered /\ Follows
      /\ sent \subseteq Request /\ migration \subseteq sent
  BY DEF PageInv, PageTypeOK, WatchInv
<1>1. /\ lists' = lists /\ phase' = phase /\ job' = job /\ list' = list /\ quickTickers' = quickTickers
      /\ wlData' = wlData /\ migrated' = migrated /\ sent' = sent
  BY DEF EditAnswered, MigrationAnswered, ServeGet, GetFails, Revalidate, vars
<1>2. ListByUserID(me)' = ListByUserID(me) /\ Defaults(me)' = Defaults(me)
  BY <1>1, SameLists
<1>3. SentKnow'
  <2>1. \A r \in sent : phase[r] \in InFlight => r \in edits' \cup migration'
    <3> SUFFICES ASSUME NEW r \in sent, phase[r] \in InFlight PROVE r \in edits' \cup migration'
      OBVIOUS
    <3>1. phase[r] \notin Answer /\ r \in edits \cup migration
      BY <1>0 DEF SentKnow, InFlight, Answer
    <3> QED
      BY <3>1 DEF EditAnswered, MigrationAnswered, ServeGet, GetFails, Revalidate
  <2>2. migrated \/ migration' = {}
    BY <1>0 DEF SentKnow, EditAnswered, MigrationAnswered, ServeGet, GetFails, Revalidate
  <2> QED
    BY <1>0, <1>1, <2>1, <2>2 DEF SentKnow
<1>4. SnapshotsAreOld'
  <2>1. \A row : Answered(row)' <=> Answered(row)
    BY <1>1 DEF Answered
  <2>2. \A i \in DOMAIN answer' : Answered(answer'[i].row)
    <3>1. CASE ServeGet
      <4>1. answer' \in ListByUserID(me)
        BY <3>1 DEF ServeGet
      <4> QED
        BY <1>0, <4>1, ListedRows DEF WritersAnswered
    <3>2. CASE ~ServeGet
      <4>1. answer' = answer \/ answer' = <<>>
        BY <3>2 DEF EditAnswered, MigrationAnswered, GetFails, Revalidate, Mutate
      <4> QED
        BY <1>0, <4>1 DEF SnapshotsAreOld
    <3> QED
      BY <3>1, <3>2
  <2> QED
    BY <1>0, <1>1, <2>2 DEF SnapshotsAreOld, Answered
<1>5. ASSUME Alone' PROVE OnDefault' /\ DataComeBack' /\ BarFollows'
  <2>1. Alone
    BY <1>1, <1>5 DEF Alone
  <2>2. OnDefault /\ DataComeBack /\ BarFollows
    BY <1>0, <2>1 DEF Follows
  <2>3. OnDefault' /\ BarFollows'
    BY <1>1, <1>2, <2>2 DEF OnDefault, BarFollows, Differs
  <2>4. DataComeBack'
    <3>1. CASE ServeGet
      BY <1>1, <1>2, <3>1 DEF ServeGet, DataComeBack
    <3>2. CASE ~ServeGet
      <4>1. get' \in {"asked", "error"}
        <5>1. CASE MigrationAnswered
          <6>1. \A r \in migration : phase[r] = "ok"
            BY <1>0, <2>1, <5>1 DEF MigrationAnswered, Alone, InFlight, Answer
          <6> QED
            BY <5>1, <6>1 DEF MigrationAnswered, Mutate
        <5>2. CASE ~MigrationAnswered
          BY <3>2, <5>2 DEF EditAnswered, GetFails, Revalidate, Mutate
        <5> QED
          BY <5>1, <5>2
      <4> QED
        BY <4>1 DEF DataComeBack
    <3> QED
      BY <3>1, <3>2
  <2> QED
    BY <2>3, <2>4
<1> QED
  BY <1>3, <1>4, <1>5 DEF Follows

\* The answer to a GET arrives, and the migration may start.
LEMMA ArrivalKeeps ==
  ASSUME PageInv, GetAnswered
  PROVE  SentKnow' /\ SnapshotsAreOld' /\ Follows'
<1>0. /\ SentKnow /\ SnapshotsAreOld /\ TypeOK /\ Follows
      /\ sent \subseteq Request /\ migration \subseteq sent
  BY DEF PageInv, PageTypeOK
<1>1. /\ get = "answered" /\ get' = "none" /\ answer' = <<>> /\ wlData' = answer /\ edits' = edits
      /\ quickTickers' = IF answer = wlData \/ answer = <<>> THEN quickTickers ELSE Shown(answer)
  BY DEF GetAnswered
<1>2. CASE answer # wlData /\ Migrates(answer) /\ Migrate
  <2>1. /\ migration' \in SUBSET Request
        /\ migration' # {}
        /\ Arrive(migration')
        /\ \A q \in migration' : \E t \in Text : job'[q] = Edit("add", t)
        /\ migrated' = TRUE /\ sent' = sent \cup migration'
    BY <1>0, <1>2, MigrateArrives DEF Migrates
  <2>2. /\ \A q \in migration' : phase[q] = "idle" /\ phase'[q] = "received"
        /\ \A q \in Request \ migration' : phase'[q] = phase[q] /\ job'[q] = job[q]
        /\ lists' = lists /\ list' = list
    BY <1>0, <2>1 DEF Arrive
  <2>3. answer = <<>> /\ migration = {}
    BY <1>0, <1>2 DEF Migrates, SentKnow
  <2>4. \A q \in migration' : job'[q].user = me /\ job'[q].list = Default /\ job'[q].op = "add"
    BY <2>1, EditIsCall
  <2>5. SentKnow'
    <3> SUFFICES ASSUME NEW q \in sent'
                 PROVE  /\ phase'[q] # "idle" /\ (phase'[q] \in InFlight => q \in edits' \cup migration')
                        /\ job'[q].user = me /\ job'[q].list = Default /\ job'[q].op \in {"add", "remove"}
      BY <2>1 DEF SentKnow
    <3>1. CASE q \in migration'
      BY <2>2, <2>4, <3>1
    <3>2. CASE q \notin migration'
      BY <1>0, <1>1, <2>1, <2>2, <2>3, <3>2 DEF SentKnow
    <3> QED
      BY <3>1, <3>2
  <2>6. SnapshotsAreOld'
    BY <1>1, <2>3 DEF SnapshotsAreOld
  <2>7. Follows'
    <3> SUFFICES ASSUME Alone' PROVE OnDefault' /\ DataComeBack' /\ BarFollows'
      BY DEF Follows
    <3>1. Alone
      <4>1. ASSUME NEW q \in Request, phase[q] # "idle" PROVE q \in sent
        BY <2>1, <2>2, <4>1 DEF Alone
      <4>2. ASSUME NEW q \in sent PROVE phase[q] \in InFlight \cup {"ok"}
        BY <1>0, <2>1, <2>2, <4>2 DEF Alone, SentKnow
      <4> QED
        BY <4>1, <4>2 DEF Alone
    <3>2. OnDefault
      BY <1>0, <3>1 DEF Follows
    <3>3. OnDefault'
      BY <1>0, <2>1, <2>2, <3>2, SameLists DEF OnDefault
    <3>4. DataComeBack'
      BY <2>1 DEF DataComeBack
    <3>5. BarFollows'
      BY <1>1, <2>3 DEF BarFollows
    <3> QED
      BY <3>3, <3>4, <3>5
  <2> QED
    BY <2>5, <2>6, <2>7
<1>3. CASE UNCHANGED <<vars, migrated, sent, migration>>
  <2>1. /\ lists' = lists /\ phase' = phase /\ job' = job /\ list' = list /\ migrated' = migrated
        /\ sent' = sent /\ migration' = migration
    BY <1>3 DEF vars
  <2>2. ListByUserID(me)' = ListByUserID(me) /\ Defaults(me)' = Defaults(me)
    BY <2>1, SameLists
  <2>3. SentKnow'
    BY <1>0, <1>1, <2>1 DEF SentKnow
  <2>4. SnapshotsAreOld'
    BY <1>0, <1>1, <2>1 DEF SnapshotsAreOld, Answered
  <2>5. ASSUME Alone' PROVE OnDefault' /\ DataComeBack' /\ BarFollows'
    <3>1. Alone
      BY <2>1, <2>5 DEF Alone
    <3>2. OnDefault /\ DataComeBack /\ BarFollows
      BY <1>0, <3>1 DEF Follows
    <3>3. OnDefault'
      BY <2>1, <2>2, <3>2 DEF OnDefault
    <3>4. DataComeBack'
      BY <1>1, <2>1, <2>2, <3>2 DEF DataComeBack
    <3>5. BarFollows'
      <4>1. CASE answer = wlData
        BY <1>1, <2>1, <2>2, <3>2, <4>1 DEF BarFollows, Differs
      <4>2. CASE answer # wlData
        BY <1>1, <4>2 DEF BarFollows
      <4> QED
        BY <4>1, <4>2
    <3> QED
      BY <3>3, <3>4, <3>5
  <2> QED
    BY <2>3, <2>4, <2>5 DEF Follows
<1> QED
  BY <1>2, <1>3 DEF GetAnswered

-----------------------------------------------------------------------------

\* Every step keeps the types of the page.
LEMMA PageTypesStep ==
  ASSUME PageInv, PageNext, TypeOK'
  PROVE  PageTypeOK'
<1>0. /\ TypeOK /\ PageTypeOK /\ Typed \subseteq Text /\ \A x \in Text : Upper(x) \in Text
      /\ quickTickers \in Seq(Text) /\ migrated \in BOOLEAN
      /\ wlData \in Seq(Listed) \cup {NoData} /\ answer \in Seq(Listed)
      /\ get \in {"none", "asked", "answered", "error"}
      /\ edits \subseteq sent /\ migration \subseteq sent /\ sent \subseteq Request
      /\ <<>> \in Seq(Listed)
  BY Page, Inputs DEF PageInv, PageTypeOK
<1>1. CASE Server \/ Other
  BY <1>0, <1>1 DEF Server, Other, PageTypeOK, pageVars
<1>2. ASSUME NEW r \in Request, NEW x \in Typed, AddQuickTicker(r, x) \/ RemoveQuickTicker(r, x)
      PROVE  PageTypeOK'
  <2>1. quickTickers' \in Seq(Text)
    <3>1. CASE AddQuickTicker(r, x)
      <4>1. quickTickers' = Append(quickTickers, Upper(x)) /\ Upper(x) \in Text
        BY <1>0, <3>1 DEF AddQuickTicker
      <4> QED
        BY <1>0, <4>1
    <3>2. CASE RemoveQuickTicker(r, x)
      BY <1>0, <3>2, WithoutOne DEF RemoveQuickTicker
    <3> QED
      BY <1>2, <3>1, <3>2
  <2>2. /\ wlData' = wlData /\ get' = get /\ answer' = answer /\ migration' = migration /\ migrated' = migrated
        /\ sent' = sent \cup {r} /\ edits' = edits \cup {r}
    BY <1>2 DEF AddQuickTicker, RemoveQuickTicker
  <2> QED
    BY <1>0, <2>1, <2>2 DEF PageTypeOK
<1>3. CASE (\E r \in Request : EditAnswered(r)) \/ MigrationAnswered \/ GetFails \/ Revalidate
  <2>1. /\ quickTickers' = quickTickers /\ wlData' = wlData /\ migrated' = migrated /\ sent' = sent
        /\ edits' \subseteq edits /\ migration' \subseteq migration
        /\ get' \in {get, "asked", "error"} /\ answer' \in {answer, <<>>}
    BY <1>3 DEF EditAnswered, MigrationAnswered, GetFails, Revalidate, Mutate
  <2> QED
    BY <1>0, <2>1 DEF PageTypeOK
<1>4. CASE ServeGet
  <2>1. answer' \in Seq(Listed)
    BY <1>0, <1>4, ListedRows DEF ServeGet
  <2> QED
    BY <1>0, <1>4, <2>1 DEF ServeGet, PageTypeOK
<1>5. CASE GetAnswered
  <2>1. /\ get' = "none" /\ answer' = <<>> /\ wlData' = answer /\ edits' = edits
        /\ quickTickers' = IF answer = wlData \/ answer = <<>> THEN quickTickers ELSE Shown(answer)
    BY <1>5 DEF GetAnswered
  <2>2. quickTickers' \in Seq(Text)
    BY <1>0, <2>1, ShownTypeOK
  <2>3. /\ migrated' \in BOOLEAN /\ sent \subseteq sent' /\ sent' \subseteq Request /\ migration' \subseteq sent'
    <3>1. CASE Migrate
      <4>1. /\ migration' \in SUBSET Request /\ migrated' = TRUE /\ sent' = sent \cup migration'
        BY <1>0, <3>1, MigrateArrives
      <4> QED
        BY <1>0, <4>1
    <3>2. CASE ~Migrate
      BY <1>0, <1>5, <3>2 DEF GetAnswered
    <3> QED
      BY <3>1, <3>2
  <2> QED
    BY <1>0, <2>1, <2>2, <2>3 DEF PageTypeOK
<1> QED
  BY <1>1, <1>2, <1>3, <1>4, <1>5 DEF PageNext

\* The invariant of the page holds at first.
LEMMA PageInitOK == PageInit => PageInv
<1> SUFFICES ASSUME PageInit PROVE PageInv
  OBVIOUS
<1>1. WatchInv /\ TypeOK
  BY WatchInitOK DEF PageInit, WatchInv
<1>2. PageTypeOK
  <2>1. <<>> \in Seq(Listed)
    OBVIOUS
  <2> QED
    BY <1>1, <2>1, Page DEF PageInit, PageTypeOK
<1>3. SentKnow /\ SnapshotsAreOld
  BY DEF PageInit, SentKnow, SnapshotsAreOld
<1>4. Follows
  <2>1. wlData \notin ListByUserID(me)
    BY <1>1, ListedRows, NothingLoaded DEF PageInit
  <2> QED
    BY <2>1 DEF PageInit, Follows, OnDefault, DataComeBack, BarFollows
<1> QED
  BY <1>1, <1>2, <1>3, <1>4 DEF PageInv

\* Every step of the page and its surroundings keeps it.
LEMMA PageStep == PageInv /\ [PageNext]_<<vars, pageVars>> => PageInv'
<1>1. ASSUME PageInv, UNCHANGED <<vars, pageVars>> PROVE PageInv'
  <2>1. /\ UNCHANGED <<lists, phase, job, list, read, tickers>>
        /\ UNCHANGED <<quickTickers, migrated, wlData, get, answer, sent, edits, migration>>
    BY <1>1 DEF vars, pageVars
  <2>2. WatchInv' /\ TypeOK'
    BY <1>1, WatchStep DEF PageInv, WatchInv
  <2>3. PageTypeOK' /\ SentKnow' /\ SnapshotsAreOld'
    BY <1>1, <2>1, <2>2 DEF PageInv, PageTypeOK, SentKnow, SnapshotsAreOld, Answered
  <2>4. Follows'
    <3>1. Alone' <=> Alone
      BY <2>1 DEF Alone
    <3>2. (OnDefault' <=> OnDefault) /\ (DataComeBack' <=> DataComeBack) /\ (BarFollows' <=> BarFollows)
      BY <2>1, SameLists DEF OnDefault, DataComeBack, BarFollows, Differs
    <3> QED
      BY <1>1, <3>1, <3>2 DEF PageInv, Follows
  <2> QED
    BY <2>2, <2>3, <2>4 DEF PageInv
<1>2. ASSUME PageInv, PageNext PROVE PageInv'
  <2>1. WatchInv' /\ TypeOK'
    BY <1>2, WatchStep DEF PageInv, WatchInv
  <2>2. SentKnow' /\ SnapshotsAreOld' /\ Follows'
    <3>1. CASE Server
      BY <1>2, <3>1, ServerKeeps DEF Server
    <3>2. CASE Other
      BY <1>2, <3>2, OtherKeeps DEF Other
    <3> QED
      BY <1>2, <3>1, <3>2, ClickKeeps, ReadKeeps, ArrivalKeeps DEF PageNext
  <2> QED
    BY <1>2, <2>1, <2>2, PageTypesStep DEF PageInv
<1> QED
  BY <1>1, <1>2

\* The invariant of the page holds throughout.
LEMMA PageInductive == PageSpec => []PageInv
BY PageInitOK, PageStep, PTL DEF PageSpec

\* Types of the requests, the lists and the page.
THEOREM PageTypeCorrect == PageSpec => []PageTypeOK
<1>1. PageInv => PageTypeOK
  BY DEF PageInv
<1> QED
  BY <1>1, PageInductive, PTL

\* However the adds and removes clicked on the page overlap and reorder, once
\* they have all succeeded and the lists have been read again the bar shows what
\* the server holds (addQuickTicker, removeQuickTicker, the effect on wlData): a
\* list that comes back as it was read has not been written since.
THEOREM SettledPageIsRight == PageSpec => []SettledPageIsTrue
<1>1. PageInv => SettledPageIsTrue
  <2> SUFFICES ASSUME PageInv, Settled, \A r \in sent : phase[r] = "ok", NEW h \in Defaults(me)
               PROVE  quickTickers = lists[h].tickers
    BY DEF SettledPageIsTrue, BarIsTrue
  <2>1. TypeOK /\ Follows
    BY DEF PageInv, WatchInv
  <2>2. Alone
    BY DEF Settled, Alone
  <2>3. wlData \in ListByUserID(me) /\ BarFollows
    BY <2>1, <2>2 DEF Follows, Settled, DataComeBack
  <2>4. \A g \in Defaults(me) : g = h
    <3>1. Defaults(me) \in SUBSET ListId
      BY DEF Defaults
    <3>2. IsFiniteSet(Defaults(me)) /\ Cardinality(Defaults(me)) = 1
      BY <3>1, Page, FS_Subset DEF Settled
    <3>3. \E x : Defaults(me) = {x}
      BY <3>2, FS_Singleton
    <3> QED
      BY <3>3
  <2>5. wlData # <<>> /\ Shown(wlData) = lists[h].tickers
    BY <2>1, <2>3, <2>4, ShownIsDefault
  <2>6. \A r \in sent : ~Differs(r)
    BY DEF Differs, InFlight
  <2> QED
    BY <2>3, <2>4, <2>5, <2>6 DEF BarFollows
<1> QED
  BY <1>1, PageInductive, PTL
=============================================================================
