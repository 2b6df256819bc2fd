------------------------ MODULE DiscoveryFeedProofs -------------------------
(***************************************************************************)
(* Proofs about DiscoveryFeed, for any dates, windows, publications and    *)
(* readers: answers come from one committed content of the table, and an   *)
(* outdated entry of the cache has one of the causes the module names.     *)
(***************************************************************************)
EXTENDS DiscoveryFeed, TLAPS

\* What is cached, like what is served, was committed at some time.
CachedWasCommitted ==
    \A k \in Key : cache[k] # Nothing => \E R \in past : cache[k].body = Body(k, R)

\* The inductive invariant.
IInv == /\ TypeOK /\ rows \in past
        /\ ServedWasCommitted /\ CachedWasCommitted /\ StaleOnlyByRace

LEMMA BodyType == ASSUME NEW k, NEW R \in SUBSET Stock PROVE Body(k, R) \in SUBSET Stock
BY DEF Body, Latest, History

LEMMA NewType == ASSUME TypeOK, NEW p \in Post PROVE New(p) \in SUBSET Stock
BY DEF TypeOK, New, Scan, Stock

LEMMA InitInv == Init => IInv
<1> SUFFICES ASSUME Init PROVE IInv
  OBVIOUS
<1>1. DayKey \in Key
  BY DEF Key
<1>2. TypeOK
  BY <1>1, Inputs DEF Init, TypeOK, Phase
<1> QED
  BY <1>2 DEF Init, IInv, ServedWasCommitted, CachedWasCommitted, StaleOnlyByRace

-----------------------------------------------------------------------------
(* A POST before its commit, or one that gives up, touches nothing shared. *)

LEMMA QuietKeeps ==
    ASSUME IInv, NEW p \in Post, UNCHANGED <<rows, cache, scan, getVars, past, lapsed>>,
           NEW a \in Phase, phase' = [phase EXCEPT ![p] = a],
           gone' \in [Post -> SUBSET Stock], keys' \in [Post -> SUBSET Days],
           \A q \in Post \ {p} : keys'[q] = keys[q],
           \A k \in Key : Pending(p, k) =>
              \/ Pending(p, k)'
              \/ cache[k] = Nothing
    PROVE  IInv'
<1> USE DEF IInv, getVars
<1>1. TypeOK'
  BY DEF TypeOK
<1>2. \A q \in Post, k \in Key : q # p /\ Pending(q, k) => Pending(q, k)'
  BY DEF TypeOK, Pending
<1>3. StaleOnlyByRace'
  BY <1>2 DEF StaleOnlyByRace
<1>4. ServedWasCommitted' /\ CachedWasCommitted' /\ rows' \in past'
  BY DEF ServedWasCommitted, CachedWasCommitted
<1> QED
  BY <1>1, <1>3, <1>4

LEMMA PublishKeeps == ASSUME IInv, NEW p \in Post, Publish(p) PROVE IInv'
<1> USE DEF IInv
<1>1. CASE Receive(p)
  <2>1. PICK a \in {"received", "bad_request"} : phase' = [phase EXCEPT ![p] = a]
    BY <1>1 DEF Receive, Goto
  <2>2. a \in Phase /\ phase[p] = "idle"
    BY <1>1 DEF Receive, Phase, Answer
  <2> QED
    BY <1>1, <2>1, <2>2, QuietKeeps DEF Receive, TypeOK, Pending
<1>2. CASE Begin(p)
  <2>1. OnDate(rows, scan[p].date) \in SUBSET Stock
    BY DEF TypeOK, OnDate
  <2>2. "begun" \in Phase
    BY DEF Phase, InTx
  <2> QED
    BY <1>2, <2>1, <2>2, QuietKeeps DEF Begin, Goto, TypeOK, Pending
<1>3. CASE Delete(p)
  <2>1. "deleted" \in Phase
    BY DEF Phase, InTx
  <2> QED
    BY <1>3, <2>1, QuietKeeps DEF Delete, Goto, TypeOK, Pending
<1>4. CASE Insert(p)
  <2>1. PICK a \in {"inserted", "failed"} : phase' = [phase EXCEPT ![p] = a]
    BY <1>4 DEF Insert, Answers, Goto
  <2>2. a \in Phase
    BY DEF Phase, InTx, Answer
  <2>3. gone' \in [Post -> SUBSET Stock] /\ keys' \in [Post -> SUBSET Days]
        /\ \A q \in Post \ {p} : keys'[q] = keys[q]
    BY <1>4 DEF Insert, Answers, TypeOK
  <2> QED
    BY <1>4, <2>1, <2>2, <2>3, QuietKeeps DEF Insert, Pending
<1>5. CASE Commit(p)
  <2>1. rows' \in SUBSET Stock
    BY <1>5, NewType DEF Commit, TypeOK
  <2>2. TypeOK'
    BY <1>5, <2>1 DEF Commit, Goto, TypeOK, Phase, getVars
  <2>3. \A k \in Key : Pending(p, k)'
    BY <1>5 DEF Commit, Goto, TypeOK, Pending
  <2>4. StaleOnlyByRace'
    BY <2>3 DEF StaleOnlyByRace
  <2>5. rows' \in past' /\ past \subseteq past'
    BY <1>5 DEF Commit
  <2>6. ServedWasCommitted' /\ CachedWasCommitted'
    BY <1>5, <2>5 DEF Commit, getVars, ServedWasCommitted, CachedWasCommitted
  <2> QED
    BY <2>2, <2>4, <2>5, <2>6
<1>6. CASE Rollback(p)
  <2>1. "failed" \in Phase
    BY DEF Phase, Answer
  <2> QED
    BY <1>6, <2>1, QuietKeeps DEF Rollback, Answers, Goto, TypeOK, Pending, InTx
<1>7. CASE ClearDay(p)
  <2>1. TypeOK'
    BY <1>7 DEF ClearDay, Goto, TypeOK, Phase, getVars
  <2>2. \A k \in Key : cache'[k] # Nothing => cache'[k] = cache[k] /\ k \in Days
    BY <1>7 DEF ClearDay, TypeOK, Key
  <2>3. \A q \in Post, k \in Days : Pending(q, k) => Pending(q, k)'
    BY <1>7 DEF ClearDay, Goto, TypeOK, Pending
  <2>4. StaleOnlyByRace'
    BY <1>7, <2>2, <2>3 DEF ClearDay, StaleOnlyByRace
  <2>5. ServedWasCommitted' /\ CachedWasCommitted' /\ rows' \in past'
    BY <1>7, <2>2 DEF ClearDay, getVars, ServedWasCommitted, CachedWasCommitted
  <2> QED
    BY <2>1, <2>4, <2>5
<1>8. CASE ListKeys(p)
  <2> DEFINE found == {k \in Days : cache[k] # Nothing}
  <2>1. CASE found = {}
    <3>1. "ok" \in Phase
      BY DEF Phase, Answer
    <3>2. \A k \in Key : Pending(p, k) => cache[k] = Nothing
      BY <1>8, <2>1 DEF ListKeys, Pending
    <3> QED
      BY <1>8, <2>1, <3>1, <3>2, QuietKeeps DEF ListKeys, Answers, Goto, TypeOK
  <2>2. CASE found # {}
    <3>1. "listed" \in Phase
      BY DEF Phase
    <3>2. /\ keys' = [keys EXCEPT ![p] = found] /\ gone' = gone
          /\ phase' = [phase EXCEPT ![p] = "listed"]
          /\ UNCHANGED <<rows, cache, scan, getVars, past, lapsed>>
      BY <1>8, <2>2 DEF ListKeys, Goto
    <3>3. \A k \in Key : Pending(p, k) => Pending(p, k)' \/ cache[k] = Nothing
      BY <1>8, <3>2 DEF ListKeys, Pending, TypeOK
    <3> QED
      BY <3>1, <3>2, <3>3, QuietKeeps DEF TypeOK
  <2> QED
    BY <2>1, <2>2
<1>9. CASE ClearHistory(p)
  <2>1. TypeOK'
    BY <1>9 DEF ClearHistory, Answers, Goto, TypeOK, Phase, Answer, getVars
  <2>2. \A k \in Key : cache'[k] # Nothing => cache'[k] = cache[k] /\ k \notin keys[p]
    BY <1>9 DEF ClearHistory, TypeOK
  <2>3. \A q \in Post, k \in Key : Pending(q, k) /\ k \notin keys[p] => Pending(q, k)'
    BY <1>9 DEF ClearHistory, Answers, Goto, TypeOK, Pending
  <2>4. StaleOnlyByRace'
    BY <1>9, <2>2, <2>3 DEF ClearHistory, StaleOnlyByRace
  <2>5. ServedWasCommitted' /\ CachedWasCommitted' /\ rows' \in past'
    BY <1>9, <2>2 DEF ClearHistory, getVars, ServedWasCommitted, CachedWasCommitted
  <2> QED
    BY <2>1, <2>4, <2>5
<1>10. CASE Skip(p)
  <2>1. TypeOK'
    BY <1>10 DEF Skip, Answers, Goto, TypeOK, Phase, Answer, getVars
  <2>2. StaleOnlyByRace'
    BY <1>10 DEF Skip, StaleOnlyByRace
  <2>3. ServedWasCommitted' /\ CachedWasCommitted' /\ rows' \in past'
    BY <1>10 DEF Skip, getVars, ServedWasCommitted, CachedWasCommitted
  <2> QED
    BY <2>1, <2>2, <2>3
<1> QED
  BY <1>1, <1>2, <1>3, <1>4, <1>5, <1>6, <1>7, <1>8, <1>9, <1>10 DEF Publish

-----------------------------------------------------------------------------

LEMMA PendingFrame ==
    ASSUME UNCHANGED postVars PROVE \A p \in Post, k \in Key : Pending(p, k) <=> Pending(p, k)'
BY DEF postVars, Pending

LEMMA ServeKeeps == ASSUME IInv, NEW g \in Get, Serve(g) PROVE IInv'
<1> USE DEF IInv
<1>1. CASE Lookup(g)
  <2>1. PICK k \in Key :
           /\ key' = [key EXCEPT ![g] = k]
           /\ \/ /\ cache[k] # Nothing
                 /\ body' = [body EXCEPT ![g] = cache[k].body]
                 /\ step' = [step EXCEPT ![g] = "answered"]
              \/ /\ step' = [step EXCEPT ![g] = "missed"]
                 /\ body' = body
    BY <1>1 DEF Lookup, Move
  <2>2. UNCHANGED <<rows, cache, postVars, past, lapsed>>
    BY <1>1 DEF Lookup
  <2>3. TypeOK'
    BY <2>1, <2>2 DEF TypeOK, Entry, postVars
  <2>4. ServedWasCommitted'
    BY <2>1, <2>2 DEF ServedWasCommitted, CachedWasCommitted, TypeOK
  <2>5. StaleOnlyByRace' /\ CachedWasCommitted' /\ rows' \in past'
    BY <2>2, PendingFrame DEF StaleOnlyByRace, CachedWasCommitted
  <2> QED
    BY <2>3, <2>4, <2>5
<1>2. CASE Query(g)
  <2>1. Body(key[g], rows) \in SUBSET Stock
    BY BodyType DEF TypeOK
  <2>2. TypeOK'
    BY <1>2, <2>1 DEF Query, Move, TypeOK, postVars
  <2>3. ServedWasCommitted'
    BY <1>2 DEF Query, Move, ServedWasCommitted, TypeOK
  <2>4. StaleOnlyByRace' /\ CachedWasCommitted' /\ rows' \in past'
    BY <1>2, PendingFrame DEF Query, StaleOnlyByRace, CachedWasCommitted
  <2> QED
    BY <2>2, <2>3, <2>4
<1>3. CASE Fill(g)
  <2> DEFINE k == key[g]
             e == [body |-> body[g], stale |-> body[g] # Body(k, rows), expires |-> TRUE]
  <2>1. e \in Entry /\ k \in Key
    BY DEF TypeOK, Entry
  <2>2. cache' \in [Key -> Entry \cup {Nothing}]
    BY <1>3, <2>1 DEF Fill, TypeOK
  <2>3. TypeOK'
    BY <1>3, <2>2 DEF Fill, Move, TypeOK, postVars
  <2>4. \A j \in Key : cache'[j] = cache[j] \/ (j = k /\ cache'[j] = e)
    BY <1>3 DEF Fill, TypeOK
  <2>5. ServedWasCommitted'
    BY <1>3 DEF Fill, Move, ServedWasCommitted, TypeOK
  <2>6. CachedWasCommitted' /\ rows' \in past'
    BY <1>3, <2>4 DEF Fill, ServedWasCommitted, CachedWasCommitted
  <2>7. e.stale \/ e.body = Body(k, rows)
    OBVIOUS
  <2>8. StaleOnlyByRace'
    BY <1>3, <2>4, <2>7, PendingFrame DEF Fill, StaleOnlyByRace
  <2> QED
    BY <2>3, <2>5, <2>6, <2>8
<1>4. CASE Reply(g)
  <2>1. TypeOK'
    BY <1>4 DEF Reply, Move, TypeOK, postVars
  <2>2. ServedWasCommitted'
    BY <1>4 DEF Reply, Move, ServedWasCommitted, TypeOK
  <2>3. StaleOnlyByRace' /\ CachedWasCommitted' /\ rows' \in past'
    BY <1>4, PendingFrame DEF Reply, StaleOnlyByRace, CachedWasCommitted
  <2> QED
    BY <2>1, <2>2, <2>3
<1> QED
  BY <1>1, <1>2, <1>3, <1>4 DEF Serve

LEMMA ExpireKeeps == ASSUME IInv, NEW k \in Key, Expire(k) PROVE IInv'
<1> USE DEF IInv
<1>1. TypeOK'
  BY DEF Expire, TypeOK, postVars, getVars
<1>2. \A j \in Key : cache'[j] # Nothing => cache'[j] = cache[j]
  BY DEF Expire, TypeOK
<1>3. StaleOnlyByRace'
  BY <1>2, PendingFrame DEF Expire, StaleOnlyByRace
<1>4. ServedWasCommitted' /\ CachedWasCommitted' /\ rows' \in past'
  BY <1>2 DEF Expire, getVars, ServedWasCommitted, CachedWasCommitted
<1> QED
  BY <1>1, <1>3, <1>4

LEMMA StutterKeeps == ASSUME IInv, UNCHANGED vars PROVE IInv'
<1> USE DEF IInv, vars
<1>1. TypeOK'
  BY DEF TypeOK, postVars, getVars
<1>2. StaleOnlyByRace'
  BY PendingFrame DEF StaleOnlyByRace
<1>3. ServedWasCommitted' /\ CachedWasCommitted' /\ rows' \in past'
  BY DEF getVars, ServedWasCommitted, CachedWasCommitted
<1> QED
  BY <1>1, <1>2, <1>3

-----------------------------------------------------------------------------

\* The invariant is inductive: handler/discovery.go keeps it at every statement.
THEOREM Invariance == Spec => []IInv
<1>1. IInv /\ [Next]_vars => IInv'
  BY PublishKeeps, ServeKeeps, ExpireKeeps, StutterKeeps DEF Next
<1> QED
  BY InitInv, <1>1, PTL DEF Spec

\* The table, the cache and the handlers' variables keep their types.
THEOREM TypeCorrect == Spec => []TypeOK
<1>1. IInv => TypeOK
  BY DEF IInv
<1> QED
  BY Invariance, <1>1, PTL

\* Readers see the table as some publication left it, never in between,
\* because UpsertDiscovery deletes and inserts in one transaction.
THEOREM PublicationIsAtomic == Spec => []ServedWasCommitted
<1>1. IInv => ServedWasCommitted
  BY DEF IInv
<1> QED
  BY Invariance, <1>1, PTL

\* invalidateCache reaches every entry that its publication outdates; what is
\* still outdated was filled from an older read, or a command was lost.
THEOREM InvalidationIsComplete == Spec => []StaleOnlyByRace
<1>1. IInv => StaleOnlyByRace
  BY DEF IInv
<1> QED
  BY Invariance, <1>1, PTL
=============================================================================
