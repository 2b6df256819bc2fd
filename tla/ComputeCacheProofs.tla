------------------------- MODULE ComputeCacheProofs -------------------------
(***************************************************************************)
(* Proofs about ComputeCache, for any threads, tickers, lifetimes and      *)
(* calendar whose last tick is open: how old an answered quote can be,     *)
(* that an eviction fails only in company, and that L1 keeps its size.     *)
(***************************************************************************)
EXTENDS ComputeCache, FiniteSetTheorems, WellFoundedInduction, TLAPS

\* An entry of Redis lives as long as its quote, one of L1 a backfill longer.
EntriesAreRecent ==
    /\ \A k \in Ticker : l2[k] # None => l2[k].expires <= l2[k].quote + Ttl(l2[k].quote)
    /\ \A k \in Ticker : l1[k] # None => l1[k].expires <= l1[k].quote + Ttl(l1[k].quote) + Backfill

\* The clock stands while a thread is in the cache: what it stores is of this
\* moment, what it copies from Redis has not expired.
ThreadKnows(t) ==
    /\ at[t] # "idle" => ticker[t] \in Ticker
    /\ at[t] = "store" => call[t] = "set"
    /\ at[t] = "fill" => call[t] = "get"
    /\ at[t] \in InCache /\ call[t] = "set" => holds[t] = clock
    /\ at[t] \in Evicting \cup {"fill"} /\ call[t] = "get" =>
          holds[t] # None /\ clock < holds[t] + Ttl(holds[t])

\* What an eviction is about to delete is there, unless another thread came.
AloneFindsItsKeys(t) ==
    at[t] \in {"del", "cut"} /\ t \notin company => \A k \in todo[t] : l1[k] # None

\* The inductive invariant.
IInv ==
    /\ TypeOK /\ EntriesAreRecent /\ disturbed \subseteq company
    /\ \A t \in Thread : ThreadKnows(t) /\ AloneFindsItsKeys(t)

-----------------------------------------------------------------------------
(* The calendar.                                                            *)

\* A closed tick has a next open, as the last tick is open.
LEMMA NextOpenIsOpen ==
    ASSUME NEW c \in 0 .. End, c \notin Open
    PROVE  NextOpen(c) \in Open /\ NextOpen(c) > c
<1> DEFINE later == {o \in Open : o > c}
<1>1. later \subseteq Nat /\ later # {}
  <2>1. End > c /\ Open \subseteq Nat
    BY Calendar
  <2> QED
    BY <2>1, Calendar
<1> DEFINE R == OpToRel(<, Nat)
<1>2. \E o \in later : \A p \in later : ~ (<<p, o>> \in R)
  <2> HIDE DEF later, R
  <2>1. IsWellFoundedOn(R, Nat)
    BY NatLessThanWellFounded DEF R
  <2> QED
    BY <1>1, <2>1, WFMin
<1>3. \E o \in later : \A p \in later : ~ (p < o)
  BY <1>1, <1>2 DEF OpToRel
<1>4. \E o \in Open : o > c /\ \A p \in Open : p > c => o <= p
  BY <1>1, <1>3, Calendar
<1> QED
  BY <1>4 DEF NextOpen

LEMMA TtlType ==
    ASSUME NEW c \in 0 .. End
    PROVE  Ttl(c) \in Nat /\ c + Ttl(c) <= 2 * End + Base
<1>1. CASE c \in Open
  BY <1>1, Lifetimes, Calendar DEF Ttl
<1>2. CASE c \notin Open
  <2>1. NextOpen(c) \in 0 .. End /\ NextOpen(c) > c
    BY <1>2, NextOpenIsOpen, Calendar
  <2> HIDE DEF NextOpen
  <2> QED
    BY <1>2, <2>1, Lifetimes, Calendar DEF Ttl
<1> QED
  BY <1>1, <1>2

LEMMA NoneIsNoQuote == None \notin Int /\ None \notin Ticker /\ \A e \in Entry : e # None
BY NoneIsNothing, Lifetimes, Calendar DEF Entry

\* The entries that are written.
LEMMA StoredType ==
    ASSUME NEW c \in 0 .. End
    PROVE  [quote |-> c, expires |-> c + Ttl(c)] \in Entry
BY TtlType, Lifetimes, Calendar DEF Entry

LEMMA BackfilledType ==
    ASSUME TypeOK, NEW q \in 0 .. End
    PROVE  [quote |-> q, expires |-> BackfillExpiry] \in Entry
BY Lifetimes, Calendar DEF TypeOK, Entry, BackfillExpiry

LEMMA InitInv == Init => IInv
<1> SUFFICES ASSUME Init PROVE IInv
  OBVIOUS
<1>1. TypeOK
  <2>1. clock \in 0 .. End /\ l1 \in [Ticker -> Entry \cup {None}] /\ l2 \in [Ticker -> Entry \cup {None}]
    BY Calendar DEF Init, NoEntries
  <2>2. /\ at \in [Thread -> {"idle", "fetch"} \cup InCache] /\ call \in [Thread -> {"get", "set"}]
        /\ ticker \in [Thread -> Ticker \cup {None}] /\ holds \in [Thread -> 0 .. End \cup {None}]
        /\ answer \in [Thread -> {"none", "quote", "error"}]
    BY DEF Init
  <2>3. todo \in [Thread -> SUBSET Ticker]
    BY DEF Init
  <2> QED
    BY <2>1, <2>2, <2>3 DEF Init, TypeOK
<1>2. EntriesAreRecent /\ disturbed \subseteq company
  BY DEF Init, EntriesAreRecent, NoEntries
<1>3. \A t \in Thread : ThreadKnows(t) /\ AloneFindsItsKeys(t)
  BY DEF Init, ThreadKnows, AloneFindsItsKeys, InCache, Evicting
<1> QED
  BY <1>1, <1>2, <1>3 DEF IInv

-----------------------------------------------------------------------------
(* What the steps have in common.                                           *)

\* Of the threads, only t takes a step.
OnlyThread(t) ==
    \A u \in Thread \ {t} :
        at'[u] = at[u] /\ ticker'[u] = ticker[u] /\ call'[u] = call[u] /\ holds'[u] = holds[u]

\* A step of one thread leaves what the others know.
LEMMA OthersKnow ==
    ASSUME IInv, UNCHANGED clock, NEW t \in Thread, OnlyThread(t), ThreadKnows(t)'
    PROVE  \A u \in Thread : ThreadKnows(u)'
BY DEF IInv, ThreadKnows, OnlyThread

\* So does one that changes no key of L1, for the lists of their evictions.
LEMMA OthersFind ==
    ASSUME IInv, NEW u \in Thread, at'[u] = at[u], todo'[u] = todo[u], UNCHANGED l1,
           u \in company => u \in company'
    PROVE  AloneFindsItsKeys(u)'
BY DEF IInv, AloneFindsItsKeys

\* A step that changes the keys of L1 is company to every other eviction.
LEMMA AssignIsCompany ==
    ASSUME IInv, NEW t \in Thread, NEW k \in Ticker, NEW e \in Entry \cup {None}, Assign(t, k, e)
    PROVE  /\ l1' \in [Ticker -> Entry \cup {None}]
           /\ disturbed' \subseteq company' /\ company' \subseteq Thread
           /\ \A u \in Thread \ {t} :
                at'[u] = at[u] /\ todo'[u] = todo[u] => AloneFindsItsKeys(u)'
<1> USE NoneIsNoQuote DEF IInv, TypeOK
<1> DEFINE seen == IF (l1[k] = None) = (e = None) THEN {}
                   ELSE {u \in Thread \ {t} : at[u] \in Evicting}
<1>1. /\ l1' = [l1 EXCEPT ![k] = e]
      /\ disturbed' = disturbed \cup seen /\ company' = company \cup seen
  BY Zenon DEF Assign
<1>2. seen \subseteq Thread
  OBVIOUS
<1>3. ASSUME NEW u \in Thread \ {t}, at'[u] = at[u], todo'[u] = todo[u],
             at[u] \in {"del", "cut"}, u \notin company', NEW j \in todo[u]
      PROVE  l1'[j] # None
  <2>1. u \notin company /\ u \notin seen
    BY <1>1, <1>3
  <2>2. at[u] \in Evicting
    BY <1>3 DEF Evicting
  <2>3. (l1[k] = None) <=> (e = None)
    BY <2>1, <2>2
  <2>4. l1[j] # None /\ j \in Ticker
    BY <1>3, <2>1 DEF AloneFindsItsKeys
  <2> QED
    BY <1>1, <2>3, <2>4
<1> HIDE DEF seen
<1> QED
  BY <1>1, <1>2, <1>3 DEF AloneFindsItsKeys

\* The reply or the fetch that follows where Redis has no part.
LEMMA WithoutRedisType ==
    ASSUME TypeOK, NEW t \in Thread, WithoutRedis(t)
    PROVE  /\ at' \in [Thread -> {"idle", "fetch"} \cup InCache]
           /\ answer' \in [Thread -> {"none", "quote", "error"}]
           /\ \A u \in Thread \ {t} : at'[u] = at[u]
           /\ at'[t] \in {"idle", "fetch"}
BY DEF TypeOK, WithoutRedis, Goto, Reply

-----------------------------------------------------------------------------
(* Steps that leave both levels as they are.                                *)

LEMMA QuietKeeps ==
    ASSUME IInv, NEW t \in Thread, TypeOK', UNCHANGED <<clock, l1, l2, todo, disturbed, company>>,
           OnlyThread(t), ThreadKnows(t)', at'[t] \notin {"del", "cut"}
    PROVE  IInv'
<1> USE DEF IInv
<1>1. EntriesAreRecent' /\ (disturbed \subseteq company)'
  BY DEF EntriesAreRecent
<1>2. \A u \in Thread : ThreadKnows(u)'
  BY OthersKnow
<1>3. \A u \in Thread : AloneFindsItsKeys(u)'
  BY OthersFind DEF AloneFindsItsKeys, OnlyThread
<1> QED
  BY <1>1, <1>2, <1>3

LEMMA BeginKeeps == ASSUME IInv, NEW t \in Thread, Begin(t) PROVE IInv'
<1> USE DEF IInv, Begin, redisVars, historyVars, Goto
<1>1. PICK k \in Ticker : ticker' = [ticker EXCEPT ![t] = k]
  OBVIOUS
<1>2. TypeOK'
  BY <1>1 DEF TypeOK, InCache
<1>3. OnlyThread(t) /\ ThreadKnows(t)'
  BY <1>1 DEF OnlyThread, ThreadKnows, TypeOK, InCache, Evicting
<1> QED
  BY <1>2, <1>3, QuietKeeps DEF TypeOK

LEMMA LookupKeeps == ASSUME IInv, NEW t \in Thread, Lookup(t) PROVE IInv'
<1> USE DEF IInv, Lookup, redisVars, historyVars, Goto, Reply
<1>1. ticker[t] \in Ticker /\ (Fresh(l1[ticker[t]]) => l1[ticker[t]].quote \in 0 .. End)
  BY DEF ThreadKnows, TypeOK, Fresh, Entry
<1>2. TypeOK'
  BY <1>1 DEF TypeOK, InCache
<1>3. OnlyThread(t) /\ ThreadKnows(t)'
  BY <1>1 DEF OnlyThread, ThreadKnows, TypeOK, InCache, Evicting
<1> QED
  BY <1>2, <1>3, QuietKeeps DEF TypeOK

LEMMA ConnectKeeps ==
    ASSUME IInv, NEW t \in Thread, GetRedis(t) \/ Connect(t) \/ Ping(t)
    PROVE  IInv'
<1> USE DEF IInv, redisVars, historyVars
<1>1. /\ UNCHANGED <<clock, l1, l2, todo, disturbed, company, untidy, since, call, ticker, holds>>
      /\ attempted' \in BOOLEAN /\ client' \in BOOLEAN
      /\ at[t] \in {"client", "connect", "ping"}
  BY DEF GetRedis, Connect, Ping, TypeOK
<1>2. /\ \/ WithoutRedis(t)
         \/ (Goto(t, "redis") \/ Goto(t, "connect") \/ Goto(t, "ping")) /\ UNCHANGED answer
  BY DEF GetRedis, Connect, Ping
<1>3. /\ at' \in [Thread -> {"idle", "fetch"} \cup InCache]
      /\ answer' \in [Thread -> {"none", "quote", "error"}]
      /\ \A u \in Thread \ {t} : at'[u] = at[u]
      /\ at'[t] \in {"idle", "fetch", "redis", "connect", "ping"}
  <2>1. CASE WithoutRedis(t)
    BY <2>1, WithoutRedisType
  <2>2. CASE (Goto(t, "redis") \/ Goto(t, "connect") \/ Goto(t, "ping")) /\ UNCHANGED answer
    BY <2>2 DEF Goto, TypeOK, InCache
  <2> QED
    BY <1>2, <2>1, <2>2
<1>4. TypeOK'
  BY <1>1, <1>3 DEF TypeOK
<1>5. OnlyThread(t) /\ ThreadKnows(t)'
  BY <1>1, <1>3 DEF OnlyThread, ThreadKnows, TypeOK, InCache, Evicting
<1> QED
  BY <1>1, <1>3, <1>4, <1>5, QuietKeeps

LEMMA RedisGetKeeps == ASSUME IInv, NEW t \in Thread, RedisGet(t) PROVE IInv'
<1> USE DEF IInv, RedisGet, redisVars, historyVars, Goto
<1> DEFINE entry == l2[ticker[t]]
<1>1. /\ ticker[t] \in Ticker
      /\ Fresh(entry) => entry.quote \in 0 .. End /\ clock < entry.quote + Ttl(entry.quote)
  <2>1. ticker[t] \in Ticker
    BY DEF ThreadKnows, TypeOK
  <2>2. ASSUME Fresh(entry)
        PROVE  /\ entry.quote \in 0 .. End /\ entry.expires \in Int
               /\ entry.expires <= entry.quote + Ttl(entry.quote) /\ entry.expires > clock
    BY <2>1, <2>2, Lifetimes, Calendar DEF Fresh, TypeOK, Entry, EntriesAreRecent
  <2> QED
    BY <2>1, <2>2, TtlType DEF TypeOK
<1>2. TypeOK'
  BY <1>1 DEF TypeOK, InCache, Evicting
<1>3. OnlyThread(t)
  BY DEF OnlyThread, TypeOK
<1>4. ThreadKnows(t)'
  <2>1. CASE Fresh(entry) /\ holds' = [holds EXCEPT ![t] = entry.quote] /\ at' = [at EXCEPT ![t] = "fill"]
    BY <1>1, <2>1, NoneIsNoQuote DEF ThreadKnows, TypeOK, InCache, Evicting
  <2>2. CASE at' = [at EXCEPT ![t] = "fetch"] /\ UNCHANGED holds
    BY <1>1, <2>2 DEF ThreadKnows, TypeOK, InCache, Evicting
  <2> QED
    BY <2>1, <2>2
<1> QED
  BY <1>2, <1>3, <1>4, QuietKeeps DEF TypeOK

LEMMA FetchKeeps == ASSUME IInv, NEW t \in Thread, Fetch(t) PROVE IInv'
<1> USE DEF IInv, Fetch, redisVars, historyVars, Goto, Reply
<1>1. TypeOK'
  BY DEF TypeOK, InCache
<1>2. OnlyThread(t) /\ ThreadKnows(t)'
  BY DEF OnlyThread, ThreadKnows, TypeOK, InCache, Evicting
<1> QED
  BY <1>1, <1>2, QuietKeeps DEF TypeOK

-----------------------------------------------------------------------------
(* Steps that write a level.                                                *)

\* A step of t that puts an entry into L1 and goes on to the eviction.
LEMMA EntryKeeps ==
    ASSUME IInv, NEW t \in Thread, NEW e \in Entry,
           e.expires <= e.quote + Ttl(e.quote) + Backfill,
           ticker[t] \in Ticker, Assign(t, ticker[t], e), Goto(t, "scan"),
           since' = since \cup {t}, UNCHANGED <<clock, redisVars, call, ticker, holds, todo, answer, untidy>>,
           ThreadKnows(t)'
    PROVE  IInv'
<1> USE DEF IInv, redisVars
<1>1. /\ l1' \in [Ticker -> Entry \cup {None}]
      /\ disturbed' \subseteq company' /\ company' \subseteq Thread
      /\ \A u \in Thread \ {t} : at'[u] = at[u] /\ todo'[u] = todo[u] => AloneFindsItsKeys(u)'
  BY AssignIsCompany
<1>2. l1' = [l1 EXCEPT ![ticker[t]] = e]
  BY Zenon DEF Assign
<1>3. TypeOK'
  BY <1>1 DEF TypeOK, Goto, InCache, Evicting
<1>4. OnlyThread(t)
  BY DEF OnlyThread, Goto, TypeOK
<1>5. EntriesAreRecent'
  BY <1>2 DEF EntriesAreRecent, TypeOK
<1>6. \A u \in Thread : ThreadKnows(u)'
  BY <1>4, OthersKnow
<1>7. \A u \in Thread : AloneFindsItsKeys(u)'
  <2>1. AloneFindsItsKeys(t)'
    BY DEF AloneFindsItsKeys, Goto, TypeOK
  <2> QED
    BY <1>1, <1>4, <2>1 DEF OnlyThread
<1> QED
  BY <1>1, <1>3, <1>5, <1>6, <1>7

LEMMA FillKeeps == ASSUME IInv, NEW t \in Thread, Fill(t) PROVE IInv'
<1> USE DEF IInv
<1> DEFINE e == [quote |-> holds[t], expires |-> BackfillExpiry]
<1>1. /\ ticker[t] \in Ticker /\ holds[t] \in 0 .. End /\ call[t] = "get"
      /\ clock < holds[t] + Ttl(holds[t])
  BY DEF Fill, ThreadKnows, TypeOK
<1>2. e \in Entry
  BY <1>1, BackfilledType
<1>3. e.expires <= e.quote + Ttl(e.quote) + Backfill
  BY <1>1, TtlType, Lifetimes, Calendar DEF BackfillExpiry, TypeOK
<1>4. ThreadKnows(t)'
  BY <1>1, NoneIsNoQuote DEF Fill, Goto, ThreadKnows, TypeOK, InCache, Evicting
<1> HIDE DEF e
<1> QED
  BY <1>1, <1>2, <1>3, <1>4, EntryKeeps DEF Fill, e

LEMMA StoreKeeps == ASSUME IInv, NEW t \in Thread, Store(t) PROVE IInv'
<1> USE DEF IInv
<1> DEFINE e == [quote |-> holds[t], expires |-> clock + Ttl(clock)]
<1>1. ticker[t] \in Ticker /\ holds[t] = clock /\ clock \in 0 .. End /\ call[t] = "set"
  BY DEF Store, ThreadKnows, TypeOK, InCache
<1>2. e \in Entry
  BY <1>1, StoredType
<1>3. e.expires <= e.quote + Ttl(e.quote) + Backfill
  BY <1>1, TtlType, Lifetimes, Calendar
<1>4. ThreadKnows(t)'
  BY <1>1 DEF Store, Goto, ThreadKnows, TypeOK, InCache, Evicting
<1> HIDE DEF e
<1> QED
  BY <1>1, <1>2, <1>3, <1>4, EntryKeeps DEF Store, e

LEMMA RedisSetKeeps == ASSUME IInv, NEW t \in Thread, RedisSet(t) PROVE IInv'
<1> USE DEF IInv, RedisSet, Goto, Reply, historyVars
<1> DEFINE e == [quote |-> holds[t], expires |-> clock + Ttl(clock)]
<1>1. ticker[t] \in Ticker /\ holds[t] = clock /\ clock \in 0 .. End
  BY DEF ThreadKnows, TypeOK, InCache
<1>2. e \in Entry /\ e.expires <= e.quote + Ttl(e.quote)
  BY <1>1, StoredType, TtlType
<1>3. l2' = [l2 EXCEPT ![ticker[t]] = e] \/ UNCHANGED l2
  OBVIOUS
<1> HIDE DEF e
<1>4. TypeOK'
  <2>1. l2' \in [Ticker -> Entry \cup {None}]
    BY <1>1, <1>2, <1>3 DEF TypeOK
  <2> QED
    BY <2>1 DEF TypeOK
<1>5. OnlyThread(t) /\ ThreadKnows(t)'
  BY <1>1 DEF OnlyThread, ThreadKnows, TypeOK, InCache, Evicting
<1>6. EntriesAreRecent'
  BY <1>1, <1>2, <1>3 DEF EntriesAreRecent, TypeOK
<1>7. \A u \in Thread : ThreadKnows(u)'
  BY <1>5, OthersKnow
<1>8. \A u \in Thread : AloneFindsItsKeys(u)'
  BY <1>5, OthersFind DEF AloneFindsItsKeys, OnlyThread, TypeOK
<1> QED
  BY <1>4, <1>6, <1>7, <1>8

-----------------------------------------------------------------------------
(* The eviction.                                                            *)

\* A step of t that changes no level, whatever becomes of its list.
LEMMA ListKeeps ==
    ASSUME IInv, NEW t \in Thread, TypeOK', UNCHANGED <<clock, l1, l2>>,
           OnlyThread(t), ThreadKnows(t)', AloneFindsItsKeys(t)',
           \A u \in Thread \ {t} : todo'[u] = todo[u],
           \/ disturbed' = disturbed \ {t} /\ company' = company
           \/ disturbed' = disturbed \ {t} /\ company' = company \ {t}
    PROVE  IInv'
<1> USE DEF IInv
<1>1. EntriesAreRecent' /\ disturbed' \subseteq company'
  BY DEF EntriesAreRecent
<1>2. \A u \in Thread : ThreadKnows(u)'
  BY OthersKnow
<1>3. \A u \in Thread \ {t} : AloneFindsItsKeys(u)'
  BY OthersFind DEF OnlyThread
<1> QED
  BY <1>1, <1>2, <1>3

LEMMA RaiseKeeps ==
    ASSUME IInv, NEW t \in Thread, at[t] \in Evicting, Raise(t),
           UNCHANGED <<clock, redisVars, call, ticker, holds>>
    PROVE  IInv'
<1> USE DEF IInv, Raise, redisVars, Goto, Reply
<1>1. TypeOK'
  BY DEF TypeOK
<1>2. OnlyThread(t) /\ ThreadKnows(t)' /\ AloneFindsItsKeys(t)'
  BY DEF OnlyThread, ThreadKnows, AloneFindsItsKeys, TypeOK, InCache, Evicting
<1> QED
  BY <1>1, <1>2, ListKeeps DEF TypeOK

LEMMA EvictedKeeps ==
    ASSUME IInv, NEW t \in Thread, at[t] \in Evicting, todo[t] = {}, Evicted(t),
           UNCHANGED <<clock, redisVars, call, ticker, holds>>
    PROVE  IInv'
<1> USE DEF IInv, Evicted, redisVars, Goto, Reply
<1>1. TypeOK'
  BY DEF TypeOK, InCache
<1>2. OnlyThread(t) /\ ThreadKnows(t)' /\ AloneFindsItsKeys(t)'
  BY DEF OnlyThread, ThreadKnows, AloneFindsItsKeys, TypeOK, InCache, Evicting
<1> QED
  BY <1>1, <1>2, ListKeeps DEF TypeOK

LEMMA MakeListKeeps ==
    ASSUME IInv, NEW t \in Thread, at[t] \in Evicting, NEW keys \in SUBSET Keys(l1),
           NEW s \in Evicting, MakeList(t, keys, s),
           UNCHANGED <<clock, redisVars, call, ticker, holds>>
    PROVE  IInv'
<1> USE DEF IInv, MakeList, redisVars, Goto
<1>1. keys \subseteq Ticker /\ \A k \in keys : l1[k] # None
  BY DEF Keys
<1>2. TypeOK'
  BY <1>1 DEF TypeOK, InCache
<1>3. OnlyThread(t) /\ ThreadKnows(t)'
  BY DEF OnlyThread, ThreadKnows, TypeOK, InCache, Evicting
<1>4. AloneFindsItsKeys(t)'
  BY <1>1 DEF AloneFindsItsKeys, TypeOK
<1> QED
  BY <1>2, <1>3, <1>4, ListKeeps DEF TypeOK

LEMMA ScanKeeps == ASSUME IInv, NEW t \in Thread, Scan(t) PROVE IInv'
<1>1. CASE MakeList(t, {k \in Keys(l1) : l1[k].expires < clock}, "del")
  BY <1>1, MakeListKeeps DEF Scan, Evicting
<1>2. CASE Raise(t)
  BY <1>2, RaiseKeeps DEF Scan, Evicting
<1> QED
  BY <1>1, <1>2 DEF Scan

LEMMA TrimKeeps == ASSUME IInv, NEW t \in Thread, Trim(t) PROVE IInv'
<1>1. at[t] \in Evicting /\ UNCHANGED <<clock, redisVars, call, ticker, holds>>
  BY DEF Trim, Evicting
<1>2. CASE todo[t] = {} /\ Evicted(t)
  BY <1>1, <1>2, EvictedKeeps
<1>3. CASE MakeList(t, {}, "trim")
  BY <1>1, <1>3, MakeListKeeps DEF Evicting
<1>4. CASE \E keys \in Earliest(Sliced(Surplus)) : MakeList(t, keys, "cut")
  <2>1. PICK keys \in SUBSET Keys(l1) : MakeList(t, keys, "cut")
    BY <1>4 DEF Earliest
  <2> QED
    BY <1>1, <2>1, MakeListKeeps DEF Evicting
<1>5. CASE Raise(t)
  BY <1>1, <1>5, RaiseKeeps
<1> QED
  BY <1>2, <1>3, <1>4, <1>5 DEF Trim

LEMMA CutKeeps == ASSUME IInv, NEW t \in Thread, Cut(t) PROVE IInv'
BY EvictedKeeps DEF Cut, Evicting

LEMMA DeleteKeeps == ASSUME IInv, NEW t \in Thread, Delete(t) PROVE IInv'
<1> USE DEF IInv
<1>1. PICK k \in todo[t] :
        IF l1[k] = None THEN Raise(t)
        ELSE /\ Assign(t, k, None) /\ todo' = [todo EXCEPT ![t] = @ \ {k}]
             /\ UNCHANGED <<at, answer, untidy, since>>
  BY DEF Delete
<1>2. /\ at[t] \in {"del", "cut"} /\ at[t] \in Evicting /\ k \in Ticker
      /\ UNCHANGED <<clock, redisVars, call, ticker, holds>>
  BY DEF Delete, Evicting, TypeOK
<1>3. CASE l1[k] = None
  BY <1>1, <1>2, <1>3, RaiseKeeps
<1>4. CASE l1[k] # None
  <2>1. /\ Assign(t, k, None) /\ todo' = [todo EXCEPT ![t] = @ \ {k}]
        /\ UNCHANGED <<at, answer, untidy, since>>
    BY <1>1, <1>4
  <2>2. /\ l1' \in [Ticker -> Entry \cup {None}]
        /\ disturbed' \subseteq company' /\ company' \subseteq Thread
        /\ \A u \in Thread \ {t} : at'[u] = at[u] /\ todo'[u] = todo[u] => AloneFindsItsKeys(u)'
    BY <1>2, <2>1, AssignIsCompany
  <2>3. l1' = [l1 EXCEPT ![k] = None] /\ company \subseteq company'
    BY <2>1, Zenon DEF Assign
  <2>4. TypeOK'
    BY <1>2, <2>1, <2>2 DEF TypeOK, redisVars
  <2>5. EntriesAreRecent'
    BY <1>2, <2>3 DEF EntriesAreRecent, TypeOK, redisVars
  <2>6. OnlyThread(t) /\ ThreadKnows(t)'
    BY <1>2, <2>1 DEF OnlyThread, ThreadKnows
  <2>7. AloneFindsItsKeys(t)'
    BY <1>2, <2>1, <2>3 DEF AloneFindsItsKeys, TypeOK
  <2>8. \A u \in Thread : AloneFindsItsKeys(u)'
    BY <2>1, <2>2, <2>7 DEF TypeOK
  <2>9. \A u \in Thread : ThreadKnows(u)'
    BY <1>2, <2>6, OthersKnow
  <2> QED
    BY <2>2, <2>4, <2>5, <2>8, <2>9
<1> QED
  BY <1>3, <1>4

-----------------------------------------------------------------------------
(* The clock, a restart, and the theorems.                                  *)

LEMMA TickKeeps == ASSUME IInv, Tick PROVE IInv'
<1> USE DEF IInv, Tick, threadVars, historyVars
<1>1. TypeOK'
  <2>1. clock' \in 0 .. End
    BY Calendar DEF TypeOK
  <2>2. l2' \in [Ticker -> Entry \cup {None}]
    BY DEF TypeOK
  <2> QED
    BY <2>1, <2>2 DEF TypeOK
<1>2. EntriesAreRecent' /\ (disturbed \subseteq company)'
  BY DEF EntriesAreRecent
<1>3. \A t \in Thread : at[t] \notin InCache
  OBVIOUS
<1>4. \A t \in Thread : ThreadKnows(t)' /\ AloneFindsItsKeys(t)'
  BY <1>3 DEF ThreadKnows, AloneFindsItsKeys, InCache, Evicting
<1> QED
  BY <1>1, <1>2, <1>4

LEMMA RestartKeeps == ASSUME IInv, Restart PROVE IInv'
<1> USE DEF IInv, Restart, Start
<1>1. TypeOK'
  <2>1. clock' \in 0 .. End /\ l1' \in [Ticker -> Entry \cup {None}] /\ l2' \in [Ticker -> Entry \cup {None}]
    BY DEF TypeOK, NoEntries
  <2>2. /\ at' \in [Thread -> {"idle", "fetch"} \cup InCache] /\ call' \in [Thread -> {"get", "set"}]
        /\ ticker' \in [Thread -> Ticker \cup {None}] /\ holds' \in [Thread -> 0 .. End \cup {None}]
        /\ answer' \in [Thread -> {"none", "quote", "error"}]
    OBVIOUS
  <2>3. todo' \in [Thread -> SUBSET Ticker]
    OBVIOUS
  <2> QED
    BY <2>1, <2>2, <2>3 DEF TypeOK
<1>2. EntriesAreRecent' /\ (disturbed \subseteq company)'
  BY DEF EntriesAreRecent, NoEntries
<1>3. \A t \in Thread : ThreadKnows(t)' /\ AloneFindsItsKeys(t)'
  BY DEF ThreadKnows, AloneFindsItsKeys, InCache, Evicting
<1> QED
  BY <1>1, <1>2, <1>3

LEMMA NextKeeps == IInv /\ [Next]_vars => IInv'
<1> SUFFICES ASSUME IInv, [Next]_vars PROVE IInv'
  OBVIOUS
<1>1. CASE Tick \/ Restart
  BY <1>1, TickKeeps, RestartKeeps
<1>2. ASSUME NEW t \in Thread, FetchSingleQuote(t) PROVE IInv'
  BY <1>2, BeginKeeps, LookupKeeps, ConnectKeeps, RedisGetKeeps, FillKeeps, FetchKeeps,
     StoreKeeps, RedisSetKeeps, ScanKeeps, DeleteKeeps, TrimKeeps, CutKeeps DEF FetchSingleQuote
<1>3. CASE UNCHANGED vars
  BY <1>3 DEF vars, redisVars, threadVars, historyVars, IInv, TypeOK, EntriesAreRecent,
              ThreadKnows, AloneFindsItsKeys
<1> QED
  BY <1>1, <1>2, <1>3 DEF Next

LEMMA Inductive == Spec => []IInv
BY InitInv, NextKeeps, PTL DEF Spec

\* Every variable keeps to its type: entries expire within the calendar and the
\* longest lifetimes, no thread is at an unknown step of get or set.
THEOREM TypeCorrect == Spec => []TypeOK
BY Inductive, PTL DEF IInv

\* A step of a thread moves no other.
LEMMA ThreadsApart ==
    ASSUME TypeOK, NEW t \in Thread, FetchSingleQuote(t)
    PROVE  \A u \in Thread \ {t} : at'[u] = at[u]
<1> USE DEF TypeOK, Goto, Reply
<1>1. CASE Begin(t) \/ Lookup(t) \/ RedisGet(t) \/ Fill(t) \/ Fetch(t) \/ Store(t) \/ RedisSet(t)
  BY <1>1 DEF Begin, Lookup, RedisGet, Fill, Fetch, Store, RedisSet
<1>2. CASE GetRedis(t) \/ Connect(t) \/ Ping(t)
  BY <1>2 DEF GetRedis, Connect, Ping, WithoutRedis
<1>3. CASE Scan(t) \/ Delete(t) \/ Trim(t) \/ Cut(t)
  BY <1>3 DEF Scan, Delete, Trim, Cut, MakeList, Raise, Evicted
<1> QED
  BY <1>1, <1>2, <1>3 DEF FetchSingleQuote

\* The steps that answer with a quote: from L1, without Redis, after RedisSet, or
\* after an eviction.
LEMMA AnswerIsRecent ==
    ASSUME IInv, NEW t \in Thread, FetchSingleQuote(t),
           at[t] # "idle", at'[t] = "idle", answer'[t] = "quote"
    PROVE  clock < holds'[t] + Ttl(holds'[t]) + Backfill
<1> USE DEF IInv
<1>1. clock \in 0 .. End /\ Ttl(clock) \in Nat /\ Backfill \in Nat \ {0}
  BY TtlType, Lifetimes DEF TypeOK
<1>2. CASE Lookup(t)
  <2> DEFINE entry == l1[ticker[t]]
  <2>1. ticker[t] \in Ticker
    BY <1>2 DEF Lookup, ThreadKnows, TypeOK
  <2>2. Fresh(entry) /\ holds' = [holds EXCEPT ![t] = entry.quote]
    BY <1>2 DEF Lookup, Goto, TypeOK
  <2>3. entry.quote \in 0 .. End /\ entry.expires \in Int /\ entry.expires > clock
    BY <2>1, <2>2, Lifetimes, Calendar DEF Fresh, TypeOK, Entry
  <2>4. entry.expires <= entry.quote + Ttl(entry.quote) + Backfill
    BY <2>1, <2>2 DEF Fresh, EntriesAreRecent
  <2>5. holds'[t] = entry.quote /\ Ttl(entry.quote) \in Nat
    BY <2>2, <2>3, TtlType DEF TypeOK
  <2> QED
    BY <1>1, <2>3, <2>4, <2>5
<1>3. ASSUME call[t] = "set", at[t] \in InCache, UNCHANGED holds
      PROVE  clock < holds'[t] + Ttl(holds'[t]) + Backfill
  BY <1>1, <1>3, Calendar DEF ThreadKnows
<1>4. CASE GetRedis(t) \/ Connect(t) \/ Ping(t) \/ RedisSet(t)
  <2>1. at[t] \in InCache /\ UNCHANGED holds
    BY <1>4 DEF GetRedis, Connect, Ping, RedisSet, InCache
  <2>2. call[t] = "set"
    BY <1>4 DEF GetRedis, Connect, Ping, RedisSet, WithoutRedis, Goto, TypeOK
  <2> QED
    BY <1>3, <2>1, <2>2
<1>5. CASE Scan(t) \/ Delete(t) \/ Trim(t) \/ Cut(t)
  <2>1. at[t] \in Evicting /\ UNCHANGED holds
    BY <1>5 DEF Scan, Delete, Trim, Cut, Evicting
  <2>2. CASE call[t] = "set"
    BY <1>3, <2>1, <2>2 DEF InCache
  <2>3. CASE call[t] = "get"
    <3>1. clock < holds[t] + Ttl(holds[t]) /\ holds[t] \in 0 .. End
      BY <2>1, <2>3 DEF ThreadKnows, TypeOK
    <3>2. Ttl(holds[t]) \in Nat
      BY <3>1, TtlType
    <3> QED
      BY <1>1, <2>1, <3>1, <3>2
  <2> QED
    BY <2>2, <2>3 DEF TypeOK
<1>6. CASE Begin(t) \/ RedisGet(t) \/ Fill(t) \/ Fetch(t) \/ Store(t)
  BY <1>6 DEF Begin, RedisGet, Fill, Fetch, Store, Goto, Reply, TypeOK
<1> QED
  BY <1>2, <1>4, <1>5, <1>6 DEF FetchSingleQuote

\* Whichever level a quote is answered from, it is no older than its own lifetime
\* and a backfill, although Redis may be lost and threads and restarts intervene.
THEOREM QuotesAreRecent == Spec => ServedIsRecent
<1> DEFINE P == \A t \in Thread :
          at[t] # "idle" /\ at'[t] = "idle" /\ answer'[t] = "quote"
            => clock < holds'[t] + Ttl(holds'[t]) + Backfill
<1>1. IInv /\ [Next]_vars => [P]_vars
  <2> SUFFICES ASSUME IInv, Next, NEW t \in Thread,
                      at[t] # "idle", at'[t] = "idle", answer'[t] = "quote"
               PROVE  clock < holds'[t] + Ttl(holds'[t]) + Backfill
    OBVIOUS
  <2>1. ~ Tick /\ ~ Restart
    BY DEF Tick, Restart, Start, threadVars
  <2>2. PICK u \in Thread : FetchSingleQuote(u)
    BY <2>1 DEF Next
  <2>3. u = t
    BY <2>2, ThreadsApart DEF IInv
  <2> QED
    BY <2>2, <2>3, AnswerIsRecent
<1> HIDE DEF P
<1>2. Spec => [][P]_vars
  BY <1>1, Inductive, PTL DEF Spec
<1> QED
  BY <1>2 DEF P, ServedIsRecent

\* An eviction fails at a list while L1 changes, or at a key that has gone.
LEMMA FailureHasCompany ==
    ASSUME IInv, NEW t \in Thread, FetchSingleQuote(t), at[t] \in Evicting,
           at'[t] = "fetch" \/ (at'[t] = "idle" /\ answer'[t] = "error")
    PROVE  t \in company
<1> USE DEF IInv
<1>1. CASE Scan(t)
  BY <1>1 DEF Scan, MakeList, Goto, TypeOK
<1>2. CASE Delete(t)
  <2>1. PICK k \in todo[t] : l1[k] = None
    BY <1>2 DEF Delete, Evicting
  <2> QED
    BY <1>2, <2>1 DEF Delete, AloneFindsItsKeys
<1>3. CASE Trim(t) \/ Cut(t)
  <2>1. ~ Evicted(t)
    BY DEF Evicted, Reply, Goto, TypeOK
  <2> QED
    BY <1>3, <2>1 DEF Trim, Cut, MakeList, Goto, TypeOK
<1>4. ~ (Begin(t) \/ Lookup(t) \/ GetRedis(t) \/ Connect(t) \/ Ping(t) \/ RedisGet(t) \/ Fill(t)
         \/ Fetch(t) \/ Store(t) \/ RedisSet(t))
  BY DEF Evicting, Begin, Lookup, GetRedis, Connect, Ping, RedisGet, Fill, Fetch, Store, RedisSet
<1> QED
  BY <1>1, <1>2, <1>3, <1>4 DEF FetchSingleQuote

\* A quote that was fetched is answered as an error, or fetched again, only when
\* another thread changed the keys of L1 during the eviction.
THEOREM EvictionFailsInCompany == Spec => AloneNeverFails
<1> DEFINE P == \A t \in Thread :
          /\ at[t] \in Evicting
          /\ at'[t] = "fetch" \/ (at'[t] = "idle" /\ answer'[t] = "error")
          => t \in company
<1>1. IInv /\ [Next]_vars => [P]_vars
  <2> SUFFICES ASSUME IInv, Next, NEW t \in Thread, at[t] \in Evicting,
                      at'[t] = "fetch" \/ (at'[t] = "idle" /\ answer'[t] = "error")
               PROVE  t \in company
    OBVIOUS
  <2>1. ~ Tick /\ ~ Restart
    BY DEF Tick, Restart, Start, threadVars, Evicting
  <2>2. PICK u \in Thread : FetchSingleQuote(u)
    BY <2>1 DEF Next
  <2>3. u = t
    BY <2>2, ThreadsApart DEF IInv, Evicting
  <2> QED
    BY <2>2, <2>3, FailureHasCompany
<1> HIDE DEF P
<1>2. Spec => [][P]_vars
  BY <1>1, Inductive, PTL DEF Spec
<1> QED
  BY <1>2 DEF P, ServedIsRecent, AloneNeverFails

-----------------------------------------------------------------------------
(* The size of L1.  Who looks at it last, before it cuts, makes it right:   *)
(* what is added afterwards is looked at again by the thread that added it. *)

Looking == {"scan", "del", "trim"}
Shrinks(t) == at[t] = "cut" /\ Cardinality(Keys(l1)) - Cardinality(todo[t]) <= MaxSize
Pending ==
    \/ Cardinality(Keys(l1)) <= MaxSize
    \/ \E t \in Thread : at[t] \in Looking \/ Shrinks(t)
Finite == IsFiniteSet(Keys(l1)) /\ \A t \in Thread : IsFiniteSet(todo[t])
Bounded ==
    /\ Finite
    /\ ~ untidy \/ (\E t \in since : at[t] \in Evicting) => Pending

LEMMA InitBounded == Init => Bounded
<1> SUFFICES ASSUME Init PROVE Bounded
  OBVIOUS
<1>1. Keys(l1) = {}
  BY DEF Init, Keys, NoEntries
<1>2. Cardinality(Keys(l1)) <= MaxSize /\ IsFiniteSet(Keys(l1))
  BY <1>1, FS_EmptySet, Lifetimes
<1>3. \A t \in Thread : IsFiniteSet(todo[t])
  BY FS_EmptySet DEF Init
<1> QED
  BY <1>2, <1>3 DEF Bounded, Finite, Pending

\* One key more, or one less.
LEMMA KeysOfAssign ==
    ASSUME TypeOK, NEW t \in Thread, NEW k \in Ticker, NEW e \in Entry \cup {None}, Assign(t, k, e)
    PROVE  Keys(l1') = IF e = None THEN Keys(l1) \ {k} ELSE Keys(l1) \cup {k}
<1>1. l1' = [l1 EXCEPT ![k] = e]
  BY Zenon DEF Assign
<1> QED
  BY <1>1 DEF TypeOK, Keys

\* A step of t that neither begins, ends nor moves an eviction.
LEMMA OutsideStaysBounded ==
    ASSUME IInv, Bounded, NEW t \in Thread, UNCHANGED <<l1, todo, untidy, since>>,
           OnlyThread(t), at[t] \notin Evicting, at'[t] \notin Evicting
    PROVE  Bounded'
<1> USE DEF Bounded, Evicting, Looking
<1>1. Keys(l1)' = Keys(l1)
  BY DEF Keys
<1>2. \A u \in Thread : at[u] \in Evicting \/ at'[u] \in Evicting => at'[u] = at[u]
  BY DEF OnlyThread
<1>3. Finite'
  BY <1>1 DEF Finite
<1>4. Pending => Pending'
  BY <1>1, <1>2 DEF Pending, Shrinks
<1>5. since \subseteq Thread
  BY DEF IInv, TypeOK
<1> QED
  BY <1>2, <1>3, <1>4, <1>5

\* Who has added an entry will look at the size.
LEMMA AddingStaysBounded ==
    ASSUME IInv, Bounded, NEW t \in Thread, Fill(t) \/ Store(t)
    PROVE  Bounded'
<1> USE DEF IInv
<1>1. at'[t] = "scan" /\ UNCHANGED todo
  BY DEF Fill, Store, Goto, TypeOK
<1>2. \E e \in Entry : Assign(t, ticker[t], e)
  <2>1. holds[t] \in 0 .. End /\ (Store(t) => holds[t] = clock) /\ clock \in 0 .. End
    BY DEF Fill, Store, ThreadKnows, TypeOK, InCache
  <2> QED
    BY <2>1, BackfilledType, StoredType DEF Fill, Store
<1>3. ticker[t] \in Ticker
  BY DEF Fill, Store, ThreadKnows, TypeOK
<1>4. Keys(l1)' = Keys(l1) \cup {ticker[t]}
  BY <1>2, <1>3, KeysOfAssign, NoneIsNoQuote DEF Keys
<1>5. Finite'
  BY <1>1, <1>4, FS_AddElement DEF Finite, Bounded
<1> QED
  BY <1>1, <1>5 DEF Bounded, Pending, Looking

\* A failure leaves nothing begun since.
LEMMA RaiseStaysBounded ==
    ASSUME IInv, Bounded, NEW t \in Thread, Raise(t)
    PROVE  Bounded'
<1>1. Keys(l1)' = Keys(l1) /\ untidy' /\ since' = {}
  BY DEF Raise, Keys
<1>2. \A u \in Thread : todo'[u] = todo[u] \/ todo'[u] = {}
  BY DEF Raise, IInv, TypeOK
<1>3. Finite'
  BY <1>1, <1>2, FS_EmptySet DEF Bounded, Finite
<1> QED
  BY <1>1, <1>3 DEF Bounded

\* Who has looked makes L1 small enough, or goes on to do so.
LEMMA EvictedStaysBounded ==
    ASSUME IInv, Bounded, NEW t \in Thread, at[t] \in Evicting, Evicted(t),
           at[t] # "cut" => Cardinality(Keys(l1)) <= MaxSize,
           at[t] = "cut" => todo[t] = {}
    PROVE  Bounded'
<1> USE DEF IInv, TypeOK
<1>1. Keys(l1)' = Keys(l1) /\ UNCHANGED <<todo, since>> /\ untidy' = (untidy /\ t \notin since)
  BY DEF Evicted, Keys
<1>2. at'[t] \notin Evicting /\ \A u \in Thread \ {t} : at'[u] = at[u]
  BY DEF Evicted, Reply, Goto, Evicting
<1>3. Finite'
  BY <1>1 DEF Bounded, Finite
<1>4. Cardinality(Keys(l1)) \in Nat
  BY FS_CardinalityType DEF Bounded, Finite
<1>5. ASSUME ~ untidy' \/ \E u \in since' : at'[u] \in Evicting PROVE Pending
  BY <1>1, <1>2, <1>5 DEF Bounded
<1>6. CASE at[t] # "cut"
  BY <1>1, <1>3, <1>6 DEF Bounded, Pending
<1>7. CASE at[t] = "cut"
  <2>1. Shrinks(t) => Cardinality(Keys(l1)) <= MaxSize
    <3>1. Cardinality(todo[t]) = 0
      BY <1>7, FS_EmptySet
    <3> QED
      BY <1>4, <3>1, Lifetimes DEF Shrinks
  <2>2. \A u \in Thread \ {t} : (at[u] \in Looking => at'[u] \in Looking) /\ (Shrinks(u) => Shrinks(u)')
    BY <1>1, <1>2 DEF Shrinks
  <2>3. Pending => Pending'
    BY <1>1, <1>7, <2>1, <2>2 DEF Pending, Looking
  <2> QED
    BY <1>3, <1>5, <2>3 DEF Bounded
<1> QED
  BY <1>6, <1>7

LEMMA ListStaysBounded ==
    ASSUME IInv, Bounded, NEW t \in Thread, NEW keys \in SUBSET Keys(l1), NEW s \in Evicting,
           MakeList(t, keys, s),
           s = "cut" => Cardinality(Keys(l1)) - Cardinality(keys) <= MaxSize
    PROVE  Bounded'
<1> USE DEF IInv, TypeOK
<1>1. Keys(l1)' = Keys(l1) /\ at'[t] = s /\ todo'[t] = keys
  BY DEF MakeList, Goto, Keys
<1>2. \A u \in Thread \ {t} : todo'[u] = todo[u]
  BY DEF MakeList
<1>3. IsFiniteSet(keys) /\ IsFiniteSet(Keys(l1))
  BY FS_Subset DEF Bounded, Finite
<1>4. Finite'
  BY <1>1, <1>2, <1>3 DEF Bounded, Finite
<1>5. Pending'
  BY <1>1 DEF Pending, Looking, Shrinks, Evicting
<1> QED
  BY <1>4, <1>5 DEF Bounded

LEMMA DeleteStaysBounded ==
    ASSUME IInv, Bounded, NEW t \in Thread, Delete(t)
    PROVE  Bounded'
<1> USE DEF IInv
<1>1. PICK k \in todo[t] :
        IF l1[k] = None THEN Raise(t)
        ELSE /\ Assign(t, k, None) /\ todo' = [todo EXCEPT ![t] = @ \ {k}]
             /\ UNCHANGED <<at, answer, untidy, since>>
  BY DEF Delete
<1>2. CASE l1[k] = None
  BY <1>1, <1>2, RaiseStaysBounded
<1>3. CASE l1[k] # None
  <2>1. k \in Ticker /\ k \in Keys(l1)
    BY <1>3 DEF TypeOK, Keys
  <2>2. Keys(l1)' = Keys(l1) \ {k}
    BY <1>1, <1>3, <2>1, KeysOfAssign DEF Keys
  <2>3. todo'[t] = todo[t] \ {k} /\ \A u \in Thread \ {t} : todo'[u] = todo[u]
    BY <1>1, <1>3 DEF TypeOK
  <2>4. IsFiniteSet(Keys(l1)) /\ \A u \in Thread : IsFiniteSet(todo[u])
    BY DEF Bounded, Finite
  <2>5. /\ IsFiniteSet(Keys(l1)') /\ IsFiniteSet(todo'[t])
        /\ Cardinality(Keys(l1)') = Cardinality(Keys(l1)) - 1
        /\ Cardinality(todo'[t]) = Cardinality(todo[t]) - 1
    BY <2>1, <2>2, <2>3, <2>4, FS_RemoveElement
  <2>6. Cardinality(Keys(l1)) \in Nat /\ \A u \in Thread : Cardinality(todo[u]) \in Nat
    BY <2>4, FS_CardinalityType
  <2>7. Finite'
    BY <2>3, <2>4, <2>5 DEF Finite
  <2>8. \A u \in Thread : Shrinks(u) => Shrinks(u)'
    <3>1. at' = at
      BY <1>1, <1>3
    <3>2. Shrinks(t) => Shrinks(t)'
      BY <2>5, <2>6, <3>1, Lifetimes DEF Shrinks
    <3>3. ASSUME NEW u \in Thread \ {t}, Shrinks(u) PROVE Shrinks(u)'
      BY <2>3, <2>5, <2>6, <3>1, <3>3, Lifetimes DEF Shrinks
    <3> QED
      BY <3>2, <3>3
  <2>9. Pending => Pending'
    BY <1>1, <1>3, <2>5, <2>6, <2>8, Lifetimes DEF Pending
  <2> QED
    BY <1>1, <1>3, <2>7, <2>9 DEF Bounded
<1> QED
  BY <1>2, <1>3

LEMMA TrimStaysBounded ==
    ASSUME IInv, Bounded, NEW t \in Thread, Trim(t)
    PROVE  Bounded'
<1> DEFINE n == Sliced(Surplus)
<1>0. Cardinality(Keys(l1)) \in Nat
  BY FS_CardinalityType DEF Bounded, Finite
<1>1. CASE at[t] = "del" /\ todo[t] = {} /\ Surplus <= 0 /\ Evicted(t)
  <2>1. Cardinality(Keys(l1)) <= MaxSize
    BY <1>0, <1>1, Lifetimes DEF Surplus
  <2> QED
    BY <1>1, <2>1, EvictedStaysBounded DEF Evicting
<1>2. CASE MakeList(t, {}, "trim")
  BY <1>2, ListStaysBounded DEF Evicting
<1>3. CASE \E keys \in Earliest(n) : MakeList(t, keys, "cut")
  <2>1. PICK keys \in SUBSET Keys(l1) : Cardinality(keys) = n /\ MakeList(t, keys, "cut")
    BY <1>3 DEF Earliest
  <2>2. Cardinality(Keys(l1)) - Cardinality(keys) <= MaxSize
    BY <1>0, <2>1, Lifetimes DEF Surplus, Sliced
  <2> QED
    BY <2>1, <2>2, ListStaysBounded DEF Evicting
<1>4. CASE Raise(t)
  BY <1>4, RaiseStaysBounded
<1> QED
  BY <1>1, <1>2, <1>3, <1>4 DEF Trim

LEMMA StaysBounded == IInv /\ Bounded /\ [Next]_vars => Bounded'
<1> SUFFICES ASSUME IInv, Bounded, [Next]_vars PROVE Bounded'
  OBVIOUS
<1>1. CASE Tick \/ UNCHANGED vars
  BY <1>1 DEF Tick, vars, threadVars, historyVars, Bounded, Finite, Pending, Shrinks, Keys
<1>2. CASE Restart
  <2>1. Keys(l1)' = {} /\ \A t \in Thread : todo'[t] = {}
    BY <1>2 DEF Restart, Start, Keys, NoEntries
  <2> QED
    BY <2>1, FS_EmptySet, Lifetimes DEF Bounded, Finite, Pending
<1>3. ASSUME NEW t \in Thread, FetchSingleQuote(t) PROVE Bounded'
  <2>1. CASE Begin(t) \/ Lookup(t) \/ RedisGet(t) \/ Fetch(t) \/ RedisSet(t) \/ GetRedis(t) \/ Connect(t) \/ Ping(t)
    <3>1. UNCHANGED <<l1, todo, untidy, since>> /\ at[t] \notin Evicting
      BY <2>1 DEF Begin, Lookup, RedisGet, Fetch, RedisSet, GetRedis, Connect, Ping, historyVars, Evicting
    <3>2. at'[t] \notin Evicting
      BY <2>1 DEF Begin, Lookup, RedisGet, Fetch, RedisSet, GetRedis, Connect, Ping, WithoutRedis,
                  Goto, Reply, Evicting, IInv, TypeOK
    <3>3. OnlyThread(t)
      BY <2>1 DEF Begin, Lookup, RedisGet, Fetch, RedisSet, GetRedis, Connect, Ping, WithoutRedis,
                  Goto, Reply, OnlyThread, IInv, TypeOK
    <3> QED
      BY <3>1, <3>2, <3>3, OutsideStaysBounded
  <2>2. CASE Scan(t)
    <3>1. {k \in Keys(l1) : l1[k].expires < clock} \in SUBSET Keys(l1)
      OBVIOUS
    <3> QED
      BY <2>2, <3>1, ListStaysBounded, RaiseStaysBounded DEF Scan, Evicting
  <2>3. CASE Cut(t)
    BY <2>3, EvictedStaysBounded DEF Cut, Evicting
  <2> QED
    BY <1>3, <2>1, <2>2, <2>3, AddingStaysBounded, DeleteStaysBounded, TrimStaysBounded DEF FetchSingleQuote
<1> QED
  BY <1>1, <1>2, <1>3 DEF Next

\* L1 keeps its size: it outgrows it only while evictions are under way, or from a
\* failed one to the success of one that began after it; and all values keep their type.
THEOREM L1KeepsItsSize == Spec => []L1Sound
<1>1. Spec => []Bounded
  BY InitBounded, StaysBounded, Inductive, PTL DEF Spec
<1>2. IInv /\ Bounded => L1Sound
  BY DEF IInv, Bounded, Pending, Shrinks, Looking, Evicting, L1Sound, SizeHolds
<1> QED
  BY Inductive, <1>1, <1>2, PTL
=============================================================================
