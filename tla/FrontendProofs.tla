---------------------------- MODULE FrontendProofs ----------------------------
(* What holds of the pages for every number of tickers, tasks, requests and   *)
(* bars: each part by its own inductive invariant, and then the frontends as  *)
(* they are composed, where a behaviour is of one part.                       *)
EXTENDS MCFrontend, BrowserProofs

-----------------------------------------------------------------------------
(* The pages that only read.                                                  *)

\* A key somebody looks at was asked for.
Heard(e) == e.call \/ e.has \/ e.error
MountedAreAsked == \A k \in MountedRead(rp) : Heard(rp.keys[k])

\* A request under way is at most the third.
TriesLeft == \A k \in Key : rp.keys[k].call => rp.keys[k].tries <= 2

\* Tabs are of the pages that have them, and stand below a page that is shown.
TabsOf(s) ==
    /\ s.tab = "history" => s.page \in {"employment", "liquidity"}
    /\ s.tab = "backtest" => s.page = "liquidity"
    /\ FrameView(s) # "content" => s.tab = "dashboard"

ReadInv == ReadTypeOK /\ MountedAreAsked /\ TriesLeft /\ TabsOf(rp)

\* The keys of a page.
LEMMA FrameKeysOK ==
  ASSUME NEW page \in Pages
  PROVE  FrameKeys(page) \subseteq {plumbing, risk, discovery} /\ FrameKeys(page) \subseteq Key
BY DEF FrameKeys, Pages, Key

\* What the history tab of a page reads is one of its keys.
LEMMA TabKeyOK ==
  ASSUME NEW s \in ReadState
  PROVE  TabKey(s) \subseteq Key
BY DEF TabKey, Key, ReadState

\* What a page shows is decided by its own keys.
LEMMA FrameIsOfItsKeys ==
  ASSUME NEW s \in ReadState, NEW t \in ReadState, s.page = t.page,
         \A k \in FrameKeys(s.page) : s.keys[k] = t.keys[k]
  PROVE  FrameView(s) = FrameView(t)
BY DEF FrameView, DashboardContent, LiquidityContent, EmploymentContent, DiscoveryPage, Loading,
       FrameKeys, ReadState, Pages

\* A page that is shown goes on being shown while nothing of it fails.
LEMMA FrameStays ==
  ASSUME NEW s \in ReadState, NEW t \in ReadState, s.page = t.page, FrameView(s) = "content",
         \A k \in FrameKeys(s.page) : /\ s.keys[k].has => t.keys[k].has
                                      /\ t.keys[k].error => s.keys[k].error
  PROVE  FrameView(t) = "content"
BY DEF FrameView, DashboardContent, LiquidityContent, EmploymentContent, DiscoveryPage, Loading,
       FrameKeys, ReadState, Pages

\* The page after a step that changed s.
Settled(s) ==
    IF FrameView(s) = "content" THEN s
    ELSE [s EXCEPT !.tab = "dashboard", !.mode = "overview", !.range = <<FirstPeriod, NoCrisis>>]

\* It is a state of the page, of the same keys and the same screen.
LEMMA SettledOK ==
  ASSUME NEW s \in ReadState
  PROVE  /\ Settled(s) \in ReadState /\ Settled(s).page = s.page /\ Settled(s).keys = s.keys
         /\ FrameView(Settled(s)) = FrameView(s)
         /\ FrameView(s) = "content" => Settled(s) = s
         /\ FrameView(s) # "content" => Settled(s).tab = "dashboard"
<1>1. /\ Settled(s) \in ReadState /\ Settled(s).page = s.page /\ Settled(s).keys = s.keys
      /\ FrameView(s) = "content" => Settled(s) = s
      /\ FrameView(s) # "content" => Settled(s).tab = "dashboard"
  BY ReadConstants DEF Settled, ReadState, HistoryRanges
<1> QED
  BY <1>1, FrameIsOfItsKeys

\* An entry that is looked at after a step was asked for.
LEMMA CalledOK ==
  ASSUME NEW e \in Entry
  PROVE  /\ Called(e) \in Entry /\ Called(e).call /\ Called(e).tries = 0
         /\ Called(e).has = e.has /\ Called(e).error = e.error
         /\ [e EXCEPT !.tries = 0] \in Entry /\ [e EXCEPT !.tries = 0].tries = 0
<1>1. Called(e) = [has |-> e.has, error |-> e.error, call |-> TRUE, tries |-> 0]
  BY DEF Called
<1>2. [e EXCEPT !.tries = 0] = [has |-> e.has, error |-> e.error, call |-> e.call, tries |-> 0]
  BY DEF Entry
<1> QED
  BY <1>1, <1>2 DEF Entry

\* What a step leaves: the keys looked at are those of the page it settles on.
LEMMA AfterReadOK ==
  ASSUME ReadInv, NEW s \in ReadState, s.page = rp.page, NEW recent \in BOOLEAN,
         \A k \in MountedRead(rp) : Heard(s.keys[k]),
         \A k \in Key : s.keys[k].call => s.keys[k].tries <= 2,
         s.tab = "history" => s.page \in {"employment", "liquidity"},
         s.tab = "backtest" => s.page = "liquidity",
         rp' = AfterRead(s, recent)
  PROVE  ReadInv' /\ rp'.tab = Settled(s).tab
<1> DEFINE t == Settled(s)
           new == [k \in Key |->
                IF k \notin MountedRead(t) THEN [s.keys[k] EXCEPT !.tries = 0]
                ELSE IF k \in MountedRead(rp) \/ (recent /\ s.keys[k].has) THEN s.keys[k] ELSE Called(s.keys[k])]
<1>1. /\ t \in ReadState /\ t.page = s.page /\ t.keys = s.keys /\ FrameView(t) = FrameView(s)
      /\ FrameView(s) = "content" => t = s
      /\ FrameView(s) # "content" => t.tab = "dashboard"
  BY SettledOK
<1>2. rp' = [t EXCEPT !.keys = new]
  BY <1>1, Zenon DEF AfterRead, Settled
<1>3. \A k \in Key : s.keys[k] \in Entry
  BY DEF ReadState
<1>4. new \in [Key -> Entry]
  BY <1>3, CalledOK
<1>5. FrameKeys(t.page) \subseteq MountedRead(t) /\ FrameKeys(t.page) \subseteq MountedRead(rp)
  BY <1>1 DEF MountedRead
<1>6. \A k \in FrameKeys(t.page) : new[k] = t.keys[k]
  BY <1>1, <1>5, FrameKeysOK DEF ReadState
<1>7. \A k \in MountedRead(t) : k \in Key /\ Heard(new[k])
  <2> SUFFICES ASSUME NEW k \in MountedRead(t) PROVE k \in Key /\ Heard(new[k])
    OBVIOUS
  <2>1. k \in Key
    BY <1>1, FrameKeysOK, TabKeyOK DEF MountedRead, ReadState
  <2>2. CASE k \in MountedRead(rp) \/ (recent /\ s.keys[k].has)
    BY <2>1, <2>2 DEF Heard
  <2>3. CASE ~(k \in MountedRead(rp) \/ (recent /\ s.keys[k].has))
    BY <2>1, <2>3, <1>3, CalledOK DEF Heard
  <2> QED
    BY <2>1, <2>2, <2>3
<1>8. \A k \in Key : new[k].call => new[k].tries <= 2
  <2> SUFFICES ASSUME NEW k \in Key, new[k].call PROVE new[k].tries <= 2
    OBVIOUS
  <2>1. CASE new[k] = s.keys[k]
    BY <2>1, <1>3 DEF Entry
  <2>2. CASE new[k] # s.keys[k]
    <3>1. new[k].tries = 0
      BY <2>2, <1>3, CalledOK
    <3> QED
      BY <3>1
  <2> QED
    BY <2>1, <2>2
<1> HIDE DEF t, new
<1>9. rp' \in ReadState /\ rp'.page = t.page /\ rp'.tab = t.tab /\ rp'.mode = t.mode
      /\ rp'.range = t.range /\ rp'.keys = new
  BY <1>1, <1>2, <1>4 DEF ReadState
<1>10. FrameView(rp') = FrameView(t)
  BY <1>1, <1>6, <1>9, FrameIsOfItsKeys
<1>11. MountedRead(rp') = MountedRead(t)
  BY <1>9, <1>10 DEF MountedRead, TabKey
<1>12. TabsOf(rp')
  BY <1>1, <1>9, <1>10 DEF TabsOf
<1>13. TabsOf(rp)' /\ ReadTypeOK' /\ TriesLeft'
  BY <1>8, <1>9, <1>12 DEF ReadTypeOK, TriesLeft, TabsOf
<1>14. MountedAreAsked'
  BY <1>7, <1>9, <1>11 DEF MountedAreAsked
<1> QED
  BY <1>9, <1>13, <1>14 DEF ReadInv, t

\* The page with one entry changed.
With(k, e) == [rp EXCEPT !.keys[k] = e]

\* It differs in that key alone.
LEMMA WithOK ==
  ASSUME ReadInv, NEW k \in Key, NEW e \in Entry
  PROVE  /\ With(k, e) \in ReadState /\ With(k, e).page = rp.page /\ With(k, e).tab = rp.tab
         /\ With(k, e).keys[k] = e /\ \A j \in Key \ {k} : With(k, e).keys[j] = rp.keys[j]
         /\ rp.keys[k] \in Entry
BY DEF ReadInv, ReadTypeOK, ReadState, With

\* A key in which something was heard, on the page settled: the invariant.
LEMMA WithAfterRead ==
  ASSUME ReadInv, NEW k \in Key, NEW e \in Entry, NEW recent \in BOOLEAN, Heard(e),
         e.call => e.tries <= 2, rp' = AfterRead(With(k, e), recent)
  PROVE  ReadInv' /\ rp'.tab = Settled(With(k, e)).tab
<1>1. /\ With(k, e) \in ReadState /\ With(k, e).page = rp.page /\ With(k, e).tab = rp.tab
      /\ With(k, e).keys[k] = e /\ \A j \in Key \ {k} : With(k, e).keys[j] = rp.keys[j]
  BY WithOK
<1>2. MountedRead(rp) \subseteq Key
  BY FrameKeysOK, TabKeyOK DEF MountedRead, ReadInv, ReadTypeOK, ReadState
<1>3. \A j \in MountedRead(rp) : Heard(With(k, e).keys[j])
  BY <1>1, <1>2 DEF ReadInv, MountedAreAsked
<1>4. \A j \in Key : With(k, e).keys[j].call => With(k, e).keys[j].tries <= 2
  BY <1>1 DEF ReadInv, TriesLeft
<1> HIDE DEF With
<1> QED
  BY <1>1, <1>3, <1>4, AfterReadOK DEF ReadInv, TabsOf

\* The tab stays where the entries of the page keep what they had.
LEMMA WithKeepsTab ==
  ASSUME ReadInv, NEW k \in Key, NEW e \in Entry,
         k \in FrameKeys(rp.page) => (rp.keys[k].has => e.has) /\ (e.error => rp.keys[k].error)
  PROVE  Settled(With(k, e)).tab = rp.tab
<1>1. /\ With(k, e) \in ReadState /\ With(k, e).page = rp.page /\ With(k, e).tab = rp.tab
      /\ With(k, e).keys[k] = e /\ \A j \in Key \ {k} : With(k, e).keys[j] = rp.keys[j]
  BY WithOK
<1>2. rp \in ReadState /\ FrameKeys(rp.page) \subseteq Key
  BY FrameKeysOK DEF ReadInv, ReadTypeOK, ReadState
<1> HIDE DEF With
<1>3. CASE FrameView(rp) = "content"
  <2>1. \A j \in FrameKeys(rp.page) : /\ rp.keys[j].has => With(k, e).keys[j].has
                                      /\ With(k, e).keys[j].error => rp.keys[j].error
    BY <1>1, <1>2
  <2>2. FrameView(With(k, e)) = "content"
    BY <1>1, <1>2, <1>3, <2>1, FrameStays
  <2> QED
    BY <1>1, <2>2, SettledOK
<1>4. CASE FrameView(rp) # "content"
  <2>1. rp.tab = "dashboard"
    BY <1>4 DEF ReadInv, TabsOf
  <2> QED
    BY <1>1, <2>1, SettledOK
<1> QED
  BY <1>3, <1>4

\* Every step of the page keeps the invariant, and the tab, but for a choice of a tab
\* and a failure of the page itself.
LEMMA AnsweredStep ==
  ASSUME ReadInv, NEW k \in Key, ReadAnswered(k)
  PROVE  ReadInv' /\ rp'.tab = rp.tab
<1>1. Fetched \in Entry /\ Heard(Fetched) /\ Fetched.has /\ ~Fetched.error /\ ~Fetched.call
  BY DEF Entry, Heard, Fetched
<1>2. PICK recent \in BOOLEAN : rp' = AfterRead(With(k, Fetched), recent)
  BY DEF ReadAnswered, With
<1> QED
  BY <1>1, <1>2, WithAfterRead, WithKeepsTab

\* A request that fails.
LEMMA FailedStep ==
  ASSUME ReadInv, NEW k \in Key, NEW denied \in BOOLEAN, Failed(k, denied)
  PROVE  ReadInv' /\ (k \notin FrameKeys(rp.page) => rp'.tab = rp.tab)
<1> DEFINE e == [has |-> rp.keys[k].has, error |-> TRUE, call |-> FALSE,
                 tries |-> IF denied THEN 3 ELSE rp.keys[k].tries + 1]
<1>1. rp.keys[k] \in Entry /\ rp.keys[k].tries <= 2
  BY WithOK DEF ReadInv, TriesLeft, Failed, ReadTypeOK, ReadState
<1>2. e \in Entry /\ Heard(e) /\ ~e.call
  BY <1>1 DEF Entry, Heard
<1>3. rp' = AfterRead(With(k, e), FALSE)
  BY DEF Failed, With, ReadInv, ReadTypeOK, ReadState
<1> HIDE DEF e
<1> QED
  BY <1>2, <1>3, WithAfterRead, WithKeepsTab

\* A request that is sent again.
LEMMA RetriedStep ==
  ASSUME ReadInv, NEW k \in Key, onErrorRetry(k)
  PROVE  ReadInv' /\ rp'.tab = rp.tab
<1> DEFINE e == [rp.keys[k] EXCEPT !.call = TRUE]
<1>1. rp.keys[k] \in Entry
  BY DEF ReadInv, ReadTypeOK, ReadState
<1>2. e \in Entry /\ e.call /\ e.has = rp.keys[k].has /\ e.error = rp.keys[k].error /\ e.tries = rp.keys[k].tries
  BY <1>1 DEF Entry
<1>3. rp' = AfterRead(With(k, e), FALSE)
  BY DEF onErrorRetry, With, ReadInv, ReadTypeOK, ReadState
<1>4. e.tries <= 2
  BY <1>2 DEF onErrorRetry, WillRetry
<1> HIDE DEF e
<1> QED
  BY <1>2, <1>3, <1>4, WithAfterRead, WithKeepsTab DEF Heard

\* The button that reads a page anew.
LEMMA RefreshStep ==
  ASSUME ReadInv, handleRefresh
  PROVE  ReadInv' /\ rp'.tab = rp.tab
<1>1. PICK k \in FrameKeys(rp.page) : rp' = AfterRead([rp EXCEPT !.keys[k] = Called(@)], FALSE)
  BY DEF handleRefresh
<1>2. k \in Key /\ rp.keys[k] \in Entry
  BY FrameKeysOK DEF ReadInv, ReadTypeOK, ReadState
<1> DEFINE e == Called(rp.keys[k])
<1>3. rp' = AfterRead(With(k, e), FALSE)
  BY <1>1, <1>2 DEF With, ReadInv, ReadTypeOK, ReadState
<1>4. /\ e \in Entry /\ e.call /\ e.tries = 0
      /\ e.has = rp.keys[k].has /\ e.error = rp.keys[k].error
  BY <1>2, CalledOK, Zenon
<1>5. e.tries <= 2 /\ Heard(e)
  BY <1>4 DEF Heard
<1> HIDE DEF e
<1> QED
  BY <1>2, <1>3, <1>4, <1>5, WithAfterRead, WithKeepsTab

\* The network comes back.
LEMMA ReconnectStep ==
  ASSUME ReadInv, Reconnect
  PROVE  ReadInv' /\ rp'.tab = rp.tab
<1> DEFINE new == [k \in Key |-> IF k \in MountedRead(rp) THEN Called(rp.keys[k]) ELSE rp.keys[k]]
<1>1. rp \in ReadState /\ \A k \in Key : rp.keys[k] \in Entry
  BY DEF ReadInv, ReadTypeOK, ReadState
<1>2. rp' = [rp EXCEPT !.keys = new]
  BY Zenon DEF Reconnect
<1>3. new \in [Key -> Entry]
  BY <1>1, CalledOK
<1>4. \A k \in Key : /\ Heard(rp.keys[k]) => Heard(new[k])
                     /\ new[k].has = rp.keys[k].has /\ new[k].error = rp.keys[k].error
                     /\ new[k] = rp.keys[k] \/ new[k].tries = 0
  BY <1>1, CalledOK, Zenon DEF Heard
<1> HIDE DEF new
<1>5. rp' \in ReadState /\ rp'.page = rp.page /\ rp'.tab = rp.tab /\ rp'.keys = new
      /\ rp'.range = rp.range
  BY <1>1, <1>2, <1>3 DEF ReadState
<1>6. FrameKeys(rp.page) \subseteq Key
  BY <1>1, FrameKeysOK DEF ReadState
<1>7. TriesLeft'
  BY <1>4, <1>5 DEF TriesLeft, ReadInv
<1>8. CASE FrameView(rp) = "content"
  <2>1. FrameView(rp') = "content"
    BY <1>1, <1>4, <1>5, <1>6, <1>8, FrameStays
  <2>2. MountedRead(rp') = MountedRead(rp) /\ MountedRead(rp) \subseteq Key
    BY <1>1, <1>5, <1>6, <1>8, <2>1, TabKeyOK DEF MountedRead, TabKey
  <2> QED
    BY <1>4, <1>5, <1>7, <2>1, <2>2 DEF ReadInv, TabsOf, MountedAreAsked, ReadTypeOK
<1>9. CASE FrameView(rp) # "content"
  <2>1. rp.tab = "dashboard" /\ TabKey(rp') = {}
    BY <1>5, <1>9 DEF ReadInv, TabsOf, TabKey
  <2>2. MountedRead(rp') \subseteq MountedRead(rp) /\ MountedRead(rp) \subseteq Key
    BY <1>1, <1>5, <1>6, <2>1, TabKeyOK DEF MountedRead
  <2> QED
    BY <1>4, <1>5, <1>7, <2>1, <2>2 DEF ReadInv, TabsOf, MountedAreAsked, ReadTypeOK
<1> QED
  BY <1>8, <1>9

\* The button below a history that did not come.
LEMMA RetryHistoryStep ==
  ASSUME ReadInv, RetryHistory
  PROVE  ReadInv' /\ rp'.tab = rp.tab
<1> DEFINE e == Called(rp.keys[riskHistory])
<1>1. rp \in ReadState /\ riskHistory \in Key /\ rp.keys[riskHistory] \in Entry
  BY DEF ReadInv, ReadTypeOK, ReadState, Key
<1>2. rp' = With(riskHistory, e)
  BY <1>1 DEF RetryHistory, With, ReadState
<1>3. e \in Entry /\ e.call /\ e.tries = 0
  BY <1>1, CalledOK
<1> HIDE DEF e
<1>4. /\ rp' \in ReadState /\ rp'.page = rp.page /\ rp'.tab = rp.tab /\ rp'.range = rp.range
      /\ rp'.keys[riskHistory] = e /\ \A j \in Key \ {riskHistory} : rp'.keys[j] = rp.keys[j]
  BY <1>1, <1>2, <1>3, WithOK DEF With, ReadState
<1>5. FrameView(rp') = FrameView(rp)
  <2>1. FrameKeys(rp.page) \subseteq Key \ {riskHistory}
    BY <1>1, FrameKeysOK DEF ReadState, riskHistory, plumbing, risk, discovery
  <2> QED
    BY <1>1, <1>4, <2>1, FrameIsOfItsKeys
<1>6. MountedRead(rp') = MountedRead(rp) /\ MountedRead(rp) \subseteq Key
  BY <1>1, <1>4, <1>5, FrameKeysOK, TabKeyOK DEF MountedRead, TabKey, ReadState
<1>7. MountedAreAsked' /\ TriesLeft'
  BY <1>3, <1>4, <1>6 DEF ReadInv, MountedAreAsked, TriesLeft, Heard
<1> QED
  BY <1>4, <1>5, <1>7 DEF ReadInv, TabsOf, ReadTypeOK

\* A choice of a tab, a period or a range.
LEMMA ChosenStep ==
  ASSUME ReadInv, NEW s \in ReadState, FrameView(rp) = "content", s.page = rp.page, s.keys = rp.keys,
         s.tab = "history" => s.page \in {"employment", "liquidity"},
         s.tab = "backtest" => s.page = "liquidity",
         NEW recent \in BOOLEAN, rp' = AfterRead(s, recent)
  PROVE  ReadInv' /\ rp'.tab = s.tab
<1>1. FrameView(s) = "content"
  BY FrameIsOfItsKeys DEF ReadInv, ReadTypeOK
<1>2. MountedRead(rp) \subseteq Key
  BY FrameKeysOK, TabKeyOK DEF MountedRead, ReadInv, ReadTypeOK, ReadState
<1>3. ReadInv' /\ rp'.tab = Settled(s).tab
  BY <1>2, AfterReadOK DEF ReadInv, MountedAreAsked, TriesLeft
<1> QED
  BY <1>1, <1>3, SettledOK

\* Another tab.
LEMMA SelectTabStep ==
  ASSUME ReadInv, NEW to \in {"dashboard", "history", "backtest"}, SelectReadTab(to)
  PROVE  ReadInv' /\ rp'.tab = to
<1> DEFINE s == [rp EXCEPT !.tab = to, !.mode = "overview", !.range = <<FirstPeriod, NoCrisis>>]
<1>1. PICK recent \in BOOLEAN : rp' = AfterRead(s, recent)
  BY DEF SelectReadTab
<1>2. s \in ReadState /\ s.page = rp.page /\ s.keys = rp.keys /\ s.tab = to
  BY ReadConstants DEF ReadInv, ReadTypeOK, ReadState, HistoryRanges
<1>3. /\ FrameView(rp) = "content"
      /\ to = "history" => rp.page \in {"employment", "liquidity"}
      /\ to = "backtest" => rp.page = "liquidity"
  BY DEF SelectReadTab
<1> HIDE DEF s
<1> QED
  BY <1>1, <1>2, <1>3, ChosenStep

\* Another period.
LEMMA PeriodStep ==
  ASSUME ReadInv, NEW p \in Period, handlePeriod(p)
  PROVE  ReadInv' /\ rp'.tab = rp.tab
<1> DEFINE s == [rp EXCEPT !.range = <<p, NoCrisis>>]
<1>1. PICK recent \in BOOLEAN : rp' = AfterRead(s, recent)
  BY DEF handlePeriod
<1>2. s \in ReadState /\ s.page = rp.page /\ s.keys = rp.keys /\ s.tab = rp.tab
  BY DEF ReadInv, ReadTypeOK, ReadState, HistoryRanges
<1>3. FrameView(rp) = "content" /\ rp.page = "liquidity" /\ rp.tab = "history"
  BY DEF handlePeriod, OnHistory
<1> HIDE DEF s
<1> QED
  BY <1>1, <1>2, <1>3, ChosenStep

\* A crisis that is looked at.
LEMMA CrisisStep ==
  ASSUME ReadInv, NEW c \in Crisis, handleCrisis(c)
  PROVE  ReadInv' /\ rp'.tab = rp.tab
<1> DEFINE s == [rp EXCEPT !.range = <<rp.range[1], c>>]
<1>1. PICK recent \in BOOLEAN : rp' = AfterRead(s, recent)
  BY DEF handleCrisis, ReadInv, ReadTypeOK, ReadState
<1>2. rp.range[1] \in Period
  BY DEF ReadInv, ReadTypeOK, ReadState, HistoryRanges
<1>3. s \in ReadState /\ s.page = rp.page /\ s.keys = rp.keys /\ s.tab = rp.tab
  BY <1>2 DEF ReadInv, ReadTypeOK, ReadState, HistoryRanges
<1>4. FrameView(rp) = "content" /\ rp.page = "liquidity" /\ rp.tab = "history"
  BY DEF handleCrisis, OnHistory
<1> HIDE DEF s
<1> QED
  BY <1>1, <1>3, <1>4, ChosenStep

\* Another kind of chart.
LEMMA ModeStep ==
  ASSUME ReadInv, NEW mode \in {"overview", "detail"}, setViewMode(mode)
  PROVE  ReadInv' /\ rp'.tab = rp.tab
<1>1. rp' = [rp EXCEPT !.mode = mode] /\ rp \in ReadState
  BY DEF setViewMode, ReadInv, ReadTypeOK
<1>2. rp' \in ReadState /\ rp'.page = rp.page /\ rp'.tab = rp.tab /\ rp'.keys = rp.keys /\ rp'.range = rp.range
  BY <1>1 DEF ReadState
<1>3. FrameView(rp') = FrameView(rp)
  BY <1>1, <1>2, FrameIsOfItsKeys
<1>4. MountedRead(rp') = MountedRead(rp)
  BY <1>2, <1>3 DEF MountedRead, TabKey
<1> QED
  BY <1>2, <1>3, <1>4 DEF ReadInv, ReadTypeOK, TabsOf, MountedAreAsked, TriesLeft

\* A page that is opened asks for what it shows.
LEMMA ReadInitOK == ReadInit => ReadInv
<1> SUFFICES ASSUME ReadInit PROVE ReadInv
  OBVIOUS
<1>1. PICK page \in Pages, known \in BOOLEAN :
        rp = [page |-> page, tab |-> "dashboard", mode |-> "overview",
              range |-> <<FirstPeriod, NoCrisis>>,
              keys |-> [k \in Key |-> IF k \in FrameKeys(page) THEN FirstCall(known) ELSE Unasked]]
  BY DEF ReadInit
<1>2. FirstCall(known) \in Entry /\ Unasked \in Entry
  BY DEF FirstCall, Unasked, Entry
<1>3. \A k \in Key : rp.keys[k] = IF k \in FrameKeys(page) THEN FirstCall(known) ELSE Unasked
  BY <1>1
<1>4. rp \in ReadState /\ rp.page = page /\ rp.tab = "dashboard"
  BY <1>1, <1>2, ReadConstants DEF ReadState, HistoryRanges
<1>5. MountedRead(rp) = FrameKeys(page) /\ FrameKeys(page) \subseteq Key
  BY <1>4, FrameKeysOK DEF MountedRead, TabKey
<1>6. FirstCall(known).call /\ FirstCall(known).tries = 0 /\ Unasked.tries = 0
  BY DEF FirstCall, Unasked
<1>7. MountedAreAsked
  BY <1>3, <1>5, <1>6 DEF MountedAreAsked, Heard
<1>8. TriesLeft
  <2> SUFFICES ASSUME NEW k \in Key PROVE rp.keys[k].tries <= 2
    BY DEF TriesLeft
  <2>1. rp.keys[k].tries = 0
    BY <1>3, <1>6
  <2> QED
    BY <2>1
<1> QED
  BY <1>4, <1>7, <1>8 DEF ReadInv, ReadTypeOK, TabsOf

\* Every step keeps the invariant.
LEMMA ReadStep == ReadInv /\ [ReadNext]_readVars => ReadInv'
<1> SUFFICES ASSUME ReadInv, [ReadNext]_readVars PROVE ReadInv'
  OBVIOUS
<1>1. CASE UNCHANGED readVars
  BY <1>1 DEF readVars, ReadInv, ReadTypeOK, MountedAreAsked, TriesLeft, TabsOf
<1> QED
  BY <1>1, AnsweredStep, FailedStep, RetriedStep, RefreshStep, ReconnectStep, RetryHistoryStep,
     PeriodStep, CrisisStep, SelectTabStep, ModeStep DEF ReadNext

\* A tab is left by the user only, or with a page that failed.
LEMMA KeepsTabStep == ReadInv /\ [ReadNext]_readVars => KeepsTab
<1> SUFFICES ASSUME ReadInv, [ReadNext]_readVars, rp'.tab # rp.tab,
                    ~\E k \in FrameKeys(rp.page), denied \in BOOLEAN : Failed(k, denied)
             PROVE  SelectReadTab(rp'.tab)
  BY DEF KeepsTab
<1>1. \A k \in Key, denied \in BOOLEAN : ~Failed(k, denied)
  BY FailedStep
<1>2. ReadNext
  BY DEF readVars
<1>3. CASE \E to \in {"dashboard", "history", "backtest"} : SelectReadTab(to)
  BY <1>3, SelectTabStep
<1> QED
  BY <1>1, <1>2, <1>3, AnsweredStep, RetriedStep, RefreshStep, ReconnectStep,
     RetryHistoryStep, PeriodStep, CrisisStep, ModeStep DEF ReadNext

\* What is seen follows from what was asked.
LEMMA ReadInvSound == ReadInv => ScreensAreTrue
<1> SUFFICES ASSUME ReadInv PROVE ScreensAreTrue
  OBVIOUS
<1>1. /\ rp \in ReadState /\ TabsOf(rp)
      /\ \A k \in MountedRead(rp) : rp.keys[k].call \/ rp.keys[k].has \/ rp.keys[k].error
  BY DEF ReadInv, ReadTypeOK, MountedAreAsked, Heard
<1>2. Deciding \subseteq MountedRead(rp)
  BY DEF Deciding, MountedRead
<1>3. CASE FrameView(rp) # "content"
  <2>1. PageView(rp) = FrameView(rp) /\ Deciding = FrameKeys(rp.page)
    BY <1>3 DEF PageView, Deciding
  <2>2. FrameView(rp) = "skeleton" =>
          \E k \in FrameKeys(rp.page) : rp.keys[k].call \/ WillRetry(rp.keys[k])
                                        \/ (rp.page = "dashboard" /\ GivenUp(k))
    BY <1>1, <1>2, <2>1 DEF FrameView, DashboardContent, LiquidityContent, EmploymentContent,
          DiscoveryPage, Loading, FrameKeys, GivenUp, WillRetry, ReadState, Pages
  <2>3. FrameView(rp) = "error" => \E k \in FrameKeys(rp.page) : rp.keys[k].error
    BY <1>1, <1>2, <2>1 DEF FrameView, DashboardContent, LiquidityContent, EmploymentContent,
          DiscoveryPage, Loading, FrameKeys, ReadState, Pages
  <2>4. FrameView(rp) # "nothing"
    BY <1>1, <1>2, <2>1 DEF FrameView, DashboardContent, LiquidityContent, EmploymentContent,
          DiscoveryPage, Loading, FrameKeys, ReadState, Pages
  <2> QED
    BY <1>1, <1>3, <2>1, <2>2, <2>3, <2>4 DEF ScreensAreTrue, OnHistory
<1>4. CASE FrameView(rp) = "content"
  <2>1. PageView(rp) = TabView(rp) /\ Deciding = TabKey(rp)
    BY <1>4 DEF PageView, Deciding
  <2>2. CASE rp.tab = "dashboard"
    <3>1. TabView(rp) = "content" /\ TabKey(rp) = {}
      BY <2>2 DEF TabView, TabKey
    <3> QED
      BY <1>1, <2>1, <2>2, <3>1 DEF ScreensAreTrue, OnHistory
  <2>3. CASE rp.tab = "backtest"
    <3>1. TabView(rp) = BacktestTab(rp) /\ TabKey(rp) = {backtest}
      BY <2>3 DEF TabView, TabKey
    <3> QED
      BY <1>1, <1>2, <2>1, <2>3, <3>1 DEF ScreensAreTrue, OnHistory, BacktestTab, Loading
  <2>4. CASE rp.tab = "history" /\ rp.page = "employment"
    <3>1. TabView(rp) = RiskHistoryTab(rp) /\ TabKey(rp) = {riskHistory}
      BY <2>4 DEF TabView, TabKey
    <3> QED
      BY <1>1, <1>2, <2>1, <2>4, <3>1 DEF ScreensAreTrue, OnHistory, RiskHistoryTab, Loading
  <2>5. CASE rp.tab = "history" /\ rp.page = "liquidity"
    <3>1. TabKey(rp) = {rp.range}
      BY <2>5 DEF TabKey
    <3>2. TabView(rp) = IF rp.mode = "detail" THEN HistoryDetail(rp) ELSE HistoryOverview(rp).tiles
      BY <2>5 DEF TabView
    <3>3. HistoryToolbar(rp).period \cup HistoryToolbar(rp).crisis
            = {IF rp.range[2] = NoCrisis THEN rp.range[1] ELSE rp.range[2]}
      BY DEF HistoryToolbar
    <3>4. Cardinality(HistoryToolbar(rp).period \cup HistoryToolbar(rp).crisis) = 1
      BY <3>3, FS_Singleton
    <3>5. OnHistory /\ rp.mode \in {"overview", "detail"}
      BY <1>1, <1>4, <2>5 DEF OnHistory, ReadState
    <3>6. CASE rp.mode = "detail"
      BY <1>1, <1>2, <2>1, <3>1, <3>2, <3>4, <3>5, <3>6 DEF ScreensAreTrue, HistoryDetail, Loading
    <3>7. CASE rp.mode = "overview"
      BY <1>1, <1>2, <2>1, <3>1, <3>2, <3>4, <3>5, <3>7 DEF ScreensAreTrue, HistoryOverview, Loading
    <3> QED
      BY <3>5, <3>6, <3>7
  <2> QED
    BY <1>1, <2>2, <2>3, <2>4, <2>5 DEF TabsOf, ReadState
<1> QED
  BY <1>3, <1>4

-----------------------------------------------------------------------------
(* The signals page: one chart, several requests that nobody cancels.         *)

\* Requests are numbered, and all but those of the batch name a ticker.
CallsNamed == \A c \in spCalls : c.no \in Nat /\ (c.kind # "batch" => c.ticker \in Symbol)

\* Unless answers of two analyses, or of another ticker's period, may mix: while an
\* analysis is under way it is the only request that fills the chart, and a period
\* is asked of the ticker shown.
Unmixed ==
    ~spMixed =>
      /\ \A c \in spCalls : c.kind = "analyze" =>
            sp.signal = Blank /\ \A d \in spCalls : d.kind \in {"analyze", "period"} => d = c
      /\ \A c \in spCalls : c.kind = "period" => sp.signal \in {c.ticker, Blank}
      /\ sp.signal # Blank /\ sp.history # Blank => sp.history.ticker = sp.signal


SignalsInv == SignalsTypeOK /\ CallsNamed /\ Unmixed /\ SpinnersHaveRequests

\* The page that is opened.
LEMMA SignalsInitOK == SignalsInit => SignalsInv
<1> SUFFICES ASSUME SignalsInit PROVE SignalsInv
  OBVIOUS
<1>1. Fresh \in SignalsState /\ Fresh.signal = Blank
  BY SignalsPageConstants DEF Fresh, SignalsState, Tab
<1>2. ~Fresh.loading /\ ~Fresh.batchLoading /\ ~Fresh.historyLoading
  BY DEF Fresh
<1>3. spMixed \in BOOLEAN
  BY Zenon DEF SignalsInit
<1>4. CASE sp = Fresh /\ spCalls = {} /\ spAsked = 0
  <2>1. SignalsTypeOK
    BY <1>1, <1>3, <1>4, SignalsPageConstants DEF SignalsTypeOK
  <2> QED
    BY <1>1, <1>2, <1>4, <2>1 DEF SignalsInv, CallsNamed, Unmixed, SpinnersHaveRequests
<1>5. ASSUME NEW t \in Symbol, NEW to \in Tab, NEW asks,
             LET linked == [Fresh EXCEPT !.ticker = t, !.activeTab = to]
             IN  /\ asks = IF WantsHistory(linked)
                             THEN {Call("signalHistory", 1, t, DefaultSpan)} ELSE {}
                 /\ sp = [linked EXCEPT !.historyLoading = WantsHistory(linked)]
                 /\ spCalls = {Call("linked", 0, t, DefaultSpan)} \cup asks
                 /\ spAsked = Cardinality(asks)
      PROVE  SignalsInv
  <2> DEFINE linked == [Fresh EXCEPT !.ticker = t, !.activeTab = to]
             wanted == WantsHistory(linked)
  <2>1. wanted \in BOOLEAN
    BY DEF WantsHistory
  <2>2. linked \in SignalsState
    BY <1>1 DEF SignalsState
  <2>3. sp = [linked EXCEPT !.historyLoading = wanted]
    BY <1>5
  <2>4. linked.signal = Blank /\ ~linked.loading /\ ~linked.batchLoading
    BY <1>1, <1>2 DEF Fresh
  <2>5. /\ wanted => asks = {Call("signalHistory", 1, t, DefaultSpan)}
        /\ ~wanted => asks = {}
    BY <1>5
  <2>6. (wanted => spAsked = 1) /\ (~wanted => spAsked = 0)
    BY <1>5, <2>5, FS_Singleton, FS_EmptySet
  <2> HIDE DEF linked, wanted
  <2>7. /\ sp \in SignalsState /\ sp.signal = Blank /\ ~sp.loading /\ ~sp.batchLoading
        /\ sp.historyLoading = wanted
    BY <2>1, <2>2, <2>3, <2>4 DEF SignalsState
  <2> DEFINE begun == Call("linked", 0, t, DefaultSpan)
             atOnce == Call("signalHistory", 1, t, DefaultSpan)
  <2>8. spCalls = {begun} \cup asks
    BY <1>5
  <2>9. /\ begun.kind = "linked" /\ begun.no = 0 /\ begun.ticker = t /\ begun.period = DefaultSpan
        /\ atOnce.kind = "signalHistory" /\ atOnce.no = 1 /\ atOnce.ticker = t /\ atOnce.period = DefaultSpan
    BY DEF Call
  <2> HIDE DEF begun, atOnce
  <2>10. \A c \in spCalls :
          /\ \/ c.kind = "linked" /\ c.no = 0
             \/ wanted /\ c.kind = "signalHistory" /\ c.no = 1
          /\ c.ticker = t /\ c.period = DefaultSpan
    <3>1. CASE wanted
      <4>1. spCalls = {begun, atOnce}
        BY <2>5, <2>8, <3>1 DEF atOnce
      <4> QED
        BY <2>9, <3>1, <4>1
    <3>2. CASE ~wanted
      <4>1. spCalls = {begun}
        BY <2>5, <2>8, <3>2
      <4> QED
        BY <2>9, <4>1
    <3> QED
      BY <3>1, <3>2
  <2>11. wanted => \E c \in spCalls : c.kind = "signalHistory"
    BY <2>5, <2>8, <2>9 DEF atOnce
  <2>12. spAsked \in 0..MaxAsked
    BY <2>1, <2>6, SignalsPageConstants
  <2>13. SignalsTypeOK /\ CallsNamed
    BY <1>3, <2>1, <2>6, <2>7, <2>10, <2>12, SignalsPageConstants DEF SignalsTypeOK, CallsNamed
  <2> QED
    BY <2>7, <2>10, <2>11, <2>13 DEF SignalsInv, Unmixed, SpinnersHaveRequests
<1> QED
  BY <1>4, <1>5, Zenon DEF SignalsInit

\* A step sends nothing, or one request.
Requests(new) ==
    new = {} \/ \E kind \in {"analyze", "period", "signalHistory", "batch"},
                  t \in Symbol \cup {Blank}, p \in Span :
                    /\ kind # "batch" => t \in Symbol
                    /\ new = {Call(kind, spAsked + 1, t, p)}

\* What a step that sends requests leaves: the page, perhaps with the spinner of the
\* past signals, the requests, and their number.
Left(s, new, done, more) ==
    /\ spCalls' = (spCalls \ done) \cup new \cup more
    /\ \A c \in more : c.kind = "signalHistory"
    /\ \/ more = {} /\ sp' = s
       \/ more # {} /\ sp' = [s EXCEPT !.historyLoading = TRUE]
    /\ sp' \in SignalsState
    /\ \A c \in spCalls' :
          /\ c.kind \in {"linked", "analyze", "period", "signalHistory", "batch"}
          /\ c.no <= spAsked' /\ c.ticker \in Symbol \cup {Blank} /\ c.period \in Span
    /\ spAsked' \in 0..MaxAsked /\ CallsNamed'

\* What a ticker that is committed leaves of the invariant.
LEMMA CommitOK ==
  ASSUME SignalsInv, NEW s \in SignalsState, NEW new, NEW done \in SUBSET spCalls,
         Requests(new), Commit(s, new, done)
  PROVE  \E more : Left(s, new, done, more)
<1> DEFINE runs == (s.activeTab # sp.activeTab \/ s.ticker # sp.ticker) /\ WantsHistory(s)
           late == Call("signalHistory", spAsked + Cardinality(new) + 1, s.ticker, s.period)
           more == IF runs THEN {late} ELSE {}
<1>1. /\ spAsked + Cardinality(new \cup more) <= MaxAsked
      /\ sp' = IF runs THEN [s EXCEPT !.historyLoading = TRUE] ELSE s
      /\ spCalls' = (spCalls \ done) \cup new \cup more
      /\ spAsked' = spAsked + Cardinality(new \cup more)
  BY Zenon DEF Commit
<1>2. /\ IsFiniteSet(new) /\ Cardinality(new) \in Nat
      /\ new # {} => Cardinality(new) = 1
  <2>1. CASE new = {}
    BY <2>1, FS_EmptySet
  <2>2. ASSUME NEW c, new = {c} PROVE IsFiniteSet(new) /\ Cardinality(new) = 1
    BY <2>2, FS_Singleton
  <2>3. new = {} \/ \E c : new = {c}
    BY Zenon DEF Requests
  <2> QED
    BY <2>1, <2>2, <2>3
<1>3. spAsked \in Nat /\ MaxAsked \in Nat
  BY SignalsPageConstants DEF SignalsInv, SignalsTypeOK
<1>4. late.kind = "signalHistory" /\ late.no = spAsked + Cardinality(new) + 1
      /\ late.ticker = s.ticker /\ late.period = s.period
  BY DEF Call
<1>5. late \notin new
  BY <1>2, <1>3, <1>4 DEF Call, Requests
<1>6. /\ Cardinality(new \cup more) \in Nat /\ Cardinality(new) <= Cardinality(new \cup more)
      /\ more # {} => Cardinality(new \cup more) = Cardinality(new) + 1
  <2>1. CASE runs
    <3>1. Cardinality(new \cup {late}) = Cardinality(new) + 1
      BY <1>2, <1>5, FS_AddElement
    <3>2. more = {late}
      BY <2>1
    <3> QED
      BY <1>2, <3>1, <3>2
  <2>2. CASE ~runs
    BY <1>2, <2>2
  <2> QED
    BY <2>1, <2>2
<1>7. sp' \in SignalsState
  BY <1>1 DEF SignalsState
<1>8. spAsked' \in 0..MaxAsked
  BY <1>1, <1>3, <1>6
<1>9. \A c \in spCalls' : /\ c.kind \in {"linked", "analyze", "period", "signalHistory", "batch"}
                          /\ c.no <= spAsked' /\ c.ticker \in Symbol \cup {Blank} /\ c.period \in Span
                          /\ c.no \in Nat /\ (c.kind # "batch" => c.ticker \in Symbol)
  <2> SUFFICES ASSUME NEW c \in spCalls'
               PROVE  /\ c.kind \in {"linked", "analyze", "period", "signalHistory", "batch"}
                      /\ c.no <= spAsked' /\ c.ticker \in Symbol \cup {Blank} /\ c.period \in Span
                      /\ c.no \in Nat /\ (c.kind # "batch" => c.ticker \in Symbol)
    OBVIOUS
  <2>1. CASE c \in spCalls
    BY <1>1, <1>3, <1>6, <2>1 DEF SignalsInv, SignalsTypeOK, CallsNamed
  <2>2. CASE c \in new
    BY <1>1, <1>2, <1>3, <1>6, <2>2 DEF Call, Requests
  <2>3. CASE c \in more
    <3>1. c = late /\ more # {}
      BY <2>3
    <3>2. c.no <= spAsked' /\ c.no \in Nat
      BY <1>1, <1>2, <1>3, <1>4, <1>6, <3>1
    <3>3. s.ticker \in Symbol /\ s.period \in Span
      BY <3>1 DEF SignalsState, WantsHistory
    <3> QED
      BY <1>4, <3>1, <3>2, <3>3
  <2> QED
    BY <1>1, <2>1, <2>2, <2>3
<1>10. \A c \in more : c.kind = "signalHistory"
  BY <1>4
<1>11. \/ more = {} /\ sp' = s
       \/ more # {} /\ sp' = [s EXCEPT !.historyLoading = TRUE]
  BY <1>1
<1> HIDE DEF more, late, runs
<1> QED
  BY <1>1, <1>7, <1>8, <1>9, <1>10, <1>11 DEF CallsNamed, Left

\* An analysis clears the page for its answer.
LEMMA AnalyzeOK ==
  ASSUME SignalsInv, NEW t \in Symbol, NEW p \in Span, NEW done \in SUBSET spCalls,
         \A c \in done : c.kind = "linked", Analyze(t, p, done)
  PROVE  SignalsInv'
<1> DEFINE s == Analyzing(t)
           ask == Call("analyze", spAsked + 1, t, p)
<1>1. /\ s \in SignalsState /\ s.signal = Blank /\ s.loading
      /\ s.batchLoading = sp.batchLoading /\ s.historyLoading = sp.historyLoading
  BY DEF Analyzing, SignalsInv, SignalsTypeOK, SignalsState
<1>2. ask.kind = "analyze"
  BY DEF Call
<1>3. Commit(s, {ask}, done)
  BY DEF Analyze
<1>4. Requests({ask})
  BY DEF Requests
<1>5. PICK more : Left(s, {ask}, done, more)
  BY <1>1, <1>3, <1>4, CommitOK
<1>6. spMixed' = \E c \in spCalls \ done : c.kind \in {"analyze", "period"}
  BY Zenon DEF Analyze
<1>7. spMixed' \in BOOLEAN
  BY <1>6, Zenon
<1> HIDE DEF s, ask
<1>8. /\ sp'.signal = Blank /\ sp'.loading /\ sp'.batchLoading = s.batchLoading
      /\ sp'.historyLoading => s.historyLoading \/ more # {}
  BY <1>1, <1>5 DEF Left, SignalsState
<1>9. SpinnersHaveRequests'
  BY <1>1, <1>2, <1>5, <1>8 DEF Left, SignalsInv, SpinnersHaveRequests
<1>10. Unmixed'
  BY <1>2, <1>5, <1>6, <1>8 DEF Left, Unmixed
<1> QED
  BY <1>5, <1>7, <1>9, <1>10 DEF Left, SignalsInv, SignalsTypeOK

\* A step that only changes what is shown, or sends a request that fills nothing.
LEMMA QuietCommit ==
  ASSUME SignalsInv, NEW s \in SignalsState, NEW new,
         NEW kind \in {"signalHistory", "batch"}, NEW t \in Symbol \cup {Blank}, NEW p \in Span,
         new = {} \/ new = {Call(kind, spAsked + 1, t, p)}, kind # "batch" => t \in Symbol,
         Commit(s, new, {}), UNCHANGED spMixed,
         s.signal \in {sp.signal, Blank}, s.history = sp.history, s.loading = sp.loading,
         s.batchLoading => sp.batchLoading \/ (new # {} /\ kind = "batch"),
         s.historyLoading => sp.historyLoading \/ (new # {} /\ kind = "signalHistory")
  PROVE  SignalsInv'
<1>1. \A c \in new : c.kind = kind
  BY DEF Call
<1>2. Requests(new)
  BY DEF Requests
<1>3. PICK more : Left(s, new, {}, more)
  BY <1>2, CommitOK
<1>4. /\ sp'.signal = s.signal /\ sp'.history = s.history /\ sp'.loading = s.loading
      /\ sp'.batchLoading = s.batchLoading
      /\ sp'.historyLoading => s.historyLoading \/ more # {}
  BY <1>3 DEF Left, SignalsState
<1>5. SpinnersHaveRequests'
  BY <1>1, <1>3, <1>4 DEF Left, SignalsInv, SpinnersHaveRequests
<1>6. Unmixed'
  BY <1>1, <1>3, <1>4 DEF Left, SignalsInv, Unmixed
<1> QED
  BY <1>3, <1>5, <1>6 DEF Left, SignalsInv, SignalsTypeOK

\* The answer of a request ends it.
LEMMA AnsweredOK ==
  ASSUME SignalsInv, NEW c \in spCalls, NEW s \in SignalsState, Answered(c, s), UNCHANGED spMixed
  PROVE  SignalsTypeOK' /\ CallsNamed' /\ sp' = s /\ spCalls' = spCalls \ {c}
BY DEF SignalsInv, SignalsTypeOK, CallsNamed, Answered

\* The period of the ticker shown is asked for, unless the field names another.
LEMMA PeriodChangeOK ==
  ASSUME SignalsInv, NEW p \in Span, handlePeriodChange(p)
  PROVE  SignalsInv'
<1> DEFINE s == [sp EXCEPT !.period = p]
           new == IF sp.ticker = Blank THEN {} ELSE {Call("period", spAsked + 1, sp.ticker, p)}
<1>1. /\ s \in SignalsState /\ s.signal = sp.signal /\ s.history = sp.history /\ s.loading = sp.loading
      /\ s.batchLoading = sp.batchLoading /\ s.historyLoading = sp.historyLoading
  BY DEF SignalsInv, SignalsTypeOK, SignalsState
<1>2. Commit(s, new, {}) /\ ShowsResult
  BY Zenon DEF handlePeriodChange
<1>3. spMixed' = (spMixed \/ (sp.ticker # Blank /\ sp.ticker # sp.signal))
  BY Zenon DEF handlePeriodChange
<1>4. \A c \in new : c.kind = "period" /\ c.ticker = sp.ticker /\ sp.ticker # Blank
  BY DEF Call
<1>5. Requests(new)
  BY DEF Requests, SignalsInv, SignalsTypeOK, SignalsState
<1> HIDE DEF s, new
<1>6. PICK more : Left(s, new, {}, more)
  BY <1>1, <1>2, <1>5, CommitOK
<1>7. /\ sp'.signal = s.signal /\ sp'.history = s.history /\ sp'.loading = s.loading
      /\ sp'.batchLoading = s.batchLoading
      /\ sp'.historyLoading => s.historyLoading \/ more # {}
  BY <1>1, <1>6 DEF Left, SignalsState
<1>8. SpinnersHaveRequests'
  BY <1>1, <1>6, <1>7 DEF Left, SignalsInv, SpinnersHaveRequests
<1>9. Unmixed'
  <2> SUFFICES ASSUME ~spMixed' PROVE Unmixed'
    BY DEF Unmixed
  <2>1. ~spMixed /\ (sp.ticker = Blank \/ sp.ticker = sp.signal)
    BY <1>3
  <2>2. sp.signal # Blank
    BY <1>2 DEF ShowsResult
  <2>3. \A c \in spCalls : c.kind # "analyze"
    BY <2>1, <2>2 DEF SignalsInv, Unmixed
  <2>4. spCalls' = spCalls \cup new \cup more /\ \A c \in more : c.kind = "signalHistory"
    BY <1>6 DEF Left
  <2>5. \A c \in spCalls' : c.kind # "analyze" /\ (c.kind = "period" => sp.signal \in {c.ticker, Blank})
    BY <1>4, <2>1, <2>3, <2>4 DEF SignalsInv, Unmixed
  <2>6. sp.history # Blank => sp.history.ticker = sp.signal
    BY <2>1, <2>2 DEF SignalsInv, Unmixed
  <2> QED
    BY <1>1, <1>7, <2>5, <2>6 DEF Unmixed
<1>10. spMixed' \in BOOLEAN
  BY <1>3, Zenon
<1> QED
  BY <1>6, <1>8, <1>9, <1>10 DEF Left, SignalsInv, SignalsTypeOK

\* Steps that send requests.
LEMMA CommitSteps ==
  ASSUME SignalsInv,
         \/ AnalyzeField \/ AnalyzeAll \/ handleFetchSignalHistory
         \/ \E t \in Symbol : AnalyzeTicker(t) \/ OpenCard(t)
         \/ \E t \in Symbol \cup {Blank} : TypeTicker(t)
         \/ \E to \in Tab : SelectTab(to)
         \/ \E p \in Span : handlePeriodChange(p)
         \/ \E c \in spCalls : AnalyzeLinked(c)
  PROVE  SignalsInv'
<1>1. sp \in SignalsState /\ sp.ticker \in Symbol \cup {Blank} /\ sp.period \in Span
  BY DEF SignalsInv, SignalsTypeOK, SignalsState
<1>2. CASE AnalyzeField \/ \E t \in Symbol : AnalyzeTicker(t) \/ OpenCard(t)
  <2>1. \E t \in Symbol : Analyze(t, sp.period, {})
    BY <1>1, <1>2 DEF AnalyzeField, AnalyzeTicker, OpenCard
  <2> QED
    BY <1>1, <2>1, AnalyzeOK
<1>3. CASE \E c \in spCalls : AnalyzeLinked(c)
  <2>1. PICK c \in spCalls : c.kind = "linked" /\ Analyze(c.ticker, c.period, {c})
    BY <1>3 DEF AnalyzeLinked
  <2>2. c.period \in Span /\ c.ticker \in Symbol
    BY <2>1 DEF SignalsInv, SignalsTypeOK, CallsNamed
  <2> QED
    BY <2>1, <2>2, AnalyzeOK
<1>4. CASE AnalyzeAll
  <2> DEFINE s == [sp EXCEPT !.batchLoading = TRUE, !.batchResults = FALSE, !.signal = Blank, !.error = FALSE]
             new == {Call("batch", spAsked + 1, Blank, sp.period)}
  <2>1. Commit(s, new, {}) /\ UNCHANGED spMixed
    BY <1>4 DEF AnalyzeAll
  <2>2. /\ s \in SignalsState /\ s.signal = Blank /\ s.history = sp.history /\ s.loading = sp.loading
        /\ s.historyLoading = sp.historyLoading
    BY <1>1 DEF SignalsState
  <2>3. new # {}
    OBVIOUS
  <2> HIDE DEF s
  <2> QED
    BY <1>1, <2>1, <2>2, <2>3, QuietCommit
<1>5. CASE handleFetchSignalHistory
  <2> DEFINE s == [sp EXCEPT !.historyLoading = TRUE]
             new == {Call("signalHistory", spAsked + 1, sp.ticker, sp.period)}
  <2>1. Commit(s, new, {}) /\ UNCHANGED spMixed
    BY <1>5 DEF handleFetchSignalHistory
  <2>2. /\ s \in SignalsState /\ s.signal = sp.signal /\ s.history = sp.history
        /\ s.loading = sp.loading /\ s.batchLoading = sp.batchLoading
    BY <1>1 DEF SignalsState
  <2>3. new # {} /\ sp.ticker \in Symbol
    BY <1>1, <1>5 DEF handleFetchSignalHistory
  <2> HIDE DEF s
  <2> QED
    BY <1>1, <2>1, <2>2, <2>3, QuietCommit
<1>6. ASSUME NEW s \in SignalsState, Commit(s, {}, {}), UNCHANGED spMixed, s.signal = sp.signal,
             s.history = sp.history, s.loading = sp.loading, s.batchLoading = sp.batchLoading,
             s.historyLoading = sp.historyLoading
      PROVE  SignalsInv'
  BY <1>1, <1>6, QuietCommit
<1>7. ASSUME NEW t \in Symbol \cup {Blank}, TypeTicker(t) PROVE SignalsInv'
  <2> DEFINE s == [sp EXCEPT !.ticker = t]
  <2>1. Commit(s, {}, {}) /\ UNCHANGED spMixed
    BY <1>7 DEF TypeTicker
  <2>2. /\ s \in SignalsState /\ s.signal = sp.signal /\ s.history = sp.history /\ s.loading = sp.loading
        /\ s.batchLoading = sp.batchLoading /\ s.historyLoading = sp.historyLoading
    BY <1>1 DEF SignalsState
  <2> HIDE DEF s
  <2> QED
    BY <1>6, <2>1, <2>2
<1>8. ASSUME NEW to \in Tab, SelectTab(to) PROVE SignalsInv'
  <2> DEFINE s == [sp EXCEPT !.activeTab = to]
  <2>1. Commit(s, {}, {}) /\ UNCHANGED spMixed
    BY <1>8 DEF SelectTab
  <2>2. /\ s \in SignalsState /\ s.signal = sp.signal /\ s.history = sp.history /\ s.loading = sp.loading
        /\ s.batchLoading = sp.batchLoading /\ s.historyLoading = sp.historyLoading
    BY <1>1 DEF SignalsState
  <2> HIDE DEF s
  <2> QED
    BY <1>6, <2>1, <2>2
<1>9. ASSUME NEW p \in Span, handlePeriodChange(p) PROVE SignalsInv'
  BY <1>9, PeriodChangeOK
<1> QED
  BY <1>2, <1>3, <1>4, <1>5, <1>7, <1>8, <1>9

\* Answers, and what is neither sent nor answered.
LEMMA AnswerSteps ==
  ASSUME SignalsInv, NEW c \in spCalls,
         \/ AnalyzeAnswered(c) \/ AnalyzeFailed(c) \/ PeriodAnswered(c)
         \/ PeriodFailed(c) \/ HistoryAnswered(c) \/ BatchAnswered(c)
  PROVE  SignalsInv'
<1>1. sp \in SignalsState /\ c.ticker \in Symbol \cup {Blank} /\ c.period \in Span
      /\ (c.kind # "batch" => c.ticker \in Symbol)
  BY DEF SignalsInv, SignalsTypeOK, CallsNamed
<1>2. CASE AnalyzeAnswered(c)
  <2>1. PICK markers \in BOOLEAN :
          Answered(c, [sp EXCEPT !.signal = c.ticker, !.chartMarkers = markers, !.loading = FALSE,
                                 !.history = [ticker |-> c.ticker, period |-> c.period]])
    BY <1>2 DEF AnalyzeAnswered
  <2> DEFINE h == [ticker |-> c.ticker, period |-> c.period]
             s == [sp EXCEPT !.signal = c.ticker, !.chartMarkers = markers, !.loading = FALSE, !.history = h]
  <2>2. h \in Prices /\ h.ticker = c.ticker /\ c.kind = "analyze" /\ c.ticker # Blank
    BY <1>1, <1>2, SignalsPageConstants DEF AnalyzeAnswered, Prices
  <2> HIDE DEF h
  <2>3. /\ s \in SignalsState /\ s.signal = c.ticker /\ s.history = h /\ ~s.loading
        /\ s.batchLoading = sp.batchLoading /\ s.historyLoading = sp.historyLoading
    BY <1>1, <2>2 DEF SignalsState
  <2>4. Answered(c, s) /\ UNCHANGED spMixed
    BY <1>2, <2>1 DEF AnalyzeAnswered, h
  <2> HIDE DEF s
  <2>5. SignalsTypeOK' /\ CallsNamed' /\ sp' = s /\ spCalls' = spCalls \ {c}
    BY <2>3, <2>4, AnsweredOK
  <2>6. SpinnersHaveRequests'
    BY <2>2, <2>3, <2>5 DEF SignalsInv, SpinnersHaveRequests
  <2>7. Unmixed'
    BY <2>2, <2>3, <2>4, <2>5 DEF SignalsInv, Unmixed
  <2> QED
    BY <2>5, <2>6, <2>7 DEF SignalsInv
<1>3. CASE AnalyzeFailed(c)
  <2> DEFINE s == [sp EXCEPT !.error = TRUE, !.loading = FALSE]
  <2>1. /\ s \in SignalsState /\ s.signal = sp.signal /\ s.history = sp.history /\ ~s.loading
        /\ s.batchLoading = sp.batchLoading /\ s.historyLoading = sp.historyLoading
    BY <1>1 DEF SignalsState
  <2>2. Answered(c, s) /\ UNCHANGED spMixed /\ c.kind = "analyze"
    BY <1>3 DEF AnalyzeFailed
  <2> HIDE DEF s
  <2>3. SignalsTypeOK' /\ CallsNamed' /\ sp' = s /\ spCalls' = spCalls \ {c}
    BY <2>1, <2>2, AnsweredOK
  <2> QED
    BY <2>1, <2>2, <2>3 DEF SignalsInv, SpinnersHaveRequests, Unmixed
<1>4. CASE PeriodAnswered(c)
  <2>1. PICK markers \in BOOLEAN :
          Answered(c, [sp EXCEPT !.chartMarkers = markers,
                                 !.history = [ticker |-> c.ticker, period |-> c.period]])
    BY <1>4 DEF PeriodAnswered
  <2> DEFINE h == [ticker |-> c.ticker, period |-> c.period]
             s == [sp EXCEPT !.chartMarkers = markers, !.history = h]
  <2>2. h \in Prices /\ h.ticker = c.ticker /\ c.kind = "period"
    BY <1>1, <1>4 DEF PeriodAnswered, Prices
  <2> HIDE DEF h
  <2>3. /\ s \in SignalsState /\ s.signal = sp.signal /\ s.history = h /\ s.loading = sp.loading
        /\ s.batchLoading = sp.batchLoading /\ s.historyLoading = sp.historyLoading
    BY <1>1, <2>2 DEF SignalsState
  <2>4. Answered(c, s) /\ UNCHANGED spMixed
    BY <1>4, <2>1 DEF PeriodAnswered, h
  <2> HIDE DEF s
  <2>5. SignalsTypeOK' /\ CallsNamed' /\ sp' = s /\ spCalls' = spCalls \ {c}
    BY <2>3, <2>4, AnsweredOK
  <2>6. SpinnersHaveRequests'
    BY <2>2, <2>3, <2>5 DEF SignalsInv, SpinnersHaveRequests
  <2>7. Unmixed'
    BY <2>2, <2>3, <2>4, <2>5 DEF SignalsInv, Unmixed
  <2> QED
    BY <2>5, <2>6, <2>7 DEF SignalsInv
<1>5. CASE PeriodFailed(c)
  <2>1. Answered(c, sp) /\ UNCHANGED spMixed /\ c.kind = "period"
    BY <1>5 DEF PeriodFailed
  <2>2. SignalsTypeOK' /\ CallsNamed' /\ sp' = sp /\ spCalls' = spCalls \ {c}
    BY <1>1, <2>1, AnsweredOK
  <2> QED
    BY <2>1, <2>2 DEF SignalsInv, SpinnersHaveRequests, Unmixed
<1>6. CASE HistoryAnswered(c)
  <2>1. PICK got \in {c.ticker, sp.signalHistory} :
          Answered(c, [sp EXCEPT !.signalHistory = got, !.historyLoading = FALSE])
    BY <1>6 DEF HistoryAnswered
  <2> DEFINE s == [sp EXCEPT !.signalHistory = got, !.historyLoading = FALSE]
  <2>2. /\ s \in SignalsState /\ s.signal = sp.signal /\ s.history = sp.history /\ s.loading = sp.loading
        /\ s.batchLoading = sp.batchLoading /\ ~s.historyLoading
    BY <1>1 DEF SignalsState
  <2>3. UNCHANGED spMixed /\ c.kind = "signalHistory"
    BY <1>6 DEF HistoryAnswered
  <2> HIDE DEF s
  <2>4. SignalsTypeOK' /\ CallsNamed' /\ sp' = s /\ spCalls' = spCalls \ {c}
    BY <2>1, <2>2, <2>3, AnsweredOK DEF s
  <2> QED
    BY <2>2, <2>3, <2>4 DEF SignalsInv, SpinnersHaveRequests, Unmixed
<1>7. CASE BatchAnswered(c)
  <2>1. PICK ok \in BOOLEAN :
          Answered(c, [sp EXCEPT !.batchResults = ok \/ @, !.error = ~ok \/ @, !.batchLoading = FALSE])
    BY <1>7 DEF BatchAnswered
  <2> DEFINE b == ok \/ sp.batchResults
             e == ~ok \/ sp.error
             s == [sp EXCEPT !.batchResults = b, !.error = e, !.batchLoading = FALSE]
  <2>2. b \in BOOLEAN /\ e \in BOOLEAN
    BY Zenon
  <2>3. Answered(c, s) /\ UNCHANGED spMixed /\ c.kind = "batch"
    BY <1>1, <1>7, <2>1, Zenon DEF BatchAnswered, SignalsState
  <2> HIDE DEF b, e
  <2>4. /\ s \in SignalsState /\ s.signal = sp.signal /\ s.history = sp.history /\ s.loading = sp.loading
        /\ ~s.batchLoading /\ s.historyLoading = sp.historyLoading
    BY <1>1, <2>2 DEF SignalsState
  <2> HIDE DEF s
  <2>5. SignalsTypeOK' /\ CallsNamed' /\ sp' = s /\ spCalls' = spCalls \ {c}
    BY <2>3, <2>4, AnsweredOK
  <2> QED
    BY <2>3, <2>4, <2>5 DEF SignalsInv, SpinnersHaveRequests, Unmixed
<1> QED
  BY <1>2, <1>3, <1>4, <1>5, <1>6, <1>7

\* Every step of the signals page keeps the invariant.
LEMMA SignalsStep == SignalsInv /\ [SignalsNext]_spVars => SignalsInv'
<1> SUFFICES ASSUME SignalsInv, [SignalsNext]_spVars PROVE SignalsInv'
  OBVIOUS
<1>1. CASE UNCHANGED spVars
  BY <1>1 DEF spVars, SignalsInv, SignalsTypeOK, CallsNamed, Unmixed, SpinnersHaveRequests
<1>2. CASE AnalyzeNothing \/ CloseError
  <2>1. /\ sp' \in SignalsState /\ sp'.signal = sp.signal /\ sp'.history = sp.history
        /\ sp'.loading = sp.loading /\ sp'.batchLoading = sp.batchLoading
        /\ sp'.historyLoading = sp.historyLoading /\ UNCHANGED <<spCalls, spAsked, spMixed>>
    BY <1>2 DEF AnalyzeNothing, CloseError, SignalsInv, SignalsTypeOK, SignalsState
  <2> QED
    BY <2>1 DEF SignalsInv, SignalsTypeOK, CallsNamed, Unmixed, SpinnersHaveRequests
<1> QED
  BY <1>1, <1>2, CommitSteps, AnswerSteps DEF SignalsNext

\* The chart and the spinners follow.
LEMMA SignalsInvSound == SignalsInv => ChartIsOfTheSignal /\ SpinnersHaveRequests
BY DEF SignalsInv, Unmixed, ChartIsOfTheSignal, ShowsChart, ShowsResult

-----------------------------------------------------------------------------
(* An entry: a row of the holdings, then its trade.                           *)

Recorded(k) == k.step \in {"holding", "trade"}

\* The button is disabled while an entry is recorded, so there is one at a time.
OneIsRecorded ==
    /\ \A k \in erTasks : Recorded(k) => erRecording
    /\ \A k, j \in erTasks : Recorded(k) /\ Recorded(j) => k = j

\* Whoever is in the list that was read last: what is not there is being recorded.
Covers(known) ==
    \A r \in erRows : r.ticker \notin erExcused =>
        r \in known \/ \E k \in erTasks : k.step = "trade" /\ k.row = r
ListIsKnown ==
    /\ erGet = NoGet => erView # NoStock \/ erExcused = Stock
    /\ erGet = NoGet /\ erView # NoStock => Covers(erView)
    /\ erGet.step = "served" => Covers(erGet.rows)
    /\ erGet.step \in {"none", "sent"} => erGet.rows = {}

\* A ticker has at most one row, and none while its row is still to be created.
OneRow ==
    \A t \in Stock \ erExcused :
        /\ \A r, q \in erRows : r.ticker = t /\ q.ticker = t => r = q
        /\ (\E k \in erTasks : k.step = "holding" /\ k.row.ticker = t) => \A r \in erRows : r.ticker # t

Trading(t) == {k \in erTasks : k.step = "trade" /\ k.row.ticker = t}
TradesFollow ==
    \A t \in Stock \ erExcused : erMade[t] = erBuys[t] + (IF Trading(t) = {} THEN 0 ELSE 1)

EntryInv == EntryTypeOK /\ OneIsRecorded /\ ListIsKnown /\ OneRow /\ TradesFollow

\* The page that is opened: nothing is recorded and nothing was read.
LEMMA EntryInitOK == EntryInit => EntryInv
<1> SUFFICES ASSUME EntryInit PROVE EntryInv
  OBVIOUS
<1>1. PICK held \in SUBSET Stock : erRows = {[id |-> 0, ticker |-> t] : t \in held}
  BY DEF EntryInit
<1>2. erRows \subseteq Row
  BY <1>1, EntryRecordConstants DEF Row
<1>3. EntryTypeOK
  <2>1. erBuys \in [Stock -> Nat] /\ erMade \in [Stock -> Nat]
    BY DEF EntryInit
  <2>2. erGet \in [step: {"none", "sent", "served"}, rows: SUBSET Row]
    BY DEF EntryInit, Sent
  <2>3. erRecording \in BOOLEAN
    BY Zenon DEF EntryInit
  <2> QED
    BY <1>2, <2>1, <2>2, <2>3, EntryRecordConstants DEF EntryInit, EntryTypeOK
<1>4. OneRow
  BY <1>1 DEF OneRow, EntryInit
<1> QED
  BY <1>3, <1>4 DEF EntryInit, EntryInv, OneIsRecorded, ListIsKnown, TradesFollow, Trading, Sent, NoGet

\* The type of everything.
LEMMA EntryTypeStep == EntryInv /\ EntryNext => EntryTypeOK'
<1> SUFFICES ASSUME EntryInv, EntryNext PROVE EntryTypeOK'
  OBVIOUS
<1> USE EntryRecordConstants DEF EntryInv, EntryTypeOK
<1>1. CASE \E t \in Stock : ShowSignal(t)
  BY <1>1 DEF ShowSignal
<1>2. CASE RecordEntry
  <2> DEFINE k == [no |-> erStarted + 1, step |-> "holding", row |-> [id |-> erStarted + 1, ticker |-> erShown]]
  <2>1. k \in Task
    BY <1>2 DEF RecordEntry, OffersEntry, Task, Row
  <2> QED
    BY <1>2, <2>1 DEF RecordEntry, OffersEntry
<1>3. CASE CancelEntry
  <2>1. PICK r \in HeldRows(erShown) : erTasks' = erTasks \cup {[no |-> erStarted + 1, step |-> "delete", row |-> r]}
    BY <1>3 DEF CancelEntry
  <2>2. r \in Row
    BY DEF HeldRows
  <2>3. [no |-> erStarted + 1, step |-> "delete", row |-> r] \in Task
    BY <1>3, <2>2 DEF Task, CancelEntry
  <2> QED
    BY <1>3, <2>1, <2>3 DEF CancelEntry
<1>4. ASSUME NEW k \in erTasks, HoldingCreated(k) \/ HoldingDeleted(k) PROVE EntryTypeOK'
  <2>1. k.row \in Row /\ k.row.ticker \in Stock
    BY DEF Task, Row
  <2>2. erTasks' \subseteq Task
    BY <1>4 DEF HoldingCreated, HoldingDeleted, Moves, Task
  <2> QED
    BY <1>4, <2>1, <2>2 DEF HoldingCreated, HoldingDeleted
<1>5. ASSUME NEW k \in erTasks, TradeCreated(k) \/ TradesLookedUp(k) PROVE EntryTypeOK'
  <2>1. k.row.ticker \in Stock /\ Sent \in [step: {"none", "sent", "served"}, rows: SUBSET Row]
    BY DEF Task, Row, Sent
  <2>2. erBuys' \in [Stock -> Nat]
    BY <1>5, <2>1 DEF TradeCreated, TradesLookedUp
  <2>3. erRecording' \in BOOLEAN
    BY <1>5, Zenon DEF TradeCreated, TradesLookedUp
  <2> QED
    BY <1>5, <2>1, <2>2, <2>3 DEF TradeCreated, TradesLookedUp
<1>6. ASSUME NEW k \in erTasks, RecordFails(k) \/ CancelFails(k) PROVE EntryTypeOK'
  <2>1. k.row \in Row /\ k.row.ticker \in Stock
    BY DEF Task, Row
  <2>2. CASE CancelFails(k)
    BY <2>1, <2>2 DEF CancelFails
  <2>3. CASE RecordFails(k)
    <3>1. erRows' \subseteq Row /\ erBuys' \in [Stock -> Nat] /\ erMade' \in [Stock -> Nat]
      BY <2>1, <2>3 DEF RecordFails
    <3> QED
      BY <2>1, <2>3, <3>1 DEF RecordFails
  <2> QED
    BY <1>6, <2>2, <2>3
<1>7. CASE ListServed \/ ListRead \/ ListFails
  <2>1. NoGet \in [step: {"none", "sent", "served"}, rows: SUBSET Row]
    BY DEF NoGet
  <2> QED
    BY <1>7, <2>1 DEF ListServed, ListRead, ListFails
<1> QED
  BY <1>1, <1>2, <1>3, <1>4, <1>5, <1>6, <1>7 DEF EntryNext

\* What an action does to the tasks that record.
LEMMA TasksStep ==
  ASSUME EntryInv, EntryNext
  PROVE  OneIsRecorded'
<1> USE DEF EntryInv, OneIsRecorded, EntryTypeOK
<1>1. CASE \E t \in Stock : ShowSignal(t)
  BY <1>1 DEF ShowSignal
<1>2. CASE RecordEntry
  <2> DEFINE k == [no |-> erStarted + 1, step |-> "holding", row |-> [id |-> erStarted + 1, ticker |-> erShown]]
  <2>1. erTasks' = erTasks \cup {k} /\ erRecording' /\ \A j \in erTasks : ~Recorded(j)
    BY <1>2 DEF RecordEntry, OffersEntry
  <2> HIDE DEF k
  <2> QED
    BY <2>1
<1>3. CASE CancelEntry
  <2>1. PICK r \in HeldRows(erShown) : erTasks' = erTasks \cup {[no |-> erStarted + 1, step |-> "delete", row |-> r]}
    BY <1>3 DEF CancelEntry
  <2>2. ~Recorded([no |-> erStarted + 1, step |-> "delete", row |-> r]) /\ erRecording' = erRecording
    BY <1>3 DEF CancelEntry, Recorded
  <2> QED
    BY <2>1, <2>2
<1>4. ASSUME NEW k \in erTasks, HoldingCreated(k) PROVE OneIsRecorded'
  <2> DEFINE j == [k EXCEPT !.step = "trade"]
  <2>1. erTasks' = (erTasks \ {k}) \cup {j} /\ Recorded(k) /\ erRecording' = erRecording
    BY <1>4 DEF HoldingCreated, Moves, Recorded
  <2> HIDE DEF j
  <2> QED
    BY <2>1
<1>5. ASSUME NEW k \in erTasks, HoldingDeleted(k) PROVE OneIsRecorded'
  <2> DEFINE j == [k EXCEPT !.step = "lookup"]
  <2>1. erTasks' = (erTasks \ {k}) \cup {j} /\ erRecording' = erRecording
    BY <1>5 DEF HoldingDeleted, Moves
  <2>2. ~Recorded(j)
    BY DEF Recorded, Task
  <2> HIDE DEF j
  <2> QED
    BY <2>1, <2>2
<1>6. ASSUME NEW k \in erTasks, TradeCreated(k) \/ RecordFails(k) PROVE OneIsRecorded'
  BY <1>6 DEF TradeCreated, RecordFails, Recorded
<1>7. ASSUME NEW k \in erTasks, TradesLookedUp(k) \/ CancelFails(k) PROVE OneIsRecorded'
  BY <1>7 DEF TradesLookedUp, CancelFails
<1>8. CASE ListServed \/ ListRead \/ ListFails
  BY <1>8 DEF ListServed, ListRead, ListFails
<1> QED
  BY <1>1, <1>2, <1>3, <1>4, <1>5, <1>6, <1>7, <1>8 DEF EntryNext

\* A task that is moved on keeps what it is about.
LEMMA MovedOK ==
  ASSUME EntryTypeOK, NEW k \in erTasks, NEW step \in {"trade", "lookup"}, Moves(k, step)
  PROVE  \E j : /\ erTasks' = (erTasks \ {k}) \cup {j}
               /\ j.step = step /\ j.row = k.row /\ j.no = k.no
<1> DEFINE j == [k EXCEPT !.step = step]
<1>1. j.step = step /\ j.row = k.row /\ j.no = k.no
  BY DEF EntryTypeOK, Task
<1>2. erTasks' = (erTasks \ {k}) \cup {j}
  BY DEF Moves
<1> QED
  BY <1>1, <1>2

\* What is not in the list is being recorded.
LEMMA ListStep ==
  ASSUME EntryInv, EntryNext
  PROVE  ListIsKnown'
<1> USE DEF EntryInv, ListIsKnown, EntryTypeOK, Covers
<1>1. CASE \E t \in Stock : ShowSignal(t)
  BY <1>1 DEF ShowSignal
<1>2. CASE RecordEntry
  BY <1>2 DEF RecordEntry
<1>3. CASE CancelEntry
  BY <1>3 DEF CancelEntry
<1>4. ASSUME NEW k \in erTasks, HoldingCreated(k) PROVE ListIsKnown'
  <2>1. PICK j : /\ erTasks' = (erTasks \ {k}) \cup {j} /\ j.step = "trade" /\ j.row = k.row
    BY <1>4, MovedOK DEF HoldingCreated
  <2> QED
    BY <1>4, <2>1 DEF HoldingCreated
<1>5. ASSUME NEW k \in erTasks, HoldingDeleted(k) PROVE ListIsKnown'
  <2>1. PICK j : /\ erTasks' = (erTasks \ {k}) \cup {j} /\ j.step = "lookup" /\ j.row = k.row
    BY <1>5, MovedOK DEF HoldingDeleted
  <2> QED
    BY <1>5, <2>1 DEF HoldingDeleted
<1>6. ASSUME NEW k \in erTasks, TradeCreated(k) \/ TradesLookedUp(k) PROVE ListIsKnown'
  BY <1>6 DEF TradeCreated, TradesLookedUp, Sent, NoGet
<1>7. ASSUME NEW k \in erTasks, RecordFails(k) PROVE ListIsKnown'
  <2>1. /\ erTasks' = erTasks \ {k} /\ UNCHANGED <<erView, erGet>>
        /\ erRows' \subseteq erRows \cup {k.row} /\ erExcused' = erExcused \cup {k.row.ticker}
        /\ k.row.ticker \in Stock
    BY <1>7 DEF RecordFails, Task, Row
  <2> QED
    BY <2>1
<1>8. ASSUME NEW k \in erTasks, CancelFails(k) PROVE ListIsKnown'
  <2>1. /\ erTasks' = erTasks \ {k} /\ k.step \in {"delete", "lookup"} /\ UNCHANGED <<erView, erGet>>
        /\ erRows' \subseteq erRows /\ erExcused' = erExcused \cup {k.row.ticker}
        /\ k.row.ticker \in Stock
    BY <1>8 DEF CancelFails, Task, Row
  <2> QED
    BY <2>1
<1>9. CASE ListServed
  BY <1>9 DEF ListServed, Sent, NoGet
<1>10. CASE ListRead
  BY <1>10, EntryRecordConstants DEF ListRead, NoGet
<1>11. CASE ListFails
  <2>1. erExcused' = Stock /\ erGet' = NoGet /\ UNCHANGED <<erView, erRows, erTasks>>
    BY <1>11 DEF ListFails
  <2>2. \A r \in erRows' : r.ticker \in Stock
    BY <2>1 DEF Row
  <2> QED
    BY <2>1, <2>2 DEF NoGet
<1> QED
  BY <1>1, <1>2, <1>3, <1>4, <1>5, <1>6, <1>7, <1>8, <1>9, <1>10, <1>11 DEF EntryNext

\* A ticker has one row at most.
LEMMA RowsStep ==
  ASSUME EntryInv, EntryNext
  PROVE  OneRow'
<1> USE DEF EntryInv, OneRow, EntryTypeOK
<1>1. CASE \E t \in Stock : ShowSignal(t)
  BY <1>1 DEF ShowSignal
<1>2. CASE RecordEntry
  <2> DEFINE k == [no |-> erStarted + 1, step |-> "holding", row |-> [id |-> erStarted + 1, ticker |-> erShown]]
  <2>1. /\ erTasks' = erTasks \cup {k} /\ k.row.ticker = erShown /\ UNCHANGED erRows
        /\ erExcused' = IF erGet = NoGet THEN erExcused ELSE erExcused \cup {erShown}
        /\ \A j \in erTasks : ~Recorded(j)
    BY <1>2 DEF RecordEntry, OffersEntry, OneIsRecorded
  <2>2. erShown \notin erExcused' => \A r \in erRows : r.ticker # erShown
    <3> SUFFICES ASSUME erShown \notin erExcused', NEW r \in erRows, r.ticker = erShown PROVE FALSE
      OBVIOUS
    <3>1. erGet = NoGet /\ erShown \notin erExcused /\ erShown \in Stock
      BY <1>2, <2>1 DEF RecordEntry, OffersEntry
    <3>2. erView # NoStock /\ Covers(erView)
      BY <3>1 DEF ListIsKnown
    <3>3. r \in erView
      BY <2>1, <3>1, <3>2 DEF Covers, Recorded
    <3> QED
      BY <1>2, <3>2, <3>3 DEF RecordEntry, OffersEntry, HeldRows
  <2> HIDE DEF k
  <2> QED
    BY <2>1, <2>2 DEF Recorded
<1>3. CASE CancelEntry
  <2>1. PICK r \in HeldRows(erShown) : erTasks' = erTasks \cup {[no |-> erStarted + 1, step |-> "delete", row |-> r]}
    BY <1>3 DEF CancelEntry
  <2> QED
    BY <1>3, <2>1 DEF CancelEntry
<1>4. ASSUME NEW k \in erTasks, HoldingCreated(k) PROVE OneRow'
  <2>1. PICK j : /\ erTasks' = (erTasks \ {k}) \cup {j} /\ j.step = "trade" /\ j.row = k.row
    BY <1>4, MovedOK DEF HoldingCreated
  <2>2. \A i \in erTasks' : i.step # "holding"
    BY <1>4, <2>1 DEF HoldingCreated, OneIsRecorded, Recorded
  <2> QED
    BY <1>4, <2>1, <2>2 DEF HoldingCreated
<1>5. ASSUME NEW k \in erTasks, HoldingDeleted(k) PROVE OneRow'
  <2>1. PICK j : /\ erTasks' = (erTasks \ {k}) \cup {j} /\ j.step = "lookup" /\ j.row = k.row
    BY <1>5, MovedOK DEF HoldingDeleted
  <2> QED
    BY <1>5, <2>1 DEF HoldingDeleted
<1>6. ASSUME NEW k \in erTasks, TradeCreated(k) \/ TradesLookedUp(k) PROVE OneRow'
  BY <1>6 DEF TradeCreated, TradesLookedUp
<1>7. ASSUME NEW k \in erTasks, RecordFails(k) PROVE OneRow'
  <2>1. /\ erTasks' = erTasks \ {k}
        /\ erRows' \subseteq erRows \cup {k.row} /\ erExcused' = erExcused \cup {k.row.ticker}
    BY <1>7 DEF RecordFails
  <2> QED
    BY <2>1
<1>8. ASSUME NEW k \in erTasks, CancelFails(k) PROVE OneRow'
  <2>1. /\ erTasks' = erTasks \ {k}
        /\ erRows' \subseteq erRows /\ erExcused' = erExcused \cup {k.row.ticker}
    BY <1>8 DEF CancelFails
  <2> QED
    BY <2>1
<1>9. CASE ListServed \/ ListRead \/ ListFails
  BY <1>9 DEF ListServed, ListRead, ListFails
<1> QED
  BY <1>1, <1>2, <1>3, <1>4, <1>5, <1>6, <1>7, <1>8, <1>9 DEF EntryNext

\* The trade of a holding follows it.
LEMMA TradesStep ==
  ASSUME EntryInv, EntryNext
  PROVE  TradesFollow'
<1> USE DEF EntryInv, TradesFollow, EntryTypeOK
<1>1. ASSUME UNCHANGED <<erMade, erBuys>>, erExcused \subseteq erExcused',
             \A t \in Stock \ erExcused' : Trading(t)' = Trading(t)
      PROVE  TradesFollow'
  BY <1>1
<1>2. CASE \/ \E t \in Stock : ShowSignal(t)
           \/ ListServed \/ ListRead
  BY <1>1, <1>2 DEF ShowSignal, ListServed, ListRead, Trading
<1>3. CASE ListFails
  BY <1>3 DEF ListFails
<1>4. CASE RecordEntry
  <2> DEFINE k == [no |-> erStarted + 1, step |-> "holding", row |-> [id |-> erStarted + 1, ticker |-> erShown]]
  <2>1. erTasks' = erTasks \cup {k} /\ UNCHANGED <<erMade, erBuys>> /\ erExcused \subseteq erExcused'
    BY <1>4 DEF RecordEntry
  <2>2. k.step = "holding"
    OBVIOUS
  <2> HIDE DEF k
  <2> QED
    BY <1>1, <2>1, <2>2 DEF Trading
<1>5. CASE CancelEntry
  <2>1. PICK r \in HeldRows(erShown) : erTasks' = erTasks \cup {[no |-> erStarted + 1, step |-> "delete", row |-> r]}
    BY <1>5 DEF CancelEntry
  <2> DEFINE k == [no |-> erStarted + 1, step |-> "delete", row |-> r]
  <2>2. k.step = "delete" /\ erTasks' = erTasks \cup {k} /\ UNCHANGED <<erMade, erBuys, erExcused>>
    BY <1>5, <2>1 DEF CancelEntry
  <2> HIDE DEF k
  <2> QED
    BY <1>1, <2>2 DEF Trading
<1>6. ASSUME NEW k \in erTasks, HoldingCreated(k) PROVE TradesFollow'
  <2>1. PICK j : /\ erTasks' = (erTasks \ {k}) \cup {j} /\ j.step = "trade" /\ j.row = k.row
    BY <1>6, MovedOK DEF HoldingCreated
  <2>2. \A i \in erTasks : i.step # "trade"
    BY <1>6 DEF HoldingCreated, OneIsRecorded, Recorded
  <2>3. \A t : Trading(t) = {} /\ (Trading(t)' = {} <=> t # k.row.ticker)
    BY <2>1, <2>2 DEF Trading
  <2>4. k.row.ticker \in Stock /\ erMade' = [erMade EXCEPT ![k.row.ticker] = @ + 1]
        /\ UNCHANGED <<erBuys, erExcused>>
    BY <1>6 DEF HoldingCreated, Task, Row
  <2> SUFFICES ASSUME NEW t \in Stock \ erExcused
               PROVE  erMade'[t] = erBuys'[t] + (IF Trading(t)' = {} THEN 0 ELSE 1)
    BY <2>4
  <2>5. erMade[t] = erBuys[t] + 0
    BY <2>3
  <2> QED
    BY <2>3, <2>4, <2>5
<1>7. ASSUME NEW k \in erTasks, TradeCreated(k) PROVE TradesFollow'
  <2>1. /\ erTasks' = erTasks \ {k} /\ k.step = "trade" /\ k.row.ticker \in Stock
        /\ erBuys' = [erBuys EXCEPT ![k.row.ticker] = @ + 1] /\ UNCHANGED <<erMade, erExcused>>
    BY <1>7 DEF TradeCreated, Task, Row
  <2>2. \A i \in erTasks' : i.step # "trade"
    BY <2>1 DEF OneIsRecorded, Recorded
  <2>3. \A t : Trading(t)' = {} /\ (Trading(t) = {} <=> t # k.row.ticker)
    BY <2>1, <2>2 DEF Trading, OneIsRecorded, Recorded
  <2> SUFFICES ASSUME NEW t \in Stock \ erExcused
               PROVE  erMade'[t] = erBuys'[t] + (IF Trading(t)' = {} THEN 0 ELSE 1)
    BY <2>1
  <2>4. erMade[t] = erBuys[t] + (IF t = k.row.ticker THEN 1 ELSE 0)
    BY <2>3
  <2> QED
    BY <2>1, <2>3, <2>4
<1>8. ASSUME NEW k \in erTasks, RecordFails(k) PROVE TradesFollow'
  <2>1. /\ erTasks' = erTasks \ {k} /\ erExcused' = erExcused \cup {k.row.ticker}
        /\ k.row.ticker \in Stock
        /\ \A t \in Stock \ {k.row.ticker} : erMade'[t] = erMade[t] /\ erBuys'[t] = erBuys[t]
    BY <1>8 DEF RecordFails, Task, Row
  <2>2. \A t \in Stock \ erExcused' : Trading(t)' = Trading(t)
    BY <2>1 DEF Trading
  <2> QED
    BY <2>1, <2>2
<1>9. ASSUME NEW k \in erTasks, HoldingDeleted(k) PROVE TradesFollow'
  <2>1. PICK j : /\ erTasks' = (erTasks \ {k}) \cup {j} /\ j.step = "lookup" /\ j.row = k.row
    BY <1>9, MovedOK DEF HoldingDeleted
  <2>2. k.step = "delete" /\ UNCHANGED <<erMade, erBuys, erExcused>>
    BY <1>9 DEF HoldingDeleted
  <2> QED
    BY <1>1, <2>1, <2>2 DEF Trading
<1>10. ASSUME NEW k \in erTasks, TradesLookedUp(k) \/ CancelFails(k) PROVE TradesFollow'
  <2>1. /\ erTasks' = erTasks \ {k} /\ k.step \in {"delete", "lookup"}
        /\ UNCHANGED <<erMade, erBuys>> /\ erExcused \subseteq erExcused'
    BY <1>10 DEF TradesLookedUp, CancelFails
  <2> QED
    BY <1>1, <2>1 DEF Trading
<1> QED
  BY <1>2, <1>3, <1>4, <1>5, <1>6, <1>7, <1>8, <1>9, <1>10 DEF EntryNext

\* Every step of an entry, of the list and of the rows.
LEMMA EntryStep == EntryInv /\ [EntryNext]_entryVars => EntryInv'
<1>1. EntryInv /\ EntryNext => EntryInv'
  BY EntryTypeStep, TasksStep, ListStep, RowsStep, TradesStep DEF EntryInv
<1>2. EntryInv /\ UNCHANGED entryVars => EntryInv'
  BY DEF entryVars, EntryInv, EntryTypeOK, OneIsRecorded, ListIsKnown, Covers, OneRow, TradesFollow, Trading
<1> QED
  BY <1>1, <1>2

\* One row of a ticker, and one trade on its way, make the numbers that are stated.
LEMMA EntryInvSound == EntryInv => EntrySound
<1> SUFFICES ASSUME EntryInv PROVE EntrySound
  OBVIOUS
<1>1. ASSUME NEW S, \A x, y \in S : x = y
      PROVE  Cardinality(S) = IF S = {} THEN 0 ELSE 1
  <2>1. CASE S = {}
    BY <2>1, FS_EmptySet
  <2>2. ASSUME NEW x \in S PROVE Cardinality(S) = 1
    <3>1. S = {x}
      BY <1>1, <2>2
    <3> QED
      BY <3>1, FS_Singleton
  <2> QED
    BY <2>1, <2>2
<1>2. NoDoubleEntry
  <2> SUFFICES ASSUME NEW t \in Stock \ erExcused
               PROVE  Cardinality({r \in erRows : r.ticker = t}) <= 1
    BY DEF NoDoubleEntry
  <2>1. \A x, y \in {r \in erRows : r.ticker = t} : x = y
    BY DEF EntryInv, OneRow
  <2>2. Cardinality({r \in erRows : r.ticker = t}) \in {0, 1}
    BY <1>1, <2>1
  <2> QED
    BY <2>2
<1>3. EntryHasItsTrade
  <2> SUFFICES ASSUME NEW t \in Stock \ erExcused
               PROVE  erMade[t] = erBuys[t] + Cardinality(Trading(t))
    BY DEF EntryHasItsTrade, Trading
  <2>1. \A x, y \in Trading(t) : x = y
    BY DEF EntryInv, OneIsRecorded, Recorded, Trading
  <2>2. Cardinality(Trading(t)) = IF Trading(t) = {} THEN 0 ELSE 1
    BY <1>1, <2>1
  <2> QED
    BY <2>2 DEF EntryInv, TradesFollow
<1> QED
  BY <1>2, <1>3 DEF EntrySound

-----------------------------------------------------------------------------
(* The exit tab: the rules, day by day.                                       *)

\* A rule fired on a day that is past or present, and the one that sells what a
\* reversal left has seen the reversal.
FiredBefore ==
    /\ position.exit # NoDay => position.exitDay <= position.today
    /\ position.exit = "Mirror_Full" => position.choch # NoDay

ExitInv == ExitTypeOK /\ FiredBefore

\* The day of the entry.
LEMMA ExitInitOK == ExitInit => ExitInv
BY ExitRulesConstants DEF ExitInit, ExitInv, ExitTypeOK, FiredBefore, Position, Reason

\* The next bar: a rule fires or none does.
LEMMA NextBarOK ==
  ASSUME ExitInv, NEW bar \in Bar, NextBar(bar)
  PROVE  ExitInv'
<1> USE ExitRulesConstants DEF ExitInv, ExitTypeOK, FiredBefore
<1> DEFINE today == position.today + 1
           fired == Fires(bar)
           halves == bar.choch /\ ~bar.floor /\ position.choch = NoDay
           half == IF halves THEN today ELSE position.choch
           trail == position.trail \/ (~bar.floor /\ fired # "Mirror_Full" /\ bar.arms)
           moved == [position EXCEPT !.today = today, !.cross = bar.cross, !.choch = half, !.trail = trail]
<1>1. /\ position.today < LastDay
      /\ position' = IF position.exit # NoDay THEN [position EXCEPT !.today = today]
                     ELSE IF fired = NoDay THEN moved
                     ELSE [moved EXCEPT !.exit = fired, !.exitDay = today]
  BY Zenon DEF NextBar
<1>2. today \in 0..LastDay /\ today = position.today + 1 /\ position.today \in 0..LastDay
  BY <1>1 DEF Position
<1>3. trail \in BOOLEAN /\ bar.cross \in BOOLEAN
  BY Zenon DEF Bar
<1>4. half \in 0..LastDay \cup {NoDay} /\ (halves => half # NoDay) /\ (position.choch # NoDay => half # NoDay)
  BY <1>2 DEF Position
<1>5. fired \in (Reason \ {"Time_Stop"}) \cup {NoDay} /\ (fired = "Mirror_Full" => half # NoDay)
  BY <1>2, <1>4 DEF Fires, Reason, Bar
<1> HIDE DEF trail, half, fired, today
<1>6. /\ moved \in Position /\ moved.today = today /\ moved.exit = position.exit
      /\ moved.exitDay = position.exitDay /\ moved.choch = half
  BY <1>2, <1>3, <1>4 DEF Position
<1> HIDE DEF moved
<1>7. CASE position.exit # NoDay
  BY <1>1, <1>2, <1>7 DEF Position
<1>8. CASE position.exit = NoDay /\ fired = NoDay
  BY <1>1, <1>6, <1>8 DEF Reason
<1>9. CASE position.exit = NoDay /\ fired # NoDay
  <2>1. /\ position' \in Position /\ position'.exit = fired /\ position'.exitDay = today
        /\ position'.today = today /\ position'.choch = half
    BY <1>1, <1>2, <1>5, <1>6, <1>9 DEF Position
  <2> QED
    BY <1>2, <1>5, <1>9, <2>1
<1> QED
  BY <1>7, <1>8, <1>9

\* Every step of a position.
LEMMA ExitStep == ExitInv /\ [ExitNext]_exitVars => ExitInv'
<1>1. ExitInv /\ UNCHANGED exitVars => ExitInv'
  BY DEF ExitInv, exitVars, ExitTypeOK, FiredBefore
<1> QED
  BY <1>1, NextBarOK DEF ExitNext

\* What is announced, founded and listed.
LEMMA ExitInvSound == ExitInv => EverySaleIsAnnounced /\ NoUnfoundedSale /\ ListedOnce
<1> SUFFICES ASSUME ExitInv PROVE EverySaleIsAnnounced /\ NoUnfoundedSale /\ ListedOnce
  OBVIOUS
<1> USE ExitRulesConstants DEF ExitInv, ExitTypeOK, FiredBefore
<1> DEFINE p == position
<1>1. /\ p.today \in Nat /\ p.exit \in (Reason \ {"Time_Stop"}) \cup {NoDay}
      /\ p.exitDay \in Nat \cup {NoDay} /\ p.choch \in Nat \cup {NoDay}
      /\ p.exit # NoDay => p.exitDay \in Nat /\ p.exitDay <= p.today
  BY DEF Position
<1>2. /\ Today.trade_completed <=> p.exit # NoDay /\ p.exitDay < p.today
      /\ Today.atr_floor_triggered <=> p.exit = "ATR_Floor"
      /\ Today.bearish_choch_detected <=> p.choch # NoDay
      /\ Today.ema_death_cross <=> IF SoldToday THEN p.exit = "Mirror_Full" ELSE p.cross
      /\ Today.nearest_exit_reason =
            IF SoldToday THEN (IF p.exit = "Mirror_Full" THEN "Mirror_Partial" ELSE p.exit)
            ELSE IF p.today >= HoldLimit THEN "Time_Stop" ELSE NoDay
  BY Zenon DEF Today, evaluate_current, SoldToday
<1>3. EverySaleIsAnnounced
  BY <1>1, <1>2 DEF EverySaleIsAnnounced, getActiveVerdict, SoldToday, Reason
<1>4. NoUnfoundedSale
  <2> SUFFICES ASSUME ~Today.trade_completed, getActiveVerdict(Today).sellPct = 100, ~SoldToday,
                      evaluate_trade(p) = NoDay
               PROVE  p.choch # NoDay /\ p.cross /\ mirrorTile(Today) = "all sold"
    BY DEF NoUnfoundedSale
  <2>1. p.exit = NoDay
    BY <1>1, <1>2 DEF SoldToday
  <2>2. ~(p.today >= HoldLimit)
    <3> SUFFICES ASSUME p.today >= HoldLimit PROVE FALSE
      OBVIOUS
    <3>1. evaluate_trade(p) = [reason |-> "Time_Stop", day |-> HoldLimit]
      BY <2>1 DEF evaluate_trade
    <3>2. [reason |-> "Time_Stop", day |-> HoldLimit] \in Sale
      BY DEF Sale, Reason
    <3> QED
      BY <3>1, <3>2
  <2>3. Today.bearish_choch_detected /\ Today.ema_death_cross
    BY <1>2, <2>1, <2>2 DEF getActiveVerdict, SoldToday, Reason
  <2> QED
    BY <1>2, <2>3 DEF mirrorTile
<1>5. ListedOnce
  <2> SUFFICES ASSUME ~SoldToday, ~(p.today >= HoldLimit) PROVE Cardinality(rows(p)) = 1
    BY DEF ListedOnce
  <2>1. CASE p.exit = NoDay
    <3>1. evaluate_trade(p) = NoDay /\ ~evaluate_current(p).trade_completed
      BY <1>2, <2>1 DEF evaluate_trade, Today
    <3>2. trade_results(p) = {}
      BY <3>1 DEF trade_results
    <3>3. closedRows(p) = {}
      BY <3>2 DEF closedRows
    <3>4. rows(p) = {[isActive |-> TRUE, reason |-> NoDay, halfSell |-> p.choch # NoDay]}
      BY <3>1, <3>3, Zenon DEF rows
    <3> QED
      BY <3>4, FS_Singleton
  <2>2. CASE p.exit # NoDay
    <3>1. p.exitDay < p.today /\ p.exitDay <= HoldLimit
      BY <1>1, <2>2 DEF SoldToday
    <3> DEFINE e == [reason |-> p.exit, day |-> p.exitDay]
    <3>2. evaluate_trade(p) = e /\ e \in Sale /\ evaluate_current(p).trade_completed
      BY <1>1, <1>2, <2>2, <3>1 DEF evaluate_trade, Sale, Reason, Today
    <3> DEFINE whole == [partial |-> FALSE, day |-> e.day, reason |-> e.reason]
               part1 == IF p.choch # NoDay /\ p.choch < e.day
                        THEN {[partial |-> TRUE, day |-> p.choch, reason |-> "Mirror_Partial"]} ELSE {}
    <3>3. trade_results(p) = {whole} \cup part1
      BY <3>2, Zenon DEF trade_results
    <3>4. ~whole.partial /\ \A t \in part1 : t.partial
      OBVIOUS
    <3> HIDE DEF whole, part1
    <3>5. {t \in trade_results(p) : ~t.partial} = {whole} /\ trade_results(p) # {}
      BY <3>3, <3>4
    <3>6. closedRows(p) = {[isActive |-> FALSE, reason |-> whole.reason, halfSell |-> {whole} # trade_results(p)]}
      BY <3>5 DEF closedRows
    <3>7. rows(p) = closedRows(p)
      BY <3>2, Zenon DEF rows
    <3> QED
      BY <3>6, <3>7, FS_Singleton
  <2> QED
    BY <2>1, <2>2
<1> QED
  BY <1>3, <1>4, <1>5

-----------------------------------------------------------------------------
(* The holdings page: its list is the server's while no answer is owed.     *)

\* The list as the server has it.
ListIs(list) ==
    /\ list \in Listing /\ list[Temp] = NoHeld
    /\ \A h \in Hid : list[h] = IF hpRows[h] = NoHeld THEN NoHeld ELSE hpRows[h].shares

\* While no answer waits that tells of a change, and none was lost, what the server
\* answers SWR with is what it has, and so is the list that is shown, unless an
\* addition is under way or a read.
Told == ~hp.missed /\ \A c \in hpCalls : c.step # "ok"
ListIsRead ==
    Told =>
      /\ hpGet.step = "served" => ListIs(hpGet.rows)
      /\ hpGet = NoGetRunning /\ hp.adding = 0 /\ ShowsList => ListIs(hp.list)

\* A read is dropped for an addition, and the list waits for the latest one, whose
\* request is under way.
AdditionIsWaitedFor ==
    /\ hpGet.step = "dropped" => hp.adding > 0
    /\ hp.adding > 0 => hp.list # NoHeld /\ \E c \in hpCalls : c.op = "add" /\ c.no = hp.adding

\* A dialog opened in quiet, and the edit it sent, know the shares of their holding.
Knows(id, shares) == id \in Hid /\ hpRows[id] # NoHeld /\ hpRows[id].shares = shares
FormsKnow ==
    /\ hp.edit # NoHeld /\ ~hp.edit.hasty => hpCalls = {} /\ Knows(hp.edit.id, hp.edit.shares)
    /\ \A c \in hpCalls : c.op = "edit" /\ c.step = "sent" /\ c.untouched /\ ~c.hasty =>
          hpCalls = {c} /\ Knows(c.id, c.shares)

HoldingsInv == HoldingsTypeOK /\ ListIsRead /\ AdditionIsWaitedFor /\ FormsKnow

\* The page that is opened.
LEMMA HoldingsInitOK == HoldingsInit => HoldingsInv
<1> SUFFICES ASSUME HoldingsInit PROVE HoldingsInv
  OBVIOUS
<1> USE HoldingsPageConstants
<1>1. PICK some \in Opening :
        hpRows = [h \in Hid |-> IF h \in some THEN [shares |-> MaxHeld, sold |-> FALSE] ELSE NoHeld]
  BY DEF HoldingsInit
<1>2. [shares |-> MaxHeld, sold |-> FALSE] \in HeldRow
  <2>1. MaxHeld \in Held
    BY DEF Held
  <2> QED
    BY <2>1, Zenon DEF HeldRow
<1>3. hpRows \in [Hid -> HeldRow \cup {NoHeld}]
  BY <1>1, <1>2
<1>4. hp \in HoldingsState
  BY DEF HoldingsInit, HoldingsState
<1>5. hpGet \in [step: {"none", "sent", "served", "dropped"}, rows: Listing] /\ hpSent \in 0..MaxSends
  BY DEF HoldingsInit, GetSent, Nothing, Listing
<1>6. HoldingsTypeOK
  BY <1>3, <1>4, <1>5 DEF HoldingsInit, HoldingsTypeOK
<1>7. ListIsRead /\ AdditionIsWaitedFor /\ FormsKnow
  BY DEF HoldingsInit, ListIsRead, AdditionIsWaitedFor, FormsKnow, GetSent, NoGetRunning, ShowsList
<1> QED
  BY <1>6, <1>7 DEF HoldingsInv

\* What a request that is sent leaves of those before it, and what it is itself.
Sends(op, id, shares, form) ==
    /\ hpSent' = hpSent + 1 /\ hpSent' \in 0..MaxSends
    /\ hpCalls' \subseteq HoldingsCall /\ \A c \in hpCalls' : c.no <= hpSent'
    /\ \A c \in hpCalls : \E k \in hpCalls' : k.op = c.op /\ k.no = c.no /\ k.step = c.step /\ k.hasty
    /\ \E k \in hpCalls' : k.op = op /\ k.no = hpSent + 1
    /\ \A k \in hpCalls' : ~k.hasty =>
          /\ k.op = op /\ k.id = id /\ k.shares = shares /\ hpCalls' = {k} /\ hpCalls = {}
          /\ k.untouched = (form # NoHeld /\ form.shares = shares) /\ (form # NoHeld => ~form.hasty)
    /\ (\A c \in hpCalls' : c.step # "ok") => \A c \in hpCalls : c.step # "ok"

\* Every request is sent so.
LEMMA SendOK ==
  ASSUME HoldingsTypeOK, NEW op \in {"add", "edit", "sell", "delete"}, NEW id \in Hid \cup {Temp},
         NEW shares \in Held, NEW form \in Form \cup {NoHeld}, Send(op, id, shares, form)
  PROVE  Sends(op, id, shares, form)
<1> DEFINE late(c) == [c EXCEPT !.hasty = TRUE]
           same == form # NoHeld /\ form.shares = shares
           hurry == hpCalls # {} \/ (form # NoHeld /\ form.hasty)
           new == [no |-> hpSent + 1, op |-> op, id |-> id, shares |-> shares, step |-> "sent",
                   untouched |-> same, hasty |-> hurry]
<1>1. /\ hpSent \in Nat /\ hpSent + 1 \in 1..MaxSends /\ hpSent' = hpSent + 1
      /\ hpCalls' = {late(c) : c \in hpCalls} \cup {new}
  BY HoldingsPageConstants DEF HoldingsTypeOK, Send
<1>2. same \in BOOLEAN /\ hurry \in BOOLEAN
  <2>1. form # NoHeld => form.hasty \in BOOLEAN
    BY Zenon DEF Form
  <2> QED
    BY <2>1, Zenon
<1>3. /\ ~hurry => hpCalls = {} /\ (form # NoHeld => ~form.hasty)
      /\ same = (form # NoHeld /\ form.shares = shares)
  OBVIOUS
<1> HIDE DEF same, hurry
<1>4. new \in HoldingsCall
  BY <1>1, <1>2, Zenon DEF HoldingsCall
<1>5. ASSUME NEW c \in hpCalls
      PROVE  /\ late(c) \in HoldingsCall /\ late(c).hasty /\ late(c).op = c.op /\ late(c).no = c.no
             /\ late(c).step = c.step /\ c.no <= hpSent /\ c.no \in Nat
  <2>1. c \in HoldingsCall /\ c.no <= hpSent
    BY DEF HoldingsTypeOK
  <2>2. late(c) \in HoldingsCall /\ late(c).hasty
    <3>1. TRUE \in BOOLEAN
      OBVIOUS
    <3>2. late(c) \in HoldingsCall
      BY <2>1, <3>1, Zenon DEF HoldingsCall
    <3>3. late(c).hasty
      BY <2>1, Zenon DEF HoldingsCall
    <3> QED
      BY <3>2, <3>3
  <2>3. late(c).op = c.op /\ late(c).no = c.no /\ late(c).step = c.step /\ c.no \in Nat
    BY <2>1 DEF HoldingsCall
  <2> QED
    BY <2>1, <2>2, <2>3
<1>6. new.no = hpSent + 1 /\ new.op = op /\ new.id = id /\ new.shares = shares /\ new.step = "sent"
      /\ new.untouched = same /\ new.hasty = hurry
  BY Zenon
<1> HIDE DEF new, late
<1>7. hpCalls' \subseteq HoldingsCall /\ \A c \in hpCalls' : c.no <= hpSent'
  BY <1>1, <1>4, <1>5, <1>6
<1>8. \A k \in hpCalls' : ~k.hasty => k = new /\ ~hurry /\ hpCalls' = {new}
  BY <1>1, <1>3, <1>5, <1>6
<1>9. hpSent' \in 0..MaxSends
  BY <1>1
<1>10. \A c \in hpCalls : \E k \in hpCalls' : k.op = c.op /\ k.no = c.no /\ k.step = c.step /\ k.hasty
  BY <1>1, <1>5
<1>11. \A k \in hpCalls' : ~k.hasty =>
          /\ k.op = op /\ k.id = id /\ k.shares = shares /\ hpCalls' = {k} /\ hpCalls = {}
          /\ k.untouched = (form # NoHeld /\ form.shares = shares) /\ (form # NoHeld => ~form.hasty)
  BY <1>3, <1>6, <1>8
<1>12. (\A c \in hpCalls' : c.step # "ok") => \A c \in hpCalls : c.step # "ok"
  BY <1>10
<1>13. new \in hpCalls'
  BY <1>1
<1> QED
  BY <1>1, <1>6, <1>7, <1>9, <1>10, <1>11, <1>12, <1>13 DEF Sends

\* A form that is hurried is none for the invariant.
LEMMA HurriedOK ==
  ASSUME NEW form \in Form \cup {NoHeld}
  PROVE  Hurried(form) \in Form \cup {NoHeld} /\ (Hurried(form) # NoHeld => Hurried(form).hasty)
BY HoldingsPageConstants DEF Hurried, Form

\* What a request leaves of the invariant: it says nothing of the server, and a form or
\* an edit that knows its holding is the only one.
LEMMA SubmitOK ==
  ASSUME HoldingsInv, NEW op \in {"add", "edit", "sell", "delete"}, NEW id \in Hid \cup {Temp},
         NEW shares \in Held, NEW form \in Form \cup {NoHeld}, Sends(op, id, shares, form),
         op = "edit" => form = hp.edit /\ form # NoHeld /\ id = form.id,
         hpRows' = hpRows, hp' \in HoldingsState,
         hp'.list = hp.list /\ hp'.failed = hp.failed /\ hp'.missed = hp.missed,
         hp'.edit # NoHeld => hp'.edit.hasty,
         \/ hp'.adding = hp.adding /\ hpGet' = hpGet
         \/ /\ op = "add" /\ ShowsList /\ hp'.adding = hpSent + 1
            /\ hpGet' = hpGet \/ hpGet' = [GetSent EXCEPT !.step = "dropped"]
  PROVE  HoldingsInv'
<1>1. HoldingsTypeOK'
  <2>1. hpGet' \in [step: {"none", "sent", "served", "dropped"}, rows: Listing]
    BY DEF HoldingsInv, HoldingsTypeOK, GetSent, Nothing, Listing
  <2> QED
    BY <2>1 DEF Sends, HoldingsInv, HoldingsTypeOK
<1>2. hpSent + 1 > 0
  BY HoldingsPageConstants DEF HoldingsInv, HoldingsTypeOK
<1>3. ListIsRead'
  <2>1. Told' => Told
    BY DEF Sends, Told
  <2>2. ListIs(hpGet.rows)' = ListIs(hpGet'.rows) /\ ListIs(hp.list)' = ListIs(hp.list)
    BY DEF ListIs
  <2>3. ASSUME hpGet' = hpGet, hp'.adding = 0 => hp.adding = 0 PROVE ListIsRead'
    BY <2>1, <2>2, <2>3 DEF ListIsRead, HoldingsInv, ShowsList, ListIs
  <2>4. CASE hpGet' = [GetSent EXCEPT !.step = "dropped"]
    BY <2>4 DEF ListIsRead, GetSent, NoGetRunning
  <2> QED
    BY <1>2, <2>3, <2>4
<1>4. AdditionIsWaitedFor'
  <2>1. CASE hp'.adding = hp.adding /\ hpGet' = hpGet
    BY <2>1 DEF AdditionIsWaitedFor, HoldingsInv, Sends
  <2>2. CASE hp'.adding = hpSent + 1 /\ op = "add" /\ ShowsList
    BY <1>2, <2>2 DEF AdditionIsWaitedFor, Sends, ShowsList
  <2> QED
    BY <2>1, <2>2
<1>5. FormsKnow'
  <2>1. hp'.edit # NoHeld => hp'.edit.hasty
    OBVIOUS
  <2>2. ASSUME NEW k \in hpCalls', k.op = "edit", k.untouched, ~k.hasty
        PROVE  hpCalls' = {k} /\ Knows(k.id, k.shares)
    BY <2>2 DEF Sends, FormsKnow, HoldingsInv
  <2>3. \A i, n : Knows(i, n)' <=> i \in Hid /\ hpRows[i] # NoHeld /\ hpRows[i].shares = n
    BY DEF Knows
  <2> QED
    BY <2>1, <2>2, <2>3 DEF FormsKnow, Knows
<1> QED
  BY <1>1, <1>3, <1>4, <1>5 DEF HoldingsInv

\* The dialogs and the buttons that send.
LEMMA SendSteps ==
  ASSUME HoldingsInv,
         \/ handleAddHolding
         \/ \E h \in Hid \cup {Temp} : handleDelete(h)
         \/ \E n \in Held : SubmitEdit(n) \/ SubmitSell(n)
  PROVE  HoldingsInv'
<1>1. hp \in HoldingsState /\ HoldingsTypeOK /\ 1 \in Held /\ NoHeld \in Form \cup {NoHeld}
      /\ Temp \in Hid \cup {Temp}
  BY HoldingsPageConstants DEF HoldingsInv, HoldingsTypeOK, Held
<1>2. /\ Hurried(hp.edit) \in Form \cup {NoHeld} /\ Hurried(hp.sell) \in Form \cup {NoHeld}
      /\ Hurried(hp.edit) # NoHeld => Hurried(hp.edit).hasty
  BY <1>1, HurriedOK DEF HoldingsState
<1>3. CASE handleAddHolding
  <2>1. Sends("add", Temp, 1, NoHeld)
    BY <1>1, <1>3, SendOK DEF handleAddHolding
  <2>2. /\ hp' \in HoldingsState /\ hp'.list = hp.list /\ hp'.failed = hp.failed /\ hp'.missed = hp.missed
        /\ hp'.edit = Hurried(hp.edit) /\ hp'.adding = hpSent + 1
    <3>1. hpSent + 1 \in 0..MaxSends
      BY <2>1 DEF Sends
    <3> QED
      BY <1>1, <1>2, <1>3, <3>1 DEF handleAddHolding, HoldingsState
  <2>3. ShowsList /\ hpRows' = hpRows /\ (hpGet' = hpGet \/ hpGet' = [GetSent EXCEPT !.step = "dropped"])
    BY <1>3 DEF handleAddHolding
  <2> QED
    BY <1>1, <1>2, <2>1, <2>2, <2>3, SubmitOK
<1>4. ASSUME NEW h \in Hid \cup {Temp}, handleDelete(h) PROVE HoldingsInv'
  <2>1. Shown(h) \in Held
    BY <1>1, <1>4 DEF handleDelete, Listed, Shown, ShowsList, HoldingsState, Listing
  <2>2. Sends("delete", h, Shown(h), NoHeld)
    BY <1>1, <1>4, <2>1, SendOK DEF handleDelete
  <2>3. /\ hp' \in HoldingsState /\ hp'.list = hp.list /\ hp'.failed = hp.failed /\ hp'.missed = hp.missed
        /\ hp'.edit = Hurried(hp.edit) /\ hp'.adding = hp.adding /\ hpGet' = hpGet /\ hpRows' = hpRows
    BY <1>1, <1>2, <1>4 DEF handleDelete, HoldingsState
  <2> QED
    BY <1>1, <1>2, <2>1, <2>2, <2>3, SubmitOK
<1>5. ASSUME NEW n \in Held, SubmitEdit(n) PROVE HoldingsInv'
  <2>1. hp.edit \in Form \cup {NoHeld} /\ hp.edit # NoHeld /\ hp.edit.id \in Hid \cup {Temp}
    BY <1>1, <1>5 DEF SubmitEdit, HoldingsState, Form
  <2>2. Sends("edit", hp.edit.id, n, hp.edit)
    BY <1>1, <1>5, <2>1, SendOK DEF SubmitEdit
  <2>3. TRUE \in BOOLEAN
    OBVIOUS
  <2>4. /\ hp' \in HoldingsState /\ hp'.list = hp.list /\ hp'.failed = hp.failed /\ hp'.missed = hp.missed
        /\ hp'.edit = Hurried(hp.edit) /\ hp'.adding = hp.adding /\ hpGet' = hpGet /\ hpRows' = hpRows
    BY <1>1, <1>2, <1>5, <2>3 DEF SubmitEdit, HoldingsState
  <2> QED
    BY <1>1, <1>2, <2>1, <2>2, <2>4, SubmitOK
<1>6. ASSUME NEW n \in Held, SubmitSell(n) PROVE HoldingsInv'
  <2>1. hp.sell # NoHeld /\ hp.sell.id \in Hid \cup {Temp}
    BY <1>1, <1>6 DEF SubmitSell, HoldingsState, Form
  <2>2. Sends("sell", hp.sell.id, n, NoHeld)
    BY <1>1, <1>6, <2>1, SendOK DEF SubmitSell
  <2>3. TRUE \in BOOLEAN
    OBVIOUS
  <2>4. /\ hp' \in HoldingsState /\ hp'.list = hp.list /\ hp'.failed = hp.failed /\ hp'.missed = hp.missed
        /\ hp'.edit = Hurried(hp.edit) /\ hp'.adding = hp.adding /\ hpGet' = hpGet /\ hpRows' = hpRows
    BY <1>1, <1>2, <1>6, <2>3 DEF SubmitSell, HoldingsState
  <2> QED
    BY <1>1, <1>2, <2>1, <2>2, <2>4, SubmitOK
<1> QED
  BY <1>3, <1>4, <1>5, <1>6

\* While nothing is on its way, the list that is shown is the server's, and nobody
\* waits for an addition.
LEMMA QuietOK ==
  ASSUME HoldingsInv, Quiet, ShowsList
  PROVE  hp.adding = 0 /\ hpCalls = {} /\ ListIs(hp.list)
<1>1. hpCalls = {} /\ hpGet = NoGetRunning /\ ~hp.missed
  BY DEF Quiet
<1>2. hp.adding \in Nat
  BY HoldingsPageConstants DEF HoldingsInv, HoldingsTypeOK, HoldingsState
<1>3. hp.adding = 0
  BY <1>1, <1>2 DEF HoldingsInv, AdditionIsWaitedFor
<1> QED
  BY <1>1, <1>3 DEF HoldingsInv, ListIsRead, Told

\* A dialog is opened or closed.
LEMMA FormSteps ==
  ASSUME HoldingsInv,
         CloseEdit \/ CloseSell \/ \E h \in Hid \cup {Temp} : OpenEdit(h) \/ OpenSell(h)
  PROVE  HoldingsInv'
<1>1. hp \in HoldingsState /\ HoldingsTypeOK /\ NoHeld \in Form \cup {NoHeld}
  BY DEF HoldingsInv, HoldingsTypeOK
<1>2. ASSUME hpRows' = hpRows, hpGet' = hpGet, hpCalls' = hpCalls, hpSent' = hpSent, hp' \in HoldingsState,
             hp'.list = hp.list /\ hp'.failed = hp.failed /\ hp'.missed = hp.missed /\ hp'.adding = hp.adding,
             \/ hp'.edit \in {hp.edit, NoHeld}
             \/ ~hp'.edit.hasty => hpCalls = {} /\ Knows(hp'.edit.id, hp'.edit.shares)
      PROVE  HoldingsInv'
  <2>1. HoldingsTypeOK'
    BY <1>1, <1>2 DEF HoldingsTypeOK
  <2>2. ListIsRead' /\ AdditionIsWaitedFor'
    BY <1>2 DEF HoldingsInv, ListIsRead, Told, ShowsList, ListIs, AdditionIsWaitedFor
  <2>3. FormsKnow'
    BY <1>2 DEF HoldingsInv, FormsKnow, Knows
  <2> QED
    BY <2>1, <2>2, <2>3 DEF HoldingsInv
<1>3. CASE CloseEdit
  <2>1. hp' \in HoldingsState /\ hp'.edit = NoHeld /\ hp'.list = hp.list /\ hp'.failed = hp.failed
        /\ hp'.missed = hp.missed /\ hp'.adding = hp.adding
    BY <1>1, <1>3 DEF CloseEdit, HoldingsState
  <2> QED
    BY <1>2, <1>3, <2>1 DEF CloseEdit
<1>4. CASE CloseSell
  <2>1. hp' \in HoldingsState /\ hp'.edit = hp.edit /\ hp'.list = hp.list /\ hp'.failed = hp.failed
        /\ hp'.missed = hp.missed /\ hp'.adding = hp.adding
    BY <1>1, <1>4 DEF CloseSell, HoldingsState
  <2> QED
    BY <1>2, <1>4, <2>1 DEF CloseSell
<1>5. ASSUME NEW h \in Hid \cup {Temp}, ShowsList, h \in Listed
      PROVE  /\ [id |-> h, shares |-> Shown(h), hasty |-> ~Quiet] \in Form
             /\ Quiet => Knows(h, Shown(h))
  <2>1. Shown(h) \in Held
    BY <1>1, <1>5, HoldingsPageConstants DEF Listed, Shown, ShowsList, HoldingsState, Listing, Held
  <2>2. (~Quiet) \in BOOLEAN
    BY Zenon
  <2>3. [id |-> h, shares |-> Shown(h), hasty |-> ~Quiet] \in Form
    BY <2>1, <2>2, Zenon DEF Form
  <2>4. ASSUME Quiet PROVE Knows(h, Shown(h))
    <3>1. hp.adding = 0 /\ ListIs(hp.list)
      BY <1>5, <2>4, QuietOK
    <3>2. Shown(h) = hp.list[h] /\ hp.list[h] # NoHeld
      BY <1>5, <3>1 DEF Listed, Shown
    <3> QED
      BY <3>1, <3>2 DEF ListIs, Knows
  <2> QED
    BY <2>3, <2>4
<1>6. ASSUME NEW h \in Hid \cup {Temp}, OpenEdit(h) PROVE HoldingsInv'
  <2> DEFINE form == [id |-> h, shares |-> Shown(h), hasty |-> ~Quiet]
  <2>1. form \in Form /\ (Quiet => Knows(h, Shown(h))) /\ hp' = [hp EXCEPT !.edit = form]
    BY <1>5, <1>6 DEF OpenEdit
  <2>2. form.id = h /\ form.shares = Shown(h) /\ (~form.hasty => Quiet)
    BY Zenon
  <2> HIDE DEF form
  <2>3. hp' \in HoldingsState /\ hp'.edit = form /\ hp'.list = hp.list /\ hp'.failed = hp.failed
        /\ hp'.missed = hp.missed /\ hp'.adding = hp.adding
    BY <1>1, <2>1 DEF HoldingsState
  <2>4. ~hp'.edit.hasty => hpCalls = {} /\ Knows(hp'.edit.id, hp'.edit.shares)
    BY <2>1, <2>2, <2>3 DEF Quiet
  <2> QED
    BY <1>2, <1>6, <2>3, <2>4 DEF OpenEdit
<1>7. ASSUME NEW h \in Hid \cup {Temp}, OpenSell(h) PROVE HoldingsInv'
  <2> DEFINE form == [id |-> h, shares |-> Shown(h), hasty |-> ~Quiet]
  <2>1. form \in Form /\ hp' = [hp EXCEPT !.sell = form]
    BY <1>5, <1>7 DEF OpenSell
  <2> HIDE DEF form
  <2>2. hp' \in HoldingsState /\ hp'.edit = hp.edit /\ hp'.list = hp.list /\ hp'.failed = hp.failed
        /\ hp'.missed = hp.missed /\ hp'.adding = hp.adding
    BY <1>1, <2>1 DEF HoldingsState
  <2> QED
    BY <1>2, <1>7, <2>2 DEF OpenSell
<1> QED
  BY <1>3, <1>4, <1>6, <1>7

\* A row of the server after a request that took effect.
Served(c, k) ==
    /\ c.step = "sent" /\ hp' = hp /\ hpGet' = hpGet /\ hpSent' = hpSent
    /\ hpCalls' = (hpCalls \ {c}) \cup {k}
    /\ k \in HoldingsCall /\ k.op = c.op /\ k.no = c.no /\ k.step \in {"ok", "error"}
    /\ k.step = "error" => hpRows' = hpRows
    /\ hpRows' = hpRows \/ (c.op = "edit" /\ hpRows[c.id] # NoHeld /\ c.id \in Hid
                             /\ hpRows' = [hpRows EXCEPT ![c.id].shares = c.shares])
       \/ c.op \in {"add", "sell", "delete"}

\* Every request that is served is served so.
LEMMA ServeOK ==
  ASSUME HoldingsTypeOK, NEW c \in hpCalls, Serve(c)
  PROVE  hpRows' \in [Hid -> HeldRow \cup {NoHeld}] /\ \E k : Served(c, k)
<1> DEFINE row == IF c.id = Temp THEN NoHeld ELSE hpRows[c.id]
           ok == [c EXCEPT !.step = "ok"]
           error == [c EXCEPT !.step = "error"]
<1>1. /\ c \in HoldingsCall /\ c.shares \in Held /\ c.id \in Hid \cup {Temp} /\ c.step = "sent"
      /\ hp' = hp /\ hpGet' = hpGet /\ hpSent' = hpSent
  BY DEF Serve, HoldingsTypeOK, HoldingsCall
<1>2. /\ ok \in HoldingsCall /\ ok.op = c.op /\ ok.no = c.no /\ ok.step = "ok"
      /\ error \in HoldingsCall /\ error.op = c.op /\ error.no = c.no /\ error.step = "error"
  BY <1>1 DEF HoldingsCall
<1>3. row # NoHeld => c.id \in Hid /\ row = hpRows[c.id] /\ row \in HeldRow
  BY <1>1 DEF HoldingsTypeOK
<1>4. CASE c.op = "add" /\ \E h \in Hid :
              /\ hpRows[h] = NoHeld
              /\ hpRows' = [hpRows EXCEPT ![h] = [shares |-> c.shares, sold |-> FALSE]]
              /\ hpCalls' = (hpCalls \ {c}) \cup {[c EXCEPT !.step = "ok", !.id = h]}
  <2>1. PICK h \in Hid :
              /\ hpRows' = [hpRows EXCEPT ![h] = [shares |-> c.shares, sold |-> FALSE]]
              /\ hpCalls' = (hpCalls \ {c}) \cup {[c EXCEPT !.step = "ok", !.id = h]}
    BY <1>4
  <2> DEFINE k == [c EXCEPT !.step = "ok", !.id = h]
             new == [shares |-> c.shares, sold |-> FALSE]
  <2>2. FALSE \in BOOLEAN
    OBVIOUS
  <2>3. new \in HeldRow
    BY <1>1, <2>2, Zenon DEF HeldRow
  <2>4. k \in HoldingsCall /\ k.op = c.op /\ k.no = c.no /\ k.step = "ok"
    BY <1>1 DEF HoldingsCall
  <2> HIDE DEF k, new
  <2>5. hpRows' \in [Hid -> HeldRow \cup {NoHeld}]
    BY <2>1, <2>3 DEF new, HoldingsTypeOK
  <2>6. Served(c, k)
    BY <1>1, <1>4, <2>1, <2>4 DEF k, Served
  <2> QED
    BY <2>5, <2>6
<1>5. CASE c.op = "edit" /\ row # NoHeld /\ hpRows' = [hpRows EXCEPT ![c.id].shares = c.shares]
           /\ hpCalls' = (hpCalls \ {c}) \cup {ok}
  <2>1. hpRows' \in [Hid -> HeldRow \cup {NoHeld}]
    <3>1. [row EXCEPT !.shares = c.shares] \in HeldRow
      BY <1>1, <1>3, <1>5 DEF HeldRow
    <3>2. hpRows' = [hpRows EXCEPT ![c.id] = [row EXCEPT !.shares = c.shares]]
      BY <1>3, <1>5 DEF HoldingsTypeOK
    <3> HIDE DEF row
    <3> QED
      BY <1>3, <1>5, <3>1, <3>2 DEF HoldingsTypeOK
  <2>2. c.id \in Hid /\ hpRows[c.id] # NoHeld
    BY <1>3, <1>5
  <2> HIDE DEF row, ok
  <2>3. Served(c, ok)
    BY <1>1, <1>2, <1>5, <2>2 DEF Served
  <2> QED
    BY <2>1, <2>3
<1>6. CASE /\ c.op = "sell" /\ row # NoHeld /\ c.shares < row.shares
           /\ hpRows' = [hpRows EXCEPT ![c.id] = [shares |-> @.shares - c.shares, sold |-> TRUE]]
           /\ hpCalls' = (hpCalls \ {c}) \cup {ok}
  <2> DEFINE left == [shares |-> hpRows[c.id].shares - c.shares, sold |-> TRUE]
  <2>1. TRUE \in BOOLEAN
    OBVIOUS
  <2>2. hpRows[c.id].shares - c.shares \in Held
    BY <1>1, <1>3, <1>6, HoldingsPageConstants DEF HeldRow, Held
  <2>3. left \in HeldRow
    BY <2>1, <2>2, Zenon DEF HeldRow
  <2>4. hpRows' = [hpRows EXCEPT ![c.id] = left]
    BY <1>6
  <2> HIDE DEF row, ok, left
  <2>5. hpRows' \in [Hid -> HeldRow \cup {NoHeld}]
    BY <1>3, <1>6, <2>3, <2>4 DEF HoldingsTypeOK
  <2>6. Served(c, ok)
    BY <1>1, <1>2, <1>6 DEF Served
  <2> QED
    BY <2>5, <2>6
<1>7. CASE /\ c.op = "delete" /\ row # NoHeld /\ hpRows' = [hpRows EXCEPT ![c.id] = NoHeld]
           /\ hpCalls' = (hpCalls \ {c}) \cup {ok}
  <2> HIDE DEF row, ok
  <2>1. hpRows' \in [Hid -> HeldRow \cup {NoHeld}]
    BY <1>3, <1>7 DEF HoldingsTypeOK
  <2>2. Served(c, ok)
    BY <1>1, <1>2, <1>7 DEF Served
  <2> QED
    BY <2>1, <2>2
<1>8. CASE hpRows' = hpRows /\ hpCalls' = (hpCalls \ {c}) \cup {error}
  <2> HIDE DEF row, error
  <2>1. Served(c, error)
    BY <1>1, <1>2, <1>8 DEF Served
  <2> QED
    BY <1>8, <2>1 DEF HoldingsTypeOK
<1> QED
  BY <1>4, <1>5, <1>6, <1>7, <1>8 DEF Serve

\* A request is served: a holding somebody knows is not changed unless by its own edit,
\* and what was read is not told of.
LEMMA ServeStep ==
  ASSUME HoldingsInv, NEW c \in hpCalls, Serve(c)
  PROVE  HoldingsInv'
<1>1. PICK k : Served(c, k)
  BY ServeOK DEF HoldingsInv
<1>2. hp' = hp /\ hpGet' = hpGet /\ hpCalls' = (hpCalls \ {c}) \cup {k} /\ k.op = c.op /\ k.no = c.no
  BY <1>1 DEF Served
<1>3. HoldingsTypeOK'
  <2>1. hpRows' \in [Hid -> HeldRow \cup {NoHeld}]
    BY ServeOK DEF HoldingsInv
  <2> QED
    BY <1>1, <2>1 DEF Served, HoldingsInv, HoldingsTypeOK
<1>4. ListIsRead'
  <2>1. CASE k.step = "ok"
    BY <1>2, <2>1 DEF ListIsRead, Told
  <2>2. CASE k.step = "error"
    <3>1. hpRows' = hpRows /\ (Told' => Told)
      BY <1>1, <1>2, <2>2 DEF Served, Told
    <3> QED
      BY <1>2, <3>1 DEF ListIsRead, HoldingsInv, ShowsList, ListIs
  <2> QED
    BY <1>1, <2>1, <2>2 DEF Served
<1>5. AdditionIsWaitedFor'
  BY <1>2 DEF AdditionIsWaitedFor, HoldingsInv
<1>6. FormsKnow'
  <2>1. hp.edit # NoHeld => hp.edit.hasty
    BY DEF HoldingsInv, FormsKnow
  <2>2. ASSUME NEW j \in hpCalls', j.op = "edit", j.step = "sent", j.untouched, ~j.hasty
        PROVE  FALSE
    BY <1>1, <2>2 DEF Served, HoldingsInv, FormsKnow
  <2> QED
    BY <1>2, <2>1, <2>2 DEF FormsKnow
<1> QED
  BY <1>3, <1>4, <1>5, <1>6 DEF HoldingsInv

\* An answer that arrives, or is lost.
LEMMA AnswerHeldSteps ==
  ASSUME HoldingsInv, NEW c \in hpCalls, AnswerLost(c) \/ Added(c) \/ Edited(c) \/ Sold(c) \/ Deleted(c)
  PROVE  HoldingsInv'
<1>1. /\ hp \in HoldingsState /\ HoldingsTypeOK /\ c \in HoldingsCall /\ NoHeld \in Form \cup {NoHeld}
      /\ hpGet \in [step: {"none", "sent", "served", "dropped"}, rows: Listing]
      /\ GetSent \in [step: {"none", "sent", "served", "dropped"}, rows: Listing]
  BY DEF HoldingsInv, HoldingsTypeOK, GetSent, Nothing, Listing
<1>2. /\ GetSent.step = "sent" /\ GetSent # NoGetRunning
      /\ TRUE \in BOOLEAN /\ FALSE \in BOOLEAN
  BY DEF GetSent, NoGetRunning
<1>3. hpRows' = hpRows /\ hpSent' = hpSent
  BY DEF AnswerLost, Added, Edited, Sold, Deleted
\* The call that is answered, or one that only lost its answer, is no edit to be served.
<1>4. /\ hpCalls' \subseteq HoldingsCall /\ \A j \in hpCalls' : j.no <= hpSent
      /\ \A j \in hpCalls' : j.step = "sent" => j \in hpCalls /\ j # c
  <2>1. CASE AnswerLost(c)
    <3>1. LET k == [c EXCEPT !.step = "error"] IN k \in HoldingsCall /\ k.no = c.no /\ k.step = "error"
      BY <1>1 DEF HoldingsCall
    <3> QED
      BY <1>1, <2>1, <3>1 DEF AnswerLost, HoldingsTypeOK
  <2>2. CASE Added(c) \/ Edited(c) \/ Sold(c) \/ Deleted(c)
    BY <1>1, <2>2 DEF HoldingsTypeOK, Added, Edited, Sold, Deleted
  <2> QED
    BY <2>1, <2>2
<1>5. hp' \in HoldingsState /\ hp'.edit \in {hp.edit, NoHeld} /\ hp'.failed = hp.failed
  <2>1. CASE AnswerLost(c)
    BY <1>1, <1>2, <2>1 DEF AnswerLost, HoldingsState
  <2>2. CASE Added(c) /\ hp.adding = c.no
    <3> DEFINE l == IF c.step = "ok" THEN [hp.list EXCEPT ![c.id] = c.shares] ELSE hp.list
    <3>1. l \in Listing \cup {NoHeld}
      <4>1. hp.adding > 0
        BY <1>1, <2>2 DEF HoldingsCall
      <4>2. hp.list \in Listing
        BY <1>1, <4>1 DEF HoldingsInv, AdditionIsWaitedFor, HoldingsState
      <4>3. c.id \in Hid \cup {Temp} /\ c.shares \in Held
        BY <1>1 DEF HoldingsCall
      <4> QED
        BY <4>2, <4>3 DEF Listing
    <3>2. hp' = [hp EXCEPT !.adding = 0, !.list = l]
      BY <2>2 DEF Added
    <3>3. 0 \in 0..MaxSends
      BY HoldingsPageConstants
    <3> HIDE DEF l
    <3> QED
      BY <1>1, <3>1, <3>2, <3>3 DEF HoldingsState
  <2>3. CASE Added(c) /\ hp.adding # c.no
    BY <1>1, <1>2, <2>3 DEF Added, HoldingsState
  <2>4. CASE Edited(c)
    BY <1>1, <1>2, <2>4, ZenonT(60) DEF Edited, HoldingsState
  <2>5. CASE Sold(c)
    BY <1>1, <1>2, <2>5, ZenonT(60) DEF Sold, HoldingsState
  <2>6. CASE Deleted(c)
    BY <1>1, <2>6 DEF Deleted
  <2> QED
    BY <2>1, <2>2, <2>3, <2>4, <2>5, <2>6
<1>6. hpGet' \in {hpGet, GetSent}
  BY DEF AnswerLost, Added, Edited, Sold, Deleted
<1>7. HoldingsTypeOK'
  BY <1>1, <1>3, <1>4, <1>5, <1>6 DEF HoldingsTypeOK
<1>8. ListIsRead'
  <2>1. CASE hpGet' = GetSent
    BY <1>2, <2>1 DEF ListIsRead
  <2>2. CASE AnswerLost(c) \/ (Added(c) /\ hp.adding # c.no)
    <3>1. hp'.missed
      BY <1>1, <2>2, Zenon DEF AnswerLost, Added, HoldingsState
    <3> QED
      BY <3>1 DEF ListIsRead, Told
  <2>3. CASE ~(AnswerLost(c) \/ Added(c)) /\ hpGet' = hpGet /\ hpGet # GetSent
    <3>1. c.step # "ok" /\ hpCalls' = hpCalls \ {c}
      BY <2>3, <1>1, <1>2 DEF Edited, Sold, Deleted, HoldingsCall
    <3>2. hp'.list = hp.list /\ hp'.adding = hp.adding /\ hp'.missed = hp.missed
      BY <1>1, <1>2, <2>3 DEF Edited, Sold, Deleted, HoldingsState
    <3>3. Told' => Told
      BY <3>1, <3>2 DEF Told
    <3> QED
      BY <1>3, <1>5, <2>3, <3>2, <3>3 DEF ListIsRead, HoldingsInv, ShowsList, ListIs
  <2>4. Added(c) /\ hp.adding = c.no => hpGet' = GetSent
    BY DEF Added
  <2> QED
    BY <1>6, <2>1, <2>2, <2>3, <2>4
<1>9. AdditionIsWaitedFor'
  <2>1. CASE Added(c) /\ hp.adding = c.no
    <3>1. hpGet' = GetSent /\ hp'.adding = 0
      BY <1>1, <2>1 DEF Added, HoldingsState
    <3> QED
      BY <1>2, <3>1 DEF AdditionIsWaitedFor
  <2>2. CASE ~(Added(c) /\ hp.adding = c.no)
    <3>1. hp'.adding = hp.adding /\ hp'.list = hp.list
      BY <1>1, <1>2, <2>2 DEF AnswerLost, Added, Edited, Sold, Deleted, HoldingsState
    <3>2. \A j \in hpCalls : j.op = "add" /\ j.no = hp.adding => \E i \in hpCalls' : i.op = "add" /\ i.no = hp.adding
      <4>1. LET k == [c EXCEPT !.step = "error"] IN k.op = c.op /\ k.no = c.no
        BY <1>1 DEF HoldingsCall
      <4> QED
        BY <2>2, <4>1, ZenonT(60) DEF AnswerLost, Added, Edited, Sold, Deleted
    <3> QED
      BY <1>2, <1>6, <3>1, <3>2 DEF AdditionIsWaitedFor, HoldingsInv
  <2> QED
    BY <2>1, <2>2
<1>10. FormsKnow'
  <2>1. hp'.edit # NoHeld => hp'.edit.hasty
    BY <1>5 DEF HoldingsInv, FormsKnow
  <2>2. ASSUME NEW j \in hpCalls', j.op = "edit", j.step = "sent", j.untouched, ~j.hasty
        PROVE  FALSE
    BY <1>4, <2>2 DEF HoldingsInv, FormsKnow
  <2> QED
    BY <2>1, <2>2 DEF FormsKnow
<1> QED
  BY <1>7, <1>8, <1>9, <1>10 DEF HoldingsInv

\* SWR reads the list.
LEMMA ListSteps ==
  ASSUME HoldingsInv, Refresh \/ InitServed \/ ListArrives \/ ListNotRead \/ RetryList
  PROVE  HoldingsInv'
<1>1. /\ hp \in HoldingsState /\ HoldingsTypeOK
      /\ hpGet \in [step: {"none", "sent", "served", "dropped"}, rows: Listing]
      /\ NoHeld \in Form \cup {NoHeld} /\ TRUE \in BOOLEAN /\ FALSE \in BOOLEAN
  BY DEF HoldingsInv, HoldingsTypeOK
<1>2. /\ hpRows' = hpRows /\ hpCalls' = hpCalls /\ hpSent' = hpSent
  BY DEF Refresh, InitServed, ListArrives, ListNotRead, RetryList
<1>3. ASSUME hp' \in HoldingsState, hp'.edit = hp.edit, hp'.missed = hp.missed, hp'.adding = hp.adding,
             hp'.list # NoHeld \/ hp'.list = hp.list,
             hpGet' \in [step: {"none", "sent", "served", "dropped"}, rows: Listing],
             hpGet'.step = "dropped" => hpGet.step = "dropped", ListIsRead'
      PROVE  HoldingsInv'
  <2>1. HoldingsTypeOK'
    BY <1>1, <1>2, <1>3 DEF HoldingsTypeOK
  <2>2. AdditionIsWaitedFor'
    BY <1>2, <1>3 DEF HoldingsInv, AdditionIsWaitedFor
  <2>3. FormsKnow'
    BY <1>2, <1>3 DEF HoldingsInv, FormsKnow, Knows
  <2> QED
    BY <1>3, <2>1, <2>2, <2>3 DEF HoldingsInv
<1>4. /\ GetSent \in [step: {"none", "sent", "served", "dropped"}, rows: Listing] /\ GetSent.step = "sent"
      /\ NoGetRunning \in [step: {"none", "sent", "served", "dropped"}, rows: Listing]
      /\ NoGetRunning.step = "none" /\ GetSent # NoGetRunning
  BY DEF GetSent, NoGetRunning, Nothing, Listing
<1>5. CASE Refresh \/ RetryList
  <2>1. hp' = hp /\ hpGet' = GetSent
    BY <1>5 DEF Refresh, RetryList
  <2> QED
    BY <1>1, <1>3, <1>4, <2>1 DEF ListIsRead
<1>6. CASE InitServed
  <2> DEFINE held == [h \in Hid \cup {Temp} |->
                        IF h \in Hid /\ hpRows[h] # NoHeld THEN hpRows[h].shares ELSE NoHeld]
  <2>1. held \in Listing
    BY <1>1 DEF Listing, HoldingsTypeOK, HeldRow
  <2>2. ListIs(held)
    BY <2>1, HoldingsPageConstants DEF ListIs
  <2>3. hp' = hp /\ hpGet' = [step |-> "served", rows |-> held]
    BY <1>6 DEF InitServed
  <2> HIDE DEF held
  <2>4. hpGet'.step = "served" /\ hpGet'.rows = held /\ hpGet' # NoGetRunning
        /\ hpGet' \in [step: {"none", "sent", "served", "dropped"}, rows: Listing]
    BY <1>4, <2>1, <2>3
  <2>5. ListIsRead'
    BY <1>2, <2>2, <2>4 DEF ListIsRead, ListIs
  <2> QED
    BY <1>1, <1>3, <2>3, <2>4, <2>5
<1>7. CASE ListArrives
  <2>1. hpGet' = NoGetRunning
    BY <1>7 DEF ListArrives
  <2>2. CASE hpGet.step = "dropped" \/ hp.adding > 0
    <3>1. hp' = hp
      BY <1>7, <2>2 DEF ListArrives
    <3>2. hp.adding > 0
      BY <2>2 DEF HoldingsInv, AdditionIsWaitedFor
    <3> QED
      BY <1>1, <1>3, <1>4, <2>1, <3>1, <3>2 DEF ListIsRead
  <2>3. CASE ~(hpGet.step = "dropped" \/ hp.adding > 0)
    <3>1. hpGet.step = "served" /\ hp' = [hp EXCEPT !.list = hpGet.rows, !.failed = FALSE]
      BY <1>7, <2>3 DEF ListArrives
    <3>2. hp' \in HoldingsState /\ hp'.edit = hp.edit /\ hp'.missed = hp.missed /\ hp'.adding = hp.adding
          /\ hp'.list = hpGet.rows
      BY <1>1, <3>1 DEF HoldingsState
    <3>3. hpGet.rows # NoHeld
      BY <1>1, HoldingsPageConstants
    <3>4. ListIsRead'
      BY <1>2, <1>4, <2>1, <3>1, <3>2 DEF ListIsRead, HoldingsInv, Told, ListIs
    <3> QED
      BY <1>3, <1>4, <2>1, <3>2, <3>3, <3>4
  <2> QED
    BY <2>2, <2>3
<1>8. CASE ListNotRead
  <2>1. hpGet' = NoGetRunning
    BY <1>8 DEF ListNotRead
  <2>2. hp' \in HoldingsState /\ hp'.edit = hp.edit /\ hp'.missed = hp.missed /\ hp'.adding = hp.adding
        /\ hp'.list = hp.list
    BY <1>1, <1>8 DEF ListNotRead, HoldingsState
  <2>3. hp'.failed
    BY <1>1, <1>8, Zenon DEF ListNotRead, HoldingsState
  <2>4. ListIsRead'
    BY <1>4, <2>1, <2>3 DEF ListIsRead, ShowsList
  <2> QED
    BY <1>3, <1>4, <2>1, <2>2, <2>4
<1> QED
  BY <1>5, <1>6, <1>7, <1>8

\* Every step of the page and of the server.
LEMMA HoldingsStep == HoldingsInv /\ [HoldingsNext]_holdingsVars => HoldingsInv'
<1> SUFFICES ASSUME HoldingsInv, [HoldingsNext]_holdingsVars PROVE HoldingsInv'
  OBVIOUS
<1>1. CASE UNCHANGED holdingsVars
  BY <1>1 DEF holdingsVars, HoldingsInv, HoldingsTypeOK, ListIsRead, Told, ListIs, ShowsList,
              AdditionIsWaitedFor, FormsKnow, Knows
<1>2. CASE HoldingsNext
  BY <1>2, SendSteps, FormSteps, ServeStep, AnswerHeldSteps, ListSteps DEF HoldingsNext
<1> QED
  BY <1>1, <1>2

\* What is settled is true.
LEMMA HoldingsInvSound == HoldingsInv => SettledListIsTrue
BY QuietOK DEF SettledListIsTrue, ListIs

\* An edit that leaves the shares alone, and whose dialog knew them, changes none.
LEMMA KeepsSharesStep == HoldingsInv /\ [HoldingsNext]_holdingsVars => KeepsShares
<1> SUFFICES ASSUME HoldingsInv, [HoldingsNext]_holdingsVars,
                    NEW c \in hpCalls, c.op = "edit", c.step = "sent", c.untouched, ~c.hasty, c \notin hpCalls'
             PROVE  hpRows' = hpRows \/ \E k \in hpCalls' : k.no = c.no /\ k.hasty
  BY DEF KeepsShares
<1>1. hpCalls = {c} /\ Knows(c.id, c.shares)
  BY DEF HoldingsInv, FormsKnow
<1>2. CASE UNCHANGED holdingsVars
  BY <1>2 DEF holdingsVars
<1>3. CASE \E d \in hpCalls : Serve(d)
  <2>1. PICK k : Served(c, k)
    BY <1>1, <1>3, ServeOK DEF HoldingsInv
  <2>2. CASE hpRows' = [hpRows EXCEPT ![c.id].shares = c.shares]
    <3>1. c.id \in Hid /\ hpRows[c.id] \in HeldRow /\ hpRows[c.id].shares = c.shares
      BY <1>1 DEF Knows, HoldingsInv, HoldingsTypeOK
    <3>2. [hpRows[c.id] EXCEPT !.shares = c.shares] = hpRows[c.id]
      BY <3>1 DEF HeldRow
    <3>3. hpRows \in [Hid -> HeldRow \cup {NoHeld}] /\ hpRows' = [hpRows EXCEPT ![c.id] = [hpRows[c.id] EXCEPT !.shares = c.shares]]
      BY <2>2 DEF HoldingsInv, HoldingsTypeOK
    <3> QED
      BY <3>1, <3>2, <3>3
  <2> QED
    BY <2>1, <2>2 DEF Served
<1>4. CASE HoldingsNext /\ ~\E d \in hpCalls : Serve(d)
  <2>1. hpRows' = hpRows
    BY <1>4 DEF HoldingsNext, handleAddHolding, CloseEdit, CloseSell, Refresh, OpenEdit, OpenSell, handleDelete,
                SubmitEdit, SubmitSell, AnswerLost, Added, Edited, Sold, Deleted, InitServed, ListArrives,
                ListNotRead, RetryList
  <2> QED
    BY <2>1
<1> QED
  BY <1>2, <1>3, <1>4

-----------------------------------------------------------------------------
(* The cash section: what was answered is what the server has.              *)

\* While no answer was lost and none waits that tells of a change, what the server
\* answered with is what it has, and so is the list once it is not being read.
Unchanged == ~csMissed /\ \A c \in csCalls : c.kind = "list" \/ c.answer # "done"
CashReads == {c \in csCalls : c.kind = "list"}
CashIsRead ==
    Unchanged => /\ \A c \in CashReads : c.answer # "none" => c.list = csRows
                 /\ CashReads = {} => cs.list = csRows

\* One read is under way at most.
OneRead == \A c, d \in CashReads : c = d

CashInv == CashTypeOK /\ CashIsRead /\ OneRead

\* The section that is opened, with nothing in it.
LEMMA CashInitOK == CashInit => CashInv
<1> SUFFICES ASSUME CashInit PROVE CashInv
  OBVIOUS
<1>1. <<>> \in CashList
  <2>1. <<>> \in [{} -> CashAmount]
    OBVIOUS
  <2> QED
    BY <2>1 DEF CashList
<1>2. FALSE \in BOOLEAN
  OBVIOUS
<1>3. cs \in CashState
  BY <1>1, <1>2 DEF CashInit, CashState
<1>4. 0 \in 0..MaxChanges
  BY CashConstants
<1>5. CashTypeOK
  BY <1>1, <1>2, <1>3, <1>4 DEF CashInit, CashTypeOK
<1>6. CashIsRead /\ OneRead
  BY DEF CashInit, CashIsRead, OneRead, CashReads
<1> QED
  BY <1>5, <1>6 DEF CashInv

\* A request that begins is one of the section.
LEMMA CashCallOK ==
  ASSUME CashTypeOK, NEW kind \in {"create", "update", "delete", "list"},
         NEW id \in Balance \cup {NoBalance}, NEW amount \in CashAmount \cup {0}
  PROVE  LET c == CashCall(kind, id, amount)
         IN  c \in CashRequest /\ c.kind = kind /\ c.answer = "none" /\ c.id = id /\ c.amount = amount
<1>1. <<>> \in CashList
  <2>1. <<>> \in [{} -> CashAmount]
    OBVIOUS
  <2> QED
    BY <2>1 DEF CashList
<1> QED
  BY <1>1 DEF CashCall, CashRequest, CashTypeOK

\* The forms and the buttons that open them.
LEMMA SectionOK == CashInv /\ SectionStep => CashInv'
<1> SUFFICES ASSUME CashInv, SectionStep PROVE CashInv'
  OBVIOUS
<1>1. TRUE \in BOOLEAN /\ FALSE \in BOOLEAN
  OBVIOUS
<1>2. cs' \in CashState /\ cs'.list = cs.list
  <2>1. cs \in CashState
    BY DEF CashInv, CashTypeOK
  <2>2. CASE \E id \in Balance : setEditId(id)
    BY <2>1, <2>2 DEF setEditId, CashState
  <2>3. CASE OpenCashForm
    BY <1>1, <2>1, <2>3 DEF OpenCashForm, CashState
  <2>4. CASE CloseCashForm
    BY <1>1, <2>1, <2>4 DEF CloseCashForm, CashState
  <2> QED
    BY <2>2, <2>3, <2>4 DEF SectionStep
<1>3. UNCHANGED <<csRows, csCalls, csSent, csMissed>>
  BY DEF SectionStep
<1> QED
  BY <1>2, <1>3 DEF CashInv, CashTypeOK, CashIsRead, OneRead, CashReads, Unchanged

\* A change that was just sent.
JustSent(c) == c.kind # "list" /\ c.answer = "none" /\ c.id \in Balance /\ c.amount \in CashAmount

\* A change is sent.
LEMMA SubmitCashOK == CashInv /\ Submit => CashInv'
<1> SUFFICES ASSUME CashInv, Submit PROVE CashInv'
  OBVIOUS
<1>1. /\ csSent' = csSent + 1 /\ csSent' \in 0..MaxChanges /\ UNCHANGED <<csRows, cs, csMissed>>
  BY CashConstants DEF Submit, CashInv, CashTypeOK
<1>2. \E c \in CashRequest : csCalls' = csCalls \cup {c} /\ JustSent(c)
  <2>1. PICK id \in Balance :
          handleDeleteCash(id) \/ \E amount \in CashAmount : handleAdd(id, amount) \/ handleUpdate(id, amount)
    BY DEF Submit
  <2>2. ASSUME NEW kind \in {"create", "update", "delete"}, NEW amount \in CashAmount,
               csCalls' = csCalls \cup {CashCall(kind, id, amount)}
        PROVE  \E c \in CashRequest : csCalls' = csCalls \cup {c} /\ JustSent(c)
    BY <2>2, CashCallOK DEF CashInv, JustSent
  <2>3. CASE handleDeleteCash(id)
    <3>1. cs.list[id] \in CashAmount
      BY <2>3 DEF handleDeleteCash, CashInv, CashTypeOK, CashState, CashList
    <3> QED
      BY <2>2, <2>3, <3>1 DEF handleDeleteCash
  <2>4. ASSUME NEW amount \in CashAmount, handleAdd(id, amount) \/ handleUpdate(id, amount)
        PROVE  \E c \in CashRequest : csCalls' = csCalls \cup {c} /\ JustSent(c)
    BY <2>2, <2>4 DEF handleAdd, handleUpdate
  <2> QED
    BY <2>1, <2>3, <2>4
<1> QED
  BY <1>1, <1>2 DEF CashInv, CashTypeOK, CashIsRead, OneRead, CashReads, Unchanged, JustSent

\* An answer arrives.
LEMMA ReceivedOK == CashInv /\ Received => CashInv'
<1> SUFFICES ASSUME CashInv, NEW c \in csCalls, ChangeAnswered(c) \/ ListAnswered(c),
                    UNCHANGED <<csRows, csSent, csMissed>>
             PROVE  CashInv'
  BY DEF Received
<1>1. /\ cs \in CashState /\ c \in CashRequest /\ csCalls \subseteq CashRequest /\ FALSE \in BOOLEAN
      /\ 0 \in CashAmount \cup {0}
  BY DEF CashInv, CashTypeOK
<1>2. CASE c.answer = "refused" /\ ChangeAnswered(c)
  <2>1. csCalls' = csCalls \ {c} /\ cs' = cs /\ c.kind # "list"
    BY <1>2 DEF ChangeAnswered
  <2>2. CashReads' = CashReads /\ (Unchanged' => Unchanged)
    BY <1>2, <2>1 DEF CashReads, Unchanged
  <2> QED
    BY <1>1, <2>1, <2>2 DEF CashInv, CashTypeOK, CashIsRead, OneRead
<1>3. CASE c.answer # "refused" /\ ChangeAnswered(c)
  <2> DEFINE new == CashCall("list", NoBalance, 0)
  <2>1. new \in CashRequest /\ new.kind = "list" /\ new.answer = "none"
    BY <1>1, CashCallOK DEF CashInv
  <2>2. csCalls' = {d \in csCalls \ {c} : d.kind # "list"} \cup {new}
    BY <1>3 DEF ChangeAnswered, mutate
  <2>3. cs' \in CashState
    <3>1. CASE c.kind = "create"
      BY <1>1, <1>3, <3>1 DEF ChangeAnswered, CashState
    <3>2. CASE c.kind = "update"
      BY <1>1, <1>3, <3>2 DEF ChangeAnswered, CashState
    <3>3. CASE c.kind = "delete"
      BY <1>1, <1>3, <3>3 DEF ChangeAnswered
    <3> QED
      BY <1>1, <1>3, <3>1, <3>2, <3>3 DEF CashRequest, ChangeAnswered
  <2> HIDE DEF new
  <2>4. CashReads' = {new}
    BY <2>1, <2>2 DEF CashReads
  <2> QED
    BY <1>1, <2>1, <2>2, <2>3, <2>4 DEF CashInv, CashTypeOK, CashIsRead, OneRead
<1>4. CASE ListAnswered(c)
  <2>1. /\ cs' = [cs EXCEPT !.list = c.list] /\ csCalls' = csCalls \ {c} /\ c \in CashReads /\ c.answer # "none"
    BY <1>4 DEF ListAnswered, CashReads
  <2>2. cs' \in CashState /\ cs'.list = c.list
    BY <1>1, <2>1 DEF CashState, CashRequest
  <2>3. CashReads' = {} /\ (Unchanged' => Unchanged)
    BY <2>1 DEF CashReads, Unchanged, CashInv, OneRead
  <2> QED
    BY <1>1, <2>1, <2>2, <2>3 DEF CashInv, CashTypeOK, CashIsRead, OneRead
<1> QED
  BY <1>2, <1>3, <1>4

\* A request is served.
LEMMA CashServedOK ==
  ASSUME CashInv, NEW c \in csCalls, CashServed(c)
  PROVE  CashInv'
<1>1. /\ csRows \in CashList /\ c \in CashRequest /\ csCalls \subseteq CashRequest /\ csMissed \in BOOLEAN
      /\ c.answer = "none" /\ cs' = cs /\ csSent' = csSent
      /\ csMissed' = (csMissed /\ c.kind # "list")
  BY DEF CashInv, CashTypeOK, CashServed
<1>2. csMissed' \in BOOLEAN
  BY <1>1, Zenon
<1>3. CASE ListCash(c)
  <2> DEFINE k == [c EXCEPT !.answer = "done", !.list = csRows]
  <2>1. csCalls' = (csCalls \ {c}) \cup {k} /\ c.kind = "list" /\ csRows' = csRows
    BY <1>3 DEF ListCash, Answer
  <2>2. k \in CashRequest /\ k.kind = "list" /\ k.list = csRows
    BY <1>1, <2>1 DEF CashRequest
  <2> HIDE DEF k
  <2>3. CashReads' = {k}
    BY <2>1, <2>2 DEF CashReads, CashInv, OneRead
  <2> QED
    BY <1>1, <1>2, <2>1, <2>2, <2>3 DEF CashInv, CashTypeOK, CashIsRead, OneRead
<1>4. CASE CreateCash(c) \/ UpdateCash(c) \/ DeleteCash(c)
  <2>1. c.kind # "list" /\ csMissed' = csMissed
    BY <1>1, <1>4 DEF CreateCash, UpdateCash, DeleteCash
  <2>2. /\ csRows' \in CashList
        /\ \E answer \in {"done", "refused"} : Answer(c, answer) /\ (answer = "refused" => csRows' = csRows)
    <3>1. c.id \in Balance /\ c.amount \in CashAmount
      BY <2>1 DEF CashInv, CashTypeOK
    <3>2. PICK ids \in SUBSET Balance : csRows \in [ids -> CashAmount]
      BY <1>1 DEF CashList
    <3>3. CASE CreateCash(c)
      <4>1. csRows' = [i \in ids \cup {c.id} |-> IF i = c.id THEN c.amount ELSE csRows[i]]
        BY <3>2, <3>3 DEF CreateCash
      <4>2. csRows' \in [ids \cup {c.id} -> CashAmount] /\ ids \cup {c.id} \in SUBSET Balance
        BY <3>1, <3>2, <4>1
      <4> QED
        BY <3>3, <4>2 DEF CreateCash, CashList
    <3>4. CASE UpdateCash(c)
      <4>1. csRows' = csRows \/ csRows' = [csRows EXCEPT ![c.id] = c.amount]
        BY <3>4 DEF UpdateCash
      <4>2. csRows' \in [ids -> CashAmount]
        BY <3>1, <3>2, <4>1
      <4> QED
        BY <3>2, <3>4, <4>2 DEF UpdateCash, CashList
    <3>5. CASE DeleteCash(c)
      <4>1. csRows' = csRows \/ csRows' = [i \in ids \ {c.id} |-> csRows[i]]
        BY <3>2, <3>5 DEF DeleteCash
      <4>2. csRows' \in [ids -> CashAmount] \/ csRows' \in [ids \ {c.id} -> CashAmount]
        BY <3>2, <4>1
      <4>3. ids \ {c.id} \in SUBSET Balance
        BY <3>2
      <4> QED
        BY <3>2, <3>5, <4>2, <4>3 DEF DeleteCash, CashList
    <3> QED
      BY <1>4, <3>3, <3>4, <3>5
  <2>3. PICK answer \in {"done", "refused"} : Answer(c, answer) /\ (answer = "refused" => csRows' = csRows)
    BY <2>2
  <2> DEFINE k == [c EXCEPT !.answer = answer]
  <2>4. csCalls' = (csCalls \ {c}) \cup {k}
    BY <1>1, <2>1, <2>3 DEF Answer, CashRequest
  <2>5. k \in CashRequest /\ k.kind = c.kind /\ k.answer = answer /\ k.id = c.id /\ k.amount = c.amount
    BY <1>1 DEF CashRequest
  <2> HIDE DEF k
  <2>6. CashReads' = CashReads
    BY <2>1, <2>4, <2>5 DEF CashReads
  <2>7. Unchanged' => Unchanged /\ csRows' = csRows
    BY <1>1, <2>1, <2>3, <2>4, <2>5 DEF Unchanged
  <2> QED
    BY <1>1, <1>2, <2>2, <2>4, <2>5, <2>6, <2>7 DEF CashInv, CashTypeOK, CashIsRead, OneRead
<1> QED
  BY <1>3, <1>4 DEF CashServed

\* A request, or its answer, is lost.
LEMMA CashLostOK ==
  ASSUME CashInv, NEW c \in csCalls, CashLost(c)
  PROVE  CashInv'
<1>1. csCalls' = csCalls \ {c} /\ csMissed' = TRUE /\ UNCHANGED <<csRows, cs, csSent>>
  BY DEF CashLost
<1>2. csMissed' \in BOOLEAN
  BY <1>1, Zenon
<1> QED
  BY <1>1, <1>2 DEF CashInv, CashTypeOK, CashIsRead, OneRead, CashReads, Unchanged

\* Every step of the section and of the server.
LEMMA CashStep == CashInv /\ [CashNext]_cashVars => CashInv'
<1>1. CashInv /\ UNCHANGED cashVars => CashInv'
  BY DEF cashVars, CashInv, CashTypeOK, CashIsRead, OneRead, CashReads, Unchanged
<1> QED
  BY <1>1, SectionOK, SubmitCashOK, ReceivedOK, CashServedOK, CashLostOK DEF CashNext

\* What is settled is the server's, and every row of it is shown.
LEMMA CashInvSound == CashInv => SettledCashIsTrue
<1> SUFFICES ASSUME CashInv PROVE SettledCashIsTrue
  OBVIOUS
<1>1. csCalls = {} /\ ~csMissed => cs.list = csRows
  BY DEF CashInv, CashIsRead, CashReads, Unchanged
<1>2. CashView.rows \cup CashView.form = DOMAIN cs.list
  BY DEF CashView
<1>3. CashView.hint => CashView.form = {}
  <2>1. CashView.hint => cs.list = <<>>
    BY Zenon DEF CashView
  <2>2. cs.list = <<>> => DOMAIN cs.list = {}
    OBVIOUS
  <2> QED
    BY <2>1, <2>2 DEF CashView
<1> QED
  BY <1>1, <1>2, <1>3 DEF SettledCashIsTrue

-----------------------------------------------------------------------------
(* The admin console: the tables' reads and the edits under way.            *)

\* Reads of a table are numbered, the latest one last.
ReadsNumbered ==
    /\ \A r \in acReads : r.no <= acPage.latest[r.table]
    /\ \A r, q \in acReads : r.table = q.table /\ r.no = q.no => r = q

\* So are the edits, and those of the tab that is open come after its opening.
EditsNumbered == acPage.opened <= acSent /\ \A e \in acEdits : e.no < acSent

\* While no answer of a table was lost and none waits that tells of a change, what its
\* latest read was answered with is the server's, and so is a table that is shown once
\* it arrived.
Informed(t) == ~acPage.missed[t] /\ \A e \in Editing(t) : e.step # "applied"
TableIsRead(t) ==
    Informed(t) => /\ \A r \in Latest(t) : r.step = "served" => r.rows = acRows[t]
                   /\ acPage.tab = t /\ Latest(t) = {} /\ ~isLoading(t) => acPage.read[t] = acRows[t]

\* Unless edits of a table crossed since its tab was opened there is one at most, and
\* its row is busy.
OneEdit(t) ==
    ~acPage.crossed[t] =>
        \A e \in Mounted(t) : /\ Mounted(t) = {e}
                              /\ IF e.to.field = "create" THEN acPage.creating ELSE acPage.busy[t] = e.row

ConsoleInv ==
    /\ ConsoleTypeOK /\ ReadsNumbered /\ EditsNumbered
    /\ \A t \in Tables : TableIsRead(t) /\ OneEdit(t)

\* The rows of a table.
LEMMA ContentsOK ==
  ASSUME NEW t \in Tables
  PROVE  /\ Contents[t] = [RowsOf(t) -> RowStates(t)] /\ Contents[t] \subseteq TableContents
         /\ ConsoleTypeOK => acRows[t] \in Contents[t]
<1>1. CASE t = "users"
  BY <1>1 DEF Contents, RowsOf, RowStates, TableContents, ConsoleTypeOK
<1>2. CASE t = "flags"
  BY <1>2 DEF Contents, RowsOf, RowStates, TableContents, ConsoleTypeOK
<1> QED
  BY <1>1, <1>2 DEF Tables

\* The console that is opened.
LEMMA ConsoleInitOK == ConsoleInit => ConsoleInv
<1> SUFFICES ASSUME ConsoleInit PROVE ConsoleInv
  OBVIOUS
<1>1. PICK t \in Tables :
          /\ acPage = [tab |-> t, read |-> [x \in Tables |-> NoRow], busy |-> [x \in Tables |-> NoRow],
                       crossed |-> [x \in Tables |-> FALSE], missed |-> [x \in Tables |-> FALSE],
                       latest |-> [x \in Tables |-> IF x = t THEN 1 ELSE 0],
                       showCreate |-> FALSE, creating |-> FALSE, opened |-> 0]
          /\ acReads = {[table |-> t, no |-> 1, step |-> "sent", rows |-> NoRow]}
  BY DEF ConsoleInit
<1>2. /\ acPage.tab = t /\ acPage.read = [x \in Tables |-> NoRow] /\ acPage.busy = [x \in Tables |-> NoRow]
      /\ acPage.latest = [x \in Tables |-> IF x = t THEN 1 ELSE 0] /\ acPage.opened = 0
  BY <1>1
<1>3. acPage \in ConsoleState
  <2>1. FALSE \in BOOLEAN /\ [x \in Tables |-> FALSE] \in [Tables -> BOOLEAN]
    BY Zenon
  <2>2. /\ t \in TABS /\ [x \in Tables |-> IF x = t THEN 1 ELSE 0] \in [Tables -> Nat]
        /\ [x \in Tables |-> NoRow] \in [Tables -> TableContents \cup {NoRow}]
        /\ [x \in Tables |-> NoRow] \in [Tables -> AdminUser \cup Flag \cup {NoRow}] /\ 0 \in Nat
    BY DEF TABS
  <2> QED
    BY <1>1, <2>1, <2>2, Zenon DEF ConsoleState
<1>4. acRows \in [users: Contents["users"], flags: Contents["flags"]]
  <2>1. acRows \in [users: [AdminUser -> {[plan |-> "free", active |-> TRUE]}], flags: [Flag -> {"absent", "OFF"}]]
    BY DEF ConsoleInit
  <2>2. [plan |-> "free", active |-> TRUE] \in UserRow
    <3>1. TRUE \in BOOLEAN
      OBVIOUS
    <3> QED
      BY <3>1, Zenon DEF UserRow, PLANS
  <2>3. {[plan |-> "free", active |-> TRUE]} \subseteq UserRow
    BY <2>2
  <2> QED
    BY <2>1, <2>3, ZenonT(60) DEF Contents, FlagState
<1>5. ConsoleTypeOK
  <2>1. /\ acReads \subseteq ConsoleRead /\ \A r \in acReads : r.step = "sent"
    BY <1>1 DEF ConsoleRead
  <2>2. acLog = NoRow /\ acEdits = {} /\ acSent = 0 /\ acSent \in 0 .. MaxEdits
    BY ConsoleAssumption DEF ConsoleInit
  <2> QED
    BY <1>2, <1>3, <1>4, <2>1, <2>2 DEF ConsoleTypeOK
<1>6. ReadsNumbered /\ EditsNumbered
  BY <1>1, <1>2 DEF ConsoleInit, ReadsNumbered, EditsNumbered
<1>7. \A x \in Tables : TableIsRead(x) /\ OneEdit(x)
  <2>1. \A x \in Tables : isLoading(x) /\ \A r \in acReads : r.step = "sent"
    BY <1>1, <1>2 DEF isLoading
  <2>2. \A x \in Tables : Editing(x) = {} /\ Mounted(x) = {}
    BY DEF ConsoleInit, Editing, Mounted
  <2> QED
    BY <2>1, <2>2 DEF TableIsRead, OneEdit, Latest
<1> QED
  BY <1>5, <1>6, <1>7 DEF ConsoleInv

\* A read of a table that begins is its latest.
LEMMA NewReadOK ==
  ASSUME ConsoleInv, NEW t \in Tables, acReads' = acReads \cup {NewRead(t)}, acPage' \in ConsoleState,
         acPage'.latest = [acPage.latest EXCEPT ![t] = @ + 1]
  PROVE  /\ acReads' \subseteq ConsoleRead /\ ReadsNumbered' /\ Latest(t)' = {NewRead(t)}
         /\ NewRead(t).step = "sent"
         /\ \A r \in acReads' : r.step = "served" => r.rows \in Contents[r.table]
         /\ \A x \in Tables \ {t} : Latest(x)' = Latest(x)
<1>1. acPage.latest \in [Tables -> Nat] /\ acReads \subseteq ConsoleRead
  BY DEF ConsoleInv, ConsoleTypeOK, ConsoleState
<1>2. /\ acPage'.latest[t] = acPage.latest[t] + 1 /\ acPage.latest[t] \in Nat
      /\ \A x \in Tables \ {t} : acPage'.latest[x] = acPage.latest[x]
  BY <1>1
<1> DEFINE new == NewRead(t)
<1>3. new \in ConsoleRead /\ new.table = t /\ new.no = acPage.latest[t] + 1 /\ new.step = "sent"
  BY <1>2 DEF NewRead, ConsoleRead
<1> HIDE DEF new
<1>4. acReads' = acReads \cup {new}
  BY DEF new
<1>5. \A r \in acReads : r.no <= acPage.latest[r.table] /\ r.no \in Nat /\ r.table \in Tables
  BY <1>1 DEF ConsoleInv, ReadsNumbered, ConsoleRead
<1>6. acReads' \subseteq ConsoleRead
  BY <1>1, <1>3, <1>4
<1>7. \A r \in acReads : r.table = t => r.no # new.no
  BY <1>2, <1>3, <1>5
<1>8. ReadsNumbered'
  <2>1. \A r \in acReads' : r.no <= acPage'.latest[r.table]
    BY <1>2, <1>3, <1>4, <1>5
  <2>2. \A r, q \in acReads' : r.table = q.table /\ r.no = q.no => r = q
    BY <1>3, <1>4, <1>7 DEF ConsoleInv, ReadsNumbered
  <2> QED
    BY <2>1, <2>2 DEF ReadsNumbered
<1>9. Latest(t)' = {new}
  BY <1>2, <1>3, <1>4, <1>7 DEF Latest
<1>10. \A x \in Tables \ {t} : Latest(x)' = Latest(x)
  BY <1>2, <1>3, <1>4 DEF Latest
<1>11. \A r \in acReads' : r.step = "served" => r.rows \in Contents[r.table]
  BY <1>3, <1>4 DEF ConsoleInv, ConsoleTypeOK
<1> QED
  BY <1>3, <1>6, <1>8, <1>9, <1>10, <1>11 DEF new

\* A tab is opened.
LEMMA TabStep ==
  ASSUME ConsoleInv, NEW t \in TABS, setConsoleTab(t)
  PROVE  ConsoleInv'
<1> DEFINE fresh == t \in Tables /\ Latest(t) = {}
           opened == acSent + 1
           crossed == [x \in Tables |-> FALSE]
           latest == IF fresh THEN [acPage.latest EXCEPT ![t] = @ + 1] ELSE acPage.latest
<1>1. /\ acPage \in ConsoleState /\ acPage.latest \in [Tables -> Nat] /\ FALSE \in BOOLEAN
      /\ [x \in Tables |-> NoRow] \in [Tables -> AdminUser \cup Flag \cup {NoRow}] /\ opened \in Nat
  BY ConsoleAssumption DEF ConsoleInv, ConsoleTypeOK, ConsoleState
<1>2. crossed \in [Tables -> BOOLEAN]
  BY Zenon
<1>4. latest \in [Tables -> Nat]
  BY <1>1
<1>5. /\ t # acPage.tab /\ UNCHANGED <<acRows, acLog, acEdits>> /\ acSent' = opened /\ acSent' \in 0 .. MaxEdits
      /\ acPage' = [acPage EXCEPT !.tab = t, !.showCreate = FALSE, !.creating = FALSE, !.opened = opened,
                      !.busy = [x \in Tables |-> NoRow], !.crossed = crossed, !.latest = latest]
      /\ acReads' = IF fresh THEN acReads \cup {NewRead(t)} ELSE acReads
  <2>1. acSent' \in 0 .. MaxEdits
    BY ConsoleAssumption DEF setConsoleTab, ConsoleInv, ConsoleTypeOK
  <2> QED
    BY <2>1, Zenon DEF setConsoleTab
<1>10. EditsNumbered'
  <2>1. acPage'.opened = opened
    BY <1>1, <1>5 DEF ConsoleState
  <2>2. acSent \in Nat /\ (\A e \in acEdits : e.no < acSent /\ e.no \in Nat)
    BY ConsoleAssumption DEF ConsoleInv, ConsoleTypeOK, EditsNumbered, ConsoleEdit
  <2> QED
    BY <1>5, <2>1, <2>2 DEF EditsNumbered
<1>11. \A e \in acEdits' : ~(e.no >= acPage'.opened)
  <2>1. acPage'.opened = opened
    BY <1>1, <1>5 DEF ConsoleState
  <2>2. acSent \in Nat /\ (\A e \in acEdits : e.no < acSent /\ e.no \in Nat)
    BY ConsoleAssumption DEF ConsoleInv, ConsoleTypeOK, EditsNumbered, ConsoleEdit
  <2> QED
    BY <1>5, <2>1, <2>2
<1> HIDE DEF crossed, latest, opened
<1>6. /\ acPage' \in ConsoleState /\ acPage'.tab = t /\ acPage'.crossed = crossed /\ acPage'.latest = latest
      /\ acPage'.busy = [x \in Tables |-> NoRow] /\ acPage'.read = acPage.read /\ acPage'.missed = acPage.missed
  BY <1>1, <1>2, <1>4, <1>5 DEF ConsoleState
<1>7. /\ acReads' \subseteq ConsoleRead /\ ReadsNumbered'
      /\ \A r \in acReads' : r.step = "served" => r.rows \in Contents[r.table]
      /\ \A x \in Tables : \/ Latest(x)' = Latest(x) /\ (x = t => Latest(x) # {})
                           \/ \E r \in Latest(x)' : r.step = "sent" /\ Latest(x)' = {r}
  <2>1. CASE fresh
    <3>1. t \in Tables /\ acReads' = acReads \cup {NewRead(t)} /\ acPage'.latest = [acPage.latest EXCEPT ![t] = @ + 1]
      BY <1>5, <1>6, <2>1 DEF latest
    <3> QED
      BY <1>6, <3>1, NewReadOK
  <2>2. CASE ~fresh
    <3>1. acReads' = acReads /\ acPage'.latest = acPage.latest
      BY <1>5, <1>6, <2>2 DEF latest
    <3> QED
      BY <2>2, <3>1 DEF ConsoleInv, ConsoleTypeOK, ReadsNumbered, Latest
  <2> QED
    BY <2>1, <2>2
<1>8. ConsoleTypeOK'
  BY <1>5, <1>6, <1>7 DEF ConsoleInv, ConsoleTypeOK
<1>9. ASSUME NEW x \in Tables PROVE TableIsRead(x)' /\ OneEdit(x)'
  <2>1. Informed(x)' = Informed(x) /\ isLoading(x)' = isLoading(x)
    BY <1>5, <1>6 DEF Editing, Informed, isLoading
  <2>2. TableIsRead(x)'
    <3>1. CASE Latest(x)' = Latest(x) /\ (x = t => Latest(x) # {})
      BY <1>5, <1>6, <2>1, <3>1 DEF ConsoleInv, TableIsRead
    <3>2. CASE \E r \in Latest(x)' : r.step = "sent" /\ Latest(x)' = {r}
      BY <3>2 DEF TableIsRead
    <3> QED
      BY <1>7, <3>1, <3>2
  <2>3. Mounted(x)' = {}
    BY <1>11 DEF Mounted, Editing
  <2> QED
    BY <2>2, <2>3 DEF OneEdit
<1> QED
  BY <1>7, <1>8, <1>9, <1>10 DEF ConsoleInv

\* An edit is sent: it tells of nothing yet, and unless edits cross it is the only one.
LEMMA EditOK ==
  ASSUME ConsoleInv, NEW t \in Tables, NEW r, NEW to \in Setting, Edit(t, r, to),
         t = "users" <=> to.field \in {"plan", "active"}, acPage' \in ConsoleState,
         acPage'.tab = acPage.tab, acPage'.read = acPage.read, acPage'.missed = acPage.missed,
         acPage'.latest = acPage.latest, acPage'.opened = acPage.opened,
         \A x \in Tables : acPage'.busy[x] \in RowsOf(x) \cup {NoRow},
         ~acPage'.crossed[t] => Mounted(t) = {},
         IF to.field = "create" THEN acPage'.creating ELSE acPage'.busy[t] = r,
         \A x \in Tables \ {t} : /\ acPage'.crossed[x] = acPage.crossed[x]
                                 /\ acPage'.busy[x] = acPage.busy[x],
         acPage'.creating = acPage.creating \/ t = "flags"
  PROVE  ConsoleInv'
<1> DEFINE new == [no |-> acSent, table |-> t, row |-> r, to |-> to, step |-> "sent", read |-> 0]
<1>1. /\ acPage.tab = t /\ r \in RowsOf(t) /\ acSent' \in 0 .. MaxEdits /\ acSent \in Nat
      /\ acSent' = acSent + 1
      /\ UNCHANGED <<acRows, acLog, acReads>>
  BY ConsoleAssumption DEF Edit, ConsoleInv, ConsoleTypeOK
<1>2. acEdits' = acEdits \cup {new}
  BY DEF Edit
<1>3. /\ new \in ConsoleEdit /\ new.table = t /\ new.row = r /\ new.to = to /\ new.step = "sent"
      /\ new.no = acSent
  BY <1>1 DEF ConsoleEdit, RowsOf
<1> HIDE DEF new
<1>4. ConsoleTypeOK'
  BY <1>1, <1>2, <1>3 DEF ConsoleInv, ConsoleTypeOK
<1>5. ReadsNumbered' /\ EditsNumbered'
  <2>1. acPage.opened \in Nat /\ \A e \in acEdits : e.no \in Nat
    BY DEF ConsoleInv, ConsoleTypeOK, ConsoleState, ConsoleEdit
  <2> QED
    BY <1>1, <1>2, <1>3, <2>1 DEF ConsoleInv, ReadsNumbered, EditsNumbered
<1>6. ASSUME NEW x \in Tables PROVE TableIsRead(x)'
  <2>1. Informed(x)' => Informed(x)
    BY <1>2, <1>3 DEF Informed, Editing
  <2>2. Latest(x)' = Latest(x)
    BY <1>1 DEF Latest
  <2> QED
    BY <1>1, <2>1, <2>2 DEF ConsoleInv, TableIsRead, isLoading
<1>7. ASSUME NEW x \in Tables PROVE OneEdit(x)'
  <2>1. CASE x = t
    <3>1. Mounted(x)' = Mounted(x) \cup {new}
      BY <1>1, <1>2, <1>3, <2>1 DEF Editing, Mounted, ConsoleInv, EditsNumbered
    <3> QED
      BY <1>1, <1>3, <2>1, <3>1 DEF OneEdit
  <2>2. CASE x # t
    <3>1. Mounted(x)' = Mounted(x)
      BY <1>2, <1>3, <2>2 DEF Editing, Mounted
    <3>2. OneEdit(x)
      BY DEF ConsoleInv
    <3>3. acPage'.creating = acPage.creating \/ \A e \in Mounted(x) : e.to.field # "create"
      BY <2>2 DEF ConsoleInv, ConsoleTypeOK, Mounted, Editing, Tables
    <3> QED
      BY <2>2, <3>1, <3>2, <3>3 DEF OneEdit
  <2> QED
    BY <2>1, <2>2
<1> QED
  BY <1>4, <1>5, <1>6, <1>7 DEF ConsoleInv

\* The row of an edit is busy, and so is the table if an edit was under way.
LEMMA BusyOK ==
  ASSUME ConsoleInv, NEW t \in Tables, NEW r \in RowsOf(t), acPage' = Busy(t, r)
  PROVE  /\ acPage' \in ConsoleState
         /\ acPage'.tab = acPage.tab /\ acPage'.read = acPage.read /\ acPage'.missed = acPage.missed
         /\ acPage'.latest = acPage.latest /\ acPage'.opened = acPage.opened
         /\ acPage'.creating = acPage.creating
         /\ \A x \in Tables : acPage'.busy[x] \in RowsOf(x) \cup {NoRow}
         /\ ~acPage'.crossed[t] => Mounted(t) = {}
         /\ acPage'.busy[t] = r
         /\ \A x \in Tables \ {t} : acPage'.crossed[x] = acPage.crossed[x] /\ acPage'.busy[x] = acPage.busy[x]
<1> DEFINE c == acPage.crossed[t] \/ Mounted(t) # {}
<1>1. /\ acPage \in ConsoleState /\ acPage.crossed \in [Tables -> BOOLEAN]
      /\ acPage.busy \in [Tables -> AdminUser \cup Flag \cup {NoRow}] /\ r \in AdminUser \cup Flag
      /\ \A x \in Tables : acPage.busy[x] \in RowsOf(x) \cup {NoRow}
  BY DEF ConsoleInv, ConsoleTypeOK, ConsoleState, RowsOf
<1>2. c \in BOOLEAN /\ (~c => Mounted(t) = {})
  <2>1. acPage.crossed[t] \in BOOLEAN
    BY <1>1
  <2> QED
    BY <2>1, Zenon
<1> DEFINE busy == [acPage.busy EXCEPT ![t] = r]
           crossed == [acPage.crossed EXCEPT ![t] = c]
<1>3. acPage' = [acPage EXCEPT !.busy = busy, !.crossed = crossed]
  BY DEF Busy
<1> HIDE DEF c
<1>4. busy \in [Tables -> AdminUser \cup Flag \cup {NoRow}] /\ crossed \in [Tables -> BOOLEAN]
  BY <1>1, <1>2
<1>5. /\ \A x \in Tables : busy[x] \in RowsOf(x) \cup {NoRow}
      /\ busy[t] = r /\ crossed[t] = c
      /\ \A x \in Tables \ {t} : crossed[x] = acPage.crossed[x] /\ busy[x] = acPage.busy[x]
  BY <1>1
<1> HIDE DEF busy, crossed
<1>6. /\ acPage' \in ConsoleState /\ acPage'.busy = busy /\ acPage'.crossed = crossed
      /\ acPage'.tab = acPage.tab /\ acPage'.read = acPage.read /\ acPage'.missed = acPage.missed
      /\ acPage'.latest = acPage.latest /\ acPage'.opened = acPage.opened
      /\ acPage'.creating = acPage.creating
  BY <1>1, <1>3, <1>4 DEF ConsoleState
<1> QED
  BY <1>2, <1>5, <1>6

\* The controls that edit a row.
LEMMA EditSteps ==
  ASSUME ConsoleInv,
         \/ \E u \in AdminUser, plan \in {"free", "demo"} : handlePlanChange(u, plan)
         \/ \E u \in AdminUser : handleToggleActive(u)
         \/ \E f \in Flag : handleToggle(f) \/ handleCreate(f)
  PROVE  ConsoleInv'
<1> USE DEF Tables
<1>1. ASSUME NEW t \in Tables, NEW r \in RowsOf(t), NEW to \in Setting, Edit(t, r, to), acPage' = Busy(t, r),
             t = "users" <=> to.field \in {"plan", "active"}, to.field # "create"
      PROVE  ConsoleInv'
  BY <1>1, BusyOK, EditOK
<1>2. ASSUME NEW u \in AdminUser, NEW plan \in {"free", "demo"}, handlePlanChange(u, plan) PROVE ConsoleInv'
  <2>1. LET to == [field |-> "plan", becomes |-> plan] IN to \in Setting /\ to.field = "plan"
    BY DEF Setting, PLANS
  <2> QED
    BY <1>1, <1>2, <2>1 DEF handlePlanChange, RowsOf
<1>3. ASSUME NEW u \in AdminUser, handleToggleActive(u) PROVE ConsoleInv'
  <2> DEFINE value == ~acPage.read.users[u].active
             to == [field |-> "active", becomes |-> value]
  <2>1. value \in BOOLEAN
    BY Zenon
  <2>2. Edit("users", u, to) /\ acPage' = Busy("users", u)
    BY <1>3, Zenon DEF handleToggleActive
  <2> HIDE DEF value
  <2>3. to \in Setting /\ to.field = "active"
    BY <2>1 DEF Setting
  <2> HIDE DEF to
  <2> QED
    BY <1>1, <2>2, <2>3 DEF RowsOf
<1>4. ASSUME NEW f \in Flag, handleToggle(f) PROVE ConsoleInv'
  <2> DEFINE to == [field |-> "enabled", becomes |-> IF acPage.read.flags[f] = "ON" THEN "OFF" ELSE "ON"]
  <2>1. to \in Setting /\ to.field = "enabled"
    BY DEF Setting
  <2> HIDE DEF to
  <2>2. Edit("flags", f, to) /\ acPage' = Busy("flags", f)
    BY <1>4 DEF handleToggle, to
  <2> QED
    BY <1>1, <2>1, <2>2 DEF RowsOf
<1>5. ASSUME NEW f \in Flag, handleCreate(f) PROVE ConsoleInv'
  <2> DEFINE to == [field |-> "create", becomes |-> "OFF"]
             c == acPage.crossed["flags"] \/ Mounted("flags") # {}
  <2>1. to \in Setting /\ to.field = "create"
    BY DEF Setting
  <2>2. /\ acPage \in ConsoleState /\ acPage.crossed \in [Tables -> BOOLEAN] /\ TRUE \in BOOLEAN
        /\ \A x \in Tables : acPage.busy[x] \in RowsOf(x) \cup {NoRow}
    BY DEF ConsoleInv, ConsoleTypeOK, ConsoleState
  <2>3. c \in BOOLEAN /\ (~c => Mounted("flags") = {})
    <3>1. acPage.crossed["flags"] \in BOOLEAN
      BY <2>2
    <3> QED
      BY <3>1, Zenon
  <2>4. Edit("flags", f, to) /\ acPage' = [acPage EXCEPT !.creating = TRUE, !.crossed["flags"] = c]
    BY <1>5 DEF handleCreate
  <2> HIDE DEF to, c
  <2>5. /\ acPage' \in ConsoleState /\ acPage'.busy = acPage.busy
        /\ acPage'.crossed = [acPage.crossed EXCEPT !["flags"] = c]
        /\ acPage'.tab = acPage.tab /\ acPage'.read = acPage.read /\ acPage'.missed = acPage.missed
        /\ acPage'.latest = acPage.latest /\ acPage'.opened = acPage.opened
    BY <2>2, <2>3, <2>4 DEF ConsoleState
  <2>6. acPage'.creating
    BY <2>2, <2>4, Zenon DEF ConsoleState
  <2> QED
    BY <2>1, <2>2, <2>3, <2>4, <2>5, <2>6, EditOK
<1> QED
  BY <1>2, <1>3, <1>4, <1>5

\* The form of a new flag is opened or closed.
LEMMA ShowStep ==
  ASSUME ConsoleInv, ShowCreate
  PROVE  ConsoleInv'
<1> DEFINE c == ~acPage.showCreate
<1>1. c \in BOOLEAN /\ acPage' = [acPage EXCEPT !.showCreate = c] /\ acPage \in ConsoleState
  BY Zenon DEF ShowCreate, ConsoleInv, ConsoleTypeOK
<1> HIDE DEF c
<1>2. /\ acPage' \in ConsoleState /\ acPage'.tab = acPage.tab /\ acPage'.creating = acPage.creating
      /\ acPage'.busy = acPage.busy /\ acPage'.read = acPage.read /\ acPage'.crossed = acPage.crossed
      /\ acPage'.missed = acPage.missed /\ acPage'.latest = acPage.latest /\ acPage'.opened = acPage.opened
  BY <1>1 DEF ConsoleState
<1>3. UNCHANGED <<acRows, acLog, acReads, acEdits, acSent>>
  BY DEF ShowCreate
<1> QED
  BY <1>2, <1>3 DEF ConsoleInv, ConsoleTypeOK, ReadsNumbered, EditsNumbered, TableIsRead, OneEdit,
                      Informed, Latest, Editing, Mounted, isLoading

\* The button that reads the users again.
LEMMA RefreshUsersStep ==
  ASSUME ConsoleInv, handleUsersRefresh
  PROVE  ConsoleInv'
<1> DEFINE latest == [acPage.latest EXCEPT !["users"] = @ + 1]
<1>1. /\ acPage \in ConsoleState /\ acPage.latest \in [Tables -> Nat] /\ "users" \in Tables
      /\ UNCHANGED <<acRows, acLog, acEdits>> /\ acSent' \in 0 .. MaxEdits /\ acSent' = acSent + 1
      /\ acReads' = acReads \cup {NewRead("users")} /\ acPage' = [acPage EXCEPT !.latest = latest]
  BY ConsoleAssumption DEF handleUsersRefresh, ConsoleInv, ConsoleTypeOK, ConsoleState, Tables
<1>2. latest \in [Tables -> Nat]
  BY <1>1
<1> HIDE DEF latest
<1>3. /\ acPage' \in ConsoleState /\ acPage'.latest = latest /\ acPage'.tab = acPage.tab
      /\ acPage'.creating = acPage.creating /\ acPage'.busy = acPage.busy /\ acPage'.read = acPage.read
      /\ acPage'.crossed = acPage.crossed /\ acPage'.missed = acPage.missed
      /\ acPage'.opened = acPage.opened
  BY <1>1, <1>2 DEF ConsoleState
<1>4. /\ acReads' \subseteq ConsoleRead /\ ReadsNumbered' /\ Latest("users")' = {NewRead("users")}
      /\ NewRead("users").step = "sent"
      /\ \A r \in acReads' : r.step = "served" => r.rows \in Contents[r.table]
      /\ \A x \in Tables \ {"users"} : Latest(x)' = Latest(x)
  BY <1>1, <1>3, NewReadOK DEF latest
<1>5. ConsoleTypeOK'
  BY <1>1, <1>3, <1>4 DEF ConsoleInv, ConsoleTypeOK
<1>7. EditsNumbered'
  <2>1. acSent \in Nat /\ acPage.opened \in Nat /\ \A e \in acEdits : e.no \in Nat
    BY ConsoleAssumption DEF ConsoleInv, ConsoleTypeOK, ConsoleState, ConsoleEdit
  <2> QED
    BY <1>1, <1>3, <2>1 DEF ConsoleInv, EditsNumbered
<1>6. ASSUME NEW x \in Tables PROVE TableIsRead(x)' /\ OneEdit(x)'
  <2>1. Mounted(x)' = Mounted(x) /\ Informed(x)' = Informed(x) /\ isLoading(x)' = isLoading(x)
    BY <1>1, <1>3 DEF Editing, Mounted, Informed, isLoading
  <2>2. OneEdit(x)'
    BY <1>3, <2>1 DEF ConsoleInv, OneEdit
  <2>3. CASE x = "users"
    BY <1>4, <2>2, <2>3 DEF TableIsRead
  <2>4. CASE x # "users"
    BY <1>1, <1>3, <1>4, <2>1, <2>2, <2>4 DEF ConsoleInv, TableIsRead
  <2> QED
    BY <2>3, <2>4
<1> QED
  BY <1>4, <1>5, <1>6, <1>7 DEF ConsoleInv

\* An edit that goes a step on, k for e, with its table read or not: it stays the edit
\* of its row.
LEMMA EditGoesOn ==
  ASSUME ConsoleInv, NEW e \in acEdits, NEW k \in ConsoleEdit, acEdits' = (acEdits \ {e}) \cup {k},
         k.table = e.table /\ k.row = e.row /\ k.to = e.to /\ k.no = e.no,
         acPage'.opened = acPage.opened, acSent' = acSent, acPage'.creating = acPage.creating, acPage'.busy = acPage.busy,
         acPage'.crossed = acPage.crossed
  PROVE  /\ acEdits' \subseteq ConsoleEdit
         /\ \A d \in acEdits' :
              d.row \in RowsOf(d.table) /\ (d.table = "users" <=> d.to.field \in {"plan", "active"})
         /\ \A x \in Tables : OneEdit(x)'
         /\ \A x \in Tables \ {e.table} : Editing(x)' = Editing(x)
         /\ EditsNumbered'
<1>1. acEdits' \subseteq ConsoleEdit
  BY DEF ConsoleInv, ConsoleTypeOK
<1>2. \A d \in acEdits' :
        d.row \in RowsOf(d.table) /\ (d.table = "users" <=> d.to.field \in {"plan", "active"})
  BY DEF ConsoleInv, ConsoleTypeOK
<1>3. \A x \in Tables \ {e.table} : Editing(x)' = Editing(x) /\ Mounted(x)' = Mounted(x)
  BY DEF Editing, Mounted
<1>5. EditsNumbered'
  BY DEF ConsoleInv, EditsNumbered
<1>4. ASSUME NEW x \in Tables PROVE OneEdit(x)'
  <2>1. CASE x # e.table
    BY <1>3, <2>1 DEF ConsoleInv, OneEdit
  <2>2. CASE x = e.table /\ ~acPage.crossed[x] /\ e.no >= acPage.opened
    <3>1. Mounted(x) = {e}
          /\ IF e.to.field = "create" THEN acPage.creating ELSE acPage.busy[x] = e.row
      BY <2>2 DEF ConsoleInv, OneEdit, Editing, Mounted
    <3>2. Mounted(x)' = {k}
      BY <2>2, <3>1 DEF Editing, Mounted
    <3> QED
      BY <3>1, <3>2 DEF OneEdit
  <2>4. CASE x = e.table /\ ~(e.no >= acPage.opened)
    <3>1. Mounted(x)' = Mounted(x)
      BY <2>4 DEF Editing, Mounted
    <3> QED
      BY <3>1 DEF ConsoleInv, OneEdit
  <2>3. CASE acPage.crossed[x]
    BY <2>3 DEF OneEdit
  <2> QED
    BY <2>1, <2>2, <2>3, <2>4
<1> QED
  BY <1>1, <1>2, <1>3, <1>4, <1>5

\* What an edit sets in its row.
LEMMA NewOK ==
  ASSUME NEW e \in ConsoleEdit, e.table = "users" <=> e.to.field \in {"plan", "active"},
         NEW old \in RowStates(e.table)
  PROVE  New(e, old) \in RowStates(e.table)
<1>1. e.to \in Setting
  BY DEF ConsoleEdit
<1>2. CASE e.table = "users" /\ e.to.field = "plan"
  <2>1. e.to.becomes \in PLANS
    BY <1>1, <1>2 DEF Setting
  <2> QED
    BY <1>2, <2>1 DEF New, RowStates, UserRow
<1>3. CASE e.table = "users" /\ e.to.field = "active"
  <2>1. e.to.becomes \in BOOLEAN
    BY <1>1, <1>3 DEF Setting
  <2> QED
    BY <1>3, <2>1 DEF New, RowStates, UserRow
<1>4. CASE e.table # "users"
  <2>1. e.to.becomes \in {"OFF", "ON"}
    BY <1>1, <1>4 DEF Setting
  <2> QED
    BY <1>4, <2>1 DEF New, RowStates, FlagState
<1> QED
  BY <1>2, <1>3, <1>4

\* An edit is served: what was read of its table is not told of until it is read again.
LEMMA ServeConsoleStep ==
  ASSUME ConsoleInv, NEW e \in acEdits, ServeConsole(e)
  PROVE  ConsoleInv'
<1>1. /\ e \in ConsoleEdit /\ e.table \in Tables /\ e.row \in RowsOf(e.table) /\ e.step = "sent"
      /\ e.table = "users" <=> e.to.field \in {"plan", "active"}
      /\ acPage \in ConsoleState /\ acPage.missed \in [Tables -> BOOLEAN]
      /\ UNCHANGED <<acReads, acSent>>
  BY DEF ConsoleInv, ConsoleTypeOK, ConsoleEdit, ConsoleState, ServeConsole
<1>2. ASSUME NEW step \in {"applied", "failed", "reading"}
      PROVE  LET k == [e EXCEPT !.step = step]
             IN  /\ k \in ConsoleEdit /\ k.table = e.table /\ k.row = e.row /\ k.to = e.to /\ k.step = step
                 /\ k.no = e.no
  BY <1>1 DEF ConsoleEdit
<1>3. CASE /\ acEdits' = (acEdits \ {e}) \cup {[e EXCEPT !.step = "failed"]}
           /\ UNCHANGED <<acRows, acLog, acPage>>
  <2> DEFINE k == [e EXCEPT !.step = "failed"]
  <2>1. k \in ConsoleEdit /\ k.table = e.table /\ k.row = e.row /\ k.to = e.to /\ k.step = "failed"
        /\ k.no = e.no
    BY <1>2
  <2>2. acEdits' = (acEdits \ {e}) \cup {k}
    BY <1>3
  <2> HIDE DEF k
  <2>3. /\ acEdits' \subseteq ConsoleEdit /\ EditsNumbered' /\ \A x \in Tables : OneEdit(x)'
        /\ \A d \in acEdits' :
              d.row \in RowsOf(d.table) /\ (d.table = "users" <=> d.to.field \in {"plan", "active"})
    BY <1>1, <1>3, <2>1, <2>2, EditGoesOn
  <2>4. ConsoleTypeOK' /\ ReadsNumbered'
    BY <1>1, <1>3, <2>3 DEF ConsoleInv, ConsoleTypeOK, ReadsNumbered
  <2>5. ASSUME NEW x \in Tables PROVE TableIsRead(x)'
    <3>1. Informed(x)' => Informed(x)
      BY <1>1, <1>3, <2>1, <2>2 DEF Informed, Editing
    <3> QED
      BY <1>1, <1>3, <3>1 DEF ConsoleInv, TableIsRead, Latest, isLoading
  <2> QED
    BY <2>3, <2>4, <2>5 DEF ConsoleInv
<1>4. CASE /\ acRows' = [acRows EXCEPT ![e.table][e.row] = New(e, @)]
           /\ acLog' = [table |-> e.table, old |-> acRows[e.table][e.row], new |-> New(e, acRows[e.table][e.row])]
           /\ \E step \in {"applied", "failed"} :
                 /\ acEdits' = (acEdits \ {e}) \cup {[e EXCEPT !.step = step]}
                 /\ acPage' = [acPage EXCEPT !.missed[e.table] = @ \/ step = "failed"]
  <2>1. PICK step \in {"applied", "failed"} :
          /\ acEdits' = (acEdits \ {e}) \cup {[e EXCEPT !.step = step]}
          /\ acPage' = [acPage EXCEPT !.missed[e.table] = @ \/ step = "failed"]
    BY <1>4
  <2> DEFINE k == [e EXCEPT !.step = step]
             m == acPage.missed[e.table] \/ step = "failed"
             missed == [acPage.missed EXCEPT ![e.table] = m]
             old == acRows[e.table][e.row]
  <2>2. /\ k \in ConsoleEdit /\ k.table = e.table /\ k.row = e.row /\ k.to = e.to /\ k.step = step
        /\ k.no = e.no
    BY <1>2
  <2>3. m \in BOOLEAN /\ (step = "failed" => m)
    <3>1. acPage.missed[e.table] \in BOOLEAN
      BY <1>1
    <3> QED
      BY <3>1, Zenon
  <2>4. acEdits' = (acEdits \ {e}) \cup {k} /\ acPage' = [acPage EXCEPT !.missed = missed]
    BY <2>1
  <2> HIDE DEF k, m
  <2>5. missed \in [Tables -> BOOLEAN] /\ missed[e.table] = m /\ \A x \in Tables \ {e.table} : missed[x] = acPage.missed[x]
    BY <1>1, <2>3
  <2> HIDE DEF missed
  <2>6. /\ acPage' \in ConsoleState /\ acPage'.missed = missed /\ acPage'.tab = acPage.tab
        /\ acPage'.creating = acPage.creating /\ acPage'.busy = acPage.busy /\ acPage'.read = acPage.read
        /\ acPage'.crossed = acPage.crossed /\ acPage'.latest = acPage.latest
        /\ acPage'.opened = acPage.opened
    BY <1>1, <2>4, <2>5 DEF ConsoleState
  <2>7. /\ acEdits' \subseteq ConsoleEdit /\ EditsNumbered' /\ \A x \in Tables : OneEdit(x)'
        /\ \A d \in acEdits' :
              d.row \in RowsOf(d.table) /\ (d.table = "users" <=> d.to.field \in {"plan", "active"})
        /\ \A x \in Tables \ {e.table} : Editing(x)' = Editing(x)
    BY <1>1, <2>2, <2>4, <2>6, EditGoesOn
  <2>8. old \in RowStates(e.table) /\ New(e, old) \in RowStates(e.table)
    <3>1. old \in RowStates(e.table)
      BY <1>1, ContentsOK DEF ConsoleInv
    <3> HIDE DEF old
    <3> QED
      BY <1>1, <3>1, NewOK
  <2>9. /\ acRows' \in [users: Contents["users"], flags: Contents["flags"]]
        /\ \A x \in Tables \ {e.table} : acRows'[x] = acRows[x]
    <3>1. acRows' = [acRows EXCEPT ![e.table][e.row] = New(e, old)]
      BY <1>4
    <3>2. acRows \in [users: Contents["users"], flags: Contents["flags"]]
      BY DEF ConsoleInv, ConsoleTypeOK
    <3>3. CASE e.table = "users"
      <4>1. [acRows.users EXCEPT ![e.row] = New(e, old)] \in Contents["users"]
        BY <1>1, <2>8, <3>2, <3>3 DEF Contents, RowStates, RowsOf
      <4> HIDE DEF old
      <4> QED
        BY <3>1, <3>2, <3>3, <4>1 DEF Tables
    <3>4. CASE e.table = "flags"
      <4>1. [acRows.flags EXCEPT ![e.row] = New(e, old)] \in Contents["flags"]
        BY <1>1, <2>8, <3>2, <3>4 DEF Contents, RowStates, RowsOf
      <4> HIDE DEF old
      <4> QED
        BY <3>1, <3>2, <3>4, <4>1 DEF Tables
    <3> QED
      BY <1>1, <3>3, <3>4 DEF Tables
  <2>10. acLog'.table \in Tables /\ {acLog'.old, acLog'.new} \subseteq RowStates(acLog'.table)
    <3>1. acLog'.table = e.table /\ acLog'.old = old /\ acLog'.new = New(e, old)
      BY <1>4
    <3> HIDE DEF old
    <3> QED
      BY <1>1, <2>8, <3>1
  <2>11. ConsoleTypeOK' /\ ReadsNumbered'
    BY <1>1, <2>6, <2>7, <2>9, <2>10 DEF ConsoleInv, ConsoleTypeOK, ReadsNumbered
  <2>12. ASSUME NEW x \in Tables PROVE TableIsRead(x)'
    <3>1. CASE x = e.table
      <4>1. ~Informed(x)'
        BY <2>2, <2>3, <2>4, <2>5, <2>6, <3>1 DEF Informed, Editing
      <4> QED
        BY <4>1 DEF TableIsRead
    <3>2. CASE x # e.table
      <4>1. Informed(x)' = Informed(x) /\ Latest(x)' = Latest(x) /\ isLoading(x)' = isLoading(x)
        BY <1>1, <2>5, <2>6, <2>7, <3>2 DEF Informed, Latest, isLoading
      <4> QED
        BY <2>6, <2>9, <3>2, <4>1 DEF ConsoleInv, TableIsRead
    <3> QED
      BY <3>1, <3>2
  <2> QED
    BY <2>7, <2>11, <2>12 DEF ConsoleInv
<1> QED
  BY <1>3, <1>4 DEF ServeConsole

\* The answer of an edit arrives: its table is read again where it is shown, and what
\* was being read of it is dropped where not.
LEMMA ConsoleAnsweredStep ==
  ASSUME ConsoleInv, NEW e \in acEdits, ConsoleAnswered(e)
  PROVE  ConsoleInv'
<1> DEFINE t == e.table
           no == acPage.latest[t] + 1
           k == [e EXCEPT !.step = "reading", !.read = no]
           latest == [acPage.latest EXCEPT ![t] = @ + 1]
<1>1. /\ e \in ConsoleEdit /\ t \in Tables /\ acPage \in ConsoleState /\ acPage.latest \in [Tables -> Nat]
      /\ UNCHANGED <<acRows, acLog, acSent>>
  BY DEF ConsoleInv, ConsoleTypeOK, ConsoleEdit, ConsoleState, ConsoleAnswered
<1>2. /\ acEdits' = (acEdits \ {e}) \cup {k}
      /\ acReads' = IF acPage.tab = t THEN acReads \cup {NewRead(t)} ELSE acReads
      /\ acPage' = [acPage EXCEPT !.latest = latest]
  BY DEF ConsoleAnswered
<1>3. no \in Nat /\ latest \in [Tables -> Nat]
  BY <1>1
<1> HIDE DEF no
<1>4. /\ k \in ConsoleEdit /\ k.table = t /\ k.row = e.row /\ k.to = e.to /\ k.step = "reading"
      /\ k.no = e.no
  BY <1>1, <1>3 DEF ConsoleEdit
<1> HIDE DEF k, latest
<1>5. /\ acPage' \in ConsoleState /\ acPage'.latest = latest /\ acPage'.tab = acPage.tab
      /\ acPage'.creating = acPage.creating /\ acPage'.busy = acPage.busy /\ acPage'.read = acPage.read
      /\ acPage'.crossed = acPage.crossed /\ acPage'.missed = acPage.missed
      /\ acPage'.opened = acPage.opened
  BY <1>1, <1>2, <1>3 DEF ConsoleState
<1>6. /\ acReads' \subseteq ConsoleRead /\ ReadsNumbered'
      /\ \A r \in Latest(t)' : r.step = "sent"
      /\ acPage.tab = t => Latest(t)' # {}
      /\ \A r \in acReads' : r.step = "served" => r.rows \in Contents[r.table]
      /\ \A x \in Tables \ {t} : Latest(x)' = Latest(x)
  <2>1. acPage'.latest = [acPage.latest EXCEPT ![t] = @ + 1]
    BY <1>5 DEF latest
  <2> HIDE DEF t
  <2>2. CASE acPage.tab = t
    <3>1. acReads' = acReads \cup {NewRead(t)}
      BY <1>2, <2>2
    <3> QED
      BY <1>1, <1>5, <2>1, <3>1, NewReadOK
  <2>3. CASE acPage.tab # t
    <3>1. acReads' = acReads
      BY <1>2, <2>3
    <3>2. /\ acPage'.latest[t] = acPage.latest[t] + 1 /\ acPage.latest[t] \in Nat
          /\ \A x \in Tables \ {t} : acPage'.latest[x] = acPage.latest[x]
      BY <1>1, <2>1
    <3>3. acReads \subseteq ConsoleRead /\ \A r \in acReads : r.no \in Nat /\ r.table \in Tables
      BY DEF ConsoleInv, ConsoleTypeOK, ConsoleRead
    <3>4. \A r \in acReads : r.no <= acPage.latest[r.table]
      BY DEF ConsoleInv, ReadsNumbered
    <3>5. ReadsNumbered'
      BY <1>1, <3>1, <3>2, <3>3, <3>4 DEF ConsoleInv, ReadsNumbered
    <3>6. Latest(t)' = {}
      BY <3>1, <3>2, <3>3, <3>4 DEF Latest
    <3>7. \A x \in Tables \ {t} : Latest(x)' = Latest(x)
      BY <3>1, <3>2 DEF Latest
    <3> QED
      BY <2>3, <3>1, <3>3, <3>5, <3>6, <3>7 DEF ConsoleInv, ConsoleTypeOK
  <2> QED
    BY <2>2, <2>3
<1>7. /\ acEdits' \subseteq ConsoleEdit
      /\ \A d \in acEdits' :
            d.row \in RowsOf(d.table) /\ (d.table = "users" <=> d.to.field \in {"plan", "active"})
      /\ EditsNumbered' /\ \A x \in Tables : OneEdit(x)'
      /\ \A x \in Tables \ {t} : Editing(x)' = Editing(x)
  BY <1>1, <1>2, <1>4, <1>5, EditGoesOn
<1>8. ConsoleTypeOK'
  BY <1>1, <1>5, <1>6, <1>7 DEF ConsoleInv, ConsoleTypeOK
<1>9. ASSUME NEW x \in Tables PROVE TableIsRead(x)'
  <2>1. CASE x = t
    BY <1>5, <1>6, <2>1 DEF TableIsRead
  <2>2. CASE x # t
    <3>1. Informed(x)' = Informed(x) /\ Latest(x)' = Latest(x) /\ isLoading(x)' = isLoading(x)
      BY <1>5, <1>6, <1>7, <2>2 DEF Informed, isLoading
    <3> QED
      BY <1>1, <1>5, <3>1 DEF ConsoleInv, TableIsRead
  <2> QED
    BY <2>1, <2>2
<1> QED
  BY <1>6, <1>7, <1>8, <1>9 DEF ConsoleInv

\* An edit ends: where edits did not cross it was the only one, or was sent before the
\* tab was opened and touches nothing of it.
LEMMA DoneStep ==
  ASSUME ConsoleInv, NEW e \in acEdits, Done(e)
  PROVE  ConsoleInv'
<1> DEFINE t == e.table
           b == IF e.to.field = "create" THEN acPage.busy[t] ELSE NoRow
           cr == acPage.creating /\ e.to.field # "create"
           sh == acPage.showCreate /\ (e.to.field # "create" \/ e.step = "failed")
           c == acPage.crossed[t] /\ Mounted(t) # {e}
           busy == [acPage.busy EXCEPT ![t] = b]
           crossed == [acPage.crossed EXCEPT ![t] = c]
<1>1. /\ e \in ConsoleEdit /\ t \in Tables /\ acPage \in ConsoleState
      /\ acPage.busy \in [Tables -> AdminUser \cup Flag \cup {NoRow}]
      /\ acPage.crossed \in [Tables -> BOOLEAN]
      /\ \A x \in Tables : acPage.busy[x] \in RowsOf(x) \cup {NoRow}
      /\ t = "users" <=> e.to.field \in {"plan", "active"}
  BY DEF ConsoleInv, ConsoleTypeOK, ConsoleEdit, ConsoleState
<1>2. /\ e.step # "applied" /\ acEdits' = acEdits \ {e}
      /\ UNCHANGED <<acRows, acLog, acReads, acSent>>
  BY DEF Done
<1>12. ReadsNumbered' /\ EditsNumbered'
  <2>1. acPage'.latest = acPage.latest /\ acPage'.opened = acPage.opened
    BY <1>1 DEF Done, Released, ConsoleState
  <2> QED
    BY <1>2, <2>1 DEF ConsoleInv, ReadsNumbered, EditsNumbered
<1>13. CASE e.no < acPage.opened
  <2>1. acPage' = acPage
    BY <1>13 DEF Done, Released
  <2>2. ConsoleTypeOK'
    BY <1>2, <2>1 DEF ConsoleInv, ConsoleTypeOK
  <2>3. ASSUME NEW x \in Tables PROVE TableIsRead(x)' /\ OneEdit(x)'
    <3>1. Informed(x)' => Informed(x)
      BY <1>2, <2>1 DEF Informed, Editing
    <3>2. e.no \in Nat /\ acPage.opened \in Nat
      BY <1>1 DEF ConsoleEdit, ConsoleState
    <3>3. Mounted(x)' = Mounted(x)
      BY <1>2, <1>13, <2>1, <3>2 DEF Mounted, Editing
    <3> QED
      BY <1>2, <2>1, <3>1, <3>3 DEF ConsoleInv, TableIsRead, OneEdit, Latest, isLoading
  <2> QED
    BY <1>12, <2>2, <2>3 DEF ConsoleInv
<1>14. SUFFICES ASSUME ~(e.no < acPage.opened) PROVE ConsoleInv'
  BY <1>13
<1>15. acPage' = [acPage EXCEPT !.busy = busy, !.creating = cr, !.showCreate = sh, !.crossed = crossed]
  BY <1>14 DEF Done, Released
<1>3. b \in RowsOf(t) \cup {NoRow} /\ b \in AdminUser \cup Flag \cup {NoRow}
  BY <1>1 DEF RowsOf
<1>4. cr \in BOOLEAN /\ sh \in BOOLEAN /\ c \in BOOLEAN /\ (e.to.field # "create" => cr = acPage.creating)
      /\ (~c => ~acPage.crossed[t] \/ Mounted(t) = {e})
  <2>1. acPage.creating \in BOOLEAN /\ acPage.showCreate \in BOOLEAN /\ acPage.crossed[t] \in BOOLEAN
    BY <1>1 DEF ConsoleState
  <2> QED
    BY <2>1, Zenon
<1> HIDE DEF b, cr, sh, c
<1>5. /\ busy \in [Tables -> AdminUser \cup Flag \cup {NoRow}] /\ crossed \in [Tables -> BOOLEAN]
      /\ busy[t] = b /\ crossed[t] = c
      /\ \A x \in Tables \ {t} : busy[x] = acPage.busy[x] /\ crossed[x] = acPage.crossed[x]
  BY <1>1, <1>3, <1>4
<1> HIDE DEF busy, crossed
<1>6. /\ acPage' \in ConsoleState /\ acPage'.busy = busy /\ acPage'.crossed = crossed
      /\ acPage'.tab = acPage.tab /\ acPage'.read = acPage.read
      /\ acPage'.missed = acPage.missed /\ acPage'.latest = acPage.latest /\ acPage'.opened = acPage.opened
  BY <1>1, <1>4, <1>5, <1>15 DEF ConsoleState
<1>7. acPage'.creating = cr
  BY <1>1, <1>4, <1>15, Zenon DEF ConsoleState
<1>8. ConsoleTypeOK'
  <2>1. \A x \in Tables :
           acPage'.busy[x] \in RowsOf(x) \cup {NoRow} /\ acPage'.read[x] \in Contents[x] \cup {NoRow}
    BY <1>1, <1>3, <1>5, <1>6 DEF ConsoleInv, ConsoleTypeOK
  <2> QED
    BY <1>2, <1>6, <2>1 DEF ConsoleInv, ConsoleTypeOK
<1>10. ASSUME NEW x \in Tables PROVE TableIsRead(x)'
  <2>1. Informed(x)' => Informed(x)
    BY <1>2, <1>6 DEF Informed, Editing
  <2> QED
    BY <1>2, <1>6, <2>1 DEF ConsoleInv, TableIsRead, Latest, isLoading
<1>11. ASSUME NEW x \in Tables PROVE OneEdit(x)'
  <2>0. e.no >= acPage.opened
    BY <1>1, <1>14 DEF ConsoleEdit, ConsoleState
  <2>1. CASE x = t
    <3>1. ~crossed[x] => Mounted(x) = {e}
      BY <1>4, <1>5, <2>0, <2>1 DEF ConsoleInv, OneEdit, Editing, Mounted
    <3>2. Mounted(x)' = Mounted(x) \ {e}
      BY <1>2, <1>6 DEF Editing, Mounted
    <3> QED
      BY <1>6, <3>1, <3>2 DEF OneEdit
  <2>2. CASE x # t
    <3>1. Mounted(x)' = Mounted(x)
      BY <1>2, <1>6, <2>2 DEF Editing, Mounted
    <3>2. \A d \in Mounted(x) : d.to.field = "create" => cr = acPage.creating
      BY <1>1, <1>4, <2>2 DEF ConsoleInv, ConsoleTypeOK, Editing, Mounted, Tables
    <3> QED
      BY <1>5, <1>6, <1>7, <2>2, <3>1, <3>2 DEF ConsoleInv, OneEdit
  <2> QED
    BY <2>1, <2>2
<1> QED
  BY <1>8, <1>10, <1>11, <1>12 DEF ConsoleInv

\* A read is served with the rows as they are.
LEMMA ReadServedStep ==
  ASSUME ConsoleInv, NEW r \in acReads, ReadServed(r)
  PROVE  ConsoleInv'
<1> DEFINE k == [r EXCEPT !.step = "served", !.rows = acRows[r.table]]
<1>1. /\ r \in ConsoleRead /\ r.table \in Tables /\ UNCHANGED <<acRows, acLog, acPage, acEdits, acSent>>
      /\ acRows[r.table] \in Contents[r.table] /\ Contents[r.table] \subseteq TableContents
  <2>1. r \in ConsoleRead /\ r.table \in Tables /\ ConsoleTypeOK
    BY DEF ConsoleInv, ConsoleTypeOK, ConsoleRead
  <2> QED
    BY <2>1, ContentsOK DEF ReadServed
<1>2. acReads' = (acReads \ {r}) \cup {k}
  BY DEF ReadServed
<1>3. k \in ConsoleRead /\ k.table = r.table /\ k.no = r.no /\ k.rows = acRows[r.table]
  BY <1>1 DEF ConsoleRead
<1> HIDE DEF k
<1>4. ConsoleTypeOK'
  BY <1>1, <1>2, <1>3 DEF ConsoleInv, ConsoleTypeOK
<1>5. ReadsNumbered' /\ EditsNumbered'
  BY <1>1, <1>2, <1>3 DEF ConsoleInv, ReadsNumbered, EditsNumbered
<1>6. ASSUME NEW x \in Tables PROVE TableIsRead(x)' /\ OneEdit(x)'
  <2>1. Informed(x)' = Informed(x) /\ Mounted(x)' = Mounted(x) /\ isLoading(x)' = isLoading(x)
    BY <1>1 DEF Informed, Editing, Mounted, isLoading
  <2>2. /\ \A q \in Latest(x)' : q \in Latest(x) \/ q.rows = acRows[x]
        /\ Latest(x)' = {} => Latest(x) = {}
    BY <1>1, <1>2, <1>3 DEF Latest
  <2> QED
    BY <1>1, <2>1, <2>2 DEF ConsoleInv, TableIsRead, OneEdit
<1> QED
  BY <1>4, <1>5, <1>6 DEF ConsoleInv

\* The answer of a read arrives, and is shown when it is the latest one's.
LEMMA ReadArrivesStep ==
  ASSUME ConsoleInv, NEW r \in acReads, ReadArrives(r)
  PROVE  ConsoleInv'
<1>1. /\ r \in ConsoleRead /\ r.table \in Tables /\ r.step = "served" /\ acReads' = acReads \ {r}
      /\ UNCHANGED <<acRows, acLog, acEdits, acSent>> /\ r.rows \in Contents[r.table]
      /\ acPage \in ConsoleState /\ acPage.read \in [Tables -> TableContents \cup {NoRow}]
  BY DEF ConsoleInv, ConsoleTypeOK, ConsoleRead, ConsoleState, ReadArrives
<1>2. ReadsNumbered' /\ EditsNumbered' /\ acReads' \subseteq ConsoleRead
  <2>1. acPage'.latest = acPage.latest /\ acPage'.opened = acPage.opened
    BY <1>1 DEF ReadArrives, ConsoleState
  <2> QED
    BY <1>1, <2>1 DEF ConsoleInv, ConsoleTypeOK, ReadsNumbered, EditsNumbered
<1>3. CASE r.no # acPage.latest[r.table]
  <2>1. acPage' = acPage
    BY <1>3 DEF ReadArrives
  <2>2. \A x \in Tables : Latest(x)' = Latest(x)
    BY <1>1, <1>3, <2>1 DEF Latest
  <2>3. ConsoleTypeOK'
    BY <1>1, <2>1 DEF ConsoleInv, ConsoleTypeOK
  <2>4. \A x \in Tables : TableIsRead(x)' /\ OneEdit(x)'
    BY <1>1, <2>1, <2>2 DEF ConsoleInv, TableIsRead, OneEdit, Informed, Editing, Mounted, isLoading
  <2> QED
    BY <1>2, <2>3, <2>4 DEF ConsoleInv
<1>4. CASE r.no = acPage.latest[r.table]
  <2> DEFINE t == r.table
             read == [acPage.read EXCEPT ![t] = r.rows]
  <2>1. acPage' = [acPage EXCEPT !.read = read]
    BY <1>4 DEF ReadArrives
  <2>2. /\ read \in [Tables -> TableContents \cup {NoRow}] /\ read[t] = r.rows
        /\ \A x \in Tables \ {t} : read[x] = acPage.read[x]
    <3>1. r.rows \in TableContents
      BY <1>1, ContentsOK
    <3> QED
      BY <1>1, <3>1
  <2> HIDE DEF read
  <2>3. /\ acPage' \in ConsoleState /\ acPage'.read = read /\ acPage'.tab = acPage.tab
        /\ acPage'.creating = acPage.creating /\ acPage'.busy = acPage.busy
        /\ acPage'.crossed = acPage.crossed /\ acPage'.missed = acPage.missed
        /\ acPage'.latest = acPage.latest /\ acPage'.opened = acPage.opened
    BY <1>1, <2>1, <2>2 DEF ConsoleState
  <2>4. ConsoleTypeOK'
    <3>1. \A x \in Tables :
             acPage'.busy[x] \in RowsOf(x) \cup {NoRow} /\ acPage'.read[x] \in Contents[x] \cup {NoRow}
      BY <1>1, <2>2, <2>3 DEF ConsoleInv, ConsoleTypeOK
    <3> QED
      BY <1>1, <2>3, <3>1 DEF ConsoleInv, ConsoleTypeOK
  <2>5. ASSUME NEW x \in Tables PROVE TableIsRead(x)' /\ OneEdit(x)'
    <3>1. Informed(x)' = Informed(x) /\ OneEdit(x)' = OneEdit(x)
      BY <1>1, <2>3 DEF Informed, OneEdit, Editing, Mounted
    <3>2. CASE x = t
      <4>1. r \in Latest(x) /\ Latest(x)' = {}
        BY <1>1, <1>4, <2>3, <3>2 DEF ConsoleInv, ReadsNumbered, Latest
      <4>2. Informed(x) => r.rows = acRows[x]
        BY <1>1, <4>1 DEF ConsoleInv, TableIsRead
      <4> QED
        BY <1>1, <2>2, <2>3, <3>1, <3>2, <4>1, <4>2 DEF ConsoleInv, TableIsRead
    <3>3. CASE x # t
      <4>1. Latest(x)' = Latest(x)
        BY <1>1, <2>3, <3>3 DEF Latest
      <4> QED
        BY <1>1, <2>2, <2>3, <3>1, <3>3, <4>1 DEF ConsoleInv, TableIsRead, isLoading
    <3> QED
      BY <3>2, <3>3
  <2> QED
    BY <1>2, <2>4, <2>5 DEF ConsoleInv
<1> QED
  BY <1>3, <1>4

\* A read fails: the page has missed it when it was the latest one.
LEMMA ReadFailsStep ==
  ASSUME ConsoleInv, NEW r \in acReads, ReadFails(r)
  PROVE  ConsoleInv'
<1> DEFINE t == r.table
           m == acPage.missed[t] \/ r.no = acPage.latest[t]
           missed == [acPage.missed EXCEPT ![t] = m]
<1>1. /\ r \in ConsoleRead /\ t \in Tables /\ acReads' = acReads \ {r}
      /\ UNCHANGED <<acRows, acLog, acEdits, acSent>>
      /\ acPage \in ConsoleState /\ acPage.missed \in [Tables -> BOOLEAN]
  BY DEF ConsoleInv, ConsoleTypeOK, ConsoleRead, ConsoleState, ReadFails
<1>2. acPage' = [acPage EXCEPT !.missed = missed]
  BY DEF ReadFails
<1>3. m \in BOOLEAN /\ (~m => ~acPage.missed[t] /\ r.no # acPage.latest[t])
  <2>1. acPage.missed[t] \in BOOLEAN
    BY <1>1
  <2> QED
    BY <2>1, Zenon
<1> HIDE DEF m
<1>4. missed \in [Tables -> BOOLEAN] /\ missed[t] = m /\ \A x \in Tables \ {t} : missed[x] = acPage.missed[x]
  BY <1>1, <1>3
<1> HIDE DEF missed
<1>5. /\ acPage' \in ConsoleState /\ acPage'.missed = missed /\ acPage'.tab = acPage.tab
      /\ acPage'.creating = acPage.creating /\ acPage'.busy = acPage.busy /\ acPage'.read = acPage.read
      /\ acPage'.crossed = acPage.crossed /\ acPage'.latest = acPage.latest
      /\ acPage'.opened = acPage.opened
  BY <1>1, <1>2, <1>4 DEF ConsoleState
<1>6. ConsoleTypeOK' /\ ReadsNumbered' /\ EditsNumbered'
  BY <1>1, <1>5 DEF ConsoleInv, ConsoleTypeOK, ReadsNumbered, EditsNumbered
<1>7. ASSUME NEW x \in Tables PROVE TableIsRead(x)' /\ OneEdit(x)'
  <2>1. OneEdit(x)' = OneEdit(x)
    BY <1>1, <1>5 DEF OneEdit, Editing, Mounted
  <2>2. Informed(x)' => Informed(x) /\ Latest(x)' = Latest(x)
    <3>1. CASE x = t
      BY <1>1, <1>3, <1>4, <1>5, <3>1 DEF Informed, Latest, Editing
    <3>2. CASE x # t
      BY <1>1, <1>4, <1>5, <3>2 DEF Informed, Latest, Editing
    <3> QED
      BY <3>1, <3>2
  <2> QED
    BY <1>1, <1>5, <2>1, <2>2 DEF ConsoleInv, TableIsRead, isLoading
<1> QED
  BY <1>6, <1>7 DEF ConsoleInv

\* Every step of the console keeps its invariant.
LEMMA ConsoleStep ==
  ConsoleInv /\ [ConsoleNext]_consoleVars => ConsoleInv'
<1> SUFFICES ASSUME ConsoleInv, [ConsoleNext]_consoleVars PROVE ConsoleInv'
  OBVIOUS
<1>1. CASE UNCHANGED consoleVars
  BY <1>1 DEF consoleVars, ConsoleInv, ConsoleTypeOK, ReadsNumbered, EditsNumbered, TableIsRead, OneEdit, Informed, Latest,
              Editing, Mounted, isLoading
<1>2. ASSUME NEW t \in TABS, setConsoleTab(t) PROVE ConsoleInv'
  BY <1>2, TabStep
<1>3. CASE \/ \E u \in AdminUser, plan \in {"free", "demo"} : handlePlanChange(u, plan)
           \/ \E u \in AdminUser : handleToggleActive(u)
           \/ \E f \in Flag : handleToggle(f) \/ handleCreate(f)
  BY <1>3, EditSteps
<1>4. CASE ShowCreate
  BY <1>4, ShowStep
<1>5. CASE handleUsersRefresh
  BY <1>5, RefreshUsersStep
<1>6. ASSUME NEW e \in acEdits, ServeConsole(e) PROVE ConsoleInv'
  BY <1>6, ServeConsoleStep
<1>7. ASSUME NEW e \in acEdits, ConsoleAnswered(e) PROVE ConsoleInv'
  BY <1>7, ConsoleAnsweredStep
<1>8. ASSUME NEW e \in acEdits, Done(e) PROVE ConsoleInv'
  BY <1>8, DoneStep
<1>9. ASSUME NEW r \in acReads, ReadServed(r) PROVE ConsoleInv'
  BY <1>9, ReadServedStep
<1>10. ASSUME NEW r \in acReads, ReadArrives(r) PROVE ConsoleInv'
  BY <1>10, ReadArrivesStep
<1>11. ASSUME NEW r \in acReads, ReadFails(r) PROVE ConsoleInv'
  BY <1>11, ReadFailsStep
<1> QED
  BY <1>1, <1>2, <1>3, <1>4, <1>5, <1>6, <1>7, <1>8, <1>9, <1>10, <1>11 DEF ConsoleNext

\* What the invariant says of the tables and of the edits under way.
LEMMA TablesAreTrue == ConsoleInv => TableIsTrue /\ EditedRowIsBusy
<1> SUFFICES ASSUME ConsoleInv PROVE TableIsTrue /\ EditedRowIsBusy
  OBVIOUS
<1>1. ASSUME NEW t \in Tables, acPage.tab = t, ~isLoading(t), Editing(t) = {}, ConsoleReading(t) = {}, ~acPage.missed[t]
      PROVE  acPage.read[t] = acRows[t]
  <2>1. Informed(t) /\ Latest(t) = {}
    BY <1>1 DEF Informed, Latest, ConsoleReading
  <2> QED
    BY <1>1, <2>1 DEF ConsoleInv, TableIsRead
<1>2. ASSUME NEW e \in acEdits, e.no >= acPage.opened, ~acPage.crossed[e.table]
      PROVE  IF e.to.field = "create" THEN acPage.creating ELSE Disabled(e.table, e.row)
  <2>1. e.table \in Tables /\ e \in Mounted(e.table)
    BY <1>2 DEF ConsoleInv, ConsoleTypeOK, ConsoleEdit, Editing, Mounted
  <2> QED
    BY <1>2, <2>1 DEF ConsoleInv, OneEdit, Disabled
<1> QED
  BY <1>1, <1>2 DEF TableIsTrue, EditedRowIsBusy

\* Rows that differ do so in a field that the line of the log shows.
LEMMA ChangesAreShown == ConsoleInv => ChangeIsShown
<1> SUFFICES ASSUME ConsoleInv, acLog # NoRow, acLog.old # acLog.new,
                    acLog.table = "flags" => acLog.old # "absent"
             PROVE  \E c \in AuditChange(acLog) : c[2] # c[3]
  BY DEF ChangeIsShown
<1>1. acLog.table \in Tables /\ acLog.old \in RowStates(acLog.table) /\ acLog.new \in RowStates(acLog.table)
  BY DEF ConsoleInv, ConsoleTypeOK
<1>2. CASE acLog.table = "flags"
  <2>1. <<"enabled", acLog.old, acLog.new>> \in AuditChange(acLog)
    BY <1>2 DEF AuditChange
  <2> QED
    BY <2>1
<1>3. CASE acLog.table = "users"
  <2>1. acLog.old \in UserRow /\ acLog.new \in UserRow
    BY <1>1, <1>3 DEF RowStates
  <2>2. PICK k \in {"plan", "active"} : acLog.old[k] # acLog.new[k]
    <3>1. acLog.old.plan # acLog.new.plan \/ acLog.old.active # acLog.new.active
      <4>1. /\ acLog.old = [plan |-> acLog.old.plan, active |-> acLog.old.active]
            /\ acLog.new = [plan |-> acLog.new.plan, active |-> acLog.new.active]
        BY <2>1 DEF UserRow
      <4> QED
        BY <4>1, Zenon
    <3> QED
      BY <3>1
  <2>3. <<k, acLog.old[k], acLog.new[k]>> \in AuditChange(acLog)
    BY <1>3, <2>2 DEF AuditChange
  <2> QED
    BY <2>2, <2>3
<1> QED
  BY <1>1, <1>2, <1>3 DEF Tables

\* The bars of the signups, and the badges of the batches.
LEMMA ReadTabs == ReadTabsAreTrue
<1>1. ASSUME NEW days \in [1 .. 2 -> 0 .. 3]
      PROVE  /\ \A d \in 1 .. 2 : StatsBar(days, d).percent \in 0 .. 100
             /\ \E d \in 1 .. 2 : days[d] > 0 => StatsBar(days, d).percent = 100 /\ StatsBar(days, d).floor > 0
  <2> DEFINE counts == {days[x] : x \in DOMAIN days} \cup {1}
             most == Max(counts)
  <2>1. days[1] \in 0 .. 3 /\ days[2] \in 0 .. 3 /\ counts = {days[1], days[2], 1}
    OBVIOUS
  <2>2. most \in counts /\ \A x \in counts : most >= x
    <3>1. \E x \in counts : \A y \in counts : x >= y
      BY <2>1
    <3> QED
      BY <3>1, Zenon DEF Max
  <2> HIDE DEF most
  <2>3. most \in 1 .. 3 /\ days[1] <= most /\ days[2] <= most
    BY <2>1, <2>2
  <2>4. \A d \in 1 .. 2 : /\ StatsBar(days, d).percent = (days[d] * 100) \div most
                         /\ StatsBar(days, d).floor = IF days[d] > 0 THEN 4 ELSE 0
    BY DEF StatsBar, most
  <2>5. \A n \in 0 .. 3 : n <= most => (n * 100) \div most \in 0 .. 100
    BY <2>3
  <2>6. \A d \in 1 .. 2 : StatsBar(days, d).percent \in 0 .. 100
    BY <2>1, <2>3, <2>4, <2>5
  <2>7. \E d \in 1 .. 2 : days[d] > 0 => StatsBar(days, d).percent = 100 /\ StatsBar(days, d).floor > 0
    <3>1. days[1] = 0 \/ days[2] = 0 \/ days[1] = most \/ days[2] = most
      BY <2>1, <2>2
    <3>2. (most * 100) \div most = 100
      BY <2>3
    <3> QED
      BY <2>1, <2>4, <3>1, <3>2
  <2> QED
    BY <2>6, <2>7
<1>2. \A s \in {"running", "success", "error"} : BatchStatusStyle(s) # BatchStatusStyle("unknown")
  BY DEF BatchStatusStyle
<1> QED
  BY <1>1, <1>2 DEF ReadTabsAreTrue

\* The console is true to its tables.
LEMMA ConsoleInvSound == ConsoleInv => ConsoleIsTrue
  BY TablesAreTrue, ChangesAreShown, ReadTabs DEF ConsoleIsTrue

-----------------------------------------------------------------------------
(* The liquidity page: the events its figures are judged by.                *)

\* The latest figures of the two groups the events are found in.
FiguresKnown ==
    /\ lf = [group |-> lf.group, fed |-> lf.fed, months |-> lf.months, now |-> lf.now]
    /\ lf.group = "falls" => lf.now \in [Falling -> Int \cup {Unknown}]
    /\ lf.group = "shocks" => lf.now \in [Rising -> Int \cup {Unknown}]

\* The groups' series.
LEMMA KnownOK ==
  /\ Known("falls") \in FiguresOf(Falling) /\ DOMAIN Known("falls") = Falling
  /\ Known("shocks") \in FiguresOf(Rising) /\ DOMAIN Known("shocks") = Rising
BY LiquidityFiguresConstants DEF Known, FiguresOf

\* A figure that is taken of those there are.
LEMMA AFigureOK == ASSUME NEW figures, figures # {} PROVE AFigure(figures) \in figures
BY DEF AFigure

\* Each series begins with a figure of its own.
LEMMA FiguresInitOK == LiquidityInit => FiguresKnown
<1> SUFFICES ASSUME NEW g \in Group,
                    lf = [group |-> g, fed |-> <<>>, months |-> <<>>,
                          now |-> [s \in DOMAIN Known(g) |-> AFigure(Known(g)[s])]]
             PROVE  FiguresKnown
  BY DEF LiquidityInit
<1>1. ASSUME NEW series, NEW f \in FiguresOf(series)
      PROVE  [s \in series |-> AFigure(f[s])] \in [series -> Int \cup {Unknown}]
  <2>1. ASSUME NEW s \in series PROVE AFigure(f[s]) \in Int \cup {Unknown}
    <3>1. f[s] # {} /\ f[s] \subseteq Int \cup {Unknown}
      BY DEF FiguresOf
    <3>2. AFigure(f[s]) \in f[s]
      BY <3>1, AFigureOK
    <3> QED
      BY <3>1, <3>2
  <2> QED
    BY <2>1
<1> QED
  BY <1>1, KnownOK DEF FiguresKnown

\* A figure that is reported is one of its series.
LEMMA ObserveOK ==
  ASSUME FiguresKnown, NEW s \in DOMAIN Known(lf.group), NEW v \in Known(lf.group)[s], Observe(s, v)
  PROVE  /\ FiguresKnown' /\ lf'.group = lf.group
         /\ lf.group = "falls" => s \in Falling /\ lf'.now = [lf.now EXCEPT ![s] = v] /\ v \in Int \cup {Unknown}
         /\ lf.group = "shocks" => s \in Rising /\ lf'.now = [lf.now EXCEPT ![s] = v] /\ v \in Int \cup {Unknown}
<1>1. lf' = [group |-> lf.group, fed |-> lf.fed, months |-> lf.months, now |-> [lf.now EXCEPT ![s] = v]]
  BY DEF FiguresKnown, Observe
<1>2. CASE lf.group = "falls"
  <2>1. s \in Falling /\ v \in Int \cup {Unknown}
    BY <1>2, KnownOK DEF FiguresOf
  <2> QED
    BY <1>1, <1>2, <2>1 DEF FiguresKnown
<1>3. CASE lf.group = "shocks"
  <2>1. s \in Rising /\ v \in Int \cup {Unknown}
    BY <1>3, KnownOK DEF FiguresOf
  <2> QED
    BY <1>1, <1>3, <2>1 DEF FiguresKnown
<1>4. CASE lf.group \notin {"falls", "shocks"}
  BY <1>1, <1>4 DEF FiguresKnown
<1> QED
  BY <1>2, <1>3, <1>4

\* A week or a month that is added leaves the figures alone.
LEMMA ReportOK ==
  ASSUME FiguresKnown, \/ \E row \in FedRow : WeekReported(row)
                       \/ \E code \in {"LIQUIDITY_SHOCK", "HEALTHY", "NEUTRAL"} : MonthJudged(code)
  PROVE  FiguresKnown' /\ lf'.group = lf.group /\ lf.group \notin {"falls", "shocks"}
BY DEF FiguresKnown, WeekReported, MonthJudged

\* The figures stay figures of their series.
LEMMA FiguresStep == FiguresKnown /\ [LiquidityNext]_liquidityVars => FiguresKnown'
<1>1. FiguresKnown /\ UNCHANGED liquidityVars => FiguresKnown'
  BY DEF FiguresKnown, liquidityVars
<1> QED
  BY <1>1, ObserveOK, ReportOK DEF LiquidityNext

\* When a change falls, no event that it is of gets milder.
LEMMA FallsAreNotMilder ==
  ASSUME lf.group = "falls", lf.now \in [Falling -> Int \cup {Unknown}], lf'.now \in [Falling -> Int \cup {Unknown}],
         NEW s \in Falling, lf'.now[s] \in Int, lf.now[s] \in Int, lf'.now[s] < lf.now[s],
         \A t \in Falling \ {s} : lf'.now[t] = lf.now[t]
  PROVE  /\ Rank(detectVolatilityShock') >= Rank(detectVolatilityShock)
         /\ Rank(detectCreditSpike') >= Rank(detectCreditSpike)
         /\ Rank(detectBankStress') >= Rank(detectBankStress)
         /\ Rank(detectRepoStress') >= Rank(detectRepoStress)
         /\ \/ Rank(detectFundingStress') >= Rank(detectFundingStress)
            \/ s = "reserves1m" /\ detectFundingStress' = "WARNING"
         /\ \/ Rank(detectLiquidityDrain') >= Rank(detectLiquidityDrain)
            \/ s = "nl3m" /\ detectLiquidityDrain' = "WARNING"
<1> USE LiquidityFiguresConstants
<1>1. /\ \A t \in Falling : Now(t) = lf.now[t] /\ Now(t)' = lf'.now[t] /\ Now(t) \in Int \cup {Unknown}
      /\ \A t \in Rising : Now(t) = Unknown /\ Now(t)' = Unknown
      /\ Now(s) \in Int /\ Now(s)' \in Int /\ Now(s)' < Now(s)
      /\ \A t \in Falling : t # s => Now(t)' = Now(t)
  BY DEF Now, Falling, Rising
<1> USE DEF AtLeast, AtMost, Falling, Rising, Rank
<1>3. Rank(detectVolatilityShock') >= Rank(detectVolatilityShock)
  BY <1>1 DEF detectVolatilityShock
<1>4. Rank(detectCreditSpike') >= Rank(detectCreditSpike)
  BY <1>1 DEF detectCreditSpike
<1>5. Rank(detectBankStress') >= Rank(detectBankStress)
  BY <1>1 DEF detectBankStress
<1>6. Rank(detectRepoStress') >= Rank(detectRepoStress)
  BY <1>1 DEF detectRepoStress
<1>7. \/ Rank(detectFundingStress') >= Rank(detectFundingStress)
      \/ s = "reserves1m" /\ detectFundingStress' = "WARNING"
  BY <1>1 DEF detectFundingStress
<1>8. \/ Rank(detectLiquidityDrain') >= Rank(detectLiquidityDrain)
      \/ s = "nl3m" /\ detectLiquidityDrain' = "WARNING"
  BY <1>1 DEF detectLiquidityDrain
<1> HIDE DEF Rank
<1> QED
  BY <1>3, <1>4, <1>5, <1>6, <1>7, <1>8

\* When a figure rises, no event that it is of gets milder.
LEMMA RisesAreNotMilder ==
  ASSUME lf.group = "shocks", lf.now \in [Rising -> Int \cup {Unknown}], lf'.now \in [Rising -> Int \cup {Unknown}],
         NEW s \in Rising, lf'.now[s] \in Int, lf.now[s] \in Int, lf'.now[s] > lf.now[s],
         \A t \in Rising \ {s} : lf'.now[t] = lf.now[t]
  PROVE  /\ Rank(detectVolatilityShock') >= Rank(detectVolatilityShock)
         /\ Rank(detectCreditSpike') >= Rank(detectCreditSpike)
         /\ Rank(detectBankStress') >= Rank(detectBankStress)
         /\ Rank(detectRepoStress') >= Rank(detectRepoStress)
         /\ Rank(detectFundingStress') >= Rank(detectFundingStress)
         /\ Rank(detectLiquidityDrain') >= Rank(detectLiquidityDrain)
<1> USE LiquidityFiguresConstants
<1>1. /\ \A t \in Rising : Now(t) = lf.now[t] /\ Now(t)' = lf'.now[t] /\ Now(t) \in Int \cup {Unknown}
      /\ \A t \in Falling : Now(t) = Unknown /\ Now(t)' = Unknown
      /\ Now(s) \in Int /\ Now(s)' \in Int /\ Now(s)' > Now(s)
      /\ \A t \in Rising : t # s => Now(t)' = Now(t)
  BY DEF Now, Falling, Rising
<1> USE DEF AtLeast, AtMost, Falling, Rising, Rank
<1>2. Rank(detectBankStress') >= Rank(detectBankStress)
  BY <1>1 DEF detectBankStress
<1>3. Rank(detectFundingStress') >= Rank(detectFundingStress)
  BY <1>1 DEF detectFundingStress
<1>4. Rank(detectLiquidityDrain') >= Rank(detectLiquidityDrain)
  BY <1>1 DEF detectLiquidityDrain
<1>5. Rank(detectVolatilityShock') >= Rank(detectVolatilityShock)
  BY <1>1 DEF detectVolatilityShock
<1>6. Rank(detectCreditSpike') >= Rank(detectCreditSpike)
  BY <1>1 DEF detectCreditSpike
<1>7. Rank(detectRepoStress') >= Rank(detectRepoStress)
  BY <1>1 DEF detectRepoStress
<1> HIDE DEF Rank
<1> QED
  BY <1>2, <1>3, <1>4, <1>5, <1>6, <1>7

\* A figure that gets worse makes no event milder, but for the two a longer term hides.
LEMMA NotMilderStep == FiguresKnown /\ [LiquidityNext]_liquidityVars => NotMilder
<1> SUFFICES ASSUME FiguresKnown, [LiquidityNext]_liquidityVars PROVE NotMilder
  OBVIOUS
<1>1. CASE lf' = lf
  BY <1>1 DEF NotMilder
<1>2. CASE \/ \E row \in FedRow : WeekReported(row)
           \/ \E code \in {"LIQUIDITY_SHOCK", "HEALTHY", "NEUTRAL"} : MonthJudged(code)
  BY <1>2, ReportOK DEF NotMilder
<1>3. ASSUME NEW s0 \in DOMAIN Known(lf.group), NEW v \in Known(lf.group)[s0], Observe(s0, v)
      PROVE  NotMilder
  <2>1. CASE lf.group = "falls"
    <3>1. /\ lf'.now = [lf.now EXCEPT ![s0] = v] /\ lf.now \in [Falling -> Int \cup {Unknown}]
          /\ lf'.now \in [Falling -> Int \cup {Unknown}] /\ DOMAIN Known(lf.group) = Falling /\ s0 \in Falling
      BY <1>3, <2>1, ObserveOK, KnownOK DEF FiguresKnown
    <3> SUFFICES ASSUME NEW s \in Falling, lf'.now[s] # lf.now[s], Unknown \notin {lf.now[s], lf'.now[s]},
                        lf'.now[s] < lf.now[s]
                 PROVE  /\ Rank(detectVolatilityShock') >= Rank(detectVolatilityShock)
                        /\ Rank(detectCreditSpike') >= Rank(detectCreditSpike)
                        /\ Rank(detectBankStress') >= Rank(detectBankStress)
                        /\ Rank(detectRepoStress') >= Rank(detectRepoStress)
                        /\ \/ Rank(detectFundingStress') >= Rank(detectFundingStress)
                           \/ s = "reserves1m" /\ detectFundingStress' = "WARNING"
                        /\ \/ Rank(detectLiquidityDrain') >= Rank(detectLiquidityDrain)
                           \/ s = "nl3m" /\ detectLiquidityDrain' = "WARNING"
      BY <2>1, <3>1 DEF NotMilder
    <3>2. lf'.now[s] \in Int /\ lf.now[s] \in Int /\ \A t \in Falling \ {s} : lf'.now[t] = lf.now[t]
      BY <3>1
    <3> QED
      BY <2>1, <3>1, <3>2, FallsAreNotMilder
  <2>2. CASE lf.group = "shocks"
    <3>1. /\ lf'.now = [lf.now EXCEPT ![s0] = v] /\ lf.now \in [Rising -> Int \cup {Unknown}]
          /\ lf'.now \in [Rising -> Int \cup {Unknown}] /\ DOMAIN Known(lf.group) = Rising /\ s0 \in Rising
      BY <1>3, <2>2, ObserveOK, KnownOK DEF FiguresKnown
    <3> SUFFICES ASSUME NEW s \in Rising, lf'.now[s] # lf.now[s], Unknown \notin {lf.now[s], lf'.now[s]},
                        lf'.now[s] > lf.now[s]
                 PROVE  /\ Rank(detectVolatilityShock') >= Rank(detectVolatilityShock)
                        /\ Rank(detectCreditSpike') >= Rank(detectCreditSpike)
                        /\ Rank(detectBankStress') >= Rank(detectBankStress)
                        /\ Rank(detectRepoStress') >= Rank(detectRepoStress)
                        /\ Rank(detectFundingStress') >= Rank(detectFundingStress)
                        /\ Rank(detectLiquidityDrain') >= Rank(detectLiquidityDrain)
      BY <2>2, <3>1 DEF NotMilder
    <3>2. lf'.now[s] \in Int /\ lf.now[s] \in Int /\ \A t \in Rising \ {s} : lf'.now[t] = lf.now[t]
      BY <3>1
    <3> QED
      BY <2>2, <3>1, <3>2, RisesAreNotMilder
  <2>3. CASE lf.group \notin {"falls", "shocks"}
    BY <2>3 DEF NotMilder
  <2> QED
    BY <2>1, <2>2, <2>3
<1> QED
  BY <1>1, <1>2, <1>3 DEF LiquidityNext, liquidityVars

-----------------------------------------------------------------------------
(* The parts that are figures of what is served: what is served.              *)

\* The figures of the holdings page, as one record; a quote is a price its ticker may have.
HoldingsFiguresInv ==
    /\ HoldingsFiguresTypeOK
    /\ \A l \in Lot : hv.quotes[l.ticker] \in Price[l.ticker] \cup {NoQuote}
    /\ hv = [held |-> hv.held, served |-> hv.served, fx |-> hv.fx, quotes |-> hv.quotes,
             loading |-> hv.loading, ringFx |-> hv.ringFx, sortKey |-> hv.sortKey,
             sortDir |-> hv.sortDir, sortFx |-> hv.sortFx]

\* Nothing is held, and a step leaves every figure of its kind.
LEMMA HoldingsFiguresInitOK == HoldingsFiguresInit => HoldingsFiguresInv
<1> SUFFICES ASSUME HoldingsFiguresInit PROVE HoldingsFiguresInv
  OBVIOUS
<1>1. [t \in Stocks |-> NoQuote] \in [Stocks -> (UNION {Price[t] : t \in Stocks}) \cup {NoQuote}]
  <2> DEFINE V == UNION {Price[t] : t \in Stocks}
  <2> HIDE DEF V
  <2>1. \A s \in Stocks : NoQuote \in V \cup {NoQuote}
    OBVIOUS
  <2>2. [s \in Stocks |-> NoQuote] \in [Stocks -> V \cup {NoQuote}]
    BY <2>1
  <2> QED
    BY <2>2 DEF V
<1>2. hv.held = {} /\ hv.quotes = [t \in Stocks |-> NoQuote]
  BY DEF HoldingsFiguresInit
<1>3. /\ hv.served = 0 /\ hv.fx = DefaultRate /\ hv.ringFx = DefaultRate /\ hv.sortFx = DefaultRate
      /\ hv.loading = FALSE /\ hv.sortKey = "pnl" /\ hv.sortDir = "desc"
  BY DEF HoldingsFiguresInit
<1>4. hv = [held |-> hv.held, served |-> hv.served, fx |-> hv.fx, quotes |-> hv.quotes,
            loading |-> hv.loading, ringFx |-> hv.ringFx, sortKey |-> hv.sortKey,
            sortDir |-> hv.sortDir, sortFx |-> hv.sortFx]
  BY DEF HoldingsFiguresInit
<1>5. \A l \in Lot : hv.quotes[l.ticker] \in Price[l.ticker] \cup {NoQuote}
  <2>1. \A l \in Lot : l.ticker \in Stocks
    BY DEF Stocks
  <2> QED
    BY <1>2, <2>1
<1> QED
  BY <1>1, <1>2, <1>3, <1>4, <1>5 DEF HoldingsFiguresInv, HoldingsFiguresTypeOK, SortKey

\* Whatever is served, typed or sorted by is of its kind.
LEMMA HoldingsFiguresStep ==
  HoldingsFiguresInv /\ [HoldingsFiguresNext]_holdingFigureVars => HoldingsFiguresInv'
<1> SUFFICES ASSUME HoldingsFiguresInv, [HoldingsFiguresNext]_holdingFigureVars PROVE HoldingsFiguresInv'
  OBVIOUS
<1> USE DEF HoldingsFiguresInv, HoldingsFiguresTypeOK
<1>1. CASE hv' = hv
  BY <1>1
<1>2. ASSUME NEW held \in SUBSET Lot, NEW rate \in Rate \cup {0}, HoldingsServed(held, rate)
      PROVE  HoldingsFiguresInv'
  <2>1. PICK fx \in Rate \cup {DefaultRate}, l \in BOOLEAN :
          hv' = [hv EXCEPT !.held = held, !.served = rate, !.fx = fx, !.ringFx = hv.fx, !.sortFx = hv.fx,
                           !.loading = l]
    <3> DEFINE fx == IF rate = 0 THEN hv.fx ELSE rate
               l == held # {} /\ (hv.loading \/ {k.ticker : k \in held} # {k.ticker : k \in hv.held})
    <3>1. hv' = [hv EXCEPT !.held = held, !.served = rate, !.fx = fx, !.ringFx = hv.fx, !.sortFx = hv.fx,
                           !.loading = l]
      BY <1>2 DEF HoldingsServed
    <3>2. fx \in Rate \cup {DefaultRate} /\ l \in BOOLEAN
      OBVIOUS
    <3> HIDE DEF fx, l
    <3> QED
      BY <3>1, <3>2
  <2> QED
    BY <2>1
<1>3. ASSUME NEW quotes \in [Stocks -> (UNION {Price[t] : t \in Stocks}) \cup {NoQuote}], QuotesServed(quotes),
             \A t \in Stocks : quotes[t] \in Price[t] \cup {NoQuote}
      PROVE  HoldingsFiguresInv'
  <2>0. \A l \in Lot : quotes[l.ticker] \in Price[l.ticker] \cup {NoQuote}
    BY <1>3 DEF Stocks
  <2>1. PICK r \in Rate \cup {DefaultRate}, s \in Rate \cup {DefaultRate} :
          hv' = [hv EXCEPT !.quotes = quotes, !.loading = FALSE, !.ringFx = r, !.sortFx = s]
    BY <1>3 DEF QuotesServed
  <2> QED
    BY <2>0, <2>1
<1>4. ASSUME NEW rate \in Rate, onFxRateChange(rate) PROVE HoldingsFiguresInv'
  BY <1>4 DEF onFxRateChange
<1>5. ASSUME NEW key \in SortKey, handleSort(key) PROVE HoldingsFiguresInv'
  <2>1. PICK d \in {"asc", "desc"} : hv' = [hv EXCEPT !.sortKey = key, !.sortFx = hv.fx, !.sortDir = d]
    BY <1>5 DEF handleSort
  <2> QED
    BY <2>1
<1>6. CASE QuotesFailed \/ TabReopened
  BY <1>6 DEF QuotesFailed, TabReopened, SortKey
<1> QED
  BY <1>1, <1>2, <1>3, <1>4, <1>5, <1>6 DEF HoldingsFiguresNext, holdingFigureVars

\* The tabs of the holdings page.
HoldingsTabsInv ==
    /\ HoldingsTabsTypeOK
    /\ ht = [tab |-> ht.tab, period |-> ht.period, currency |-> ht.currency, action |-> ht.action,
             trend |-> ht.trend]
    /\ htTrades \in Seq([action: {"BUY", "SELL"}, made: {<<>>} \cup {<<p>> : p \in Profit}])
    /\ \A i \in DOMAIN htTrades : htTrades[i].made # <<>> => htTrades[i].action = "SELL"

\* The tab that is opened first, before any trade.
LEMMA HoldingsTabsInitOK == HoldingsTabsInit => HoldingsTabsInv
BY DEF HoldingsTabsInit, HoldingsTabsInv, HoldingsTabsTypeOK, TabOpened, HoldingTabs, TREND_PERIODS

\* A tab that is opened, a button of it, a trade.
LEMMA HoldingsTabsStep == HoldingsTabsInv /\ [HoldingsTabsNext]_tabsVars => HoldingsTabsInv'
<1> SUFFICES ASSUME HoldingsTabsInv, [HoldingsTabsNext]_tabsVars PROVE HoldingsTabsInv'
  OBVIOUS
<1> USE DEF HoldingsTabsInv, HoldingsTabsTypeOK
<1>1. CASE UNCHANGED tabsVars
  BY <1>1 DEF tabsVars
<1>2. ASSUME NEW t \in HoldingTabs, setActiveTab(t) PROVE HoldingsTabsInv'
  BY <1>2 DEF setActiveTab, TabOpened, TREND_PERIODS
<1>3. ASSUME NEW p \in TREND_PERIODS, setPeriod(p) PROVE HoldingsTabsInv'
  BY <1>3 DEF setPeriod
<1>4. ASSUME NEW c \in {"USD", "JPY"}, setCurrency(c) PROVE HoldingsTabsInv'
  BY <1>4 DEF setCurrency
<1>5. ASSUME NEW a \in {"failed", "none", "charts"}, TrendAnswered(a) PROVE HoldingsTabsInv'
  BY <1>5 DEF TrendAnswered
<1>6. ASSUME NEW a \in {"ALL", "BUY", "SELL"}, setActionFilter(a) PROVE HoldingsTabsInv'
  BY <1>6 DEF setActionFilter
<1>7. ASSUME NEW a \in {"BUY", "SELL"}, NEW sum \in Profit, Traded(a, sum) PROVE HoldingsTabsInv'
  <2>1. PICK r \in [action: {"BUY", "SELL"}, made: {<<>>} \cup {<<p>> : p \in Profit}] :
          htTrades' = Append(htTrades, r) /\ (r.made # <<>> => r.action = "SELL")
    BY <1>7 DEF Traded
  <2>2. htTrades' \in Seq([action: {"BUY", "SELL"}, made: {<<>>} \cup {<<p>> : p \in Profit}]) /\ ht' = ht
    BY <1>7, <2>1 DEF Traded
  <2> HIDE DEF HoldingsTabsInv, HoldingsTabsTypeOK
  <2>3. \A i \in DOMAIN htTrades' : htTrades'[i].action \in {"BUY", "SELL"}
    <3> DEFINE T == [action: {"BUY", "SELL"}, made: {<<>>} \cup {<<p>> : p \in Profit}]
    <3>1. \A t \in T : t.action \in {"BUY", "SELL"}
      OBVIOUS
    <3>2. htTrades' \in Seq(T)
      BY <2>2
    <3> HIDE DEF T
    <3>3. \A i \in DOMAIN htTrades' : htTrades'[i] \in T
      BY <3>2
    <3> QED
      BY <3>1, <3>3
  <2>4. \A i \in DOMAIN htTrades' : htTrades'[i].made # <<>> => htTrades'[i].action = "SELL"
    <3> DEFINE T == [action: {"BUY", "SELL"}, made: {<<>>} \cup {<<p>> : p \in Profit}]
    <3>1. htTrades \in Seq(T) /\ r \in T
      BY DEF HoldingsTabsInv
    <3>2. \A i \in DOMAIN htTrades : htTrades[i].made # <<>> => htTrades[i].action = "SELL"
      BY DEF HoldingsTabsInv
    <3> HIDE DEF T
    <3>3. \A i \in DOMAIN htTrades' : (i \in DOMAIN htTrades /\ htTrades'[i] = htTrades[i]) \/ htTrades'[i] = r
      BY <2>1, <3>1
    <3> QED
      BY <2>1, <3>2, <3>3
  <2> QED
    BY <2>2, <2>3, <2>4 DEF HoldingsTabsInv, HoldingsTabsTypeOK
<1> QED
  BY <1>1, <1>2, <1>3, <1>4, <1>5, <1>6, <1>7 DEF HoldingsTabsNext

\* The months of the employment page.
LEMMA MonthsInitOK == FiguresInit => FiguresTypeOK
BY EmploymentFiguresConstants DEF FiguresInit, FiguresTypeOK

\* A month that is reported is one of those a month may report.
LEMMA MonthsStep == FiguresTypeOK /\ [FiguresNext]_figuresVars => FiguresTypeOK'
<1> SUFFICES ASSUME FiguresTypeOK, [FiguresNext]_figuresVars PROVE FiguresTypeOK'
  OBVIOUS
<1> USE DEF FiguresTypeOK
<1>1. CASE UNCHANGED figuresVars
  BY <1>1 DEF figuresVars
<1>2. CASE FiguresNext
  <2>1. PICK r \in Reading, rest \in Rest : MonthReported(r, rest)
    BY <1>2 DEF FiguresNext
  <2>2. MaxMonths \in Nat /\ Len(efMonths) \in Nat
    BY EmploymentFiguresConstants
  <2> QED
    BY <2>1, <2>2 DEF MonthReported
<1> QED
  BY <1>1, <1>2

\* The group of figures of the liquidity page that is looked at.
LiquidityInv ==
    /\ LiquidityTypeOK
    /\ lf = [group |-> lf.group, fed |-> lf.fed, months |-> lf.months, now |-> lf.now]
    /\ lf.now = [s \in DOMAIN Known(lf.group) |-> lf.now[s]]

\* Each series begins with a figure it may have.
LEMMA LiquidityInitOK == LiquidityInit => LiquidityInv
<1> SUFFICES ASSUME NEW g \in Group,
                    lf = [group |-> g, fed |-> <<>>, months |-> <<>>,
                          now |-> [s \in DOMAIN Known(g) |-> AFigure(Known(g)[s])]]
             PROVE  LiquidityInv
  BY DEF LiquidityInit
<1>1. \A s \in DOMAIN Known(g) : Known(g)[s] # {}
  BY LiquidityFiguresConstants DEF Known, FiguresOf
<1>2. \A s \in DOMAIN Known(g) : lf.now[s] \in Known(g)[s]
  BY <1>1, AFigureOK
<1> QED
  BY <1>2, LiquidityFiguresConstants DEF LiquidityInv, LiquidityTypeOK

\* And is left with one of them.
LEMMA LiquidityStep == LiquidityInv /\ [LiquidityNext]_liquidityVars => LiquidityInv'
<1> SUFFICES ASSUME LiquidityInv, [LiquidityNext]_liquidityVars PROVE LiquidityInv'
  OBVIOUS
<1> USE DEF LiquidityInv, LiquidityTypeOK
<1>1. CASE lf' = lf
  BY <1>1
<1>2. ASSUME NEW s \in DOMAIN Known(lf.group), NEW v \in Known(lf.group)[s], Observe(s, v)
      PROVE  LiquidityInv'
  <2>1. lf' = [group |-> lf.group, fed |-> lf.fed, months |-> lf.months, now |-> [lf.now EXCEPT ![s] = v]]
    BY <1>2 DEF Observe
  <2>2. \A t \in DOMAIN Known(lf.group) : lf'.now[t] \in Known(lf.group)[t]
    BY <2>1
  <2>3. lf'.now = [t \in DOMAIN Known(lf.group) |-> lf'.now[t]]
    BY <2>1
  <2> QED
    BY <2>1, <2>2, <2>3
<1>3. ASSUME NEW row \in FedRow, WeekReported(row) PROVE LiquidityInv'
  <2>1. lf' = [group |-> lf.group, fed |-> Append(lf.fed, row), months |-> lf.months, now |-> lf.now]
    BY <1>3 DEF WeekReported
  <2>2. Append(lf.fed, row) \in Seq(FedRow) /\ Len(Append(lf.fed, row)) <= MaxWeeks
    BY <1>3, LiquidityFiguresConstants DEF WeekReported
  <2> QED
    BY <2>1, <2>2
<1>4. ASSUME NEW code \in {"LIQUIDITY_SHOCK", "HEALTHY", "NEUTRAL"}, MonthJudged(code) PROVE LiquidityInv'
  <2>1. lf' = [group |-> lf.group, fed |-> lf.fed, months |-> Append(lf.months, code), now |-> lf.now]
    BY <1>4 DEF MonthJudged
  <2>2. /\ Append(lf.months, code) \in Seq({"LIQUIDITY_SHOCK", "HEALTHY", "NEUTRAL"})
        /\ Len(Append(lf.months, code)) <= MaxWeeks
    BY <1>4, LiquidityFiguresConstants DEF MonthJudged
  <2> QED
    BY <2>1, <2>2
<1> QED
  BY <1>1, <1>2, <1>3, <1>4 DEF LiquidityNext, liquidityVars

\* The history charts of the liquidity page.
HistoryInv ==
    /\ HistoryTypeOK
    /\ hf = [type |-> hf.type, rows |-> hf.rows, index |-> hf.index, showSP500 |-> hf.showSP500,
             showNASDAQ |-> hf.showNASDAQ, showEvents |-> hf.showEvents, period |-> hf.period,
             crisis |-> hf.crisis]
    /\ hf.rows \in Seq([date: Nat, y: [Fields(hf.type) -> Amount]]) /\ hf.index \in Seq(Amount)
    /\ \A i \in DOMAIN hf.rows : hf.rows[i].date = i

\* The chart that is shown first, of no rows.
LEMMA HistoryInitOK == HistoryInit => HistoryInv
BY HistoryConstants DEF HistoryInit, HistoryInv, HistoryTypeOK, ChartType, PERIODS

\* A row has the fields of the chart that is shown, and the index a close for it.
LEMMA HistoryStep == HistoryInv /\ [HistoryNext]_historyVars => HistoryInv'
<1> SUFFICES ASSUME HistoryInv, [HistoryNext]_historyVars PROVE HistoryInv'
  OBVIOUS
<1> USE DEF HistoryInv, HistoryTypeOK
<1>1. CASE hf' = hf
  BY <1>1
<1>2. ASSUME NEW y \in [Fields(hf.type) -> Amount], NEW close \in Amount, RowServed(y, close)
      PROVE  HistoryInv'
  <2> DEFINE row == [date |-> Len(hf.rows) + 1, y |-> y]
             R == [date: Nat, y: [Fields(hf.type) -> Amount]]
  <2>1. row \in R
    OBVIOUS
  <2>2. hf' = [hf EXCEPT !.rows = Append(hf.rows, row), !.index = Append(hf.index, close)] /\ Len(hf.rows) < MaxRows
    BY <1>2 DEF RowServed
  <2>3. /\ hf'.rows = Append(hf.rows, row) /\ hf'.index = Append(hf.index, close) /\ hf'.type = hf.type
        /\ hf'.showSP500 = hf.showSP500 /\ hf'.showNASDAQ = hf.showNASDAQ /\ hf'.showEvents = hf.showEvents
        /\ hf'.period = hf.period /\ hf'.crisis = hf.crisis
    BY <2>2
  <2>4. hf' = [type |-> hf'.type, rows |-> hf'.rows, index |-> hf'.index, showSP500 |-> hf'.showSP500,
               showNASDAQ |-> hf'.showNASDAQ, showEvents |-> hf'.showEvents, period |-> hf'.period,
               crisis |-> hf'.crisis]
    BY <2>2
  <2>5. hf.rows \in Seq(R) /\ hf.index \in Seq(Amount) /\ DOMAIN hf.index = DOMAIN hf.rows
    OBVIOUS
  <2>6. /\ hf'.rows \in Seq(R) /\ hf'.index \in Seq(Amount) /\ Len(hf'.rows) = Len(hf.rows) + 1
        /\ Len(hf'.index) = Len(hf'.rows) /\ Len(hf'.rows) <= MaxRows
        /\ \A i \in DOMAIN hf'.rows : hf'.rows[i].date = i
    <3> HIDE DEF HistoryInv, HistoryTypeOK
    <3>1. hf.rows \in Seq(R) /\ \A i \in DOMAIN hf.rows : hf.rows[i].date = i
      BY DEF HistoryInv
    <3> HIDE DEF R
    <3>2. hf'.rows \in Seq(R) /\ hf'.index \in Seq(Amount) /\ Len(hf'.rows) = Len(hf.rows) + 1
      BY <2>1, <2>3, <2>5
    <3>3. Len(hf'.index) = Len(hf'.rows) /\ Len(hf'.rows) <= MaxRows
      BY <2>1, <2>2, <2>3, <2>5, HistoryConstants
    <3>4. ASSUME NEW i \in DOMAIN hf'.rows PROVE hf'.rows[i].date = i
      <4>1. i \in 1..(Len(hf.rows) + 1) /\ Len(hf.rows) \in Nat
        BY <2>5, <3>2
      <4>2. CASE i <= Len(hf.rows)
        BY <2>3, <2>5, <3>1, <4>1, <4>2
      <4>3. CASE i = Len(hf.rows) + 1
        BY <2>3, <2>5, <4>1, <4>3
      <4> QED
        BY <4>1, <4>2, <4>3
    <3> QED
      BY <3>2, <3>3, <3>4
  <2>7. hf'.index \in [DOMAIN hf'.rows -> Amount] /\ \A i \in DOMAIN hf'.rows : hf'.rows[i].y \in [Fields(hf.type) -> Amount]
    <3> HIDE DEF HistoryInv, HistoryTypeOK
    <3>1. \A r \in R : r.y \in [Fields(hf.type) -> Amount]
      OBVIOUS
    <3>2. hf'.rows \in Seq(R) /\ hf'.index \in Seq(Amount) /\ Len(hf'.index) = Len(hf'.rows)
      BY <2>6
    <3> HIDE DEF R
    <3>3. \A i \in DOMAIN hf'.rows : hf'.rows[i] \in R
      BY <3>2
    <3>4. DOMAIN hf'.rows = 1..Len(hf'.index) /\ hf'.index \in [1..Len(hf'.index) -> Amount]
      BY <3>2
    <3> QED
      BY <3>1, <3>3, <3>4
  <2> QED
    BY <2>3, <2>4, <2>6, <2>7
<1>3. ASSUME hf'.rows = <<>>, hf'.index = <<>>, hf'.type \in ChartType, hf'.period \in PERIODS,
             hf'.crisis \in DOMAIN CRISIS_PRESETS \cup {"none"},
             hf' = [type |-> hf'.type, rows |-> hf'.rows, index |-> hf'.index, showSP500 |-> hf.showSP500,
                    showNASDAQ |-> hf.showNASDAQ, showEvents |-> hf.showEvents, period |-> hf'.period,
                    crisis |-> hf'.crisis]
      PROVE  HistoryInv'
  <2>1. <<>> \in Seq([date: Nat, y: [Fields(hf'.type) -> Amount]]) /\ <<>> \in Seq(Amount) /\ Len(<<>>) = 0
    OBVIOUS
  <2>2. <<>> \in [DOMAIN <<>> -> Amount]
    OBVIOUS
  <2>3. /\ hf'.showSP500 = hf.showSP500 /\ hf'.showNASDAQ = hf.showNASDAQ /\ hf'.showEvents = hf.showEvents
    BY <1>3
  <2> QED
    BY <1>3, <2>1, <2>2, <2>3, HistoryConstants
<1>4. \/ \E type \in ChartType : setChartType(type)
      \/ \E p \in PERIODS : selectPeriod(p)
      \/ \E c \in DOMAIN CRISIS_PRESETS : selectCrisis(c)
      => HistoryInv'
  <2> SUFFICES ASSUME \/ \E type \in ChartType : setChartType(type)
                      \/ \E p \in PERIODS : selectPeriod(p)
                      \/ \E c \in DOMAIN CRISIS_PRESETS : selectCrisis(c)
               PROVE  HistoryInv'
    OBVIOUS
  <2>1. /\ hf'.rows = <<>> /\ hf'.index = <<>> /\ hf'.type \in ChartType /\ hf'.period \in PERIODS
        /\ hf'.crisis \in DOMAIN CRISIS_PRESETS \cup {"none"}
        /\ hf' = [type |-> hf'.type, rows |-> hf'.rows, index |-> hf'.index, showSP500 |-> hf.showSP500,
                   showNASDAQ |-> hf.showNASDAQ, showEvents |-> hf.showEvents, period |-> hf'.period,
                   crisis |-> hf'.crisis]
    BY DEF setChartType, selectPeriod, selectCrisis
  <2> HIDE DEF HistoryInv
  <2> QED
    BY <1>3, <2>1
<1>5. CASE toggleEvents
  BY <1>5 DEF toggleEvents
<1>6. CASE toggleOverlay
  BY <1>6 DEF toggleOverlay
<1>7. ASSUME NEW f \in Fields(hf.type), NEW v \in Amount, NEW w \in Amount,
             RowServed([g \in Fields(hf.type) |-> IF g = f THEN v ELSE w], w)
      PROVE  HistoryInv'
  BY <1>2, <1>7
<1> QED
  BY <1>1, <1>3, <1>4, <1>5, <1>6, <1>7 DEF HistoryNext, historyVars

-----------------------------------------------------------------------------
(* The frontends: a behaviour is of one part, which keeps its invariant.      *)

\* The part that is looked at keeps to its invariant.
MCInv ==
    /\ part \in Parts
    /\ part = "signals" => SignalsInv
    /\ part = "exits" => ExitInv
    /\ part = "entry" => EntryInv
    /\ part = "reads" => ReadInv
    /\ part = "holdings" => HoldingsInv
    /\ part = "cash" => CashInv
    /\ part = "console" => ConsoleInv
    /\ part = "figures" => HoldingsFiguresInv
    /\ part = "tabs" => HoldingsTabsInv
    /\ part = "chart" => ChartInv
    /\ part = "employment" => FiguresTypeOK
    /\ part = "liquidity" => FiguresKnown /\ LiquidityInv
    /\ part = "history" => HistoryInv
    /\ part = "session" => SessionInv
    /\ part = "gate" => GateInv

\* A behaviour stays with its part, and its steps are steps of that part.
LEMMA PartSteps ==
  ASSUME [MCNext]_mcVars
  PROVE  /\ part' = part
         /\ part = "signals" => [SignalsNext]_spVars
         /\ part = "exits" => [ExitNext]_exitVars
         /\ part = "entry" => [EntryNext]_entryVars
         /\ part = "reads" => [ReadNext]_readVars
         /\ part = "holdings" => [HoldingsNext]_holdingsVars
         /\ part = "cash" => [CashNext]_cashVars
         /\ part = "console" => [ConsoleNext]_consoleVars
         /\ part = "figures" => [HoldingsFiguresNext]_holdingFigureVars
         /\ part = "tabs" => [HoldingsTabsNext]_tabsVars
         /\ part = "chart" => [ChartNext]_chartVars
         /\ part = "employment" => [FiguresNext]_figuresVars
         /\ part = "liquidity" => [LiquidityNext]_liquidityVars
         /\ part = "history" => [HistoryNext]_historyVars
         /\ part = "session" => [SessionNext]_sessionVars
         /\ part = "gate" => [GateNext]_gateVars
<1>1. CASE UNCHANGED mcVars
  BY <1>1 DEF mcVars
<1>2. CASE MCNext
  BY <1>2 DEF MCNext, OnlyPart
<1> QED
  BY <1>1, <1>2

\* Whichever part is chosen, its invariant holds at the start.
LEMMA MCInitOK == MCInit => MCInv
BY SignalsInitOK, ExitInitOK, EntryInitOK, ReadInitOK, HoldingsInitOK, CashInitOK, ConsoleInitOK, FiguresInitOK,
   LiquidityInitOK, HoldingsFiguresInitOK, HoldingsTabsInitOK, ChartInitOK, MonthsInitOK, HistoryInitOK,
   SessionInitOK, GateInitOK DEF MCInit, MCInv

\* And a step of a part keeps that of its part.
LEMMA MCStep == MCInv /\ [MCNext]_mcVars => MCInv'
BY PartSteps, SignalsStep, ExitStep, EntryStep, ReadStep, HoldingsStep, CashStep, ConsoleStep, FiguresStep,
   LiquidityStep, HoldingsFiguresStep, HoldingsTabsStep, ChartStep, MonthsStep, HistoryStep, SessionStep,
   GateStep DEF MCInv

\* The invariant holds throughout.
LEMMA MCInductive == MCSpec => []MCInv
BY MCInitOK, MCStep, PTL DEF MCSpec

\* The types of all parts, for every instance (the state of each page).
THEOREM FrontendTypeCorrect == MCSpec => []FrontendTypeOK
<1>1. ASSUME MCInv PROVE FrontendTypeOK
  <2>1. /\ part \in Parts
        /\ part = "signals" => SignalsTypeOK
        /\ part = "exits" => ExitTypeOK
        /\ part = "entry" => EntryTypeOK
        /\ part = "holdings" => HoldingsTypeOK
        /\ part = "cash" => CashTypeOK
        /\ part = "figures" => HoldingsFiguresTypeOK
        /\ part = "tabs" => HoldingsTabsTypeOK
        /\ part = "chart" => ChartTypeOK
        /\ part = "employment" => FiguresTypeOK
        /\ part = "liquidity" => LiquidityTypeOK
        /\ part = "history" => HistoryTypeOK
        /\ part = "reads" => ReadTypeOK
        /\ part = "session" => SessionTypeOK
        /\ part = "gate" => GateTypeOK
        /\ part = "console" => ConsoleTypeOK
    BY <1>1 DEF MCInv, SignalsInv, ExitInv, EntryInv, HoldingsInv, CashInv, HoldingsFiguresInv, HoldingsTabsInv,
                ChartInv, LiquidityInv, HistoryInv, ReadInv, SessionInv, GateInv, ConsoleInv
  <2>2. CASE part = "signals"
    BY <2>1, <2>2 DEF FrontendTypeOK
  <2>3. CASE part = "exits"
    BY <2>1, <2>3 DEF FrontendTypeOK
  <2>4. CASE part = "entry"
    BY <2>1, <2>4 DEF FrontendTypeOK
  <2>5. CASE part = "holdings"
    BY <2>1, <2>5 DEF FrontendTypeOK
  <2>6. CASE part = "cash"
    BY <2>1, <2>6 DEF FrontendTypeOK
  <2>7. CASE part = "figures"
    BY <2>1, <2>7 DEF FrontendTypeOK
  <2>8. CASE part = "tabs"
    BY <2>1, <2>8 DEF FrontendTypeOK
  <2>9. CASE part = "chart"
    BY <2>1, <2>9 DEF FrontendTypeOK
  <2>10. CASE part = "employment"
    BY <2>1, <2>10 DEF FrontendTypeOK
  <2>11. CASE part = "liquidity"
    BY <2>1, <2>11 DEF FrontendTypeOK
  <2>12. CASE part = "history"
    BY <2>1, <2>12 DEF FrontendTypeOK
  <2>13. CASE part = "reads"
    BY <2>1, <2>13 DEF FrontendTypeOK
  <2>14. CASE part = "session"
    BY <2>1, <2>14 DEF FrontendTypeOK
  <2>15. CASE part = "gate"
    BY <2>1, <2>15 DEF FrontendTypeOK
  <2>16. CASE part = "console"
    BY <2>1, <2>16 DEF FrontendTypeOK
  <2> QED
    BY <2>1, <2>2, <2>3, <2>4, <2>5, <2>6, <2>7, <2>8, <2>9,
       <2>10, <2>11, <2>12, <2>13, <2>14, <2>15, <2>16 DEF Parts
<1> QED
  BY <1>1, MCInductive, PTL

\* A chart's window stays in the data, moves as told and is the range highlighted, and
\* what is drawn lies in it, for any number of points and any prices and marks
\* (components/charts and the tabs that hold them).
THEOREM ChartsAreSound == MCSpec => []ChartShowsItsWindow
<1>1. MCInv => ChartShowsItsWindow
  BY ChartInvSound DEF MCInv, ChartShowsItsWindow
<1> QED
  BY <1>1, MCInductive, PTL

\* Whatever order the signals page's uncancelled requests are answered in, the chart
\* is of the ticker named, unless analyses may mix; no spinner outlives its request;
\* and an entry is recorded once, with its trade (app/signals/page.tsx).
THEOREM SignalsAreSound == MCSpec => []SignalsSound
<1>1. MCInv => SignalsSound
  BY SignalsInvSound, EntryInvSound DEF MCInv, SignalsSound
<1> QED
  BY <1>1, MCInductive, PTL

\* A sale the exit rules make is announced and founded, and a position has one row of
\* the history, for positions held any number of days (the exit tab and its rules).
THEOREM ExitsAreSound == MCSpec => []ExitSound
<1>1. MCInv => ExitSound
  BY ExitInvSound DEF MCInv, ExitSound
<1> QED
  BY <1>1, MCInductive, PTL

\* Every screen of the pages that only read has its reason, whatever their requests do
\* (SWR's keys and the frames of app/employment, liquidity and the home page).
THEOREM ScreensAreSound == MCSpec => []ScreensHaveReasons
<1>1. MCInv => ScreensHaveReasons
  BY ReadInvSound DEF MCInv, ScreensHaveReasons
<1> QED
  BY <1>1, MCInductive, PTL

\* A sign-out that was answered holds, nobody waits for nothing, and the console is
\* open only to those the server admits (lib/auth.ts, the gate of the console).
THEOREM AccessIsSound == MCSpec => []AccessSound
<1>1. MCInv => AccessSound
  BY GateInvSound DEF MCInv, AccessSound, SessionInv
<1> QED
  BY <1>1, MCInductive, PTL

\* Lists edited through dialogs and rows are the server's once everything was answered,
\* for any rows and any number of edits (the holdings page, its cash, the console's tables).
THEOREM ListsAreSound == MCSpec => []ListsAreTrue
<1>1. MCInv => ListsAreTrue
  BY HoldingsInvSound, CashInvSound, ConsoleInvSound DEF MCInv, ListsAreTrue
<1> QED
  BY <1>1, MCInductive, PTL

\* What is judged twice agrees: the scores, phases, meters, sensors, states and events
\* the API finds and a page works out again from the same months and figures, for any
\* figures and any number of months; the verdict of the dashboard is one, and the
\* history charts draw what they were served (app/employment, liquidity and dashboard,
\* with analysis/employment_score.go and liquidity_score.go).
THEOREM EconomyIsSound == MCSpec => []EconomySound
<1>1. LiquidityInv => LiquidityKnown
  BY DEF LiquidityInv, LiquidityKnown
<1>2. HistoryInv => HistoryKnown
  BY DEF HistoryInv, HistoryKnown
<1>3. MCInv => EconomySound
  BY <1>1, <1>2, EmploymentOK, LiquidityOK, DashboardOK, HistoryOK DEF MCInv, EconomySound
<1> QED
  BY <1>3, MCInductive, PTL

\* The hero, the accounts, the sectors, the rings and the rows of the holdings page add
\* up to the same; its tabs are of the trades made, its cash of the balances, and the
\* console's cards of its rows, for any lots, prices and rates and any number of trades,
\* balances and users (app/holdings and its tabs, charts/DonutChart, the console).
THEOREM MoneyIsSound == MCSpec => []MoneySound
<1>1. HoldingsFiguresInv => HoldingsKnown
  BY DEF HoldingsFiguresInv, HoldingsKnown
<1>2. HoldingsTabsInv => TradesKnown
  BY DEF HoldingsTabsInv, TradesKnown
<1>3. (CashInv => CashTypeOK) /\ (ConsoleInv => ConsoleTypeOK)
  BY DEF CashInv, ConsoleInv
<1>4. MCInv => MoneySound
  BY <1>1, <1>2, <1>3, HoldingsOK, TabsOK, CashOK, CardsCountOK DEF MCInv, MoneySound
<1> QED
  BY <1>4, MCInductive, PTL

\* No edit that leaves the shares alone changes them, no tab is left by itself, no
\* event gets milder when its figure gets worse (the holdings dialog, the read pages'
\* tabs, the liquidity page's thresholds).
THEOREM FrontendStepsHold == MCSpec => FrontendSteps
<1> DEFINE P == /\ part = "holdings" => KeepsShares
                /\ part = "reads" => KeepsTab
                /\ part = "liquidity" => NotMilder
<1>1. MCInv /\ [MCNext]_mcVars => [P]_<<holdingsVars, readVars, liquidityVars>>
  BY PartSteps, KeepsSharesStep, KeepsTabStep, NotMilderStep DEF MCInv
<1> HIDE DEF P
<1>2. MCSpec => [][P]_<<holdingsVars, readVars, liquidityVars>>
  BY <1>1, MCInductive, PTL DEF MCSpec
<1> QED
  BY <1>2 DEF FrontendSteps, P

=============================================================================
