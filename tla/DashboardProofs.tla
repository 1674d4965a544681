------------------------------- MODULE DashboardProofs -------------------------------
(***************************************************************************)
(* The dashboard: the status payload for any number of readers, any TTL    *)
(* and any check timeout no longer than it; the rate limiter for any       *)
(* number of clients, any capacity, rate and size of the map, and a clock  *)
(* set back any number of times; the sandbox's caps for any visitors,      *)
(* slots, budget, days and restarts; the trace page's replay, panel and    *)
(* windowed rows for traces and windows of any size; what the list, the    *)
(* page, the live page and the panel say of a trace of any spans; the rail *)
(* of running traces for any number of tabs and queries.                   *)
(***************************************************************************)
EXTENDS StatusCache, TokenBucket, TryIt, RowWindow, Viewer, TraceViews, LiveRail,
        SequenceTheorems, Functions, FoldLemmas

\* CHECK_TIMEOUT_MS is 3 s, CACHE_TTL_MS 5 s.
Timely == /\ Ttl \in Nat /\ Timeout \in Nat /\ Timeout <= Ttl
          /\ MaxClock \in Nat \ {0}

\* A fan-out is over when its checks time out, and what it found holds as of its
\* start unless a service went down or came back since.
AskingSound ==
    \A r \in Readers : asking[r] # Never =>
        /\ asking[r] <= now /\ now <= asking[r] + Timeout
        /\ since < asking[r] => (outcome[r] = "ok" <=> healthy)

\* The same for the payload in the cache.
CacheSound ==
    cached.at # Never => /\ cached.at <= now
                         /\ since < cached.at => (cached.verdict = "ok" <=> healthy)

CacheInv == StatusTypeOK /\ healthy \in BOOLEAN /\ since <= now /\ AskingSound /\ CacheSound

LEMMA CacheInit == ASSUME Timely PROVE StatusInit => CacheInv
BY DEF Timely, StatusInit, CacheInv, StatusTypeOK, AskingSound, CacheSound, Empty, Never, Verdicts

\* An action at a time: the payload and the fan-outs stay sound.
LEMMA CacheNext == ASSUME Timely PROVE CacheInv /\ [StatusNext]_statusVars => CacheInv'
<1>. SUFFICES ASSUME CacheInv, [StatusNext]_statusVars PROVE CacheInv'
  OBVIOUS
<1>. USE DEF Never, Verdicts
<1>1. CASE CheckTick
  <2>1. \A r \in Readers : asking[r] # Never => now < asking[r] + Timeout
    BY <1>1 DEF CheckTick, Started, Asking
  <2>. QED
    BY <1>1, <2>1 DEF CheckTick, Timely, CacheInv, StatusTypeOK, AskingSound, CacheSound
<1>2. CASE Flip
  <2>1. PICK met \in SUBSET Asking :
            outcome' = [r \in Readers |-> IF r \notin met THEN outcome[r]
                                          ELSE IF healthy THEN "error" ELSE "ok"]
    BY <1>2 DEF Flip
  <2>2. StatusTypeOK' /\ healthy' \in BOOLEAN /\ since' <= now'
    BY <1>2, <2>1 DEF Flip, Timely, CacheInv, StatusTypeOK
  <2>3. AskingSound' /\ CacheSound'
    BY <1>2 DEF Flip, Timely, CacheInv, StatusTypeOK, AskingSound, CacheSound
  <2>. QED
    BY <2>2, <2>3 DEF CacheInv
<1>3. ASSUME NEW r \in Readers, Hit(r) PROVE CacheInv'
  BY <1>3 DEF Hit, Timely, CacheInv, StatusTypeOK, AskingSound, CacheSound
<1>4. ASSUME NEW r \in Readers, Miss(r) PROVE CacheInv'
  BY <1>4 DEF Miss, Timely, CacheInv, StatusTypeOK, AskingSound, CacheSound
<1>5. ASSUME NEW r \in Readers, Store(r) PROVE CacheInv'
  <2>1. asking[r] # Never
    BY <1>5 DEF Store, Asking
  <2>. QED
    BY <1>5, <2>1 DEF Store, Timely, CacheInv, StatusTypeOK, AskingSound, CacheSound
<1>6. CASE UNCHANGED statusVars
  BY <1>6 DEF statusVars, CacheInv, StatusTypeOK, AskingSound, CacheSound
<1>. QED
  BY <1>1, <1>2, <1>3, <1>4, <1>5, <1>6 DEF StatusNext

\* What is served has been asked for at most a TTL ago, after the last change.
LEMMA NextReports == ASSUME Timely PROVE CacheInv /\ [StatusNext]_statusVars => [Reported]_served
<1>. SUFFICES ASSUME CacheInv, [StatusNext]_statusVars, served' # served, now - since > Ttl
              PROVE served'.verdict = "ok" <=> healthy
  BY DEF Reported
<1>1. ASSUME NEW r \in Readers, Hit(r) PROVE served'.verdict = "ok" <=> healthy
  <2>1. since < cached.at /\ cached.at # Never /\ served'.verdict = cached.verdict
    BY <1>1 DEF Hit, Fresh, Never, Timely, CacheInv, StatusTypeOK
  <2>. QED
    BY <2>1 DEF CacheInv, CacheSound
<1>2. ASSUME NEW r \in Readers, Store(r) PROVE served'.verdict = "ok" <=> healthy
  <2>1. asking[r] # Never /\ served'.verdict = outcome[r]
    BY <1>2 DEF Store, Asking
  <2>2. since < asking[r]
    BY <2>1 DEF Timely, CacheInv, StatusTypeOK, AskingSound, Never
  <2>. QED
    BY <2>1, <2>2 DEF CacheInv, AskingSound
<1>. QED
  BY <1>1, <1>2 DEF StatusNext, statusVars, CheckTick, Flip, Miss

\* In every behaviour the cache holds what was true when it was asked for.
THEOREM CacheCorrect == ASSUME Timely PROVE StatusSpec => []CacheInv
<1>. QED BY CacheInit, CacheNext, PTL DEF StatusSpec

\* An outage, or its end, is reported once it has lasted for the TTL, whichever
\* of the overlapping fan-outs comes last (status/route.ts: the payload is stamped
\* before the await and stored after it).
THEOREM OutagesReported == ASSUME Timely PROVE StatusSpec => OutageReported
<1>. QED BY NextReports, CacheCorrect, PTL DEF OutageReported, StatusSpec

--------------------------------------------------------------------------------------
(***************************************************************************)
(* The windowed rows.                                                      *)
(***************************************************************************)
LEMMA Cancel ==
    ASSUME NEW a \in Int, NEW b \in Int, NEW h \in Nat \ {0}, a * h < b * h
    PROVE  a < b
<1>. SUFFICES ASSUME a >= b PROVE FALSE
  OBVIOUS
<1>1. (a - b) * h >= 0 /\ (a - b) * h = a * h - b * h /\ a * h \in Int /\ b * h \in Int
  OBVIOUS
<1>. QED
  BY <1>1

LEMMA Quotient ==
    ASSUME NEW x \in Nat, NEW h \in Nat \ {0}
    PROVE  /\ x \div h \in Nat
           /\ (x \div h) * h <= x
           /\ x < (x \div h) * h + h
OBVIOUS

RowTyped ==
    /\ rowCount \in 1 .. MostRows /\ box \in Boxes
    /\ elTop \in Nat /\ scrollTop \in Nat /\ viewportH \in Nat
    /\ scrolled \in BOOLEAN /\ frame \in BOOLEAN

\* React's copy of the scroll position is brought up to date.
CopyFollows == elTop # scrollTop => scrolled \/ frame

LEMMA Heights ==
    ASSUME NEW n \in Nat, NEW b \in Nat
    PROVE  ClientHeight(n, b) \in Nat /\ LastTop(n, b) \in Nat /\ Measured(n, b) \in Nat
<1>1. n * RowHeight \in Nat
  BY WindowAssumption
<1>. QED
  BY <1>1, WindowAssumption DEF ClientHeight, LastTop, Measured, Lesser

LEMMA RowsInit == RowInit => RowTyped /\ CopyFollows
<1>. SUFFICES ASSUME RowInit PROVE RowTyped /\ CopyFollows
  OBVIOUS
<1>1. rowCount \in Nat /\ box \in Nat
  BY WindowAssumption DEF RowInit
<1>2. LastTop(rowCount, box) \in Nat /\ viewportH \in Nat
  BY <1>1, Heights DEF RowInit
<1>3. elTop \in Nat
  <2>1. ASSUME NEW i \in 0 .. rowCount - 1
        PROVE  Lesser(Middle(i, rowCount, box), LastTop(rowCount, box)) \in Nat
    <3>1. i * RowHeight \in Nat /\ RowHeight \div 2 \in Nat
      BY <1>1, WindowAssumption
    <3>3. PICK m \in Nat : m = Measured(rowCount, box)
      BY <1>1, Heights
    <3>4. m \div 2 \in Nat
      OBVIOUS
    <3>2. Middle(i, rowCount, box) \in Nat
      BY <3>1, <3>3, <3>4 DEF Middle, Greater
    <3>. QED
      BY <3>2, <1>2 DEF Lesser
  <2>. QED
    BY <2>1 DEF RowInit
<1>. QED
  BY <1>2, <1>3 DEF RowInit, RowTyped, CopyFollows

LEMMA RowsNext ==
    RowTyped /\ CopyFollows /\ [RowNext]_rowVars => RowTyped' /\ CopyFollows'
<1>. SUFFICES ASSUME RowTyped, CopyFollows, [RowNext]_rowVars
              PROVE  RowTyped' /\ CopyFollows'
  OBVIOUS
<1>. USE DEF RowTyped, CopyFollows
<1>1. ASSUME NEW n \in Nat, NEW b \in Nat, Reflow(n, b)
      PROVE  elTop' \in Nat /\ scrolled' \in BOOLEAN /\ (elTop' # elTop => scrolled')
             /\ (scrolled => scrolled')
  BY <1>1, Heights DEF Reflow, Lesser
<1>2. rowCount \in Nat /\ box \in Nat
  BY WindowAssumption
<1>3. CASE Scroll
  BY <1>2, <1>3, Heights DEF Scroll
<1>4. CASE OnScroll
  BY <1>4 DEF OnScroll
<1>5. CASE Frame
  BY <1>5 DEF Frame
<1>6. ASSUME NEW n \in 1 .. MostRows, Rerender(n) PROVE RowTyped' /\ CopyFollows'
  <2>1. n \in Nat /\ Reflow(n, box) /\ rowCount' = n /\ UNCHANGED <<box, frame, scrollTop, viewportH>>
    BY <1>6, WindowAssumption DEF Rerender
  <2>. QED
    BY <2>1, <1>1, <1>2
<1>7. ASSUME NEW b \in Boxes, Resize(b) PROVE RowTyped' /\ CopyFollows'
  <2>1. /\ b \in Nat /\ Reflow(rowCount, b) /\ box' = b /\ viewportH' = Measured(rowCount, b)
        /\ UNCHANGED <<rowCount, frame, scrollTop>>
    BY <1>7, WindowAssumption DEF Resize
  <2>2. viewportH' \in Nat
    BY <2>1, <1>2, Heights
  <2>. QED
    BY <2>1, <2>2, <1>1, <1>2
<1>8. CASE UNCHANGED rowVars
  BY <1>8 DEF rowVars
<1>. QED
  BY <1>3, <1>4, <1>5, <1>6, <1>7, <1>8 DEF RowNext

\* The arithmetic of startIndex and endIndex: whatever the heights are, the rows cut
\* by either edge are mounted, and no more rows than a window and its overscan.
LEMMA RowsSuffice == RowTyped /\ CopyFollows => RowsMounted
<1>. SUFFICES ASSUME RowTyped, CopyFollows PROVE RowsMounted
  OBVIOUS
<1> DEFINE q == scrollTop \div RowHeight
           e == (scrollTop + viewportH + RowHeight - 1) \div RowHeight
           v == viewportH \div RowHeight
<1>1. /\ RowHeight \in Nat \ {0} /\ Overscan \in Nat /\ rowCount \in Nat /\ box \in Nat
      /\ elTop \in Nat /\ scrollTop \in Nat /\ viewportH \in Nat
      /\ scrollTop + viewportH + RowHeight - 1 \in Nat
  BY WindowAssumption DEF RowTyped
<1>2. /\ q \in Nat /\ q * RowHeight <= scrollTop /\ scrollTop < q * RowHeight + RowHeight
      /\ q * RowHeight \in Nat
  BY <1>1, Quotient
<1>3. /\ e \in Nat /\ e * RowHeight \in Nat
      /\ e * RowHeight <= scrollTop + viewportH + RowHeight - 1
      /\ scrollTop + viewportH + RowHeight - 1 < e * RowHeight + RowHeight
  BY <1>1, Quotient
<1>4. v \in Nat /\ viewportH < v * RowHeight + RowHeight /\ v * RowHeight \in Nat
  BY <1>1, Quotient
<1>5. StartIndex = Greater(0, q - Overscan) /\ EndIndex = Lesser(rowCount, e + Overscan)
  BY DEF StartIndex, EndIndex
<1>6. Overscan * RowHeight \in Nat
  BY <1>1
<1>7. ASSUME viewportH >= ClientHeight(rowCount, box), Apart <= Overscan * RowHeight,
             NEW i \in InView
      PROVE  i \in Mounted
  <2>1. /\ i \in 0 .. rowCount - 1 /\ (i + 1) * RowHeight > elTop
        /\ i * RowHeight < elTop + ClientHeight(rowCount, box)
    BY DEF InView
  <2>2. ClientHeight(rowCount, box) \in Nat
    BY <1>1, Heights
  <2>3. scrollTop <= elTop + Overscan * RowHeight /\ elTop <= scrollTop + Overscan * RowHeight
    BY <1>7, <1>1, <1>6 DEF Apart, Greater
  <2>4. (i + 1) * RowHeight \in Nat /\ i * RowHeight \in Nat
    BY <2>1, <1>1
  <2>5. q < i + 1 + Overscan
    <3>1. (i + 1 + Overscan) * RowHeight = (i + 1) * RowHeight + Overscan * RowHeight
      BY <2>1, <1>1
    <3>. HIDE DEF q
    <3>2. q * RowHeight < (i + 1 + Overscan) * RowHeight
      BY <3>1, <2>1, <2>3, <2>4, <1>1, <1>2, <1>6
    <3>. QED
      BY <3>2, <2>1, <1>1, <1>2, Cancel
  <2>6. i < e + Overscan
    <3>1. (e + Overscan) * RowHeight = e * RowHeight + Overscan * RowHeight
      BY <1>3, <1>1
    <3>. HIDE DEF e
    <3>2. i * RowHeight < (e + Overscan) * RowHeight
      BY <3>1, <2>1, <2>2, <2>3, <2>4, <1>1, <1>3, <1>6, <1>7
    <3>. QED
      BY <3>2, <2>1, <1>1, <1>3, Cancel
  <2>. HIDE DEF q, e
  <2>. QED
    BY <2>1, <2>5, <2>6, <1>1, <1>2, <1>3, <1>5 DEF Mounted, Greater, Lesser
<1>8. e - q <= v + 2
  <2>1. (e - q) * RowHeight = e * RowHeight - q * RowHeight
        /\ (v + 3) * RowHeight = v * RowHeight + 3 * RowHeight
    BY <1>1, <1>2, <1>3, <1>4
  <2>. HIDE DEF e, q, v
  <2>2. (e - q) * RowHeight < (v + 3) * RowHeight
    BY <2>1, <1>1, <1>2, <1>3, <1>4
  <2>3. e - q < v + 3
    BY <2>2, <1>1, <1>2, <1>3, <1>4, Cancel
  <2>. QED
    BY <2>3, <1>2, <1>3, <1>4
<1>9. EndIndex - StartIndex <= v + 2 * Overscan + 2
  <2>. HIDE DEF e, q, v
  <2>. QED
    BY <1>1, <1>2, <1>3, <1>4, <1>5, <1>8 DEF Greater, Lesser
<1>. QED
  BY <1>7, <1>9 DEF RowsMounted, CopyFollows

\* No blank rows, for rows and windows of any height and any overscan: every row in
\* view is mounted as long as React's scroll position is within the overscan of the
\* region's, and it is brought up to date (TraceViewer.tsx, useRowWindow).
THEOREM NoBlankRows == RowSpec => []RowsMounted
<1>. QED
  BY RowsInit, RowsNext, RowsSuffice, PTL DEF RowSpec

--------------------------------------------------------------------------------------
(***************************************************************************)
(* The trace page's replay and panel.                                      *)
(***************************************************************************)
ViewerLimits ==
    /\ Size \in Nat \ {0} /\ RootSpan \in Nat /\ MaxAsks \in Nat \ {0}

\* The only fetch that may still be answered is for the selected span, and a page
\* with no span selected has no panel.
OneFetch ==
    /\ asks \subseteq {selected}
    /\ selected = NoSpan => asks = {} /\ panel = Loading

ViewerInv == ViewerTypeOK /\ NoStrayTimer /\ PanelMatchesSelection /\ OneFetch

LEMMA ViewerInitInv == ASSUME ViewerLimits PROVE ViewerInit => ViewerInv
<1>. SUFFICES ASSUME ViewerInit PROVE ViewerInv
  OBVIOUS
<1>. USE DEF ViewerLimits, ViewerInit, Spans, NoSpan
<1>1. ViewerTypeOK /\ NoStrayTimer
  <2>1. panel \in Panels
    BY DEF Panels
  <2>2. mounted \in BOOLEAN /\ replaying \in BOOLEAN
    BY Zenon
  <2>3. /\ landed \in Spans /\ count \in 0 .. Size
        /\ timer \in Spans \cup {NoSpan} /\ planned \in 0 .. Size
        /\ selected \in Spans \cup {NoSpan}
    OBVIOUS
  <2>4. asks \subseteq Spans /\ asked \in 1 .. MaxAsks
    OBVIOUS
  <2>5. NoStrayTimer
    BY DEF NoStrayTimer
  <2>. QED
    BY <2>1, <2>2, <2>3, <2>4, <2>5, Zenon DEF ViewerTypeOK
<1>2. \/ asks = {selected}
      \/ selected = 0 /\ asks = {}
  BY DEF Spans
<1>3. panel = Loading /\ panel.status = "loading"
  BY DEF Loading
<1>. QED
  BY <1>1, <1>2, <1>3 DEF ViewerInv, PanelMatchesSelection, OneFetch

\* Every way in which a fetch starts.
LEMMA FetchInv ==
    ASSUME ViewerLimits, ViewerInv, NEW i \in Spans, Fetch(i), selected' = i
    PROVE  /\ PanelMatchesSelection' /\ OneFetch' /\ selected' \in Spans
           /\ panel' \in Panels
           /\ asks' \subseteq Spans /\ asked' \in 1 .. MaxAsks
BY DEF ViewerLimits, ViewerInv, ViewerTypeOK, Fetch, PanelMatchesSelection, OneFetch, Spans,
       NoSpan, Loading, Panels

LEMMA ViewerNextInv ==
    ASSUME ViewerLimits PROVE ViewerInv /\ [ViewerNext]_viewerVars => ViewerInv'
<1>. SUFFICES ASSUME ViewerInv, [ViewerNext]_viewerVars PROVE ViewerInv'
  OBVIOUS
<1>. USE DEF ViewerLimits, ViewerInv, ViewerTypeOK, NoStrayTimer, PanelMatchesSelection, OneFetch
<1>1. CASE Land
  BY <1>1 DEF Land, Spans
<1>2. CASE Toggle
  <2>1. UNCHANGED <<mounted, landed, selected, panel, asks, asked>> /\ mounted /\ (Stop \/ Play)
    BY <1>2 DEF Toggle
  <2>2. /\ replaying' \in BOOLEAN /\ count' \in 0 .. Size /\ planned' \in 0 .. Size
        /\ timer' \in Spans \cup {NoSpan}
    <3>1. replaying' \in BOOLEAN
      BY <2>1, Zenon DEF Stop, Play
    <3>2. CASE Stop
      BY <3>1, <3>2 DEF Stop
    <3>3. CASE Play
      <4>1. count' = 1 /\ planned' = landed /\ ((timer' = 2 /\ landed > 1) \/ timer' = NoSpan)
        BY <3>3 DEF Play
      <4>. QED
        BY <3>1, <4>1 DEF Spans
    <3>. QED
      BY <2>1, <3>2, <3>3
  <2>3. NoStrayTimer'
    BY <2>1 DEF Stop, Play, NoSpan, Spans
  <2>4. ViewerTypeOK'
    <3>1. mounted' \in BOOLEAN /\ landed' \in Spans
      BY <2>1
    <3>2. selected' \in Spans \cup {NoSpan} /\ panel' \in Panels
      BY <2>1
    <3>3. asks' \subseteq Spans /\ asked' \in 1 .. MaxAsks
      BY <2>1
    <3>. QED
      BY <2>2, <3>1, <3>2, <3>3, Zenon
  <2>5. PanelMatchesSelection' /\ OneFetch'
    BY <2>1
  <2>. QED
    BY <2>3, <2>4, <2>5
<1>3. CASE Step
  BY <1>3 DEF Step, NoSpan, Spans
<1>4. CASE RetryFetch
  <2>1. selected \in Spans /\ Fetch(selected) /\ selected' = selected
    BY <1>4 DEF RetryFetch, Failed, Loading
  <2>2. UNCHANGED <<mounted, landed, replaying, count, timer, planned>>
    BY <1>4 DEF RetryFetch
  <2>. QED
    BY <2>1, <2>2, FetchInv
<1>5. CASE Close
  BY <1>5 DEF Close, Loading, NoSpan, Panels
<1>6. CASE Leave
  <2>1. /\ UNCHANGED <<landed, asked>> /\ ~mounted' /\ mounted' \in BOOLEAN /\ timer' = NoSpan
        /\ asks' = {} /\ selected' = NoSpan /\ replaying' = FALSE /\ count' = 0 /\ planned' = 0
    BY <1>6 DEF Leave
  <2>2. panel' = Loading /\ panel'.status = "loading"
    BY <1>6 DEF Leave, Loading
  <2>3. ViewerTypeOK'
    <3>1. /\ timer' \in Spans \cup {NoSpan} /\ selected' \in Spans \cup {NoSpan}
          /\ asks' \subseteq Spans /\ panel' \in Panels
      BY <2>1, <2>2, Zenon DEF Panels
    <3>2. count' \in 0 .. Size /\ planned' \in 0 .. Size
      BY <2>1
    <3>3. replaying' \in BOOLEAN /\ mounted' \in BOOLEAN
      BY <2>1, Zenon
    <3>. QED
      BY <2>1, <3>1, <3>2, <3>3, Zenon
  <2>4. NoStrayTimer' /\ PanelMatchesSelection' /\ OneFetch'
    BY <2>1, <2>2
  <2>. QED
    BY <2>3, <2>4
<1>7. ASSUME NEW i \in Spans, Select(i) PROVE ViewerInv'
  <2>1. Fetch(i) /\ selected' = i /\ UNCHANGED <<mounted, landed, replaying, count, timer, planned>>
    BY <1>7 DEF Select
  <2>. QED
    BY <2>1, FetchInv
<1>8. ASSUME NEW i \in Spans, Respond(i) PROVE ViewerInv'
  <2>1. /\ UNCHANGED <<mounted, landed, replaying, count, timer, planned, selected, asked>>
        /\ i \in asks /\ asks' = asks \ {i} /\ i = selected
        /\ panel' = Failed \/ panel' = Ready(i)
    BY <1>8 DEF Respond
  <2>2. selected # NoSpan
    BY <2>1
  <2>3. panel' # Loading /\ (panel'.status = "ready" => panel'.of = selected)
    BY <2>1 DEF Failed, Ready, Loading
  <2>4. panel' \in Panels
    BY <2>1 DEF Panels
  <2>. QED
    BY <2>1, <2>2, <2>3, <2>4
<1>9. CASE UNCHANGED viewerVars
  BY <1>9 DEF viewerVars
<1>. QED
  BY <1>1, <1>2, <1>3, <1>4, <1>5, <1>6, <1>7, <1>8, <1>9 DEF ViewerNext

\* For traces of any size: no step of a replay outlives it, a replay that rests has
\* shown what it was planned for, and the panel shows the selected span whatever
\* comes late (TraceView.tsx useReplay, SpanDetailPanel.tsx).
THEOREM PageFollows == ASSUME ViewerLimits PROVE ViewerSpec => []PageFollowsReader
<1>1. ViewerInv => PageFollowsReader
  BY DEF ViewerInv, PageFollowsReader
<1>. QED
  BY <1>1, ViewerInitInv, ViewerNextInv, PTL DEF ViewerSpec

--------------------------------------------------------------------------------------
(***************************************************************************)
(* The rail of running traces.                                             *)
(***************************************************************************)
RailLimits == RailTtl \in Nat /\ MaxQueries \in Nat /\ MaxFlaws \in Nat

Sent == [state : {"open", "read", "ok", "failed"}, reads : SUBSET RailTraces, past : SUBSET RailTraces]

\* The cache holds the promise of the last query, or that one has failed.
WindowIsLast ==
    /\ window \in {0, Len(queries)}
    /\ window # 0 => queries[window].state # "failed"
    /\ window = 0 /\ Len(queries) # 0 => queries[Len(queries)].state = "failed"

\* A query lists no trace that was done when it was sent, but for old ones.
QueriesSound ==
    \A q \in DOMAIN queries :
        /\ queries[q].reads \subseteq stored /\ queries[q].past \subseteq done
        /\ queries[q].reads \cap queries[q].past \subseteq Old

\* What has been done for longer than the window is open was done when it opened.
WindowCovers ==
    \A i \in RailTraces :
        /\ i \notin done => doneFor[i] = 0
        /\ window # 0 /\ doneFor[i] > age => i \in queries[window].past

\* What had been done for a TTL when a tab asked was done when its query was sent.
PollsCover == \A t \in RailTabs : \A q \in polls[t] : over[t] \subseteq queries[q].past

\* The rail shows what has landed.
ShownIsStored ==
    \A t \in RailTabs : known[t] \subseteq stored /\ shown[t] \subseteq stored /\ closed[t] \subseteq done

RailInv ==
    /\ RailTypeOK /\ DOMAIN polls = RailTabs
    /\ WindowIsLast /\ QueriesSound /\ WindowCovers /\ PollsCover
    /\ ShownIsStored /\ TraceNeverVanishes

LEMMA RailInitInv == ASSUME RailLimits PROVE RailInit => RailInv
<1>. SUFFICES ASSUME RailInit PROVE RailInv
  OBVIOUS
<1>. USE DEF RailInit, RailLimits
<1>1. RailTypeOK /\ DOMAIN polls = RailTabs
  BY DEF RailTypeOK
<1>2. Len(queries) = 0 /\ DOMAIN queries = {}
  OBVIOUS
<1>3. WindowIsLast /\ QueriesSound /\ WindowCovers /\ PollsCover
  BY <1>2 DEF WindowIsLast, QueriesSound, WindowCovers, PollsCover
<1>4. ShownIsStored /\ TraceNeverVanishes
  BY DEF ShownIsStored, TraceNeverVanishes
<1>. QED
  BY <1>1, <1>3, <1>4 DEF RailInv

\* Asking for the running traces, from the cache or by a query of one's own.
LEMMA AskInv ==
    ASSUME RailLimits, RailInv, NEW t \in RailTabs, Ask(t),
           UNCHANGED <<railTraces, list, flaws>>, visible' \subseteq RailTabs
    PROVE  RailInv' /\ OneQueryPerTtl /\ FailureNotCached
<1>. USE DEF RailLimits
<1> DEFINE past == {i \in done : doneFor[i] >= RailTtl}
<1>1. /\ RailTypeOK /\ DOMAIN polls = RailTabs /\ WindowIsLast /\ QueriesSound /\ WindowCovers
      /\ PollsCover /\ ShownIsStored /\ TraceNeverVanishes
  BY DEF RailInv
<1>2. /\ polls' = [polls EXCEPT ![t] = {window'}] /\ RunningTraces
      /\ over' = [over EXCEPT ![t] = past]
      /\ UNCHANGED <<stored, lively, done, doneFor, known, due, page, shown, closed, flaws>>
      /\ queries \in Seq(Sent) /\ Len(queries) \in Nat /\ DOMAIN queries = 1 .. Len(queries)
  BY <1>1 DEF Ask, list, railTraces, RailTypeOK, Sent
<1>. HIDE DEF past
<1>3. /\ polls'[t] = {window'} /\ over'[t] = past
      /\ \A s \in RailTabs : s # t => polls'[s] = polls[s] /\ over'[s] = over[s]
  BY <1>1, <1>2 DEF RailTypeOK
<1>4. past \subseteq done /\ done \subseteq RailTraces /\ \A i \in past : doneFor[i] >= RailTtl
  BY <1>1 DEF past, RailTypeOK
<1>5. over' \in [RailTabs -> SUBSET RailTraces]
  BY <1>1, <1>2, <1>4 DEF RailTypeOK
<1>6. ShownIsStored' /\ TraceNeverVanishes'
  BY <1>1, <1>2 DEF ShownIsStored, TraceNeverVanishes
<1>7. CASE Expired
  <2> DEFINE new == [state |-> "open", reads |-> {}, past |-> done]
  <2>1. queries' = Append(queries, new) /\ window' = Len(queries) + 1 /\ age' = 0
    BY <1>2, <1>7 DEF RunningTraces, SendQuery
  <2>2. new \in Sent /\ new.state = "open" /\ new.reads = {} /\ new.past = done
    BY <1>4 DEF Sent
  <2>. HIDE DEF new
  <2>3. /\ queries' \in Seq(Sent) /\ Len(queries') = Len(queries) + 1
        /\ DOMAIN queries' = 1 .. Len(queries) + 1 /\ queries'[Len(queries) + 1] = new
        /\ \A q \in DOMAIN queries : queries'[q] = queries[q]
    BY <1>2, <2>1, <2>2
  <2>4. \A s \in RailTabs : polls'[s] \subseteq DOMAIN queries'
    BY <1>1, <1>2, <1>3, <2>1, <2>3 DEF RailTypeOK
  <2>5. RailTypeOK' /\ DOMAIN polls' = RailTabs
    <3>1. window' \in 0 .. Len(queries') /\ age' \in 0 .. RailTtl
      BY <1>2, <2>1, <2>3
    <3>. QED
      BY <1>1, <1>2, <1>5, <2>3, <2>4, <3>1 DEF RailTypeOK, Sent
  <2>6. WindowIsLast'
    BY <1>2, <2>1, <2>2, <2>3 DEF WindowIsLast
  <2>7. QueriesSound'
    BY <1>1, <1>2, <2>2, <2>3 DEF QueriesSound
  <2>8. WindowCovers'
    <3>. SUFFICES ASSUME NEW i \in RailTraces, i \in done \/ doneFor[i] = 0
                  PROVE  doneFor[i] > 0 => i \in queries'[window'].past
      BY <1>1, <1>2, <2>1 DEF WindowCovers
    <3>. QED
      BY <2>1, <2>2, <2>3
  <2>9. PollsCover'
    <3>. SUFFICES ASSUME NEW s \in RailTabs, NEW q \in polls'[s] PROVE over'[s] \subseteq queries'[q].past
      BY DEF PollsCover
    <3>1. CASE s = t
      BY <3>1, <1>3, <1>4, <2>1, <2>2, <2>3
    <3>2. CASE s # t
      <4>1. q \in polls[s] /\ q \in DOMAIN queries /\ over'[s] = over[s]
        BY <3>2, <1>1, <1>3 DEF RailTypeOK
      <4>. QED
        BY <4>1, <1>1, <2>3 DEF PollsCover
    <3>. QED
      BY <3>1, <3>2
  <2>10. OneQueryPerTtl
    <3>. SUFFICES ASSUME queries # <<>>
                  PROVE  age >= RailTtl \/ queries[Len(queries)].state = "failed"
      BY DEF OneQueryPerTtl
    <3>1. Len(queries) # 0
      BY <1>2
    <3>. QED
      BY <3>1, <1>1, <1>7 DEF Expired, WindowIsLast
  <2>11. FailureNotCached
    BY <1>3, <2>1, <2>2, <2>3 DEF FailureNotCached
  <2>. QED
    BY <1>6, <2>5, <2>6, <2>7, <2>8, <2>9, <2>10, <2>11 DEF RailInv
<1>8. CASE ~Expired
  <2>1. UNCHANGED <<age, window, queries>> /\ window # 0 /\ ~(age >= RailTtl)
    BY <1>2, <1>8 DEF RunningTraces, Expired, railCache
  <2>2. window \in DOMAIN queries /\ age \in 0 .. RailTtl /\ doneFor \in [RailTraces -> 0 .. RailTtl]
    BY <2>1, <1>1, <1>2 DEF RailTypeOK
  <2>3. \A s \in RailTabs : polls'[s] \subseteq DOMAIN queries'
    BY <1>1, <1>3, <2>1, <2>2 DEF RailTypeOK
  <2>4. RailTypeOK' /\ DOMAIN polls' = RailTabs
    BY <1>1, <1>2, <1>5, <2>1, <2>3 DEF RailTypeOK
  <2>5. WindowIsLast' /\ QueriesSound' /\ WindowCovers'
    BY <1>1, <1>2, <2>1 DEF WindowIsLast, QueriesSound, WindowCovers
  <2>6. past \subseteq queries[window].past
    <3>. SUFFICES ASSUME NEW i \in past PROVE i \in queries[window].past
      OBVIOUS
    <3>1. i \in RailTraces /\ doneFor[i] >= RailTtl /\ doneFor[i] \in 0 .. RailTtl
      BY <1>4, <2>2
    <3>2. doneFor[i] > age
      BY <3>1, <2>1, <2>2
    <3>. QED
      BY <3>1, <3>2, <1>1, <2>1 DEF WindowCovers
  <2>7. PollsCover'
    <3>. SUFFICES ASSUME NEW s \in RailTabs, NEW q \in polls'[s] PROVE over'[s] \subseteq queries[q].past
      BY <2>1 DEF PollsCover
    <3>. QED
      BY <1>1, <1>3, <2>1, <2>6 DEF PollsCover
  <2>8. OneQueryPerTtl
    BY <1>2, <2>1 DEF OneQueryPerTtl
  <2>9. FailureNotCached
    BY <1>1, <1>3, <2>1 DEF FailureNotCached, WindowIsLast
  <2>. QED
    BY <1>6, <2>4, <2>5, <2>7, <2>8, <2>9 DEF RailInv
<1>. QED
  BY <1>7, <1>8

\* Steps in which nobody asks and no list changes.
LEMMA CalmInv ==
    ASSUME RailInv, RailTypeOK', DOMAIN polls' = RailTabs, WindowIsLast', QueriesSound', WindowCovers',
           UNCHANGED <<over, known, due, page, shown, closed>>,
           stored \subseteq stored', done \subseteq done', Len(queries') = Len(queries),
           \A q \in DOMAIN queries : queries'[q].past = queries[q].past,
           \A s \in RailTabs : polls'[s] \subseteq polls[s]
    PROVE  RailInv' /\ OneQueryPerTtl /\ FailureNotCached
<1>1. \A s \in RailTabs : polls[s] \subseteq DOMAIN queries
  BY DEF RailInv, RailTypeOK
<1>2. PollsCover'
  BY <1>1 DEF RailInv, PollsCover
<1>3. ShownIsStored' /\ TraceNeverVanishes'
  BY DEF RailInv, ShownIsStored, TraceNeverVanishes
<1>4. OneQueryPerTtl
  <2>1. Len(queries) \in Nat
    BY DEF RailInv, RailTypeOK
  <2>. QED
    BY <2>1 DEF OneQueryPerTtl
<1>5. FailureNotCached
  BY DEF FailureNotCached
<1>. QED
  BY <1>2, <1>3, <1>4, <1>5 DEF RailInv

\* Steps of the traces and of the tabs that leave the cache alone.
LEMMA CacheKept ==
    ASSUME RailInv, RailTypeOK', DOMAIN polls' = RailTabs, WindowCovers', UNCHANGED <<window, queries>>,
           UNCHANGED <<over, known, due, page, shown, closed>>,
           stored \subseteq stored', done \subseteq done',
           \A s \in RailTabs : polls'[s] \subseteq polls[s]
    PROVE  RailInv' /\ OneQueryPerTtl /\ FailureNotCached
<1>1. WindowIsLast' /\ QueriesSound'
  BY DEF RailInv, WindowIsLast, QueriesSound
<1>. QED
  BY <1>1, CalmInv

\* An answer: known is what its query read.
LEMMA ApplyInv ==
    ASSUME RailLimits, RailInv, NEW t \in RailTabs, NEW q \in polls[t], Apply(t, q)
    PROVE  RailInv' /\ OneQueryPerTtl /\ FailureNotCached
<1> DEFINE reads == queries[q].reads
           left == (known[t] \ reads) \cap done
<1>1. /\ RailTypeOK /\ DOMAIN polls = RailTabs /\ WindowIsLast /\ QueriesSound /\ WindowCovers
      /\ PollsCover /\ ShownIsStored /\ TraceNeverVanishes
  BY DEF RailInv
<1>2. /\ polls' = [polls EXCEPT ![t] = polls[t] \ {q}]
      /\ known' = [known EXCEPT ![t] = reads]
      /\ due' = IF known[t] \subseteq reads THEN due ELSE due \cup {t}
      /\ shown' = [shown EXCEPT ![t] = shown[t] \cup reads]
      /\ closed' = [closed EXCEPT ![t] = closed[t] \cup left]
      /\ UNCHANGED <<stored, lively, done, doneFor, age, window, queries, visible, over, page, flaws>>
  BY DEF Apply, railCache, railTraces
<1>3. q \in DOMAIN queries /\ reads \subseteq RailTraces /\ reads \subseteq stored
  <2>1. q \in DOMAIN queries /\ queries \in Seq(Sent)
    BY <1>1 DEF RailTypeOK, Sent
  <2>2. queries[q] \in Sent
    BY <2>1
  <2>. QED
    BY <2>1, <2>2, <1>1 DEF Sent, QueriesSound
<1>4. left \subseteq done /\ left \subseteq known[t] \ reads /\ left \subseteq RailTraces
  BY <1>1 DEF RailTypeOK
<1>. HIDE DEF reads, left
<1>5. /\ polls'[t] = polls[t] \ {q} /\ known'[t] = reads /\ shown'[t] = shown[t] \cup reads
      /\ closed'[t] = closed[t] \cup left
      /\ \A s \in RailTabs : s # t => /\ polls'[s] = polls[s] /\ known'[s] = known[s]
                                  /\ shown'[s] = shown[s] /\ closed'[s] = closed[s]
  BY <1>1, <1>2 DEF RailTypeOK
<1>6. \A s \in RailTabs : polls'[s] \subseteq polls[s]
  BY <1>5
<1>7. RailTypeOK' /\ DOMAIN polls' = RailTabs
  <2>1. \A s \in RailTabs : polls'[s] \subseteq DOMAIN queries
    BY <1>1, <1>6 DEF RailTypeOK
  <2>2. known' \in [RailTabs -> SUBSET RailTraces] /\ shown' \in [RailTabs -> SUBSET RailTraces]
    BY <1>1, <1>2, <1>3 DEF RailTypeOK
  <2>3. closed' \in [RailTabs -> SUBSET RailTraces] /\ due' \subseteq RailTabs
    BY <1>1, <1>2, <1>4 DEF RailTypeOK
  <2>. QED
    BY <1>1, <1>2, <2>1, <2>2, <2>3 DEF RailTypeOK
<1>8. WindowIsLast' /\ QueriesSound' /\ WindowCovers'
  BY <1>1, <1>2 DEF WindowIsLast, QueriesSound, WindowCovers
<1>9. PollsCover'
  BY <1>1, <1>2, <1>6 DEF PollsCover
<1>10. ShownIsStored'
  BY <1>1, <1>2, <1>3, <1>4, <1>5 DEF ShownIsStored
<1>11. TraceNeverVanishes'
  <2>. SUFFICES ASSUME NEW s \in RailTabs, s \notin due'
                PROVE  shown'[s] \ known'[s] \subseteq page[s].rows /\ closed'[s] \subseteq page[s].done
    BY <1>2 DEF TraceNeverVanishes
  <2>1. s \notin due /\ (s = t => known[t] \subseteq reads)
    BY <1>2
  <2>2. shown[s] \ known[s] \subseteq page[s].rows /\ closed[s] \subseteq page[s].done
    BY <1>1, <2>1 DEF TraceNeverVanishes
  <2>3. CASE s # t
    BY <2>2, <2>3, <1>5
  <2>4. CASE s = t
    BY <2>1, <2>2, <2>4, <1>4, <1>5
  <2>. QED
    BY <2>3, <2>4
<1>12. OneQueryPerTtl
  BY <1>1, <1>2 DEF OneQueryPerTtl, RailTypeOK
<1>13. FailureNotCached
  BY <1>6 DEF FailureNotCached
<1>. QED
  BY <1>7, <1>8, <1>9, <1>10, <1>11, <1>12, <1>13 DEF RailInv

\* The page is rendered anew: what the rail showed and has closed is on it.
LEMMA RefreshInv ==
    ASSUME RailInv, NEW t \in RailTabs, Refresh(t)
    PROVE  RailInv' /\ OneQueryPerTtl /\ FailureNotCached
<1>1. /\ RailTypeOK /\ DOMAIN polls = RailTabs /\ WindowIsLast /\ QueriesSound /\ WindowCovers
      /\ PollsCover /\ ShownIsStored /\ TraceNeverVanishes
  BY DEF RailInv
<1> DEFINE table == [rows |-> stored, done |-> done]
<1>2. /\ page' = [page EXCEPT ![t] = table] /\ due' = due \ {t}
      /\ UNCHANGED <<stored, lively, done, doneFor, age, window, queries, visible, polls, over,
                     known, shown, closed, flaws>>
  BY DEF Refresh, railTraces, railCache, requests
<1>3. table \in [rows : SUBSET RailTraces, done : SUBSET RailTraces] /\ table.rows = stored /\ table.done = done
  BY <1>1 DEF RailTypeOK
<1>. HIDE DEF table
<1>4. page'[t] = table /\ \A s \in RailTabs : s # t => page'[s] = page[s]
  BY <1>1, <1>2 DEF RailTypeOK
<1>5. page' \in [RailTabs -> [rows : SUBSET RailTraces, done : SUBSET RailTraces]]
  BY <1>1, <1>2, <1>3 DEF RailTypeOK
<1>6. RailTypeOK' /\ DOMAIN polls' = RailTabs
  BY <1>1, <1>2, <1>5 DEF RailTypeOK
<1>7. WindowIsLast' /\ QueriesSound' /\ WindowCovers' /\ PollsCover' /\ ShownIsStored'
  BY <1>1, <1>2 DEF WindowIsLast, QueriesSound, WindowCovers, PollsCover, ShownIsStored
<1>8. TraceNeverVanishes'
  <2>. SUFFICES ASSUME NEW s \in RailTabs, s \notin due'
                PROVE  shown[s] \ known[s] \subseteq page'[s].rows /\ closed[s] \subseteq page'[s].done
    BY <1>2 DEF TraceNeverVanishes
  <2>1. CASE s = t
    BY <2>1, <1>1, <1>3, <1>4 DEF ShownIsStored
  <2>2. CASE s # t
    BY <2>2, <1>1, <1>2, <1>4 DEF TraceNeverVanishes
  <2>. QED
    BY <2>1, <2>2
<1>9. OneQueryPerTtl /\ FailureNotCached
  BY <1>1, <1>2 DEF OneQueryPerTtl, FailureNotCached, RailTypeOK
<1>. QED
  BY <1>6, <1>7, <1>8, <1>9 DEF RailInv

\* One query changes its state, and what it reads, which is no trace that was done.
LEMMA QueryMoves ==
    ASSUME RailInv, NEW q \in DOMAIN queries, NEW new \in Sent,
           queries[q].state # "failed", queries' = [queries EXCEPT ![q] = new], new.past = queries[q].past,
           new.reads \subseteq stored, new.reads \cap new.past \subseteq Old,
           window' = (IF new.state = "failed" /\ window = q THEN 0 ELSE window),
           flaws' \in 0 .. MaxFlaws,
           UNCHANGED <<railTraces, age, visible, requests, list>>
    PROVE  RailInv' /\ OneQueryPerTtl /\ FailureNotCached
<1>1. /\ RailTypeOK /\ DOMAIN polls = RailTabs /\ WindowIsLast /\ QueriesSound /\ WindowCovers
      /\ queries \in Seq(Sent) /\ DOMAIN queries = 1 .. Len(queries) /\ Len(queries) \in Nat
  BY DEF RailInv, RailTypeOK, Sent
<1>2. UNCHANGED <<stored, lively, done, doneFor, polls, over, known, due, page, shown, closed>>
  BY DEF railTraces, requests, list
<1>3. /\ queries' \in Seq(Sent) /\ Len(queries') = Len(queries) /\ DOMAIN queries' = DOMAIN queries
      /\ queries'[q] = new /\ \A p \in DOMAIN queries : p # q => queries'[p] = queries[p]
  BY <1>1
<1>4. \A p \in DOMAIN queries : queries'[p].past = queries[p].past
  BY <1>3
<1>5. window' \in 0 .. Len(queries') /\ window' \in {0, window}
  BY <1>1, <1>3 DEF RailTypeOK
<1>6. RailTypeOK' /\ DOMAIN polls' = RailTabs
  BY <1>1, <1>2, <1>3, <1>5 DEF RailTypeOK, Sent
<1>7. WindowIsLast'
  BY <1>1, <1>3, <1>5 DEF WindowIsLast
<1>8. QueriesSound'
  BY <1>1, <1>2, <1>3 DEF QueriesSound
<1>9. WindowCovers'
  <2>1. window' # 0 => window' = window /\ window \in DOMAIN queries
    BY <1>1, <1>5 DEF RailTypeOK
  <2>. QED
    BY <2>1, <1>1, <1>2, <1>4 DEF WindowCovers
<1>. QED
  BY <1>2, <1>3, <1>4, <1>6, <1>7, <1>8, <1>9, CalmInv

LEMMA QueryInv ==
    ASSUME RailInv, NEW q \in DOMAIN queries, QueryReads(q) \/ QueryOk(q) \/ QueryFails(q), RailLimits
    PROVE  RailInv' /\ OneQueryPerTtl /\ FailureNotCached
<1>0. queries \in Seq(Sent) /\ RailTypeOK /\ QueriesSound
  BY DEF RailInv, RailTypeOK, Sent
<1>1. /\ queries[q] \in Sent
      /\ queries[q].reads \subseteq stored /\ queries[q].past \subseteq done
      /\ queries[q].reads \cap queries[q].past \subseteq Old
      /\ flaws \in 0 .. MaxFlaws /\ lively \subseteq stored /\ stored \subseteq RailTraces
  <2>1. queries[q] \in Sent
    BY <1>0
  <2>. QED
    BY <1>0, <2>1 DEF RailTypeOK, QueriesSound
<1>2. CASE QueryReads(q)
  <2>1. PICK olds \in SUBSET (lively \cap Old) :
            queries' = [queries EXCEPT ![q].state = "read", ![q].reads = StillRunning(olds)]
    BY <1>2 DEF QueryReads
  <2> DEFINE new == [queries[q] EXCEPT !.state = "read", !.reads = StillRunning(olds)]
  <2>2. StillRunning(olds) \subseteq stored /\ StillRunning(olds) \cap done \subseteq Old
    BY <1>1 DEF StillRunning, Newest
  <2>3. /\ new \in Sent /\ new.state = "read" /\ new.past = queries[q].past
        /\ new.reads = StillRunning(olds)
    BY <1>1, <2>2 DEF Sent
  <2>4. queries' = [queries EXCEPT ![q] = new]
    BY <2>1
  <2>5. /\ UNCHANGED <<railTraces, age, window, visible, requests, list, flaws>>
        /\ queries[q].state # "failed"
    BY <1>2 DEF QueryReads
  <2>. HIDE DEF new
  <2>. QED
    BY <1>1, <2>2, <2>3, <2>4, <2>5, QueryMoves
<1>3. CASE QueryOk(q)
  <2> DEFINE new == [queries[q] EXCEPT !.state = "ok"]
  <2>1. /\ queries' = [queries EXCEPT ![q] = new] /\ queries[q].state # "failed"
        /\ UNCHANGED <<railTraces, age, window, visible, requests, list, flaws>>
    BY <1>3 DEF QueryOk
  <2>2. /\ new \in Sent /\ new.state = "ok" /\ new.past = queries[q].past
        /\ new.reads = queries[q].reads
    BY <1>1 DEF Sent
  <2>. HIDE DEF new
  <2>. QED
    BY <1>1, <2>1, <2>2, QueryMoves
<1>4. CASE QueryFails(q)
  <2> DEFINE new == [queries[q] EXCEPT !.state = "failed"]
  <2>1. /\ queries' = [queries EXCEPT ![q] = new] /\ queries[q].state # "failed"
        /\ flaws < MaxFlaws /\ flaws' = flaws + 1
        /\ window' = IF window = q THEN 0 ELSE window
        /\ UNCHANGED <<railTraces, age, visible, requests, list>>
    BY <1>4 DEF QueryFails, WindowAfter
  <2>2. /\ new \in Sent /\ new.state = "failed" /\ new.past = queries[q].past
        /\ new.reads = queries[q].reads
    BY <1>1 DEF Sent
  <2>3. flaws' \in 0 .. MaxFlaws
    BY <1>1, <2>1 DEF RailLimits
  <2>. HIDE DEF new
  <2>. QED
    BY <1>1, <2>1, <2>2, <2>3, QueryMoves
<1>. QED
  BY <1>2, <1>3, <1>4

LEMMA RailNextInv ==
    ASSUME RailLimits, RailInv, [RailNext]_railVars
    PROVE  RailInv' /\ [/\ RailTypeOK' /\ TraceNeverVanishes' /\ FinishedStaysAway'
                       /\ OneQueryPerTtl /\ FailureNotCached]_railVars
<1>. SUFFICES RailInv' /\ OneQueryPerTtl /\ FailureNotCached
  <2>1. ASSUME RailInv' PROVE FinishedStaysAway'
    BY <2>1 DEF RailInv, RailTypeOK, QueriesSound, PollsCover, FinishedStaysAway
  <2>. QED
    BY <2>1 DEF RailInv
<1>1. /\ RailTypeOK /\ DOMAIN polls = RailTabs /\ WindowCovers /\ Len(queries) \in Nat
      /\ stored \subseteq RailTraces /\ lively \subseteq stored /\ done \subseteq stored
      /\ doneFor \in [RailTraces -> 0 .. RailTtl] /\ age \in 0 .. RailTtl
  BY DEF RailInv, RailTypeOK
<1>2. CASE Elapse
  <2>1. /\ age' = Later(age)
        /\ doneFor' = [i \in RailTraces |-> IF i \in done THEN Later(doneFor[i]) ELSE doneFor[i]]
        /\ UNCHANGED <<stored, lively, done, window, queries, visible, polls, over,
                       known, due, page, shown, closed, flaws>>
    BY <1>2 DEF Elapse, requests, list
  <2>2. \A n \in 0 .. RailTtl : Later(n) \in 0 .. RailTtl /\ Later(n) >= n
    BY DEF Later, RailLimits
  <2>3. RailTypeOK' /\ DOMAIN polls' = RailTabs
    <3>1. doneFor' \in [RailTraces -> 0 .. RailTtl] /\ age' \in 0 .. RailTtl
      BY <1>1, <2>1, <2>2
    <3>. QED
      BY <1>1, <2>1, <3>1 DEF RailTypeOK
  <2>4. WindowCovers'
    <3>. SUFFICES ASSUME NEW i \in RailTraces
                  PROVE  /\ i \notin done => doneFor'[i] = 0
                         /\ window # 0 /\ doneFor'[i] > age' => doneFor[i] > age
      BY <1>1, <2>1 DEF WindowCovers
    <3>1. doneFor'[i] = IF i \in done THEN Later(doneFor[i]) ELSE doneFor[i]
      BY <2>1
    <3>2. doneFor[i] \in 0 .. RailTtl /\ (i \notin done => doneFor[i] = 0)
      BY <1>1 DEF WindowCovers
    <3>3. i \notin done => doneFor'[i] = 0
      BY <3>1, <3>2
    <3>4. doneFor'[i] > age' => doneFor[i] > age
      BY <3>1, <3>2, <1>1, <2>1 DEF Later, RailLimits
    <3>. QED
      BY <3>3, <3>4
  <2>. QED
    BY <2>1, <2>3, <2>4, CacheKept
<1>3. ASSUME NEW i \in RailTraces, SpanLands(i) \/ Finish(i) \/ FallsQuiet(i)
      PROVE  RailInv' /\ OneQueryPerTtl /\ FailureNotCached
  <2>1. /\ stored \subseteq stored' /\ done \subseteq done'
        /\ stored' \subseteq RailTraces /\ lively' \subseteq stored' /\ done' \subseteq stored'
        /\ UNCHANGED <<doneFor, age, window, queries, visible, polls, over,
                       known, due, page, shown, closed, flaws>>
    BY <1>1, <1>3 DEF SpanLands, Finish, FallsQuiet, railCache, requests, list
  <2>2. RailTypeOK' /\ DOMAIN polls' = RailTabs
    BY <1>1, <2>1 DEF RailTypeOK
  <2>3. WindowCovers'
    BY <1>1, <2>1 DEF WindowCovers
  <2>. QED
    BY <2>1, <2>2, <2>3, CacheKept
<1>4. ASSUME NEW t \in RailTabs, Poll(t) \/ ShowTab(t)
      PROVE  RailInv' /\ OneQueryPerTtl /\ FailureNotCached
  <2>1. Ask(t) /\ UNCHANGED <<railTraces, list, flaws>> /\ visible' \subseteq RailTabs
    BY <1>1, <1>4 DEF Poll, ShowTab, RailTypeOK
  <2>. QED
    BY <2>1, AskInv
<1>5. ASSUME NEW t \in RailTabs, HideTab(t) \/ \E q \in polls[t] : Fruitless(t, q)
      PROVE  RailInv' /\ OneQueryPerTtl /\ FailureNotCached
  <2>1. PICK rest \in SUBSET polls[t] : polls' = [polls EXCEPT ![t] = rest]
    BY <1>5 DEF HideTab, Fruitless
  <2>2. /\ visible' \subseteq RailTabs
        /\ UNCHANGED <<stored, lively, done, doneFor, age, window, queries, over,
                       known, due, page, shown, closed, flaws>>
    BY <1>1, <1>5 DEF HideTab, Fruitless, RailTypeOK, railTraces, railCache, list
  <2>3. \A s \in RailTabs : polls'[s] \subseteq polls[s]
    BY <1>1, <2>1
  <2>4. RailTypeOK' /\ DOMAIN polls' = RailTabs
    <3>1. \A s \in RailTabs : polls'[s] \subseteq DOMAIN queries
      BY <1>1, <2>3 DEF RailTypeOK
    <3>. QED
      BY <1>1, <2>1, <2>2, <3>1 DEF RailTypeOK
  <2>5. WindowCovers'
    BY <1>1, <2>2 DEF WindowCovers
  <2>. QED
    BY <2>2, <2>3, <2>4, <2>5, CacheKept
<1>6. CASE UNCHANGED railVars
  <2>1. UNCHANGED <<stored, lively, done, doneFor, age, window, queries, visible, polls, over,
                    known, due, page, shown, closed, flaws>>
    BY <1>6 DEF railVars, railTraces, railCache, requests, list
  <2>2. RailTypeOK' /\ DOMAIN polls' = RailTabs /\ WindowCovers'
    BY <1>1, <2>1 DEF RailTypeOK, WindowCovers
  <2>. QED
    BY <2>1, <2>2, CacheKept
<1>7. CASE RailNext
  BY <1>2, <1>3, <1>4, <1>5, <1>7, ApplyInv, RefreshInv, QueryInv DEF RailNext
<1>. QED
  BY <1>6, <1>7

\* For any number of tabs, queries, failures and traces, whatever lands and when: one
\* query per TTL unless it failed, no failure is answered twice, a trace the rail showed
\* is in the rail or in the table, and none that has been done for a TTL is listed to who
\* asks, but for old ones (lib/live-list.ts, LiveTraceRail.tsx).
THEOREM RailIsHonest == ASSUME RailLimits PROVE RailSpec => RailHonest
<1>1. RailInv /\ [RailNext]_railVars =>
          RailInv' /\ [/\ RailTypeOK' /\ TraceNeverVanishes' /\ FinishedStaysAway'
                      /\ OneQueryPerTtl /\ FailureNotCached]_railVars
  BY RailNextInv
<1>. QED
  BY <1>1, RailInitInv, PTL DEF RailSpec, RailHonest

(***************************************************************************)
(* The rate limiter, and the sandbox it stands before.                     *)
(***************************************************************************)
Distinct(seq) == \A i, j \in 1 .. Len(seq) : seq[i] = seq[j] => i = j

\* The tracked keys are a suffix of all keys by their last request.
Suffix ==
    /\ Len(tracked) <= Len(recent)
    /\ Len(tracked) <= MaxKeys
    /\ \A i \in 1 .. Len(tracked) : tracked[i] = recent[Len(recent) - Len(tracked) + i]

\* What was granted, what is left, and what the clock has refilled since the last
\* request come to no more than the burst and the refill of the time gone by.
Budget ==
    \A k \in Keys : IsTracked(k) =>
        spent[k] + tokens[k] + Rate * Greatest(0, clock - updated[k])
            <= Capacity + Rate * (elapsed - born[k])

\* The time a client was told is enough for a token.
Promise ==
    \A k \in Keys : entitled[k] # 0 /\ IsTracked(k) =>
        tokens[k] + Rate * (entitled[k] - updated[k]) >= Cost

IInv == TypeOK /\ Distinct(recent) /\ Suffix /\ Budget /\ Promise

--------------------------------------------------------------------------------
(***************************************************************************)
(* Sequences of keys.                                                      *)
(***************************************************************************)

\* A key at place i leaves it for the end; what came after it moves up.
LEMMA LatestMoves ==
    ASSUME NEW seq \in Seq(Keys), Distinct(seq), NEW k \in Keys,
           NEW i \in 1 .. Len(seq), seq[i] = k
    PROVE  LET moved == Latest(seq, k) IN
           /\ moved \in Seq(Keys) /\ Len(moved) = Len(seq)
           /\ \A p \in 1 .. Len(seq) :
                  moved[p] = IF p < i THEN seq[p] ELSE IF p < Len(seq) THEN seq[p + 1] ELSE k
<1>1. (CHOOSE j \in DOMAIN seq : seq[j] = k) = i
  BY DEF Distinct
<1>2. Latest(seq, k) = Append(RemoveAt(seq, i), k)
  BY <1>1 DEF Latest, Contains
<1> DEFINE front == SubSeq(seq, 1, i - 1)
           back  == SubSeq(seq, i + 1, Len(seq))
<1>3. /\ front \in Seq(Keys) /\ Len(front) = i - 1
      /\ \A p \in 1 .. i - 1 : front[p] = seq[p]
  OBVIOUS
<1>4. /\ back \in Seq(Keys) /\ Len(back) = Len(seq) - i
      /\ \A p \in 1 .. Len(seq) - i : back[p] = seq[i + p]
  OBVIOUS
<1>. HIDE DEF front, back
<1>5. /\ front \o back \in Seq(Keys) /\ Len(front \o back) = Len(seq) - 1
      /\ \A p \in 1 .. Len(seq) - 1 : (front \o back)[p] = IF p < i THEN seq[p] ELSE seq[p + 1]
  <2>1. /\ front \o back \in Seq(Keys) /\ Len(front \o back) = Len(front) + Len(back)
        /\ \A p \in 1 .. Len(front) + Len(back) :
               (front \o back)[p] = IF p <= Len(front) THEN front[p] ELSE back[p - Len(front)]
    BY <1>3, <1>4, ConcatProperties
  <2>2. front \o back \in Seq(Keys) /\ Len(front \o back) = Len(seq) - 1
    BY <2>1, <1>3, <1>4
  <2>3. ASSUME NEW p \in 1 .. i - 1
        PROVE  (front \o back)[p] = seq[p]
    <3>1. p \in 1 .. Len(front) /\ front[p] = seq[p]
      BY <1>3
    <3>2. p \in 1 .. (Len(front) + Len(back)) /\ p <= Len(front)
      BY <3>1, <1>3, <1>4
    <3>. QED
      BY <2>1, <3>1, <3>2
  <2>4. ASSUME NEW p \in i .. Len(seq) - 1
        PROVE  (front \o back)[p] = seq[p + 1]
    <3>1. (front \o back)[p] = back[p - (i - 1)]
      BY <2>1, <1>3, <1>4
    <3>2. back[p - (i - 1)] = seq[i + (p - (i - 1))]
      BY <1>4
    <3>. QED
      BY <3>1, <3>2
  <2>5. ASSUME NEW p \in 1 .. Len(seq) - 1
        PROVE  (front \o back)[p] = IF p < i THEN seq[p] ELSE seq[p + 1]
    <3>1. CASE p < i
      <4>1. p \in 1 .. i - 1
        BY <3>1
      <4>. QED
        BY <3>1, <4>1, <2>3
    <3>2. CASE ~(p < i)
      <4>1. p \in i .. Len(seq) - 1
        BY <3>2
      <4>. QED
        BY <3>2, <4>1, <2>4
    <3>. QED
      BY <3>1, <3>2
  <2>. QED
    BY <2>2, <2>5
<1>6. RemoveAt(seq, i) = front \o back
  BY DEF RemoveAt, front, back
<1> DEFINE cut == front \o back
<1>7. /\ Append(cut, k) \in Seq(Keys) /\ Len(Append(cut, k)) = Len(cut) + 1
      /\ \A p \in 1 .. Len(cut) : Append(cut, k)[p] = cut[p]
      /\ Append(cut, k)[Len(cut) + 1] = k
  BY <1>5, AppendProperties
<1>8. Latest(seq, k) = Append(cut, k)
  BY <1>2, <1>6
<1>. HIDE DEF cut
<1>9. /\ cut \in Seq(Keys) /\ Len(cut) = Len(seq) - 1
      /\ \A p \in 1 .. Len(seq) - 1 : cut[p] = IF p < i THEN seq[p] ELSE seq[p + 1]
  BY <1>5 DEF cut
<1>. QED
  BY <1>7, <1>8, <1>9

\* A key that is not there joins at the end.
LEMMA LatestJoins ==
    ASSUME NEW seq \in Seq(Keys), NEW k \in Keys, \A i \in 1 .. Len(seq) : seq[i] # k
    PROVE  LET moved == Latest(seq, k) IN
           /\ moved \in Seq(Keys) /\ Len(moved) = Len(seq) + 1
           /\ \A p \in 1 .. Len(seq) : moved[p] = seq[p]
           /\ moved[Len(seq) + 1] = k
BY DEF Latest, Contains

\* Either way it stays a sequence of distinct keys.
LEMMA LatestDistinct ==
    ASSUME NEW seq \in Seq(Keys), Distinct(seq), NEW k \in Keys
    PROVE  Latest(seq, k) \in Seq(Keys) /\ Distinct(Latest(seq, k))
<1>1. CASE \E i \in 1 .. Len(seq) : seq[i] = k
  <2>1. PICK i \in 1 .. Len(seq) : seq[i] = k
    BY <1>1
  <2> DEFINE moved == Latest(seq, k)
  <2>2. /\ moved \in Seq(Keys) /\ Len(moved) = Len(seq)
        /\ \A p \in 1 .. Len(seq) :
               moved[p] = IF p < i THEN seq[p] ELSE IF p < Len(seq) THEN seq[p + 1] ELSE k
    BY <2>1, LatestMoves
  <2>. HIDE DEF moved
  <2>. DEFINE n == Len(seq)
              old(p) == IF p < i THEN p ELSE IF p < n THEN p + 1 ELSE i
  <2>3. n \in Nat /\ i \in 1 .. n
    BY <2>1
  <2>4. ASSUME NEW p \in 1 .. n
        PROVE  old(p) \in 1 .. n /\ moved[p] = seq[old(p)]
    <3>1. CASE p < i
      BY <3>1, <2>2, <2>3
    <3>2. CASE ~(p < i) /\ p < n
      BY <3>2, <2>2, <2>3
    <3>3. CASE ~(p < i) /\ ~(p < n)
      BY <3>3, <2>1, <2>2, <2>3
    <3>. QED
      BY <3>1, <3>2, <3>3
  <2>5. ASSUME NEW p \in 1 .. n, NEW q \in 1 .. n, old(p) = old(q)
        PROVE  p = q
    BY <2>3, <2>5
  <2>6. ASSUME NEW p \in 1 .. n, NEW q \in 1 .. n, moved[p] = moved[q]
        PROVE  p = q
    <3>1. seq[old(p)] = seq[old(q)] /\ old(p) \in 1 .. n /\ old(q) \in 1 .. n
      BY <2>4, <2>6
    <3>. HIDE DEF old
    <3>2. old(p) = old(q)
      BY <3>1 DEF Distinct
    <3>. QED
      BY <3>2, <2>5
  <2>7. Distinct(moved)
    BY <2>2, <2>6 DEF Distinct
  <2>. QED
    BY <2>2, <2>7 DEF moved
<1>2. CASE \A i \in 1 .. Len(seq) : seq[i] # k
  <2> DEFINE joined == Latest(seq, k)
  <2>1. /\ joined \in Seq(Keys) /\ Len(joined) = Len(seq) + 1
        /\ \A p \in 1 .. Len(seq) : joined[p] = seq[p]
        /\ joined[Len(seq) + 1] = k
    BY <1>2, LatestJoins
  <2>. HIDE DEF joined
  <2>2. ASSUME NEW p \in 1 .. Len(joined), NEW q \in 1 .. Len(joined), joined[p] = joined[q]
        PROVE  p = q
    <3>1. CASE p \in 1 .. Len(seq) /\ q \in 1 .. Len(seq)
      <4>1. seq[p] = seq[q]
        BY <3>1, <2>1, <2>2
      <4>. QED
        BY <4>1, <3>1 DEF Distinct
    <3>2. CASE p = Len(seq) + 1 /\ q \in 1 .. Len(seq)
      BY <3>2, <2>1, <2>2, <1>2
    <3>3. CASE p \in 1 .. Len(seq) /\ q = Len(seq) + 1
      BY <3>3, <2>1, <2>2, <1>2
    <3>4. CASE p = Len(seq) + 1 /\ q = Len(seq) + 1
      BY <3>4
    <3>. QED
      BY <3>1, <3>2, <3>3, <3>4, <2>1
  <2>3. Distinct(joined)
    BY <2>2 DEF Distinct
  <2>. QED
    BY <2>1, <2>3 DEF joined
<1>. QED
  BY <1>1, <1>2

--------------------------------------------------------------------------------
(***************************************************************************)
(* The map's order.                                                        *)
(***************************************************************************)

\* A key that is tracked moves to the end of the map and of the history alike.
LEMMA TrackedMoves ==
    ASSUME TypeOK, Distinct(recent), Suffix, NEW k \in Keys, IsTracked(k),
           tracked' = Placed(k), recent' = Latest(recent, k)
    PROVE  /\ tracked' \in Seq(Keys) /\ Suffix'
           /\ \A j \in Keys : IsTracked(j)' => IsTracked(j)
<1> DEFINE d == Len(recent) - Len(tracked)
<1>0. /\ tracked \in Seq(Keys) /\ recent \in Seq(Keys) /\ d \in Nat
      /\ Len(tracked) <= MaxKeys /\ d + Len(tracked) = Len(recent)
  BY DEF TypeOK, Suffix
<1>a. ASSUME NEW q \in 1 .. Len(tracked), NEW r \in Int, r = d + q
      PROVE  tracked[q] = recent[r] /\ r \in 1 .. Len(recent)
  BY <1>a, <1>0 DEF Suffix
<1>. HIDE DEF d
<1>1. tracked \in Seq(Keys) /\ recent \in Seq(Keys) /\ Distinct(tracked) /\ d \in Nat
  <2>1. ASSUME NEW q \in 1 .. Len(tracked), NEW r \in 1 .. Len(tracked), tracked[q] = tracked[r]
        PROVE  q = r
    <3>1. recent[d + q] = recent[d + r] /\ d + q \in 1 .. Len(recent) /\ d + r \in 1 .. Len(recent)
      BY <2>1, <1>0, <1>a
    <3>. QED
      BY <3>1, <1>0 DEF Distinct
  <2>. QED
    BY <2>1, <1>0 DEF Distinct
<1>2. PICK i \in 1 .. Len(tracked) : tracked[i] = k
  BY DEF IsTracked, Contains
<1>3. d + i \in 1 .. Len(recent) /\ recent[d + i] = k
  BY <1>0, <1>2, <1>a
<1>4. tracked' = Latest(tracked, k)
  BY DEF Placed
<1>5. /\ tracked' \in Seq(Keys) /\ Len(tracked') = Len(tracked)
      /\ \A p \in 1 .. Len(tracked) :
             tracked'[p] = IF p < i THEN tracked[p]
                           ELSE IF p < Len(tracked) THEN tracked[p + 1] ELSE k
  BY <1>1, <1>2, <1>4, LatestMoves
<1>6. /\ recent' \in Seq(Keys) /\ Len(recent') = Len(recent)
      /\ \A p \in 1 .. Len(recent) :
             recent'[p] = IF p < d + i THEN recent[p]
                          ELSE IF p < Len(recent) THEN recent[p + 1] ELSE k
  BY <1>1, <1>3, LatestMoves
<1>7. ASSUME NEW p \in 1 .. Len(tracked)
      PROVE  tracked'[p] = recent'[d + p]
  <2>1. d + p \in 1 .. Len(recent) /\ recent[d + p] = tracked[p]
    BY <1>0, <1>a
  <2>2. CASE p < i
    BY <2>1, <2>2, <1>0, <1>5, <1>6
  <2>3. CASE p >= i /\ p < Len(tracked)
    <3>1. tracked[p + 1] = recent[d + p + 1]
      <4>1. p + 1 \in 1 .. Len(tracked) /\ d + p + 1 \in Int /\ d + p + 1 = d + (p + 1)
        BY <2>3, <1>0
      <4>. QED
        BY <4>1, <1>a
    <3>2. d + p < Len(recent) /\ ~(d + p < d + i) /\ ~(p < i)
      BY <2>3, <1>0
    <3>. QED
      BY <2>1, <2>3, <3>1, <3>2, <1>5, <1>6
  <2>4. CASE p >= i /\ p = Len(tracked)
    BY <2>1, <2>4, <1>0, <1>5, <1>6
  <2>. QED
    BY <2>2, <2>3, <2>4, <1>0
<1>8. Suffix'
  <2>1. Len(recent') - Len(tracked') = d
    BY <1>0, <1>5, <1>6
  <2>. QED
    BY <2>1, <1>0, <1>5, <1>6, <1>7 DEF Suffix
<1>9. ASSUME NEW j \in Keys, IsTracked(j)'
      PROVE  IsTracked(j)
  BY <1>1, <1>2, <1>5, <1>9 DEF IsTracked, Contains
<1>. QED
  BY <1>5, <1>8, <1>9

\* A new key is appended, the first key making room in a full map.
LEMMA NewcomerJoins ==
    ASSUME TypeOK, Distinct(recent), Suffix, NEW k \in Keys, ~IsTracked(k),
           tracked' = Placed(k), recent' = Latest(recent, k)
    PROVE  /\ tracked' \in Seq(Keys) /\ Suffix'
           /\ \A j \in Keys \ {k} : IsTracked(j)' => IsTracked(j)
<1> DEFINE d == Len(recent) - Len(tracked)
           e == IF Len(tracked) >= MaxKeys THEN 1 ELSE 0
           base == IF Len(tracked) >= MaxKeys THEN Tail(tracked) ELSE tracked
<1>1. tracked \in Seq(Keys) /\ recent \in Seq(Keys) /\ d \in Nat /\ MaxKeys \in Nat \ {0}
  BY BucketAssumption DEF TypeOK, Suffix
<1>2. /\ base \in Seq(Keys) /\ Len(base) = Len(tracked) - e
      /\ \A p \in 1 .. Len(base) : base[p] = tracked[p + e]
  BY <1>1
<1>3. tracked' = Append(base, k)
  BY DEF Placed
<1>3a. /\ e \in 0 .. 1 /\ e <= Len(tracked) /\ Len(tracked) - e + 1 <= MaxKeys
       /\ d = Len(recent) - Len(tracked)
  BY <1>1 DEF Suffix
<1>a. ASSUME NEW q \in 1 .. Len(tracked), NEW r \in Int, r = d + q
      PROVE  tracked[q] = recent[r] /\ r \in 1 .. Len(recent)
  BY <1>a, <1>1, <1>3a DEF Suffix
<1>. HIDE DEF base, e, d
<1>4. /\ tracked' \in Seq(Keys) /\ Len(tracked') = Len(tracked) - e + 1
      /\ \A p \in 1 .. Len(tracked) - e : tracked'[p] = tracked[p + e]
      /\ tracked'[Len(tracked) - e + 1] = k
  BY <1>2, <1>3, AppendProperties
<1>5. ASSUME NEW p \in 1 .. Len(tracked) - e
      PROVE  tracked'[p] = recent[d + p + e]
  <2>1. p + e \in 1 .. Len(tracked)
    BY <1>1, <1>3a
  <2>. QED
    BY <2>1, <1>1, <1>3a, <1>4 DEF Suffix
<1>6. ASSUME \E i \in 1 .. Len(recent) : recent[i] = k
      PROVE  Suffix'
  <2>1. PICK i \in 1 .. Len(recent) : recent[i] = k
    BY <1>6
  <2>2. i <= d
    <3>1. SUFFICES ASSUME i > d
                   PROVE  FALSE
      BY <1>1, <1>3a, <2>1
    <3>2. i - d \in 1 .. Len(tracked)
      BY <3>1, <1>1, <1>3a
    <3>3. tracked[i - d] = k
      <4>1. i = d + (i - d)
        BY <1>1
      <4>. QED
        BY <3>2, <4>1, <2>1, <1>a
    <3>. QED
      BY <3>2, <3>3 DEF IsTracked, Contains
  <2>3. /\ recent' \in Seq(Keys) /\ Len(recent') = Len(recent)
        /\ \A p \in 1 .. Len(recent) :
               recent'[p] = IF p < i THEN recent[p]
                            ELSE IF p < Len(recent) THEN recent[p + 1] ELSE k
    BY <1>1, <1>3a, <2>1, LatestMoves
  <2>4. ASSUME NEW p \in 1 .. Len(tracked) - e
        PROVE  tracked'[p] = recent'[d + e - 1 + p]
    <3>1. d + e - 1 + p \in i .. Len(recent) - 1
      BY <1>1, <1>3a, <2>1, <2>2
    <3>2. recent'[d + e - 1 + p] = recent[(d + e - 1 + p) + 1]
      BY <3>1, <2>1, <2>3
    <3>3. (d + e - 1 + p) + 1 = d + p + e
      BY <1>1, <1>3a
    <3>. QED
      BY <3>2, <3>3, <1>5
  <2>5. recent'[Len(recent)] = k
    BY <2>1, <2>3, <1>1, <1>3a
  <2>6. ASSUME NEW p \in 1 .. Len(tracked')
        PROVE  tracked'[p] = recent'[Len(recent') - Len(tracked') + p]
    <3>1. CASE p = Len(tracked')
      BY <3>1, <1>1, <1>3a, <1>4, <2>3, <2>5
    <3>2. CASE p < Len(tracked')
      <4>1. p \in 1 .. Len(tracked) - e
        BY <3>2, <1>1, <1>3a, <1>4
      <4>2. d + e - 1 + p = Len(recent') - Len(tracked') + p
        BY <1>1, <1>3a, <1>4, <2>3
      <4>. QED
        BY <4>1, <4>2, <2>4
    <3>. QED
      BY <3>1, <3>2, <1>4
  <2>. QED
    BY <1>1, <1>3a, <1>4, <2>1, <2>2, <2>3, <2>6, SMTT(30) DEF Suffix
<1>7. ASSUME \A i \in 1 .. Len(recent) : recent[i] # k
      PROVE  Suffix'
  <2>1. /\ recent' \in Seq(Keys) /\ Len(recent') = Len(recent) + 1
        /\ \A p \in 1 .. Len(recent) : recent'[p] = recent[p]
        /\ recent'[Len(recent) + 1] = k
    BY <1>1, <1>3a, <1>7, LatestJoins
  <2>2. ASSUME NEW p \in 1 .. Len(tracked) - e
        PROVE  tracked'[p] = recent'[d + p + e]
    <3>1. d + p + e \in 1 .. Len(recent)
      BY <1>1, <1>3a
    <3>. QED
      BY <3>1, <1>5, <2>1
  <2>3. ASSUME NEW p \in 1 .. Len(tracked')
        PROVE  tracked'[p] = recent'[Len(recent') - Len(tracked') + p]
    <3>1. CASE p = Len(tracked')
      <4>1. Len(recent') - Len(tracked') + p = Len(recent) + 1 /\ p = Len(tracked) - e + 1
        BY <3>1, <1>1, <1>3a, <1>4, <2>1
      <4>. QED
        BY <4>1, <1>4, <2>1
    <3>2. CASE p < Len(tracked')
      <4>1. p \in 1 .. Len(tracked) - e
        BY <3>2, <1>1, <1>3a, <1>4
      <4>2. d + p + e = Len(recent') - Len(tracked') + p
        BY <1>1, <1>3a, <1>4, <2>1
      <4>. QED
        BY <4>1, <4>2, <2>2
    <3>. QED
      BY <3>1, <3>2, <1>4
  <2>. QED
    BY <1>1, <1>3a, <1>4, <2>1, <2>3 DEF Suffix
<1>8. Suffix'
  BY <1>6, <1>7
<1>9. ASSUME NEW j \in Keys \ {k}, IsTracked(j)'
      PROVE  IsTracked(j)
  <2>1. PICK p \in 1 .. Len(tracked') : tracked'[p] = j
    BY <1>9 DEF IsTracked, Contains
  <2>2. p + e \in 1 .. Len(tracked) /\ tracked[p + e] = j
    BY <2>1, <1>1, <1>3a, <1>4
  <2>. QED
    BY <2>2 DEF IsTracked, Contains
<1>. QED
  BY <1>4, <1>8, <1>9

--------------------------------------------------------------------------------
(***************************************************************************)
(* Arithmetic of the bucket.                                               *)
(***************************************************************************)

\* More seconds refill no less.
LEMMA RefillGrows ==
    ASSUME NEW b \in Nat, NEW a \in Int, NEW c \in Int, a <= c
    PROVE  b * a <= b * c /\ b * a \in Int /\ b * c \in Int
OBVIOUS

LEMMA RefillOfOneMore ==
    ASSUME NEW b \in Nat, NEW a \in Int
    PROVE  b * (a + 1) = b * a + b
OBVIOUS

LEMMA RefillCommutes ==
    ASSUME NEW b \in Nat, NEW a \in Int
    PROVE  a * b = b * a /\ b * a \in Int
OBVIOUS

\* The rounded-up wait refills what is missing.
LEMMA RoundedUp ==
    ASSUME NEW b \in Nat \ {0}, NEW a \in Int
    PROVE  (a + b - 1) \div b \in Int /\ b * ((a + b - 1) \div b) >= a
OBVIOUS

LEMMA WaitRefills ==
    ASSUME NEW level \in 0 .. Capacity
    PROVE  Wait(level) \in Nat \ {0} /\ Rate * Wait(level) >= Cost - level
<1> DEFINE w == (Cost - level + Rate - 1) \div Rate
<1>1. Rate \in Nat \ {0} /\ Cost - level \in Int
  BY BucketAssumption
<1>2. w \in Int /\ Rate * w >= Cost - level
  BY <1>1, RoundedUp
<1>. HIDE DEF w
<1>3. Wait(level) = Greatest(1, w)
  BY DEF Wait, w
<1>4. Wait(level) \in Nat \ {0} /\ w <= Wait(level)
  BY <1>2, <1>3 DEF Greatest
<1>5. Rate * w <= Rate * Wait(level) /\ Rate * Wait(level) \in Int
  BY <1>1, <1>2, <1>4, RefillGrows
<1>. QED
  BY <1>1, <1>2, <1>4, <1>5, RefillCommutes

\* What a request finds in its bucket.
Level(k) == IF IsTracked(k) THEN Refilled(k) ELSE Capacity

LEMMA LevelBounds ==
    ASSUME TypeOK, NEW k \in Keys
    PROVE  LET back == Greatest(0, clock - updated[k]) IN
           /\ back \in Nat /\ Rate * back \in Nat
           /\ Level(k) \in 0 .. Capacity
           /\ IsTracked(k) => Level(k) <= tokens[k] + Rate * back
           /\ IsTracked(k) => Level(k) = Capacity \/ Level(k) = tokens[k] + Rate * back
<1> DEFINE back == Greatest(0, clock - updated[k])
<1>1. Rate \in Nat /\ Capacity \in Nat /\ tokens[k] \in 0 .. Capacity
  BY BucketAssumption DEF TypeOK
<1>2. back \in Nat
  BY DEF TypeOK, Greatest
<1>. HIDE DEF back
<1>3. Rate * back \in Nat /\ back * Rate = Rate * back
  <2>1. Rate * 0 <= Rate * back /\ Rate * 0 = 0
    BY <1>1, <1>2, RefillGrows
  <2>. QED
    BY <2>1, <1>1, <1>2, RefillCommutes
<1>4. Refilled(k) = Least(Capacity, tokens[k] + back * Rate)
  BY DEF Refilled, back
<1>5. /\ Level(k) \in 0 .. Capacity
      /\ IsTracked(k) => Level(k) <= tokens[k] + Rate * back
      /\ IsTracked(k) => Level(k) = Capacity \/ Level(k) = tokens[k] + Rate * back
  BY <1>1, <1>3, <1>4 DEF Level, Least
<1>. QED
  BY <1>2, <1>3, <1>5 DEF back

--------------------------------------------------------------------------------
(***************************************************************************)
(* The invariant.                                                          *)
(***************************************************************************)

LEMMA InitIInv == Init => IInv
<1> SUFFICES ASSUME Init
             PROVE  IInv
  OBVIOUS
<1>1. TypeOK
  BY BucketAssumption DEF Init, TypeOK
<1>2. Distinct(recent) /\ Suffix /\ \A k \in Keys : ~IsTracked(k)
  BY BucketAssumption DEF Init, Distinct, Suffix, IsTracked, Contains
<1>. QED
  BY <1>1, <1>2 DEF IInv, Budget, Promise

\* What a request does to the order of the map.
LEMMA RequestReorders ==
    ASSUME IInv, NEW k \in Keys, TryAcquire(k)
    PROVE  /\ tracked' \in Seq(Keys) /\ recent' \in Seq(Keys)
           /\ Distinct(recent)' /\ Suffix'
           /\ \A j \in Keys \ {k} : IsTracked(j)' => IsTracked(j)
<1>1. tracked' = Placed(k) /\ recent' = Latest(recent, k)
  BY DEF TryAcquire
<1>2. recent' \in Seq(Keys) /\ Distinct(recent')
  BY <1>1, LatestDistinct DEF IInv, TypeOK
<1>3. /\ tracked' \in Seq(Keys) /\ Suffix'
      /\ \A j \in Keys \ {k} : IsTracked(j)' => IsTracked(j)
  BY <1>1, TrackedMoves, NewcomerJoins DEF IInv
<1>. QED
  BY <1>2, <1>3 DEF Distinct

\* A request, in terms of what it found in the bucket.
LEMMA RequestAccounts ==
    ASSUME IInv, NEW k \in Keys, TryAcquire(k)
    PROVE  /\ tokens' = [tokens EXCEPT ![k] = IF Level(k) >= Cost THEN Level(k) - Cost ELSE Level(k)]
           /\ updated' = [updated EXCEPT ![k] = clock]
           /\ born' = [born EXCEPT ![k] = IF IsTracked(k) THEN born[k] ELSE elapsed]
           /\ spent' = [spent EXCEPT ![k] = (IF IsTracked(k) THEN spent[k] ELSE 0)
                                            + (IF Level(k) >= Cost THEN Cost ELSE 0)]
           /\ entitled' = [entitled EXCEPT ![k] = IF Level(k) >= Cost THEN 0
                                                  ELSE clock + Wait(Level(k))]
           /\ clock' = clock /\ elapsed' = elapsed
BY DEF TryAcquire, Level, IInv, TypeOK

LEMMA RequestType ==
    ASSUME IInv, NEW k \in Keys, TryAcquire(k)
    PROVE  TypeOK'
<1>1. Level(k) \in 0 .. Capacity /\ Cost \in 1 .. Capacity /\ Capacity \in Nat
  BY LevelBounds, BucketAssumption DEF IInv
<1>2. Wait(Level(k)) \in Nat
  BY <1>1, WaitRefills
<1>3. TypeOK
  BY DEF IInv
<1>4. tokens' \in [Keys -> 0 .. Capacity]
  <2> DEFINE v == IF Level(k) >= Cost THEN Level(k) - Cost ELSE Level(k)
  <2>1. v \in 0 .. Capacity
    BY <1>1
  <2>2. tokens' = [tokens EXCEPT ![k] = v] /\ tokens \in [Keys -> 0 .. Capacity]
    BY <1>3, RequestAccounts DEF TypeOK
  <2>. HIDE DEF v
  <2>. QED
    BY <2>1, <2>2
<1>5. spent' \in [Keys -> Nat]
  <2> DEFINE v == (IF IsTracked(k) THEN spent[k] ELSE 0) + (IF Level(k) >= Cost THEN Cost ELSE 0)
  <2>1. v \in Nat
    BY <1>1, <1>3 DEF TypeOK
  <2>2. spent' = [spent EXCEPT ![k] = v] /\ spent \in [Keys -> Nat]
    BY <1>3, RequestAccounts DEF TypeOK
  <2>. HIDE DEF v
  <2>. QED
    BY <2>1, <2>2
<1>6. entitled' \in [Keys -> Nat]
  <2> DEFINE v == IF Level(k) >= Cost THEN 0 ELSE clock + Wait(Level(k))
  <2>1. v \in Nat
    BY <1>2, <1>3 DEF TypeOK
  <2>2. entitled' = [entitled EXCEPT ![k] = v] /\ entitled \in [Keys -> Nat]
    BY <1>3, RequestAccounts DEF TypeOK
  <2>. HIDE DEF v
  <2>. QED
    BY <2>1, <2>2
<1>7. updated' \in [Keys -> Nat] /\ born' \in [Keys -> Nat]
  <2> DEFINE v == IF IsTracked(k) THEN born[k] ELSE elapsed
  <2>1. updated' = [updated EXCEPT ![k] = clock] /\ born' = [born EXCEPT ![k] = v]
    BY RequestAccounts
  <2>2. v \in Nat
    BY <1>3 DEF TypeOK
  <2>. HIDE DEF v
  <2>. QED
    BY <2>1, <2>2, <1>3 DEF TypeOK
<1>8. clock' \in Nat /\ elapsed' \in Nat
  BY <1>3, RequestAccounts DEF TypeOK
<1>. QED
  BY <1>4, <1>5, <1>6, <1>7, <1>8, RequestReorders DEF TypeOK

LEMMA RequestBudget ==
    ASSUME IInv, NEW k \in Keys, TryAcquire(k)
    PROVE  Budget' /\ Promise'
<1>1. /\ Level(k) \in 0 .. Capacity /\ Cost \in 1 .. Capacity
      /\ Capacity \in Nat /\ Rate \in Nat
  BY LevelBounds, BucketAssumption DEF IInv
<1>2. TypeOK
  BY DEF IInv
<1>3. ASSUME NEW j \in Keys, IsTracked(j)', j # k
      PROVE  /\ spent[j]' + tokens[j]' + Rate * Greatest(0, clock' - updated[j]')
                    <= Capacity + Rate * (elapsed' - born[j]')
             /\ entitled[j]' # 0 => tokens[j]' + Rate * (entitled[j]' - updated[j]') >= Cost
  <2>1. IsTracked(j)
    BY <1>3, RequestReorders
  <2>2. /\ spent'[j] = spent[j] /\ tokens'[j] = tokens[j] /\ updated'[j] = updated[j]
        /\ born'[j] = born[j] /\ entitled'[j] = entitled[j]
        /\ clock' = clock /\ elapsed' = elapsed
    BY <1>2, <1>3, RequestAccounts DEF TypeOK
  <2>. QED
    BY <2>1, <2>2 DEF IInv, Budget, Promise
<1>4. /\ spent'[k] + tokens'[k] = (IF IsTracked(k) THEN spent[k] ELSE 0) + Level(k)
      /\ spent'[k] \in Nat /\ tokens'[k] \in Nat
  <2>1. spent[k] \in Nat
    BY <1>2 DEF TypeOK
  <2>2. /\ spent'[k] = (IF IsTracked(k) THEN spent[k] ELSE 0) + (IF Level(k) >= Cost THEN Cost ELSE 0)
        /\ tokens'[k] = IF Level(k) >= Cost THEN Level(k) - Cost ELSE Level(k)
    BY <1>2, RequestAccounts DEF TypeOK
  <2>3. CASE Level(k) >= Cost
    BY <2>1, <2>2, <2>3, <1>1
  <2>4. CASE ~(Level(k) >= Cost)
    BY <2>1, <2>2, <2>4, <1>1
  <2>. QED
    BY <2>3, <2>4
<1>5. Rate * Greatest(0, clock' - updated'[k]) = 0
  BY <1>1, <1>2, RequestAccounts DEF TypeOK, Greatest
<1>6. (IF IsTracked(k) THEN spent[k] ELSE 0) + Level(k) <= Capacity + Rate * (elapsed' - born'[k])
  <2>1. CASE IsTracked(k)
    <3>1. spent[k] + tokens[k] + Rate * Greatest(0, clock - updated[k])
              <= Capacity + Rate * (elapsed - born[k])
      BY <2>1 DEF IInv, Budget
    <3>2. born'[k] = born[k] /\ elapsed' = elapsed
      BY <2>1, <1>2, RequestAccounts DEF TypeOK
    <3>3. /\ Level(k) <= tokens[k] + Rate * Greatest(0, clock - updated[k])
          /\ Rate * Greatest(0, clock - updated[k]) \in Nat
      BY <2>1, <1>2, LevelBounds
    <3>4. spent[k] \in Nat /\ tokens[k] \in Nat /\ Rate * (elapsed - born[k]) \in Int
      BY <1>1, <1>2, RefillCommutes DEF TypeOK
    <3>. QED
      BY <2>1, <3>1, <3>2, <3>3, <3>4, <1>1
  <2>2. CASE ~IsTracked(k)
    <3>1. born'[k] = elapsed /\ elapsed' = elapsed /\ Rate * (elapsed - elapsed) = 0
      BY <2>2, <1>1, <1>2, RequestAccounts DEF TypeOK
    <3>. QED
      BY <2>2, <3>1, <1>1
  <2>. QED
    BY <2>1, <2>2
<1>7. entitled'[k] # 0 => tokens'[k] + Rate * (entitled'[k] - updated'[k]) >= Cost
  <2>1. CASE Level(k) >= Cost
    BY <2>1, <1>2, RequestAccounts DEF TypeOK
  <2>2. CASE ~(Level(k) >= Cost)
    <3>1. Wait(Level(k)) \in Nat /\ Rate * Wait(Level(k)) >= Cost - Level(k)
      BY <1>1, WaitRefills
    <3>2. tokens'[k] = Level(k) /\ entitled'[k] = clock + Wait(Level(k)) /\ updated'[k] = clock
      BY <2>2, <1>2, RequestAccounts DEF TypeOK
    <3>3. entitled'[k] - updated'[k] = Wait(Level(k)) /\ Rate * Wait(Level(k)) \in Int
      BY <3>1, <3>2, <1>1, <1>2, RefillCommutes DEF TypeOK
    <3>. QED
      BY <3>1, <3>2, <3>3, <1>1
  <2>. QED
    BY <2>1, <2>2
<1>8. Budget'
  <2>. SUFFICES ASSUME NEW j \in Keys, IsTracked(j)'
                PROVE  spent[j]' + tokens[j]' + Rate * Greatest(0, clock' - updated[j]')
                           <= Capacity + Rate * (elapsed' - born[j]')
    BY DEF Budget
  <2>1. CASE j = k
    BY <2>1, <1>4, <1>5, <1>6
  <2>. QED
    BY <2>1, <1>3
<1>9. Promise'
  BY <1>3, <1>7 DEF Promise
<1>. QED
  BY <1>8, <1>9

\* Time passes: what is refilled is what time allows.
LEMMA TickKeeps ==
    ASSUME IInv, Tick
    PROVE  IInv'
<1>1. /\ TypeOK /\ Rate \in Nat /\ Capacity \in Nat
      /\ clock' = clock + 1 /\ elapsed' = elapsed + 1
      /\ UNCHANGED <<tracked, tokens, updated, born, spent, entitled, recent>>
  BY BucketAssumption DEF IInv, Tick
<1>2. TypeOK'
  BY <1>1 DEF TypeOK
<1>3. Distinct(recent)' /\ Suffix' /\ Promise'
  BY <1>1 DEF IInv, Distinct, Suffix, Promise, IsTracked
<1>4. Budget'
  <2>. SUFFICES ASSUME NEW k \in Keys, IsTracked(k)'
                PROVE  (spent[k] + tokens[k] + Rate * Greatest(0, clock - updated[k]))'
                           <= (Capacity + Rate * (elapsed - born[k]))'
    BY DEF Budget
  <2>0. IsTracked(k)
    BY <1>1 DEF IsTracked
  <2> DEFINE back == Greatest(0, clock - updated[k])
             next == Greatest(0, clock + 1 - updated[k])
             held  == elapsed - born[k]
  <2>1. /\ back \in Int /\ next \in Int /\ next <= back + 1
        /\ held \in Int /\ elapsed + 1 - born[k] = held + 1
        /\ spent[k] \in Nat /\ tokens[k] \in Int
    <3>1. /\ clock \in Int /\ updated[k] \in Int /\ elapsed \in Int /\ born[k] \in Int
          /\ spent[k] \in Nat /\ tokens[k] \in Int
      BY <1>1 DEF TypeOK
    <3>. QED
      BY <3>1 DEF Greatest
  <2>2. spent[k] + tokens[k] + Rate * back <= Capacity + Rate * held
    BY <2>0 DEF IInv, Budget
  <2>. HIDE DEF back, next, held
  <2>3. Rate * next <= Rate * (back + 1)
    BY <2>1, <1>1, RefillGrows
  <2>4. Rate * (back + 1) = Rate * back + Rate /\ Rate * (held + 1) = Rate * held + Rate
    BY <2>1, <1>1, RefillOfOneMore
  <2>5. Rate * back \in Int /\ Rate * next \in Int /\ Rate * held \in Int
    BY <2>1, <1>1, RefillCommutes
  <2>6. spent[k] + tokens[k] + Rate * next <= Capacity + Rate * (held + 1)
    BY <2>1, <2>2, <2>3, <2>4, <2>5, <1>1
  <2>7. /\ Greatest(0, clock' - updated'[k]) = next
        /\ elapsed' - born'[k] = held + 1
        /\ spent'[k] = spent[k] /\ tokens'[k] = tokens[k]
    <3>1. /\ clock' - updated'[k] = clock + 1 - updated[k]
          /\ elapsed' - born'[k] = elapsed + 1 - born[k]
          /\ spent'[k] = spent[k] /\ tokens'[k] = tokens[k]
      BY <1>1 DEF TypeOK
    <3>2. Greatest(0, clock' - updated'[k]) = next
      BY <3>1 DEF next, Greatest
    <3>. QED
      BY <2>1, <3>1, <3>2
  <2>. QED
    BY <2>6, <2>7
<1>. QED
  BY <1>2, <1>3, <1>4 DEF IInv

\* The clock is set back: nothing is refilled for it, and nothing taken off.
LEMMA SetBackKeeps ==
    ASSUME IInv, SetBack
    PROVE  IInv'
<1>1. /\ TypeOK /\ Rate \in Nat /\ Capacity \in Nat
      /\ clock > 1 /\ clock' = clock - 1 /\ entitled' = [k \in Keys |-> 0]
      /\ UNCHANGED <<elapsed, tracked, tokens, updated, born, spent, recent>>
  BY BucketAssumption DEF IInv, SetBack
<1>2. TypeOK'
  BY <1>1 DEF TypeOK
<1>3. Distinct(recent)' /\ Suffix' /\ Promise'
  BY <1>1 DEF IInv, Distinct, Suffix, Promise, IsTracked
<1>4. Budget'
  <2>. SUFFICES ASSUME NEW k \in Keys, IsTracked(k)
                PROVE  spent[k] + tokens[k] + Rate * Greatest(0, clock - 1 - updated[k])
                           <= Capacity + Rate * (elapsed - born[k])
    BY <1>1 DEF Budget, IsTracked
  <2> DEFINE back == Greatest(0, clock - updated[k])
             next == Greatest(0, clock - 1 - updated[k])
             held  == elapsed - born[k]
  <2>1. /\ back \in Int /\ next \in Int /\ next <= back /\ held \in Int
        /\ spent[k] \in Nat /\ tokens[k] \in Int
    BY <1>1, SMTT(30) DEF TypeOK, Greatest
  <2>2. spent[k] + tokens[k] + Rate * back <= Capacity + Rate * held
    BY DEF IInv, Budget
  <2>. HIDE DEF back, next, held
  <2>3. Rate * next <= Rate * back
    BY <2>1, <1>1, RefillGrows
  <2>4. Rate * back \in Int /\ Rate * next \in Int /\ Rate * held \in Int
    BY <2>1, <1>1, RefillCommutes
  <2>5. spent[k] + tokens[k] + Rate * next <= Capacity + Rate * held
    BY <2>1, <2>2, <2>3, <2>4, <1>1
  <2>. QED
    BY <2>5 DEF next, held
<1>. QED
  BY <1>2, <1>3, <1>4 DEF IInv

LEMMA NextIInv == IInv /\ [Next]_vars => IInv'
<1> SUFFICES ASSUME IInv, [Next]_vars
             PROVE  IInv'
  OBVIOUS
<1>1. CASE Tick
  BY <1>1, TickKeeps
<1>2. CASE SetBack
  BY <1>2, SetBackKeeps
<1>3. CASE \E k \in Keys : TryAcquire(k)
  <2>1. PICK k \in Keys : TryAcquire(k)
    BY <1>3
  <2>. QED
    BY <2>1, RequestType, RequestReorders, RequestBudget DEF IInv
<1>4. CASE UNCHANGED vars
  BY <1>4 DEF vars, IInv, TypeOK, Distinct, Suffix, Budget, Promise, IsTracked
<1>. QED
  BY <1>1, <1>2, <1>3, <1>4 DEF Next

--------------------------------------------------------------------------------
(***************************************************************************)
(* The promises.                                                           *)
(***************************************************************************)

LEMMA NoOvercharge == IInv => RateHonoured
<1> SUFFICES ASSUME IInv, NEW k \in Keys, IsTracked(k)
             PROVE  spent[k] <= Capacity + Rate * (elapsed - born[k])
  BY DEF RateHonoured
<1>1. TypeOK /\ Rate \in Nat /\ Capacity \in Nat
  BY BucketAssumption DEF IInv
<1>2. spent[k] + tokens[k] + Rate * Greatest(0, clock - updated[k])
          <= Capacity + Rate * (elapsed - born[k])
  BY DEF IInv, Budget
<1>3. Rate * Greatest(0, clock - updated[k]) \in Nat
  BY <1>1, LevelBounds
<1>4. spent[k] \in Nat /\ tokens[k] \in Nat /\ Rate * (elapsed - born[k]) \in Int
  BY <1>1, RefillCommutes DEF TypeOK
<1>. QED
  BY <1>1, <1>2, <1>3, <1>4

LEMMA SuffixOfRecent == IInv => TrackedAreRecent
<1> SUFFICES ASSUME IInv
             PROVE  TrackedAreRecent
  OBVIOUS
<1> DEFINE d == Len(recent) - Len(tracked)
           last == SubSeq(recent, d + 1, Len(recent))
<1>1. /\ tracked \in Seq(Keys) /\ recent \in Seq(Keys) /\ d \in Nat /\ d <= Len(recent)
      /\ Len(tracked) <= MaxKeys
  BY DEF IInv, TypeOK, Suffix
<1>2. /\ last \in Seq(Keys) /\ Len(last) = Len(tracked)
      /\ \A i \in 1 .. Len(tracked) : last[i] = recent[d + i]
  BY <1>1
<1>3. \A i \in 1 .. Len(tracked) : tracked[i] = recent[d + i]
  BY DEF IInv, Suffix
<1>4. tracked = last
  <2>. HIDE DEF last, d
  <2>. QED
    BY <1>1, <1>2, <1>3, SeqEqual
<1>. QED
  <2>1. tracked = SubSeq(recent, d + 1, Len(recent)) /\ d \in 0 .. Len(recent)
    BY <1>1, <1>4
  <2>. HIDE DEF last, d
  <2>. QED
    BY <1>1, <2>1 DEF TrackedAreRecent

\* Only a request answers a client, and a client that waited finds a token.
LEMMA ComeBackLetIn == IInv /\ [Next]_vars => RetryAfterHonest
<1> SUFFICES ASSUME IInv, [Next]_vars, NEW k \in Keys,
                    entitled[k] # 0, clock >= entitled[k], clock' = clock,
                    entitled'[k] # entitled[k]
             PROVE  entitled'[k] = 0
  BY DEF RetryAfterHonest
<1>1. TypeOK
  BY DEF IInv
<1>2. ~Tick /\ ~SetBack /\ ~UNCHANGED vars
  BY <1>1 DEF Tick, SetBack, vars, TypeOK
<1>3. PICK j \in Keys : TryAcquire(j)
  BY <1>2 DEF Next
<1>4. j = k
  BY <1>1, <1>3, RequestAccounts DEF TypeOK
<1>5. Level(k) >= Cost
  <2>1. Cost \in 1 .. Capacity /\ Capacity \in Nat /\ Rate \in Nat
    BY BucketAssumption
  <2>2. CASE ~IsTracked(k)
    BY <2>1, <2>2 DEF Level
  <2>3. CASE IsTracked(k)
    <3> DEFINE back == Greatest(0, clock - updated[k])
               told == entitled[k] - updated[k]
    <3>1. /\ back \in Int /\ told \in Int /\ told <= back /\ tokens[k] \in Nat
      BY <1>1, SMTT(30) DEF TypeOK, Greatest
    <3>2. tokens[k] + Rate * told >= Cost
      BY <2>3 DEF IInv, Promise
    <3>3. Level(k) = Capacity \/ Level(k) = tokens[k] + Rate * back
      BY <2>3, <1>1, LevelBounds
    <3>. HIDE DEF back, told
    <3>4. Rate * told <= Rate * back /\ Rate * told \in Int /\ Rate * back \in Int
      BY <3>1, <2>1, RefillGrows
    <3>. QED
      BY <3>1, <3>2, <3>3, <3>4, <2>1
  <2>. QED
    BY <2>2, <2>3
<1>. QED
  BY <1>1, <1>3, <1>4, <1>5, RequestAccounts DEF TypeOK

\* No client is granted more than its burst and what the time that really went by
\* refills, whatever the clock is set to (rate-limit.ts tryAcquire).
THEOREM RateLimited == Spec => []RateHonoured
<1>. QED
  BY InitIInv, NextIInv, NoOvercharge, PTL DEF Spec

\* A client that comes back when Retry-After told it to is let in, and the map
\* holds the clients seen last (rate-limit.ts tryAcquire and its eviction).
THEOREM Honest == Spec => LimiterHonest
<1>1. IInv /\ IInv' /\ [Next]_vars => [TypeOK' /\ TrackedAreRecent' /\ RetryAfterHonest]_vars
  <2>. SUFFICES ASSUME IInv, IInv', [Next]_vars
                PROVE  TypeOK' /\ TrackedAreRecent' /\ RetryAfterHonest
    OBVIOUS
  <2>1. TrackedAreRecent'
    BY SuffixOfRecent, PTL
  <2>2. RetryAfterHonest
    BY ComeBackLetIn
  <2>. QED
    BY <2>1, <2>2 DEF IInv
<1>. QED
  BY <1>1, InitIInv, NextIInv, PTL DEF Spec, LimiterHonest

--------------------------------------------------------------------------------------
(***************************************************************************)
(* The sandbox honours its caps.                                           *)
(***************************************************************************)
SandboxLimits ==
    /\ IsFiniteSet(Visitors)
    /\ MaxConcurrent \in Nat /\ DailyBudget \in Nat /\ MaxDay \in Nat

\* Runs counted against today's budget by the process that serves.
CountedToday == IF counted.day = today THEN counted.runs ELSE 0

TryTyped ==
    /\ endpointOk \in BOOLEAN /\ initialized \in BOOLEAN
    /\ counted \in [day : Nat, runs : 0 .. DailyBudget]
    /\ today \in Nat /\ restarts \in Nat
    /\ run \in [Visitors -> {"none", "unrooted", "rooted", "over", "stillborn"}]
    /\ started \in [Days -> Nat]

\* A refused endpoint costs slots and starts nothing.
Slots ==
    /\ SlotsMatchRuns
    /\ Cardinality(OpenRuns) <= MaxConcurrent
    /\ ~ endpointOk => ~ initialized /\ OpenRuns = {}

\* Each earlier process may have spent a budget on a day, and this one what it counts.
Budgets ==
    \A d \in Days :
        /\ started[d] <= DailyBudget * (1 + restarts)
        /\ d = today => started[d] <= DailyBudget * restarts + CountedToday
        /\ d > today => started[d] = 0

CapsInv == TryTyped /\ Slots /\ Budgets

--------------------------------------------------------------------------------
LEMMA RunningFinite ==
    ASSUME SandboxLimits, NEW R, R \subseteq Visitors
    PROVE  IsFiniteSet(R) /\ Cardinality(R) \in Nat
BY FS_Subset, FS_CardinalityType DEF SandboxLimits

LEMMA CapsInit == ASSUME SandboxLimits, TryInit PROVE CapsInv
<1>1. OpenRuns = {}
  BY DEF TryInit, OpenRuns
<1>2. Cardinality(OpenRuns) = 0
  BY <1>1, FS_EmptySet
<1>3. Slots
  BY <1>1, <1>2 DEF TryInit, Slots, SlotsMatchRuns, SandboxLimits
<1>4. TryTyped
  <2>1. NoCounts \in [day : Nat, runs : 0 .. DailyBudget]
    BY DEF NoCounts, SandboxLimits
  <2>. QED  BY <2>1 DEF TryInit, TryTyped
<1>5. Budgets
  <2>1. DailyBudget * (1 + 0) \in Nat /\ DailyBudget * 0 \in Nat
    BY DEF SandboxLimits
  <2>2. DailyBudget * (1 + 0) >= 0 /\ DailyBudget * 0 >= 0
    BY <2>1
  <2>. QED  BY <2>2 DEF TryInit, Budgets, CountedToday, NoCounts, Days, SandboxLimits
<1>. QED  BY <1>3, <1>4, <1>5 DEF CapsInv

\* Steps that neither start nor end a run.
LEMMA QuietCaps ==
    ASSUME SandboxLimits, CapsInv, OpenRuns' = OpenRuns, UNCHANGED <<endpointOk, active, started, restarts>>,
           TryTyped', ~ endpointOk => ~ initialized', today' = today, CountedToday' = CountedToday
    PROVE  CapsInv'
<1>1. Slots'
  BY DEF CapsInv, Slots, SlotsMatchRuns
<1>2. Budgets'
  BY DEF CapsInv, Budgets
<1>. QED  BY <1>1, <1>2 DEF CapsInv

LEMMA NextTryTyped == ASSUME SandboxLimits, TryTyped, [TryNext]_tryVars PROVE TryTyped'
<1>. USE DEF TryTyped, process, environment
<1>1. CASE UNCHANGED tryVars
  BY <1>1 DEF tryVars
<1>2. ASSUME NEW v \in Visitors, Click(v) \/ LoseAnswer(v) \/ Limited(v) \/ AnswerClick(v) PROVE TryTyped'
  BY <1>2 DEF Click, LoseAnswer, Limited, AnswerClick
<1>3. ASSUME NEW v \in Visitors, StartRun(v) PROVE TryTyped'
  <2>1. Counts \in [day : Nat, runs : 0 .. DailyBudget]
    BY DEF Counts, SandboxLimits
  <2>2. counted' \in [day : Nat, runs : 0 .. DailyBudget]
    BY <1>3, <2>1 DEF StartRun, SandboxLimits
  <2>3. started' \in [Days -> Nat] /\ initialized' \in BOOLEAN
    <3>1. CASE Begun
      BY <1>3, <3>1 DEF StartRun
    <3>2. CASE ~ Begun
      BY <1>3, <3>2 DEF StartRun
    <3>. QED  BY <3>1, <3>2
  <2>4. run' \in [Visitors -> {"none", "unrooted", "rooted", "over", "stillborn"}]
    BY <1>3 DEF StartRun
  <2>5. UNCHANGED <<endpointOk, today, restarts>>
    BY <1>3 DEF StartRun
  <2>. QED  BY <2>2, <2>3, <2>4, <2>5
<1>4. ASSUME NEW v \in Visitors, Refuse(v) PROVE TryTyped'
  BY <1>4 DEF Refuse, Counts, SandboxLimits
<1>5. ASSUME NEW v \in Visitors, RunRooted(v) \/ RunOver(v) PROVE TryTyped'
  BY <1>5 DEF RunRooted, RunOver, Ended
<1>6. ASSUME NEW v \in Visitors, Probe(v) PROVE TryTyped'
  BY <1>6 DEF Probe
<1>7. CASE Midnight
  BY <1>7 DEF Midnight
<1>8. CASE RestartDashboard
  <2>1. counted' \in [day : Nat, runs : 0 .. DailyBudget]
    BY <1>8 DEF RestartDashboard, NoCounts, SandboxLimits
  <2>2. run' \in [Visitors -> {"none", "unrooted", "rooted", "over", "stillborn"}]
    BY <1>8 DEF RestartDashboard, Ended
  <2>3. restarts' \in Nat /\ UNCHANGED <<endpointOk, today, started>>
    BY <1>8 DEF RestartDashboard
  <2>4. initialized' \in BOOLEAN
    BY <1>8 DEF RestartDashboard
  <2>. QED  BY <2>1, <2>2, <2>3, <2>4
<1>. QED  BY <1>1, <1>2, <1>3, <1>4, <1>5, <1>6, <1>7, <1>8 DEF TryNext, Serve

LEMMA CapsNext == ASSUME SandboxLimits, CapsInv, [TryNext]_tryVars PROVE CapsInv'
<1>1. TryTyped' /\ TryTyped /\ Slots /\ Budgets
  BY NextTryTyped DEF CapsInv
<1>2. OpenRuns \subseteq Visitors /\ IsFiniteSet(OpenRuns) /\ Cardinality(OpenRuns) \in Nat
  <2>1. OpenRuns \subseteq Visitors
    BY DEF OpenRuns
  <2>. QED  BY <2>1, RunningFinite
<1>3. CASE UNCHANGED tryVars
  BY <1>1, <1>3, QuietCaps DEF tryVars, OpenRuns, CountedToday, CapsInv, Slots
<1>4. ASSUME NEW v \in Visitors, Click(v) \/ LoseAnswer(v) \/ Limited(v) \/ AnswerClick(v) \/ Probe(v)
      PROVE  CapsInv'
  <2>1. UNCHANGED <<endpointOk, active, started, restarts, initialized, run, counted, today>>
    BY <1>4 DEF Click, LoseAnswer, Limited, AnswerClick, Probe, process, environment
  <2>. QED  BY <1>1, <2>1, QuietCaps DEF OpenRuns, CountedToday, CapsInv, Slots
<1>5. ASSUME NEW v \in Visitors, Refuse(v) PROVE CapsInv'
  <2>1. UNCHANGED <<endpointOk, active, started, restarts, initialized, run, today>>
        /\ counted' = Counts
    BY <1>5 DEF Refuse, environment
  <2>2. CountedToday' = CountedToday
    BY <1>1, <2>1 DEF CountedToday, Counts, TryTyped
  <2>. QED  BY <1>1, <2>1, <2>2, QuietCaps DEF OpenRuns, CapsInv, Slots
<1>6. ASSUME NEW v \in Visitors, RunRooted(v) PROVE CapsInv'
  <2>1. UNCHANGED <<endpointOk, active, started, restarts, initialized, counted, today>>
    BY <1>6 DEF RunRooted, process, environment
  <2>2. OpenRuns' = OpenRuns
    BY <1>1, <1>6 DEF RunRooted, OpenRuns, TryTyped
  <2>. QED  BY <1>1, <2>1, <2>2, QuietCaps DEF CountedToday, CapsInv, Slots
<1>7. ASSUME NEW v \in Visitors, RunOver(v) PROVE CapsInv'
  <2>1. UNCHANGED <<endpointOk, started, restarts, initialized, counted, today>>
        /\ active' = active - 1 /\ v \in OpenRuns
    BY <1>7 DEF RunOver, environment
  <2>2. OpenRuns' = OpenRuns \ {v}
    BY <1>1, <1>7 DEF RunOver, Ended, OpenRuns, TryTyped
  <2>3. Cardinality(OpenRuns') = Cardinality(OpenRuns) - 1
    BY <1>2, <2>1, <2>2, FS_RemoveElement
  <2>4. Slots'
    BY <1>1, <1>2, <2>1, <2>3, <2>2 DEF Slots, SlotsMatchRuns, SandboxLimits
  <2>5. Budgets'
    BY <1>1, <2>1 DEF Budgets, CountedToday
  <2>. QED  BY <1>1, <2>4, <2>5 DEF CapsInv
<1>8. ASSUME NEW v \in Visitors, StartRun(v) PROVE CapsInv'
  <2>1. /\ UNCHANGED <<endpointOk, restarts, today>> /\ run[v] = "none"
        /\ active < MaxConcurrent /\ Counts.runs < DailyBudget /\ active' = active + 1
        /\ counted' = [Counts EXCEPT !.runs = @ + 1]
    BY <1>8 DEF StartRun, environment
  <2>2. /\ Counts.runs = CountedToday /\ Counts.day = today /\ CountedToday \in Nat
        /\ Counts \in [day : Nat, runs : Nat]
    BY <1>1 DEF Counts, CountedToday, TryTyped
  <2>3. CountedToday' = CountedToday + 1
    BY <2>1, <2>2 DEF CountedToday
  <2>4. CASE Begun
    <3>1. endpointOk
      BY <1>1, <2>4 DEF Begun, Slots
    <3>2. /\ run' = [run EXCEPT ![v] = "unrooted"]
          /\ started' = [started EXCEPT ![today] = @ + 1]
      BY <1>8, <2>4 DEF StartRun
    <3>3. OpenRuns' = OpenRuns \cup {v} /\ v \notin OpenRuns
      BY <1>1, <2>1, <3>2 DEF OpenRuns, TryTyped
    <3>4. Cardinality(OpenRuns') = Cardinality(OpenRuns) + 1
      BY <1>2, <3>3, FS_AddElement
    <3>5. Slots'
      BY <1>1, <1>2, <2>1, <3>1, <3>4 DEF Slots, SlotsMatchRuns, SandboxLimits
    <3>6. Budgets'
      <4>. SUFFICES ASSUME NEW d \in Days
                    PROVE  /\ started'[d] <= DailyBudget * (1 + restarts)
                           /\ d = today => started'[d] <= DailyBudget * restarts + CountedToday'
                           /\ d > today => started'[d] = 0
        BY <2>1 DEF Budgets
      <4>1. CASE d = today
        <5>1. started'[d] = started[d] + 1 /\ started[d] \in Nat
          BY <1>1, <3>2, <4>1 DEF TryTyped
        <5>2. started[d] <= DailyBudget * restarts + CountedToday
          BY <1>1, <4>1 DEF Budgets
        <5>3. DailyBudget * restarts \in Nat /\ restarts \in Nat /\ DailyBudget \in Nat
          BY <1>1 DEF TryTyped, SandboxLimits
        <5>4. DailyBudget * (1 + restarts) = DailyBudget + DailyBudget * restarts
          BY <5>3
        <5>5. CountedToday + 1 <= DailyBudget
          BY <2>1, <2>2, <5>3
        <5>6. ~ (d > today)
          BY <1>1, <4>1 DEF TryTyped
        <5>. HIDE DEF CountedToday
        <5>. QED  BY <2>2, <2>3, <5>1, <5>2, <5>3, <5>4, <5>5, <5>6
      <4>2. CASE d # today
        BY <1>1, <3>2, <4>2 DEF TryTyped, Budgets
      <4>. QED  BY <4>1, <4>2
    <3>. QED  BY <1>1, <3>5, <3>6 DEF CapsInv
  <2>5. CASE ~ Begun
    <3>1. ~ endpointOk /\ UNCHANGED <<initialized, run, started>>
      BY <1>8, <2>5 DEF StartRun, Begun
    <3>2. Slots'
      BY <1>1, <2>1, <3>1 DEF Slots, SlotsMatchRuns, OpenRuns
    <3>3. Budgets'
      <4>1. DailyBudget * restarts \in Int
        BY <1>1 DEF TryTyped, SandboxLimits
      <4>. QED  BY <1>1, <2>1, <2>2, <2>3, <3>1, <4>1 DEF Budgets, TryTyped
    <3>. QED  BY <1>1, <3>2, <3>3 DEF CapsInv
  <2>. QED  BY <2>4, <2>5
<1>9. CASE Midnight
  <2>1. /\ UNCHANGED <<endpointOk, active, started, restarts, initialized, run, counted>>
        /\ today' = today + 1
    BY <1>9 DEF Midnight, process
  <2>2. Slots'
    BY <1>1, <2>1 DEF Slots, SlotsMatchRuns, OpenRuns
  <2>3. CountedToday' \in Nat /\ DailyBudget * restarts \in Nat
    BY <1>1, <2>1 DEF CountedToday, TryTyped, SandboxLimits
  <2>4. DailyBudget * restarts + CountedToday' >= 0
    BY <2>3
  <2>5. Budgets'
    BY <1>1, <2>1, <2>4 DEF Budgets, TryTyped, Days
  <2>. QED  BY <1>1, <2>2, <2>5 DEF CapsInv
<1>10. CASE RestartDashboard
  <2>1. /\ UNCHANGED <<endpointOk, today, started>> /\ restarts' = restarts + 1
        /\ initialized' = FALSE /\ active' = 0
    BY <1>10 DEF RestartDashboard
  <2>2. OpenRuns' = {}
    BY <1>1, <1>10 DEF RestartDashboard, Ended, OpenRuns, TryTyped
  <2>3. Slots'
    BY <2>1, <2>2, FS_EmptySet DEF Slots, SlotsMatchRuns, SandboxLimits
  <2>4. Budgets'
    <3>1. DailyBudget \in Nat /\ restarts \in Nat /\ CountedToday' \in Nat
      BY <1>1 DEF CountedToday, TryTyped, SandboxLimits
    <3>2. /\ DailyBudget * (1 + restarts) = DailyBudget * restarts'
          /\ DailyBudget * (1 + restarts') = DailyBudget * restarts' + DailyBudget
      BY <2>1, <3>1
    <3>3. DailyBudget * restarts' \in Nat
      BY <2>1, <3>1
    <3>. QED  BY <1>1, <2>1, <3>1, <3>2, <3>3 DEF Budgets, TryTyped
  <2>. QED  BY <1>1, <2>3, <2>4 DEF CapsInv
<1>. QED
  BY <1>3, <1>4, <1>5, <1>6, <1>7, <1>8, <1>9, <1>10 DEF TryNext, Serve

\* There are never more runs than slots, none leaks (given a valid endpoint), and a process
\* starts no more runs a day than the budget, however runs end and days and processes change.
THEOREM CapsKept == ASSUME SandboxLimits PROVE TrySpec => []CapsHonoured
<1>1. CapsInv => CapsHonoured
  BY DEF CapsInv, Slots, Budgets, CapsHonoured
<1>2. TryInit => CapsInv
  BY CapsInit
<1>3. CapsInv /\ [TryNext]_tryVars => CapsInv'
  BY CapsNext
<1>. QED  BY <1>1, <1>2, <1>3, PTL DEF TrySpec

(***************************************************************************)
(* What is said of a trace.                                                *)
(***************************************************************************)
\* What a function makes of a finite set is finite, and as many only if it is
\* one-to-one.
LEMMA FiniteImage ==
    ASSUME NEW S, IsFiniteSet(S), NEW f
    PROVE  /\ IsFiniteSet({f[x] : x \in S})
           /\ Cardinality({f[x] : x \in S}) = Cardinality(S) =>
                  \A x, y \in S : f[x] = f[y] => x = y
<1> DEFINE T == {f[x] : x \in S}
           b == [x \in S |-> f[x]]
<1>1. b \in Surjection(S, T)
  BY DEF Surjection
<1>2. IsFiniteSet(T) /\ (Cardinality(T) = Cardinality(S) => b \in Injection(S, T))
  <2>. HIDE DEF b, T
  <2>. QED
    BY <1>1, FS_Surjection
<1>3. b \in Injection(S, T) => \A x, y \in S : f[x] = f[y] => x = y
  BY DEF Injection, IsInjective
<1>. QED
  BY <1>2, <1>3

(***************************************************************************)
(* Rows and the spans they are of.                                         *)
(***************************************************************************)
Rows(R) == IsFiniteSet(R) /\ R \subseteq [span : TraceSpans, ms : Nat]

\* The spans of some rows are as finite as the rows, and so is what is known of each.
LEMMA SpansOfRows ==
    ASSUME NEW R, Rows(R)
    PROVE  /\ IsFiniteSet(Ids(R)) /\ Ids(R) \subseteq TraceSpans
           /\ Cardinality(R) = Cardinality(Ids(R)) => \A r, q \in R : r.span = q.span => r = q
<1> DEFINE f == [r \in R |-> r.span]
<1>1. {f[r] : r \in R} = Ids(R)
  BY DEF Ids
<1>2. \A r \in R : f[r] = r.span
  OBVIOUS
<1>3. IsFiniteSet(R) /\ R \subseteq [span : TraceSpans, ms : Nat]
  BY DEF Rows
<1>. HIDE DEF f
<1>4. /\ IsFiniteSet({f[x] : x \in R})
      /\ Cardinality({f[x] : x \in R}) = Cardinality(R) => \A x, y \in R : f[x] = f[y] => x = y
  BY <1>3, FiniteImage
<1>5. Ids(R) \subseteq TraceSpans
  BY <1>3 DEF Ids
<1>6. ASSUME Cardinality(R) = Cardinality(Ids(R)), NEW r \in R, NEW q \in R, r.span = q.span
      PROVE  r = q
  BY <1>1, <1>2, <1>4, <1>6
<1>. QED
  BY <1>1, <1>4, <1>5, <1>6

LEMMA SomeRows == ASSUME NEW R, Rows(R), NEW D \in SUBSET R PROVE Rows(D)
BY FS_Subset DEF Rows

\* The newest row is one of the rows, and none is newer.
LEMMA NewestRow ==
    ASSUME NEW R, Rows(R)
    PROVE  /\ LatestMs(R) \in Nat /\ \A r \in R : r.ms <= LatestMs(R)
           /\ LatestMs(R) = 0 \/ \E r \in R : r.ms = LatestMs(R)
<1> DEFINE f == [r \in R |-> r.ms]
           M == {r.ms : r \in R}
<1>1. {f[r] : r \in R} = M
  OBVIOUS
<1>2. IsFiniteSet(R) /\ R \subseteq [span : TraceSpans, ms : Nat]
  BY DEF Rows
<1>3. IsFiniteSet({f[r] : r \in R})
  <2>. HIDE DEF f
  <2>. QED
    BY <1>2, FiniteImage
<1>4. M \subseteq Nat
  BY <1>2
<1>5. IsFiniteSet(M \cup {0})
  <2>. HIDE DEF M, f
  <2>. QED
    BY <1>1, <1>3, FS_AddElement
<1>6. {0} \cup M = M \cup {0} /\ {0} \cup M \in SUBSET Nat /\ {0} \cup M # {}
  BY <1>4
<1>7. Max({0} \cup M) \in {0} \cup M /\ \A x \in {0} \cup M : x <= Max({0} \cup M)
  <2>. HIDE DEF M, f
  <2>. QED
    BY <1>5, <1>6, Extremes
<1>8. LatestMs(R) = Max({0} \cup M)
  BY DEF LatestMs
<1>9. (\A r \in R : r.ms \in M) /\ \A m \in M : \E r \in R : r.ms = m
  OBVIOUS
<1>. HIDE DEF M, f
<1>10. LatestMs(R) \in {0} \cup M /\ \A x \in {0} \cup M : x <= LatestMs(R)
  BY <1>7, <1>8, Zenon
<1>11. LatestMs(R) = 0 \/ LatestMs(R) \in M
  BY <1>10
<1>12. LatestMs(R) = 0 \/ \E r \in R : r.ms = LatestMs(R)
  BY <1>9, <1>11
<1>13. LatestMs(R) \in Nat
  <2>1. M \subseteq Nat
    BY <1>4 DEF M
  <2>2. 0 \in Nat
    OBVIOUS
  <2>. QED
    BY <1>11, <2>1, <2>2, Zenon
<1>14. \A r \in R : r.ms <= LatestMs(R)
  BY <1>9, <1>10
<1>. QED
  BY <1>12, <1>13, <1>14

\* Fewer rows, no newer one.
LEMMA NewestOfSome ==
    ASSUME NEW R, Rows(R), NEW D \in SUBSET R
    PROVE  LatestMs(D) <= LatestMs(R)
<1>1. Rows(D)
  BY SomeRows
<1>2. LatestMs(R) \in Nat /\ \A r \in R : r.ms <= LatestMs(R)
  BY NewestRow
<1>3. LatestMs(D) \in Nat /\ (LatestMs(D) = 0 \/ \E r \in D : r.ms = LatestMs(D))
  BY <1>1, NewestRow
<1>. QED
  BY <1>2, <1>3

(***************************************************************************)
(* What is drawn of some spans.                                            *)
(***************************************************************************)
\* The numbers of a set of spans have a greatest and a least one.
LEMMA NumbersOfSpans ==
    ASSUME NEW S \in SUBSET TraceSpans, IsFiniteSet(S), S # {}, NEW f \in [S -> Nat]
    PROVE  /\ \E s \in S : f[s] = Min({f[t] : t \in S})
           /\ \A s \in S : Min({f[t] : t \in S}) <= f[s]
           /\ \E s \in S : f[s] = Max({f[t] : t \in S})
           /\ \A s \in S : f[s] <= Max({f[t] : t \in S})
<1> DEFINE M == {f[t] : t \in S}
<1>1. IsFiniteSet(M)
  BY FiniteImage
<1>2. M \in SUBSET Nat /\ M # {}
  OBVIOUS
<1>3. /\ Max(M) \in M /\ \A x \in M : x <= Max(M)
      /\ Min(M) \in M /\ \A x \in M : Min(M) <= x
  <2>. HIDE DEF M
  <2>. QED
    BY <1>1, <1>2, Extremes
<1>. QED
  BY <1>3

Anchor(S) == Min({Of[s].start : s \in S})
Extent(S) == Max({[t \in S |-> Of[t].start - Anchor(S)][s] + Of[s].duration : s \in S})

\* The spans of a trace fill its extent: the first starts at the anchor, the last ends at
\* the end, and the others are in between.
LEMMA Spread ==
    ASSUME NEW S \in SUBSET TraceSpans, IsFiniteSet(S), S # {}
    PROVE  /\ Anchor(S) \in Nat /\ Extent(S) \in Nat
           /\ \E s \in S : Of[s].start = Anchor(S)
           /\ \A s \in S : Anchor(S) <= Of[s].start
           /\ \A s \in S : EndOf(s) - Anchor(S) <= Extent(S)
           /\ Max({EndOf(t) : t \in S}) - Min({Of[s].start : s \in S}) = Extent(S)
<1> DEFINE starts == [s \in S |-> Of[s].start]
           ends   == [s \in S |-> EndOf(s)]
           bars   == [s \in S |-> EndOf(s) - Anchor(S)]
<1>1. \A s \in S : Of[s].start \in Nat /\ Of[s].duration \in Nat
  BY ViewAssumption
<1>2. \A s \in S : EndOf(s) \in Nat /\ Of[s].start <= EndOf(s)
                   /\ EndOf(s) = Of[s].start + Of[s].duration
  BY <1>1 DEF EndOf
<1>3. starts \in [S -> Nat] /\ ends \in [S -> Nat]
  BY <1>1, <1>2
<1>4. {starts[t] : t \in S} = {Of[s].start : s \in S} /\ {ends[t] : t \in S} = {EndOf(t) : t \in S}
  OBVIOUS
<1>5. /\ \E s \in S : starts[s] = Min({starts[t] : t \in S})
      /\ \A s \in S : Min({starts[t] : t \in S}) <= starts[s]
  <2>. HIDE DEF starts
  <2>. QED
    BY <1>3, NumbersOfSpans
<1>6. /\ \E s \in S : Of[s].start = Anchor(S)
      /\ \A s \in S : Anchor(S) <= Of[s].start
  BY <1>4, <1>5 DEF Anchor
<1>7. Anchor(S) \in Nat
  <2>. HIDE DEF starts, ends, bars
  <2>. QED
    BY <1>1, <1>6
<1>8. bars \in [S -> Nat]
  <2>1. \A s \in S : EndOf(s) - Anchor(S) \in Nat
    <3>. HIDE DEF starts, ends, bars
    <3>. QED
      BY <1>1, <1>2, <1>6, <1>7
  <2>. QED
    BY <2>1
<1>9. {bars[t] : t \in S}
          = {[t \in S |-> Of[t].start - Anchor(S)][s] + Of[s].duration : s \in S}
  <2>1. \A s \in S : bars[s] = [t \in S |-> Of[t].start - Anchor(S)][s] + Of[s].duration
    BY <1>1, <1>2, <1>7
  <2>. HIDE DEF bars
  <2>. QED
    BY <2>1
<1>10. /\ \E s \in S : bars[s] = Max({bars[t] : t \in S})
       /\ \A s \in S : bars[s] <= Max({bars[t] : t \in S})
  <2>. HIDE DEF bars
  <2>. QED
    BY <1>8, NumbersOfSpans
<1>11. Max({bars[t] : t \in S}) = Extent(S)
  BY <1>9 DEF Extent
<1>12. /\ \E s \in S : EndOf(s) - Anchor(S) = Extent(S)
       /\ \A s \in S : EndOf(s) - Anchor(S) <= Extent(S)
  <2>. HIDE DEF Extent, Anchor
  <2>. QED
    BY <1>10, <1>11
<1>13. /\ \E s \in S : ends[s] = Max({ends[t] : t \in S})
       /\ \A s \in S : ends[s] <= Max({ends[t] : t \in S})
  <2>. HIDE DEF ends
  <2>. QED
    BY <1>3, NumbersOfSpans
<1>14. /\ \E s \in S : EndOf(s) = Max({EndOf(t) : t \in S})
       /\ \A s \in S : EndOf(s) <= Max({EndOf(t) : t \in S})
  BY <1>4, <1>13
<1>15. Max({EndOf(t) : t \in S}) - Anchor(S) = Extent(S)
  <2> DEFINE L == Max({EndOf(s) : s \in S})
  <2>1. \E s \in S : EndOf(s) = L
    BY <1>14
  <2>2. \A s \in S : EndOf(s) <= L
    BY <1>14
  <2>. HIDE DEF L
  <2>. QED
    BY <1>2, <1>7, <1>12, <2>1, <2>2 DEF L
<1>16. Extent(S) \in Nat
  BY <1>2, <1>6, <1>7, <1>12
<1>. QED
  BY <1>6, <1>7, <1>12, <1>15, <1>16 DEF Anchor

(***************************************************************************)
(* The spans a query returns.                                              *)
(***************************************************************************)
Earlier(S, s) == {q \in S : StartsBefore(q, s)}

\* Of the spans of a trace, one starts before all others, and is returned.
LEMMA FirstSpanFetched ==
    ASSUME NEW R, Rows(R), R # {}
    PROVE  FetchedSpans(R) # {}
<1> DEFINE S == Ids(R)
           T == {Of[s].start : s \in S}
           F == {s \in S : \A q \in S : Of[s].start <= Of[q].start}
<1>0. S # {}
  BY DEF Ids
<1>1. S # {} /\ S \subseteq TraceSpans
  BY <1>0, SpansOfRows
<1>2. \A s \in S : Of[s].start \in Nat /\ s \in Nat
  BY <1>1, ViewAssumption
<1>3. T \in SUBSET Nat /\ T # {}
  BY <1>1, <1>2
<1>4. PICK n \in T : \A m \in T : n <= m
  <2>. HIDE DEF T
  <2>. QED
    BY <1>3, LeastNat
<1>5. F \in SUBSET Nat /\ F # {}
  <2>1. PICK s \in S : Of[s].start = n
    OBVIOUS
  <2>2. \A q \in S : Of[q].start \in T
    OBVIOUS
  <2>3. \A q \in S : Of[s].start <= Of[q].start
    BY <1>4, <2>1, <2>2
  <2>. QED
    BY <1>2, <2>3
<1>6. PICK s \in F : \A q \in F : s <= q
  <2>. HIDE DEF F
  <2>. QED
    BY <1>5, LeastNat
<1>7. Earlier(S, s) = {}
  <2>. SUFFICES ASSUME NEW q \in S, StartsBefore(q, s) PROVE FALSE
    BY DEF Earlier
  <2>1. Of[q].start = Of[s].start /\ q < s
    BY <1>2, <1>6 DEF StartsBefore
  <2>2. q \in F
    BY <2>1
  <2>. QED
    BY <1>2, <1>6, <2>1, <2>2
<1>8. Cardinality(Earlier(S, s)) < SpanCap
  BY <1>7, FS_EmptySet, ViewAssumption
<1>. QED
  BY <1>8 DEF FetchedSpans, Earlier

\* A trace that is not cut off was not, when it had fewer rows.
LEMMA NotTruncatedBefore ==
    ASSUME NEW R, Rows(R), ~ Truncated(R), NEW D \in SUBSET R
    PROVE  FetchedSpans(D) = Ids(D)
<1>. SUFFICES ASSUME NEW s \in Ids(D) PROVE Cardinality(Earlier(Ids(D), s)) < SpanCap
  BY DEF FetchedSpans, Earlier
<1>1. Ids(D) \subseteq Ids(R)
  BY DEF Ids
<1>2. Cardinality(Earlier(Ids(R), s)) < SpanCap
  BY <1>1 DEF Truncated, FetchedSpans, Earlier
<1>3. Earlier(Ids(D), s) \in SUBSET Earlier(Ids(R), s)
  BY <1>1 DEF Earlier
<1>4. IsFiniteSet(Earlier(Ids(R), s))
  <2>1. IsFiniteSet(Ids(R)) /\ Earlier(Ids(R), s) \in SUBSET Ids(R)
    BY SpansOfRows DEF Earlier
  <2>. QED
    BY <2>1, FS_Subset
<1>5. /\ Cardinality(Earlier(Ids(D), s)) <= Cardinality(Earlier(Ids(R), s))
      /\ IsFiniteSet(Earlier(Ids(D), s))
  BY <1>3, <1>4, FS_Subset
<1>6. Cardinality(Earlier(Ids(D), s)) \in Nat /\ Cardinality(Earlier(Ids(R), s)) \in Nat
  BY <1>4, <1>5, FS_CardinalityType
<1>. QED
  BY <1>2, <1>5, <1>6, ViewAssumption

\* What a query returns are spans of the trace, one at least if it has any row.
LEMMA Fetches ==
    ASSUME NEW R, Rows(R), R # {}
    PROVE  /\ FetchedSpans(R) \in SUBSET TraceSpans
           /\ IsFiniteSet(FetchedSpans(R)) /\ FetchedSpans(R) # {}
<1>1. FetchedSpans(R) \in SUBSET Ids(R)
  BY DEF FetchedSpans
<1>2. IsFiniteSet(Ids(R)) /\ Ids(R) \subseteq TraceSpans
  BY SpansOfRows
<1>3. IsFiniteSet(FetchedSpans(R))
  BY <1>1, <1>2, FS_Subset
<1>. QED
  BY <1>1, <1>2, <1>3, FirstSpanFetched

\* The page's numbers are those of the spans returned.
LEMMA DetailOf ==
    ASSUME NEW R
    PROVE  LET S == FetchedSpans(R) IN
           /\ Detail(R).offset = [s \in S |-> Of[s].start - Anchor(S)]
           /\ Detail(R).start = Anchor(S)
           /\ Detail(R).duration = Extent(S)
           /\ Detail(R).spanCount = Cardinality(S)
           /\ Detail(R).errors = Cardinality(FailedSpans(S))
           /\ Detail(R).tokens = TokensOf(S)
           /\ Detail(R).models = Models(S)
           /\ Detail(R).root = \E s \in S : Of[s].root
BY DEF Detail, Anchor, Extent

LEMMA BarsAreInside ==
    ASSUME Rows(spanRows)
    PROVE  BarsInside
<1>. SUFFICES ASSUME spanRows # {}
              PROVE  LET d == Detail(spanRows) IN
                     /\ \E s \in DOMAIN d.offset : d.offset[s] = 0
                     /\ \A s \in DOMAIN d.offset :
                            0 <= d.offset[s] /\ d.offset[s] + Of[s].duration <= d.duration
  BY DEF BarsInside
<1> DEFINE S == FetchedSpans(spanRows)
<1>1. /\ Detail(spanRows).offset = [s \in S |-> Of[s].start - Anchor(S)]
      /\ Detail(spanRows).duration = Extent(S)
  BY DetailOf
<1>2. S \in SUBSET TraceSpans /\ IsFiniteSet(S) /\ S # {}
  BY Fetches
<1>. HIDE DEF S
<1>3. /\ Anchor(S) \in Nat /\ Extent(S) \in Nat
      /\ \E s \in S : Of[s].start = Anchor(S)
      /\ \A s \in S : Anchor(S) <= Of[s].start
      /\ \A s \in S : EndOf(s) - Anchor(S) <= Extent(S)
  BY <1>2, Spread
<1>4. \A s \in S : Of[s].start \in Nat /\ Of[s].duration \in Nat
  BY <1>2, ViewAssumption
<1>5. \A s \in S : /\ 0 <= Of[s].start - Anchor(S)
                   /\ (Of[s].start - Anchor(S)) + Of[s].duration <= Extent(S)
  BY <1>3, <1>4 DEF EndOf
<1>6. \E s \in S : Of[s].start - Anchor(S) = 0
  BY <1>3
<1>. QED
  BY <1>1, <1>5, <1>6

(***************************************************************************)
(* Tokens, of spans and of rows.                                           *)
(***************************************************************************)
\* The page adds the tokens of its spans up.
LEMMA TokensOfSpans ==
    ASSUME NEW S \in SUBSET TraceSpans, IsFiniteSet(S)
    PROVE  \E g : Sums(g, S, [x \in S |-> Of[x].tokens]) /\ TokensOf(S) = g[S]
<1> DEFINE w == [x \in S |-> Of[x].tokens]
           Body(iter) == [s \in SUBSET S |-> IF s = {} THEN 0
                             ELSE Of[CHOOSE x \in s : TRUE].tokens + iter[s \ {CHOOSE x \in s : TRUE}]]
           sum == CHOOSE iter : iter = Body(iter)
<1>1. IsFiniteSet(S) /\ w \in [S -> Nat]
  BY ViewAssumption DEF Rows
<1>2. PICK g \in [SUBSET S -> Nat] : SumsUp(g, S, w)
  <2>. HIDE DEF w
  <2>. QED
    BY <1>1, SumExists
<1>3. \A s \in SUBSET S : s # {} => Chosen(s) \in S
  BY DEF Chosen
<1>4. g = Body(g)
  <2>1. ASSUME NEW s \in SUBSET S
        PROVE  g[s] = IF s = {} THEN 0
                      ELSE Of[CHOOSE x \in s : TRUE].tokens + g[s \ {CHOOSE x \in s : TRUE}]
    BY <1>2, <1>3 DEF SumsUp, Chosen
  <2>. QED
    BY <1>2, <2>1
<1>5. sum = Body(sum)
  <2>. HIDE DEF Body
  <2>. QED
    BY <1>4
<1>6. \A s \in SUBSET S : sum[s] = IF s = {} THEN 0
                             ELSE Of[CHOOSE x \in s : TRUE].tokens + sum[s \ {CHOOSE x \in s : TRUE}]
  <2>. HIDE DEF sum
  <2>. QED
    BY <1>5
<1>7. TokensOf(S) = sum[S]
  BY DEF sum, TokensOf, MapThenSumSet, MapThenFoldSet
<1>. HIDE DEF sum
<1>8. SumsUp(sum, S, w)
  BY <1>3, <1>6 DEF SumsUp, Chosen
<1>9. Sums(sum, S, w)
  <2>. HIDE DEF w, Body
  <2>. QED
    BY <1>1, <1>8, SumIsSum
<1>. QED
  BY <1>7, <1>9

\* The list adds those of its rows up.
LEMMA TokensOfRows ==
    ASSUME NEW R, Rows(R)
    PROVE  \E g : Sums(g, R, [x \in R |-> Of[x.span].tokens]) /\ ListRow(R).tokens = g[R]
<1> DEFINE w == [x \in R |-> Of[x.span].tokens]
           Body(iter) == [s \in SUBSET R |-> IF s = {} THEN 0
                             ELSE Of[(CHOOSE x \in s : TRUE).span].tokens + iter[s \ {CHOOSE x \in s : TRUE}]]
           sum == CHOOSE iter : iter = Body(iter)
<1>1. IsFiniteSet(R) /\ w \in [R -> Nat]
  BY ViewAssumption DEF Rows
<1>2. PICK g \in [SUBSET R -> Nat] : SumsUp(g, R, w)
  <2>. HIDE DEF w
  <2>. QED
    BY <1>1, SumExists
<1>3. \A s \in SUBSET R : s # {} => Chosen(s) \in R
  BY DEF Chosen
<1>4. g = Body(g)
  <2>1. ASSUME NEW s \in SUBSET R
        PROVE  g[s] = IF s = {} THEN 0
                      ELSE Of[(CHOOSE x \in s : TRUE).span].tokens + g[s \ {CHOOSE x \in s : TRUE}]
    BY <1>2, <1>3 DEF SumsUp, Chosen
  <2>. QED
    BY <1>2, <2>1
<1>5. sum = Body(sum)
  <2>. HIDE DEF Body
  <2>. QED
    BY <1>4
<1>6. \A s \in SUBSET R : sum[s] = IF s = {} THEN 0
                             ELSE Of[(CHOOSE x \in s : TRUE).span].tokens + sum[s \ {CHOOSE x \in s : TRUE}]
  <2>. HIDE DEF sum
  <2>. QED
    BY <1>5
<1>7. ListRow(R).tokens = sum[R]
  BY DEF sum, ListRow, MapThenSumSet, MapThenFoldSet
<1>. HIDE DEF sum
<1>8. SumsUp(sum, R, w)
  BY <1>3, <1>6 DEF SumsUp, Chosen
<1>9. Sums(sum, R, w)
  <2>. HIDE DEF w, Body
  <2>. QED
    BY <1>1, <1>8, SumIsSum
<1>. QED
  BY <1>7, <1>9

\* They are the same while no span has two rows.
LEMMA TokensAgree ==
    ASSUME NEW R, Rows(R), Cardinality(R) = Cardinality(Ids(R))
    PROVE  ListRow(R).tokens = TokensOf(Ids(R)) /\ TokensOf(Ids(R)) \in Nat
<1> DEFINE w == [x \in R |-> Of[x.span].tokens]
           v == [x \in Ids(R) |-> Of[x].tokens]
           b == [r \in R |-> r.span]
<1>1. /\ IsFiniteSet(Ids(R)) /\ Ids(R) \in SUBSET TraceSpans /\ IsFiniteSet(R)
      /\ \A r, q \in R : r.span = q.span => r = q
  BY SpansOfRows DEF Rows
<1>2. PICK g : Sums(g, R, w) /\ ListRow(R).tokens = g[R]
  BY TokensOfRows
<1>3. PICK h : Sums(h, Ids(R), v) /\ TokensOf(Ids(R)) = h[Ids(R)]
  <2>. HIDE DEF v
  <2>. QED
    BY <1>1, TokensOfSpans DEF v
<1>4. /\ b \in [R -> Ids(R)] /\ {b[r] : r \in R} = Ids(R)
      /\ \A x, y \in R : b[x] = b[y] => x = y
  BY <1>1 DEF Ids
<1>5. \A r \in R : w[r] = v[b[r]]
  BY DEF Ids
<1>6. g[R] = h[{b[r] : r \in R}]
  <2>. HIDE DEF w, v, b
  <2>. QED
    BY <1>1, <1>2, <1>3, <1>4, <1>5, SumRenamed
<1>7. h[Ids(R)] \in Nat
  BY <1>3 DEF Sums
<1>. QED
  BY <1>2, <1>3, <1>4, <1>6, <1>7

(***************************************************************************)
(* The list.                                                               *)
(***************************************************************************)
\* The list's row and the page, of a trace that is not cut off.
LEMMA RowAndPage ==
    ASSUME NEW R, Rows(R), R # {}, ~ Truncated(R)
    PROVE  /\ ListRow(R).latency = Detail(R).duration /\ Detail(R).duration \in Nat
           /\ ListRow(R).status = "error" <=> Detail(R).errors > 0
           /\ ListRow(R).status \in {"ok", "error"}
           /\ Detail(R).models = Models(Ids(R))
           /\ Detail(R).start \in Nat /\ \A r \in R : Detail(R).start <= Of[r.span].start
           /\ Cardinality(R) = Cardinality(Ids(R)) =>
                  /\ ListRow(R).spanCount = Detail(R).spanCount
                  /\ ListRow(R).tokens = Detail(R).tokens
                  /\ Detail(R).tokens \in Nat
<1> DEFINE S == Ids(R)
<1>1. FetchedSpans(R) = S
  BY DEF Truncated
<1>2. S \in SUBSET TraceSpans /\ IsFiniteSet(S) /\ S # {}
  BY <1>1, Fetches
<1>3. /\ Detail(R).start = Anchor(S) /\ Detail(R).duration = Extent(S)
      /\ Detail(R).spanCount = Cardinality(S)
      /\ Detail(R).errors = Cardinality(FailedSpans(S))
      /\ Detail(R).tokens = TokensOf(S) /\ Detail(R).models = Models(S)
  BY <1>1, DetailOf
<1>4. /\ ListRow(R).latency = Max({EndOf(s) : s \in S}) - Min({Of[s].start : s \in S})
      /\ ListRow(R).spanCount = Cardinality(R)
      /\ ListRow(R).status = IF FailedSpans(S) # {} THEN "error" ELSE "ok"
  BY DEF ListRow
<1>5. /\ Anchor(S) \in Nat /\ Extent(S) \in Nat
      /\ \A s \in S : Anchor(S) <= Of[s].start
      /\ Max({EndOf(s) : s \in S}) - Min({Of[s].start : s \in S}) = Extent(S)
  <2>. HIDE DEF S
  <2>. QED
    BY <1>2, Spread
<1>6. FailedSpans(S) # {} <=> Cardinality(FailedSpans(S)) > 0
  <2>1. FailedSpans(S) \in SUBSET S
    BY DEF FailedSpans
  <2>2. IsFiniteSet(FailedSpans(S))
    BY <1>2, <2>1, FS_Subset
  <2>. QED
    BY <2>2, FS_EmptySet, FS_CardinalityType
<1>7. \A r \in R : r.span \in S
  BY DEF Ids
<1>8. Cardinality(R) = Cardinality(S) => ListRow(R).tokens = TokensOf(S) /\ TokensOf(S) \in Nat
  BY TokensAgree
<1>. HIDE DEF S
<1>9. /\ ListRow(R).latency = Detail(R).duration /\ Detail(R).duration \in Nat
      /\ ListRow(R).status = "error" <=> Detail(R).errors > 0
      /\ ListRow(R).status \in {"ok", "error"}
  BY <1>3, <1>4, <1>5, <1>6
<1>10. Detail(R).start \in Nat /\ \A r \in R : Detail(R).start <= Of[r.span].start
  BY <1>3, <1>5, <1>7
<1>11. Cardinality(R) = Cardinality(S) =>
          /\ ListRow(R).spanCount = Detail(R).spanCount
          /\ ListRow(R).tokens = Detail(R).tokens
          /\ Detail(R).tokens \in Nat
  BY <1>3, <1>4, <1>8
<1>. QED
  BY <1>3, <1>9, <1>10, <1>11 DEF S

LEMMA WholeHours == ASSUME NEW h \in {0, 1, 2, 6} PROVE Whole(h) \subseteq Int
BY DEF Whole

LEMMA ListIsPage ==
    ASSUME Rows(spanRows), hour \in Nat
    PROVE  ListAgrees
<1>. SUFFICES ASSUME spanRows # {}, ~ Truncated(spanRows)
              PROVE  LET d == Detail(spanRows)
                         all == ListRow(spanRows) IN
        /\ all.latency = d.duration
        /\ all.status = "error" <=> d.errors > 0
        /\ Cardinality(spanRows) = Cardinality(Ids(spanRows)) =>
               /\ all.spanCount = d.spanCount /\ all.tokens = d.tokens
               /\ \A f \in ListFilters :
                      (\A w \in Whole(f.hours) : d.start >= hour - w) =>
                          (Listed(f) <=>
                              /\ f.model # "absent" => f.model \in d.models
                              /\ f.status # "absent" => (f.status = "error" <=> d.errors > 0)
                              /\ d.duration >= f.minLatency
                              /\ d.tokens >= f.minTokens)
  BY DEF ListAgrees
<1> DEFINE d   == Detail(spanRows)
           all == ListRow(spanRows)
<1>1. /\ all.latency = d.duration /\ d.duration \in Nat
      /\ all.status = "error" <=> d.errors > 0
      /\ all.status \in {"ok", "error"}
      /\ d.models = Models(Ids(spanRows))
      /\ d.start \in Nat /\ \A r \in spanRows : d.start <= Of[r.span].start
      /\ Cardinality(spanRows) = Cardinality(Ids(spanRows)) =>
            /\ all.spanCount = d.spanCount /\ all.tokens = d.tokens /\ d.tokens \in Nat
  BY RowAndPage
<1>2. ASSUME Cardinality(spanRows) = Cardinality(Ids(spanRows)), NEW f \in ListFilters,
             \A w \in Whole(f.hours) : d.start >= hour - w
      PROVE  Listed(f) <=> /\ f.model # "absent" => f.model \in d.models
                           /\ f.status # "absent" => (f.status = "error" <=> d.errors > 0)
                           /\ d.duration >= f.minLatency
                           /\ d.tokens >= f.minTokens
  <2>1. /\ f.status \in {"absent", "ok", "error"} /\ f.minLatency \in {0, 2}
        /\ f.minTokens \in {0, 3} /\ f.hours \in {0, 1, 2, 6}
    BY <1>2 DEF ListFilters
  <2>2. Windowed(Whole(f.hours)) = spanRows
    <3>1. \A s \in Ids(spanRows) : Of[s].start \in Nat
      BY SpansOfRows, ViewAssumption
    <3>2. ASSUME NEW r \in spanRows, NEW w \in Whole(f.hours) PROVE Of[r.span].start >= hour - w
      <4>1. w \in Int
        BY <2>1, WholeHours
      <4>2. Of[r.span].start \in Nat
        BY <3>1 DEF Ids
      <4>. HIDE DEF d, all
      <4>. QED
        BY <1>1, <1>2, <4>1, <4>2
    <3>. QED
      BY <3>2 DEF Windowed
  <2>3. Listed(f) <=> /\ f.model # "absent" => f.model \in Models(Ids(spanRows))
                      /\ f.status # "absent" => all.status = f.status
                      /\ f.minLatency > 0 => all.latency >= f.minLatency
                      /\ f.minTokens > 0 => all.tokens >= f.minTokens
    BY <2>2 DEF Listed
  <2>. HIDE DEF d, all
  <2>4. f.status # "absent" => (all.status = f.status <=> (f.status = "error" <=> d.errors > 0))
    BY <1>1, <2>1
  <2>5. (f.minLatency > 0 => all.latency >= f.minLatency) <=> d.duration >= f.minLatency
    BY <1>1, <2>1
  <2>6. (f.minTokens > 0 => all.tokens >= f.minTokens) <=> d.tokens >= f.minTokens
    BY <1>1, <1>2, <2>1
  <2>. QED
    BY <1>1, <2>3, <2>4, <2>5, <2>6
<1>. QED
  BY <1>1, <1>2

(***************************************************************************)
(* The panel.                                                              *)
(***************************************************************************)
Indices(s) == {e.index : e \in {x \in contentRows : x.span = s}}

\* Of each span's content, all is there or nothing, whichever copies landed.
ContentSound == \A s \in TraceSpans : Indices(s) \in {{}, 1 .. Of[s].events}

LEMMA PanelIsWhole ==
    ASSUME Rows(spanRows), ContentSound
    PROVE  PanelWhole
<1>. SUFFICES ASSUME NEW s \in Ids(spanRows)
              PROVE  /\ \A r \in spanRows : r.span = s => r.ms <= Panel(s).row
                     /\ Panel(s).events \in {{}, 1 .. Min({Of[s].events, EventCap})}
  BY DEF PanelWhole
<1> DEFINE D == {x \in spanRows : x.span = s}
           M == {r.ms : r \in D}
<1>1. s \in TraceSpans /\ Of[s].events \in Nat /\ EventCap \in Nat \ {0}
  BY SpansOfRows, ViewAssumption
<1>2. \A r \in spanRows : r.span = s => r.ms <= Panel(s).row
  <2>1. Rows(D) /\ D # {}
    BY SomeRows DEF Ids
  <2>2. M \in SUBSET Nat /\ M # {}
    BY <2>1 DEF Rows
  <2>3. IsFiniteSet(M)
    <3> DEFINE f == [r \in D |-> r.ms]
    <3>1. {f[r] : r \in D} = M
      OBVIOUS
    <3>. HIDE DEF f, M, D
    <3>. QED
      BY <2>1, <3>1, FiniteImage DEF Rows
  <2>4. \A m \in M : m <= Max(M)
    <3>. HIDE DEF M
    <3>. QED
      BY <2>2, <2>3, Extremes
  <2>5. \A r \in spanRows : r.span = s => r.ms \in M
    OBVIOUS
  <2>6. Panel(s).row = Max(M)
    BY DEF Panel
  <2>. HIDE DEF M
  <2>. QED
    BY <2>4, <2>5, <2>6
<1>3. Panel(s).events = {c \in Indices(s) : Cardinality({i \in Indices(s) : i < c}) < EventCap}
  BY DEF Panel, Shown, Indices
<1>4. CASE Indices(s) = {}
  BY <1>2, <1>3, <1>4
<1>5. CASE Indices(s) = 1 .. Of[s].events
  <2> DEFINE n == Of[s].events
  <2>1. ASSUME NEW c \in 1 .. n PROVE Cardinality({i \in 1 .. n : i < c}) = c - 1
    <3>1. {i \in 1 .. n : i < c} = 1 .. (c - 1)
      BY <1>1
    <3>2. Cardinality(1 .. (c - 1)) = c - 1
      BY <1>1, FS_Interval
    <3>. QED
      BY <3>1, <3>2
  <2>2. Panel(s).events = {c \in 1 .. n : c - 1 < EventCap}
    BY <1>3, <1>5, <2>1
  <2>3. Min({n, EventCap}) = IF n <= EventCap THEN n ELSE EventCap
    <3>1. {n, EventCap} \in SUBSET Nat /\ {n, EventCap} # {}
      BY <1>1
    <3>2. IsFiniteSet({n, EventCap})
      <4>1. {n, EventCap} = {n} \cup {EventCap}
        OBVIOUS
      <4>2. IsFiniteSet({n})
        BY FS_Singleton
      <4>. HIDE DEF n
      <4>. QED
        BY <4>1, <4>2, FS_AddElement
    <3>3. /\ Min({n, EventCap}) \in {n, EventCap}
          /\ \A x \in {n, EventCap} : Min({n, EventCap}) <= x
      BY <3>1, <3>2, Extremes
    <3>. HIDE DEF n
    <3>. QED
      BY <1>1, <3>1, <3>3
  <2>4. {c \in 1 .. n : c - 1 < EventCap} = 1 .. Min({n, EventCap})
    <3>. HIDE DEF n
    <3>. QED
      BY <1>1, <2>3 DEF n
  <2>. QED
    BY <1>2, <2>2, <2>4
<1>. QED
  BY <1>1, <1>4, <1>5 DEF ContentSound

(***************************************************************************)
(* The live page.                                                          *)
(***************************************************************************)
\* The live page holds what the rows up to its cursor tell, while the trace is not cut
\* off: whole spans, so that nothing is lost where it stopped reading.
PageOf(R, ms) ==
    LET S == Ids({r \in R : r.ms <= ms}) IN
    [starts |-> [s \in S |-> Of[s].start], cursor |-> ms, root |-> \E s \in S : Of[s].root]

PageSound ==
    livePage # NoPage =>
        /\ livePage.cursor \in Nat /\ livePage.cursor <= LatestMs(spanRows)
        /\ DOMAIN livePage = {"starts", "cursor", "root"}
        /\ ~ Truncated(spanRows) => livePage = PageOf(spanRows, livePage.cursor)

ViewInv == Rows(spanRows) /\ hour \in Nat /\ ContentSound /\ PageSound

\* What either page says, of spans at their offsets.
View(S, offset, anchor, root) ==
    [offset |-> offset, start |-> anchor,
     duration |-> Max({offset[s] + Of[s].duration : s \in S}),
     spanCount |-> Cardinality(S), errors |-> Cardinality(FailedSpans(S)),
     tokens |-> TokensOf(S), models |-> Models(S), root |-> root]

LEMMA PageIsReload ==
    ASSUME Rows(spanRows), PageSound
    PROVE  LiveIsReload
<1>. SUFFICES ASSUME livePage # NoPage, ~ Truncated(spanRows)
              PROVE  Derived(livePage) = Detail(ByThen(livePage.cursor))
  BY DEF LiveIsReload
<1> DEFINE S == Ids(ByThen(livePage.cursor))
<1>1. ByThen(livePage.cursor) \in SUBSET spanRows
  BY DEF ByThen
<1>2. FetchedSpans(ByThen(livePage.cursor)) = S
  BY <1>1, NotTruncatedBefore
<1>3. /\ livePage.starts = [s \in S |-> Of[s].start]
      /\ livePage.root = \E s \in S : Of[s].root
  <2>1. livePage = PageOf(spanRows, livePage.cursor)
    BY DEF PageSound
  <2>2. PageOf(spanRows, livePage.cursor)
            = [starts |-> [s \in S |-> Of[s].start], cursor |-> livePage.cursor,
               root |-> \E s \in S : Of[s].root]
    BY DEF PageOf, ByThen
  <2>. HIDE DEF S
  <2> DEFINE starts == [s \in S |-> Of[s].start]
             root   == \E s \in S : Of[s].root
  <2>3. livePage = [starts |-> starts, cursor |-> livePage.cursor, root |-> root]
    BY <2>1, <2>2, Zenon
  <2>. HIDE DEF starts, root
  <2>4. livePage.starts = starts /\ livePage.root = root
    BY <2>3
  <2>. QED
    BY <2>4 DEF starts, root
<1>. HIDE DEF S
<1>4. DOMAIN livePage.starts = S /\ \A s \in S : livePage.starts[s] = Of[s].start
  BY <1>3
<1> DEFINE D == ByThen(livePage.cursor)
           P == DOMAIN livePage.starts
           from(Q) == Min({livePage.starts[s] : s \in Q})
           F == FetchedSpans(D)
           first(Q) == Min({Of[s].start : s \in Q})
<1>5. Derived(livePage)
          = View(P, [s \in P |-> livePage.starts[s] - from(P)], from(P), livePage.root)
  BY DEF Derived, View
<1>6. Detail(D) = View(F, [s \in F |-> Of[s].start - first(F)], first(F), \E s \in F : Of[s].root)
  BY DEF Detail, View
<1>7. P = S /\ F = S
  BY <1>2, <1>4
<1>. HIDE DEF P, F, D
<1>8. from(S) = first(S)
  <2>1. {livePage.starts[s] : s \in S} = {Of[s].start : s \in S}
    BY <1>4
  <2>. QED
    BY <2>1
<1>. HIDE DEF from, first
<1>9. [s \in S |-> livePage.starts[s] - from(S)] = [s \in S |-> Of[s].start - first(S)]
  BY <1>4, <1>8
<1>10. livePage.root = \E s \in S : Of[s].root
  BY <1>3
<1>11. Derived(livePage)
          = View(S, [s \in S |-> livePage.starts[s] - from(S)], from(S), livePage.root)
  BY <1>5, <1>7
<1>12. Detail(D) = View(S, [s \in S |-> Of[s].start - first(S)], first(S), \E s \in S : Of[s].root)
  BY <1>6, <1>7
<1>. QED
  BY <1>8, <1>9, <1>10, <1>11, <1>12 DEF D

LEMMA ViewInvInit == ViewInit => ViewInv
<1>. SUFFICES ASSUME ViewInit PROVE ViewInv
  OBVIOUS
<1>1. Rows({})
  BY FS_EmptySet DEF Rows
<1>2. \A s \in TraceSpans : Indices(s) = {}
  BY DEF ViewInit, Indices
<1>. QED
  BY <1>1, <1>2 DEF ViewInit, ViewInv, ContentSound, PageSound

\* A row that lands is newer than anything the live page has read.
LEMMA LandViewInv ==
    ASSUME ViewInv, NEW s \in TraceSpans, LandRow(s)
    PROVE  ViewInv'
<1> DEFINE ms == LatestMs(spanRows) + 1
           row == [span |-> s, ms |-> ms]
<1>1. /\ spanRows' = spanRows \cup {row}
      /\ hour' = hour /\ livePage' = livePage
      /\ \/ contentRows' = contentRows
                         \cup {[span |-> s, index |-> i, ms |-> ms] : i \in 1 .. Of[s].events}
         \/ contentRows' = contentRows
  BY DEF LandRow
<1>2. Rows(spanRows) /\ LatestMs(spanRows) \in Nat
      /\ \A r \in spanRows : r.ms <= LatestMs(spanRows)
  BY NewestRow DEF ViewInv
<1>3. Rows(spanRows')
  <2>1. IsFiniteSet(spanRows')
    <3>. HIDE DEF row
    <3>. QED
      BY <1>1, <1>2, FS_AddElement DEF Rows
  <2>2. row \in [span : TraceSpans, ms : Nat]
    BY <1>2
  <2>. HIDE DEF row
  <2>. QED
    BY <1>1, <1>2, <2>1, <2>2 DEF Rows
<1>4. ContentSound'
  <2>1. ASSUME NEW t \in TraceSpans
        PROVE  Indices(t)' = Indices(t) \/ (t = s /\ Indices(t)' = Indices(t) \cup 1 .. Of[s].events)
    <3>1. CASE contentRows' = contentRows
      BY <3>1 DEF Indices
    <3>2. CASE contentRows' = contentRows
                         \cup {[span |-> s, index |-> i, ms |-> ms] : i \in 1 .. Of[s].events}
      <4> DEFINE new == {[span |-> s, index |-> i, ms |-> ms] : i \in 1 .. Of[s].events}
      <4>1. \A e \in new : e.span = s /\ e.index \in 1 .. Of[s].events
        OBVIOUS
      <4>2. \A i \in 1 .. Of[s].events : \E e \in new : e.span = s /\ e.index = i
        <5>. SUFFICES ASSUME NEW i \in 1 .. Of[s].events
                      PROVE  [span |-> s, index |-> i, ms |-> ms] \in new
          OBVIOUS
        <5>. QED
          OBVIOUS
      <4>. HIDE DEF new
      <4>3. contentRows' = contentRows \cup new
        BY <3>2 DEF new
      <4>4. \A i : i \in Indices(t)' <=> \E e \in contentRows' : e.span = t /\ e.index = i
        BY DEF Indices
      <4>5. \A i : i \in Indices(t) <=> \E e \in contentRows : e.span = t /\ e.index = i
        BY DEF Indices
      <4>6. CASE t = s
        <5>1. \A i : i \in Indices(t)' <=> i \in Indices(t) \/ i \in 1 .. Of[s].events
          BY <4>1, <4>2, <4>3, <4>4, <4>5, <4>6
        <5>. QED
          BY <4>6, <5>1
      <4>7. CASE t # s
        <5>1. \A i : i \in Indices(t)' <=> i \in Indices(t)
          BY <4>1, <4>3, <4>4, <4>5, <4>7
        <5>. QED
          BY <5>1
      <4>. QED
        BY <4>6, <4>7
    <3>. QED
      BY <1>1, <3>1, <3>2
  <2>2. \A t \in TraceSpans : Indices(t) \in {{}, 1 .. Of[t].events}
    BY DEF ViewInv, ContentSound
  <2>. SUFFICES ASSUME NEW t \in TraceSpans PROVE Indices(t)' \in {{}, 1 .. Of[t].events}
    BY DEF ContentSound
  <2>. QED
    BY <2>1, <2>2
<1>5. PageSound'
  <2>. SUFFICES ASSUME livePage # NoPage
                PROVE  /\ livePage.cursor \in Nat /\ livePage.cursor <= LatestMs(spanRows')
                       /\ DOMAIN livePage = {"starts", "cursor", "root"}
                       /\ ~ Truncated(spanRows') => livePage = PageOf(spanRows', livePage.cursor)
    BY <1>1 DEF PageSound
  <2>1. /\ livePage.cursor \in Nat /\ livePage.cursor <= LatestMs(spanRows)
        /\ DOMAIN livePage = {"starts", "cursor", "root"}
        /\ ~ Truncated(spanRows) => livePage = PageOf(spanRows, livePage.cursor)
    BY DEF ViewInv, PageSound
  <2>2. spanRows \in SUBSET spanRows'
    BY <1>1
  <2>3. LatestMs(spanRows) <= LatestMs(spanRows') /\ LatestMs(spanRows') \in Nat
    BY <1>3, <2>2, NewestOfSome, NewestRow
  <2>4. ~ Truncated(spanRows') => ~ Truncated(spanRows)
    BY <1>3, <2>2, NotTruncatedBefore DEF Truncated
  <2>5. {r \in spanRows' : r.ms <= livePage.cursor} = {r \in spanRows : r.ms <= livePage.cursor}
    <3>1. ~ row.ms <= livePage.cursor
      BY <1>2, <2>1
    <3>. HIDE DEF row
    <3>. QED
      BY <1>1, <3>1
  <2>6. PageOf(spanRows', livePage.cursor) = PageOf(spanRows, livePage.cursor)
    BY <2>5 DEF PageOf
  <2>. QED
    BY <1>2, <2>1, <2>3, <2>4, <2>6
<1>. QED
  BY <1>1, <1>3, <1>4, <1>5 DEF ViewInv

\* Whichever copies a page is opened with, they tell of every span.
LEMMA OpenViewInv ==
    ASSUME ViewInv, OpenPage
    PROVE  ViewInv'
<1>1. PICK C \in Copies(spanRows) : livePage' = Seeded(C)
  BY DEF OpenPage
<1>2. spanRows' = spanRows /\ contentRows' = contentRows /\ hour' = hour
      /\ spanRows # {} /\ ~ Detail(spanRows).root
  BY DEF OpenPage
<1>3. Rows(spanRows) /\ C \in SUBSET spanRows /\ Ids(C) = Ids(spanRows)
  BY DEF ViewInv, Copies
<1> DEFINE S == FetchedSpans(C)
           read == {r \in C : r.span \in S}
<1>4. Rows(C) /\ C # {}
  BY <1>2, <1>3, SomeRows DEF Ids
<1>5. S \in SUBSET TraceSpans /\ IsFiniteSet(S) /\ S # {} /\ FetchedSpans(spanRows) = S
  BY <1>3, <1>4, Fetches DEF FetchedSpans
<1>6. livePage' = [starts |-> [s \in S |-> Of[s].start], cursor |-> LatestMs(read), root |-> FALSE]
  <2>1. Detail(C).offset = [s \in S |-> Of[s].start - Anchor(S)] /\ Detail(C).start = Anchor(S)
    BY DetailOf
  <2>2. Anchor(S) \in Nat /\ \A s \in S : Of[s].start \in Nat
    <3>1. Anchor(S) \in Nat
      <4>. HIDE DEF S
      <4>. QED
        BY <1>5, Spread
    <3>. QED
      BY <1>5, <3>1, ViewAssumption
  <2>3. Seeded(C) = [starts |-> [s \in DOMAIN Detail(C).offset |->
                                    Detail(C).start + Detail(C).offset[s]],
                     cursor |-> LatestMs({r \in C : r.span \in DOMAIN Detail(C).offset}),
                     root   |-> FALSE]
    BY DEF Seeded
  <2>. HIDE DEF S
  <2>4. DOMAIN Detail(C).offset = S
    BY <2>1
  <2>5. [s \in DOMAIN Detail(C).offset |-> Detail(C).start + Detail(C).offset[s]]
            = [s \in S |-> Of[s].start]
    BY <2>1, <2>2, <2>4
  <2>6. {r \in C : r.span \in DOMAIN Detail(C).offset} = read
    BY <2>4
  <2>. HIDE DEF read
  <2>. QED
    BY <1>1, <2>3, <2>5, <2>6
<1>7. read \in SUBSET spanRows /\ Rows(read)
  BY <1>3, <1>4, SomeRows
<1>8. LatestMs(read) \in Nat /\ LatestMs(read) <= LatestMs(spanRows)
      /\ \A r \in read : r.ms <= LatestMs(read)
  <2>. HIDE DEF read
  <2>. QED
    BY <1>3, <1>7, NewestRow, NewestOfSome
<1>9. ASSUME ~ Truncated(spanRows) PROVE livePage' = PageOf(spanRows, LatestMs(read))
  <2>1. S = Ids(spanRows)
    BY <1>5, <1>9 DEF Truncated
  <2>2. read = C
    BY <1>3, <2>1 DEF Ids
  <2>3. Ids({r \in spanRows : r.ms <= LatestMs(read)}) = S
    <3>. HIDE DEF read, S
    <3>. QED
      BY <1>3, <1>8, <2>1, <2>2 DEF Ids
  <2>4. ~ \E s \in S : Of[s].root
    <3>1. Detail(spanRows).root = \E s \in FetchedSpans(spanRows) : Of[s].root
      BY DetailOf
    <3>. HIDE DEF S
    <3>. QED
      BY <1>2, <1>5, <3>1, Zenon
  <2>5. PageOf(spanRows, LatestMs(read))
            = [starts |-> [s \in S |-> Of[s].start], cursor |-> LatestMs(read),
               root |-> \E s \in S : Of[s].root]
    <3>. HIDE DEF S, read
    <3>. QED
      BY <2>3 DEF PageOf
  <2>. HIDE DEF S, read
  <2>6. (\E s \in S : Of[s].root) = FALSE
    BY <2>4, Zenon
  <2>. QED
    BY <1>6, <2>5, <2>6
<1>. HIDE DEF S, read
<1>10. livePage'.cursor = LatestMs(read) /\ DOMAIN livePage' = {"starts", "cursor", "root"}
  BY <1>6
<1>. QED
  BY <1>2, <1>8, <1>9, <1>10 DEF ViewInv, PageSound, ContentSound, Indices

\* A delta brings what the page missed: it reads from no later than where the page was.
LEMMA DeltaViewInv ==
    ASSUME ViewInv, NEW lo \in Nat, ReadDelta(lo)
    PROVE  ViewInv'
<1> DEFINE D == {r \in spanRows : r.ms >= lo}
           cursor == livePage.cursor
           next == Max({cursor, LatestMs(D)})
<1>1. /\ spanRows' = spanRows /\ contentRows' = contentRows /\ hour' = hour
      /\ livePage # NoPage /\ lo <= cursor
      /\ livePage' = Merged(livePage, D)
  BY DEF ReadDelta
<1>2. /\ cursor \in Nat /\ cursor <= LatestMs(spanRows)
      /\ DOMAIN livePage = {"starts", "cursor", "root"}
      /\ ~ Truncated(spanRows) => livePage = PageOf(spanRows, cursor)
  BY <1>1 DEF ViewInv, PageSound
<1>3. Rows(spanRows) /\ Rows(D) /\ D \in SUBSET spanRows
  BY SomeRows DEF ViewInv
<1>4. /\ LatestMs(D) \in Nat /\ LatestMs(D) <= LatestMs(spanRows) /\ LatestMs(spanRows) \in Nat
      /\ \A r \in D : r.ms <= LatestMs(D)
  <2>. HIDE DEF D
  <2>. QED
    BY <1>3, NewestRow, NewestOfSome
<1>5. next = IF cursor >= LatestMs(D) THEN cursor ELSE LatestMs(D)
  <2> DEFINE two == {cursor, LatestMs(D)}
  <2>1. two \in SUBSET Nat /\ two # {}
    BY <1>2, <1>4
  <2>2. IsFiniteSet(two)
    <3>1. two = {cursor} \cup {LatestMs(D)}
      OBVIOUS
    <3>2. IsFiniteSet({cursor})
      BY FS_Singleton
    <3>. HIDE DEF two, cursor
    <3>. QED
      BY <3>1, <3>2, FS_AddElement
  <2>. HIDE DEF two, cursor, D
  <2>3. Max(two) \in two /\ \A x \in two : x <= Max(two)
    BY <2>1, <2>2, Extremes
  <2>4. Max(two) \in {cursor, LatestMs(D)} /\ cursor <= Max(two) /\ LatestMs(D) <= Max(two)
    BY <2>3 DEF two
  <2>5. next = Max(two)
    BY DEF two
  <2>. HIDE DEF next
  <2>. QED
    BY <1>2, <1>4, <2>4, <2>5
<1>6. next \in Nat /\ next <= LatestMs(spanRows)
  <2>. HIDE DEF next, D, cursor
  <2>. QED
    BY <1>2, <1>4, <1>5
<1>7. ASSUME ~ Truncated(spanRows)
      PROVE  livePage' = PageOf(spanRows, next) /\ livePage'.cursor = next
  <2> DEFINE S == Ids({r \in spanRows : r.ms <= cursor})
             N == Ids({r \in spanRows : r.ms <= next})
             rooted(Q) == \E s \in Q : Of[s].root
  <2>1. N = S \cup Ids(D)
    <3>1. ASSUME NEW r \in spanRows PROVE r.ms <= next <=> r.ms <= cursor \/ r \in D
      <4>1. r.ms \in Nat
        BY <1>3 DEF Rows
      <4>2. r \in D <=> r.ms >= lo
        OBVIOUS
      <4>. HIDE DEF next, D, cursor
      <4>. QED
        BY <1>1, <1>2, <1>4, <1>5, <4>1, <4>2
    <3>. HIDE DEF next, D, cursor
    <3>. QED
      BY <1>3, <3>1 DEF Ids
  <2>2. livePage = [starts |-> [s \in S |-> Of[s].start], cursor |-> cursor, root |-> rooted(S)]
    BY <1>2, <1>7 DEF PageOf
  <2>3. PageOf(spanRows, next)
            = [starts |-> [s \in N |-> Of[s].start], cursor |-> next, root |-> rooted(N)]
    BY DEF PageOf
  <2>4. Merged(livePage, D) =
          [livePage EXCEPT
             !.starts = [s \in DOMAIN @ \cup Ids(D) |->
                            IF s \in DOMAIN @ THEN @[s] ELSE Of[s].start],
             !.cursor = next,
             !.root   = @ \/ rooted(Ids(D))]
    BY DEF Merged
  <2>5. rooted(N) <=> rooted(S) \/ rooted(Ids(D))
    BY <2>1
  <2>. HIDE DEF S, N, D, next, cursor
  <2>6. (rooted(S) \/ rooted(Ids(D))) = rooted(N)
    BY <2>5, Zenon
  <2>. HIDE DEF rooted
  <2>7. livePage.starts = [s \in S |-> Of[s].start] /\ livePage.root = rooted(S)
        /\ DOMAIN livePage.starts = S
    BY <2>2
  <2>8. [s \in DOMAIN livePage.starts \cup Ids(D) |->
             IF s \in DOMAIN livePage.starts THEN livePage.starts[s] ELSE Of[s].start]
          = [s \in N |-> Of[s].start]
    BY <2>1, <2>7
  <2>9. (livePage.root \/ rooted(Ids(D))) = rooted(N)
    BY <2>6, <2>7
  <2>10. Merged(livePage, D) = [starts |-> [s \in N |-> Of[s].start], cursor |-> next,
                                root |-> rooted(N)]
    <3> DEFINE starts == [s \in N |-> Of[s].start]
    <3>1. Merged(livePage, D) = [livePage EXCEPT !.starts = starts, !.cursor = next,
                                                 !.root = rooted(N)]
      BY <2>4, <2>8, <2>9
    <3>2. livePage = [starts |-> livePage.starts, cursor |-> livePage.cursor,
                      root |-> livePage.root]
      BY <2>2
    <3>. HIDE DEF starts
    <3>3. Merged(livePage, D) = [starts |-> starts, cursor |-> next, root |-> rooted(N)]
      BY <3>1, <3>2
    <3>. QED
      BY <3>3 DEF starts
  <2>. QED
    BY <1>1, <2>3, <2>10
<1>8. livePage'.cursor = next /\ DOMAIN livePage' = {"starts", "cursor", "root"}
  BY <1>1, <1>2 DEF Merged
<1>. HIDE DEF next, D, cursor
<1>. QED
  BY <1>1, <1>6, <1>7, <1>8 DEF ViewInv, PageSound, ContentSound, Indices

LEMMA NextViewInv == ViewInv /\ [ViewNext]_viewVars => ViewInv'
<1>. SUFFICES ASSUME ViewInv, [ViewNext]_viewVars PROVE ViewInv'
  OBVIOUS
<1>1. ASSUME NEW s \in TraceSpans, LandRow(s) PROVE ViewInv'
  BY <1>1, LandViewInv
<1>2. CASE NextHour
  BY <1>2 DEF NextHour, ViewInv, PageSound, ContentSound, Indices
<1>3. CASE OpenPage
  BY <1>3, OpenViewInv
<1>4. ASSUME NEW lo \in 0 .. MaxRows, ReadDelta(lo) PROVE ViewInv'
  <2>1. lo \in Nat
    BY ViewAssumption
  <2>. QED
    BY <1>4, <2>1, DeltaViewInv
<1>5. CASE UNCHANGED viewVars
  BY <1>5 DEF viewVars, ViewInv, PageSound, ContentSound, Indices
<1>. QED
  BY <1>1, <1>2, <1>3, <1>4, <1>5 DEF ViewNext

\* The list, the page, the live page and the panel tell one story of a trace, whatever
\* landed twice or late, however many spans it has and whichever deltas a page read
\* (clickhouse.ts, traces.ts, live.ts).
THEOREM OneStory == ViewSpec => []ViewsAgree
<1>1. ViewInv => ViewsAgree
  BY PageIsReload, BarsAreInside, ListIsPage, PanelIsWhole DEF ViewInv, ViewsAgree
<1>. QED
  BY <1>1, ViewInvInit, NextViewInv, PTL DEF ViewSpec

======================================================================================
