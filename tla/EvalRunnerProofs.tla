------------------------------- MODULE EvalRunnerProofs ------------------------------
(***************************************************************************)
(* Proofs about EvalRunner, for any spans, contents and configurations,    *)
(* any batch limit, overlap and window, and any number of aborted runs.    *)
(***************************************************************************)
EXTENDS EvalRunner, FiniteSetTheorems, WellFoundedInduction, TLAPS

(***************************************************************************)
(* Types, with what TypeOK leaves out: the shape of a run.                 *)
(***************************************************************************)
Steps == {"idle", "listed", "scan", "existing", "events", "cache", "judge",
          "save", "detect", "recent", "raise", "post"}

Signals == [key : Keys, at : 1 .. MaxTime, copy : Nat, notified : BOOLEAN]

Runs == [pc : Steps, ver : Versions, config : Configs, now : 0 .. MaxTime, since : Int,
         newest : 0 .. MaxTime, rows : SUBSET Spans, scores : [Contents -> Outcomes],
         found : SUBSET Keys, raised : Signals \cup {NoSignal}]

\* What is judged has content, and what is announced is a signal.
WellFormed(run) ==
    /\ run.pc \in {"cache", "judge"} => run.rows \subseteq HasContent
    /\ run.pc = "post" => run.raised \in Signals

\* Content lands only where it is captured.
Typed ==
    /\ TypeOK
    /\ runner \in [Runners -> Runs]
    /\ IsFiniteSet(signals)
    /\ \A s \in HasContent : Content[s] \in Contents
    /\ \A r \in Runners : WellFormed(runner[r])

\* No instant is ahead of the clock.
Times ==
    /\ mark <= clock
    /\ \A s \in Spans :
           /\ stage[s] # "absent" => Start[s] <= clock
           /\ stage[s] = "intime" => Overlap > 0

InTime == {s \in Sampled : stage[s] = "intime"}

\* What a run's window or page leaves behind has a result, or is among its rows.
Covered(run) ==
    /\ run.newest <= run.now /\ run.now <= clock
    /\ run.since <= 0 \/ run.since <= clock - Overlap
    /\ \A s \in InTime :
           /\ Start[s] <= run.since => ScoredOnce(s)
           /\ Start[s] <= run.newest - Overlap => ScoredOnce(s) \/ s \in run.rows
    /\ run.pc = "save" => run.rows = {}

AllCovered == \A r \in Runners : Covered(runner[r])

IInv == Typed /\ Times /\ AllCovered /\ InTimeNeverPassed

\* The first run looks back far enough to see every span.
SeesAll == Lookback >= MaxTime

--------------------------------------------------------------------------------
(***************************************************************************)
(* A page and its newest span.                                             *)
(***************************************************************************)

\* A nonempty set of instants has a largest one.
LEMMA MaxIsLargest ==
    ASSUME NEW N \in Nat, NEW S \in SUBSET (1 .. N), S # {}
    PROVE  Max(S) \in S /\ \A y \in S : y <= Max(S)
<1> DEFINE F == {I \in SUBSET (1 .. N) : \E k \in 0 .. N : I = 1 .. k /\ S \subseteq I}
<1>1. 1 .. N \in F
  OBVIOUS
<1>2. IsFiniteSet(1 .. N)
  BY FS_Interval
<1>3. IsWellFoundedOn(StrictSubsetOrdering(1 .. N), FiniteSubsetsOf(1 .. N))
  BY FS_StrictSubsetOrderingWellFounded
<1>4. F \subseteq FiniteSubsetsOf(1 .. N)
  BY <1>2, FS_Subset DEF FiniteSubsetsOf
<1>5. PICK I \in F : \A J \in F : <<J, I>> \notin StrictSubsetOrdering(1 .. N)
  <2>1. F # {}
    BY <1>1
  <2>. HIDE DEF F
  <2>. QED  BY <2>1, <1>3, <1>4, WFMin
<1>6. PICK k \in 0 .. N : I = 1 .. k /\ S \subseteq I
  OBVIOUS
<1>7. k \in S
  <2>. SUFFICES ASSUME k \notin S PROVE FALSE
    OBVIOUS
  <2>1. PICK y \in S : TRUE
    OBVIOUS
  <2>2. k - 1 \in 0 .. N /\ S \subseteq 1 .. (k - 1)
    BY <1>6, <2>1
  <2>3. 1 .. (k - 1) \in F
    BY <2>2
  <2>4. 1 .. (k - 1) # I /\ 1 .. (k - 1) \subseteq I
    BY <1>6, <2>1
  <2>. QED  BY <2>3, <2>4, <1>5 DEF StrictSubsetOrdering
<1>8. \A y \in S : k >= y
  BY <1>6
<1>9. Max(S) \in S /\ \A y \in S : Max(S) >= y
  BY <1>7, <1>8 DEF Max
<1>. QED  BY <1>9

\* A page is part of its window, and what it leaves out starts no earlier than
\* its newest span.
LEMMA PageIsClosed ==
    ASSUME NEW window \in SUBSET Spans, NEW page \in Pages(window), page # {}
    PROVE  /\ page \subseteq window
           /\ Newest(page) \in 1 .. MaxTime
           /\ \E s \in page : Start[s] = Newest(page)
           /\ \A s \in page : Start[s] <= Newest(page)
           /\ \A s \in window \ page : Newest(page) <= Start[s]
<1>1. /\ page \subseteq window
      /\ \A s \in page, q \in window \ page : Start[s] <= Start[q]
  BY DEF Pages, kSubset
<1>. DEFINE S == {Start[s] : s \in page}
<1>2. S \in SUBSET (1 .. MaxTime) /\ S # {} /\ MaxTime \in Nat
  BY <1>1, EvalAssumption
<1>3. Max(S) \in S /\ \A y \in S : y <= Max(S)
  BY <1>2, MaxIsLargest
<1>4. Newest(page) = Max(S)
  BY DEF Newest
<1>. QED  BY <1>1, <1>2, <1>3, <1>4

--------------------------------------------------------------------------------
(***************************************************************************)
(* Types.                                                                  *)
(***************************************************************************)

LEMMA Constants ==
    /\ BatchLimit \in Nat \ {0} /\ MaxVersion \in Nat \ {0} /\ MaxTime \in Nat \ {0}
    /\ Overlap \in Nat /\ Lookback \in Nat /\ Window \in Nat /\ MaxAborts \in Nat
    /\ Start \in [Spans -> 1 .. MaxTime] /\ Sampled \subseteq Spans
    /\ None \notin Configs /\ Err \notin Configs /\ None \notin Contents /\ None # Err
BY EvalAssumption DEF None, Err

\* What a step of a run does to the runs.
LEMMA GotoSteps ==
    ASSUME Typed, NEW r \in Runners, NEW run \in Runs, NEW pc \in Steps, Goto(r, pc, run)
    PROVE  /\ runner' \in [Runners -> Runs]
           /\ runner'[r] = [run EXCEPT !.pc = pc]
           /\ \A q \in Runners \ {r} : runner'[q] = runner[q]
BY DEF Goto, Typed, Runs

LEMMA RestingTyped == Resting \in Runs /\ Resting.pc = "idle"
BY EvalAssumption DEF Resting, Runs, Steps, Versions, NoScores, Outcomes, NoSignal

LEMMA PageInRuns ==
    ASSUME NEW run \in Runs, NEW rows \in SUBSET Spans, NEW newest \in 1 .. MaxTime
    PROVE  [run EXCEPT !.since = 0, !.rows = rows, !.newest = newest] \in Runs
<1>1. [run EXCEPT !.since = 0] \in Runs
  BY DEF Runs
<1>2. PICK first \in Runs : first = [run EXCEPT !.since = 0]
  BY <1>1
<1>3. [first EXCEPT !.rows = rows] \in Runs
  BY DEF Runs
<1>4. PICK second \in Runs : second = [first EXCEPT !.rows = rows]
  BY <1>3
<1>5. [second EXCEPT !.newest = newest] \in Runs
  <2>1. newest \in 0 .. MaxTime
    BY Constants
  <2>. QED  BY <2>1 DEF Runs
<1>. QED  BY <1>2, <1>4, <1>5 DEF Runs

\* TypeOK says no more of the runs than their shape does.
LEMMA RunsSuffice ==
    ASSUME runner' \in [Runners -> Runs], IsFiniteSet(signals)',
           clock' \in 1 .. MaxTime,
           stage' \in [Spans -> {"absent", "bare", "intime", "late"}],
           def' \in [version : Versions, config : Configs, enabled : BOOLEAN],
           editor' \in [Editors -> 0 .. MaxVersion],
           results' \in [Versions -> [Spans -> Outcomes]],
           mark' \in 0 .. MaxTime, signals' \subseteq Signals, aborts' \in 0 .. MaxAborts,
           \A s \in HasContent' : Content[s] \in Contents,
           \A r \in Runners : WellFormed(runner[r])'
    PROVE  Typed'
BY DEF Typed, TypeOK, Runs, Steps, Signals, Versions, Outcomes

LEMMA InitTyped == Init => Typed
<1>. SUFFICES ASSUME Init PROVE Typed
  OBVIOUS
<1>1. runner \in [Runners -> Runs] /\ \A r \in Runners : runner[r].pc = "idle"
  BY RestingTyped DEF Init
<1>2. IsFiniteSet(signals)
  BY FS_EmptySet DEF Init
<1>3. TypeOK
  BY <1>1, EvalAssumption DEF Init, TypeOK, Runs, Steps, Versions, Outcomes
<1>4. HasContent = {} /\ \A r \in Runners : WellFormed(runner[r])
  BY <1>1 DEF Init, HasContent, WellFormed
<1>. QED  BY <1>1, <1>2, <1>3, <1>4 DEF Typed

\* The environment and the dashboard leave the runs alone.
LEMMA OthersTyped ==
    ASSUME Typed,
           \/ Tick \/ \E s \in Spans : LandSpan(s) \/ LandContent(s)
           \/ \E e \in Editors : EditRead(e) \/ EditWrite(e) \/ EditInvalid(e)
           \/ SetEnabled
    PROVE  Typed'
<1>1. runner' = runner /\ signals' = signals /\ results' = results /\ mark' = mark
      /\ aborts' = aborts
  BY DEF Tick, LandSpan, LandContent, EditRead, EditWrite, EditInvalid, SetEnabled
<1>2. /\ HasContent \subseteq HasContent'
      /\ \A s \in HasContent' : Content[s] \in Contents
  <2>1. CASE stage' = stage
    BY <2>1 DEF HasContent, Typed
  <2>2. ASSUME NEW s \in Spans, LandSpan(s) \/ LandContent(s)
        PROVE  /\ HasContent \subseteq HasContent'
               /\ \A q \in HasContent' \ HasContent : q = s /\ Content[s] # None
    BY <2>2 DEF Typed, TypeOK, HasContent, LandSpan, LandContent
  <2>3. \A s \in Spans : Content[s] # None => Content[s] \in Contents
    BY EvalAssumption
  <2>4. CASE \E s \in Spans : LandSpan(s) \/ LandContent(s)
    BY <2>2, <2>3, <2>4 DEF Typed
  <2>. QED  BY <2>1, <2>4 DEF Tick, EditRead, EditWrite, EditInvalid, SetEnabled
<1>3. \A r \in Runners : WellFormed(runner[r])'
  BY <1>1, <1>2 DEF Typed, WellFormed
<1>4. CASE Tick
  <2>1. clock' \in 1 .. MaxTime
    BY <1>4, Constants DEF Typed, TypeOK, Tick
  <2>. QED  BY <1>1, <1>2, <1>3, <1>4, <2>1 DEF Typed, TypeOK, Tick
<1>5. ASSUME NEW s \in Spans, LandSpan(s) \/ LandContent(s) PROVE Typed'
  <2>1. stage' \in [Spans -> {"absent", "bare", "intime", "late"}]
    BY <1>5 DEF Typed, TypeOK, LandSpan, LandContent
  <2>. QED  BY <1>1, <1>2, <1>3, <1>5, <2>1 DEF Typed, TypeOK, LandSpan, LandContent
<1>6. ASSUME NEW e \in Editors, EditRead(e) \/ EditWrite(e) \/ EditInvalid(e) PROVE Typed'
  <2>1. editor \in [Editors -> 0 .. MaxVersion] /\ def.version \in 1 .. MaxVersion
        /\ def \in [version : Versions, config : Configs, enabled : BOOLEAN]
    BY DEF Typed, TypeOK, Versions
  <2>2. def.version \in 0 .. MaxVersion /\ 0 \in 0 .. MaxVersion
    BY <2>1, Constants
  <2>3. editor' \in [Editors -> 0 .. MaxVersion]
    BY <1>6, <2>1, <2>2 DEF EditRead, EditWrite, EditInvalid
  <2>4. EditWrite(e) => editor[e] + 1 \in Versions
    <3>1. editor[e] \in 0 .. MaxVersion
      BY <2>1
    <3>2. ASSUME editor[e] # 0, editor[e] < MaxVersion PROVE editor[e] + 1 \in 1 .. MaxVersion
      BY <3>1, <3>2, Constants
    <3>. QED  BY <3>2 DEF EditWrite, Versions
  <2>5. def' \in [version : Versions, config : Configs, enabled : BOOLEAN]
    BY <1>6, <2>1, <2>4 DEF EditRead, EditWrite, EditInvalid
  <2>6. clock' = clock /\ stage' = stage
    BY <1>6 DEF EditRead, EditWrite, EditInvalid
  <2>. QED  BY <1>1, <1>2, <1>3, <2>3, <2>5, <2>6 DEF Typed, TypeOK
<1>7. CASE SetEnabled
  BY <1>1, <1>2, <1>3, <1>7 DEF Typed, TypeOK, SetEnabled
<1>. QED  BY <1>4, <1>5, <1>6, <1>7

LEMMA RunTyped ==
    ASSUME Typed, NEW r \in Runners, Run(r) \/ Abort(r)
    PROVE  Typed'
<1>. DEFINE run == runner[r]
<1>1. /\ run \in Runs /\ clock \in 1 .. MaxTime /\ mark \in 0 .. MaxTime
      /\ clock' = clock /\ stage' = stage /\ def' = def /\ editor' = editor
  BY DEF Typed, TypeOK, Run, List, ReadState, Scan, Existing, Events, Cache, Judge, Insert, Save,
         Detect, Recent, Raise, Notify, NotifyFailed, Finish, Abort
<1>. DEFINE Goes(next, pc) == /\ next \in Runs /\ pc \in Steps /\ Goto(r, pc, next)
                              /\ pc \in {"cache", "judge"} => next.rows \subseteq HasContent
                              /\ pc = "post" => next.raised \in Signals
<1>2. ASSUME NEW next, NEW pc, Goes(next, pc),
             results' \in [Versions -> [Spans -> Outcomes]], mark' \in 0 .. MaxTime,
             signals' \subseteq Signals, IsFiniteSet(signals)', aborts' = aborts
      PROVE  Typed'
  <2>1. /\ runner' \in [Runners -> Runs]
        /\ runner'[r] = [next EXCEPT !.pc = pc]
        /\ \A q \in Runners \ {r} : runner'[q] = runner[q]
    BY <1>2, GotoSteps
  <2>2. HasContent' = HasContent
    BY <1>1 DEF HasContent
  <2>3. WellFormed(runner[r])'
    BY <1>2, <2>1, <2>2 DEF WellFormed, Runs
  <2>4. \A q \in Runners \ {r} : WellFormed(runner[q])'
    BY <2>1, <2>2 DEF WellFormed, Typed
  <2>. QED  BY <1>1, <1>2, <2>1, <2>2, <2>3, <2>4, RunsSuffice DEF Typed, TypeOK
<1>3. ASSUME NEW next, NEW pc, Goes(next, pc),
             UNCHANGED <<results, mark, signals, aborts>>
      PROVE  Typed'
  BY <1>2, <1>3 DEF Typed, TypeOK, Signals
<1>4. CASE List(r)
  <2>1. [Resting EXCEPT !.ver = def.version, !.config = def.config] \in Runs
    BY RestingTyped DEF Runs, Typed, TypeOK
  <2>. QED  BY <1>4, <2>1, <1>3 DEF List, Steps
<1>5. CASE ReadState(r)
  <2>. DEFINE since == IF mark # 0 THEN mark - Overlap ELSE clock - Lookback
  <2>1. since \in Int /\ clock \in 0 .. MaxTime
    BY <1>1, Constants
  <2>2. Goto(r, "scan", [run EXCEPT !.now = clock, !.since = since])
    BY <1>5 DEF ReadState
  <2>. HIDE DEF since
  <2>3. [run EXCEPT !.now = clock, !.since = since] \in Runs
    BY <1>1, <2>1 DEF Runs
  <2>. QED  BY <1>5, <2>2, <2>3, <1>3 DEF ReadState, Steps
<1>6. CASE Scan(r)
  <2>. DEFINE window == {s \in Visible : run.since < Start[s] /\ Start[s] <= run.now}
  <2>1. PICK page \in Pages(window) :
            IF page = {} THEN Goto(r, "detect", [run EXCEPT !.since = 0])
            ELSE Goto(r, "existing", [run EXCEPT !.since = 0, !.rows = page,
                                                 !.newest = Newest(page)])
    BY <1>6 DEF Scan
  <2>2. CASE page = {}
    <3>1. [run EXCEPT !.since = 0] \in Runs
      BY <1>1 DEF Runs
    <3>. QED  BY <1>3, <1>6, <2>1, <2>2, <3>1 DEF Scan, Steps
  <2>3. CASE page # {}
    <3>1. window \in SUBSET Spans
      BY DEF Visible
    <3>2. page \subseteq Spans /\ Newest(page) \in 1 .. MaxTime
      BY <2>3, <3>1, PageIsClosed
    <3>3. [run EXCEPT !.since = 0, !.rows = page, !.newest = Newest(page)] \in Runs
      BY <1>1, <3>2, PageInRuns
    <3>. QED  BY <1>3, <1>6, <2>1, <2>3, <3>3 DEF Scan, Steps
  <2>. QED  BY <2>2, <2>3
<1>7. CASE Existing(r)
  <2>. DEFINE fresh == {s \in run.rows \cap Sampled : results[run.ver][s] = None}
  <2>1. [run EXCEPT !.rows = fresh] \in Runs
    BY <1>1 DEF Runs
  <2>2. (IF fresh = {} THEN "save" ELSE "events") \in Steps \ {"post"}
    BY DEF Steps
  <2>3. Goto(r, IF fresh = {} THEN "save" ELSE "events", [run EXCEPT !.rows = fresh])
    BY <1>7 DEF Existing
  <2>4. (IF fresh = {} THEN "save" ELSE "events") \notin {"cache", "judge", "post"}
    OBVIOUS
  <2>. DEFINE pc == IF fresh = {} THEN "save" ELSE "events"
  <2>. HIDE DEF fresh
  <2>5. pc \in Steps /\ pc \notin {"cache", "judge", "post"}
    BY <2>2, <2>4
  <2>6. Goto(r, pc, [run EXCEPT !.rows = fresh])
    BY <2>3
  <2>. HIDE DEF pc
  <2>. QED  BY <1>3, <1>7, <2>1, <2>5, <2>6 DEF Existing
<1>8. CASE Events(r)
  <2>1. [run EXCEPT !.rows = @ \cap HasContent] \in Runs
        /\ [run EXCEPT !.rows = @ \cap HasContent].rows \subseteq HasContent
    BY <1>1 DEF Runs
  <2>2. Goto(r, "cache", [run EXCEPT !.rows = @ \cap HasContent])
    BY <1>8 DEF Events
  <2>. QED  BY <1>3, <1>8, <2>1, <2>2 DEF Events, Steps
<1>9. CASE Cache(r)
  <2>1. PICK hits \in [Contents -> Configs \cup {None}] :
            Goto(r, "judge", [run EXCEPT !.scores = hits])
    BY <1>9 DEF Cache
  <2>2. [run EXCEPT !.scores = hits] \in Runs /\ [run EXCEPT !.scores = hits].rows = run.rows
    BY <1>1 DEF Runs, Outcomes
  <2>3. run.rows \subseteq HasContent
    BY <1>9 DEF Cache, Typed, WellFormed
  <2>. QED  BY <1>3, <1>9, <2>1, <2>2, <2>3 DEF Cache, Steps
<1>10. CASE Judge(r)
  <2>1. PICK h \in Unscored(run), outcome \in {run.config, Err} :
            Goto(r, "judge", [run EXCEPT !.scores[h] = outcome])
    BY <1>10 DEF Judge
  <2>2. [run EXCEPT !.scores[h] = outcome] \in Runs
        /\ [run EXCEPT !.scores[h] = outcome].rows = run.rows
    BY <1>1 DEF Runs, Outcomes
  <2>3. run.rows \subseteq HasContent
    BY <1>10 DEF Judge, Typed, WellFormed
  <2>. QED  BY <1>3, <1>10, <2>1, <2>2, <2>3 DEF Judge, Steps
<1>11. CASE Detect(r)
  <2>1. PICK K \in SUBSET Keys : IF K = {} THEN Goto(r, "idle", Resting)
                                 ELSE Goto(r, "recent", [run EXCEPT !.found = K])
    BY <1>11 DEF Detect
  <2>2. [run EXCEPT !.found = K] \in Runs
    BY <1>1 DEF Runs
  <2>. QED  BY <1>3, <1>11, <2>1, <2>2, RestingTyped DEF Detect, Steps
<1>12. CASE Recent(r)
  <2>. DEFINE seen == {g.key : g \in {x \in signals : x.at > run.now - Window}}
  <2>1. [run EXCEPT !.found = @ \ seen] \in Runs
    BY <1>1 DEF Runs
  <2>. QED  BY <1>3, <1>12, <2>1 DEF Recent, Steps
<1>13. CASE NotifyFailed(r)
  <2>1. [run EXCEPT !.raised = NoSignal] \in Runs
    BY <1>1 DEF Runs
  <2>. QED  BY <1>3, <1>13, <2>1 DEF NotifyFailed, Steps
<1>14. CASE Finish(r)
  BY <1>3, <1>14, RestingTyped DEF Finish, Steps
<1>15. CASE Save(r)
  <2>1. [run EXCEPT !.newest = 0] \in Runs /\ run.newest \in 0 .. MaxTime
    BY <1>1, Constants DEF Runs
  <2>. QED  BY <1>2, <1>15, <2>1 DEF Save, Steps, Typed, TypeOK, Signals
<1>16. CASE Insert(r)
  <2>1. [run EXCEPT !.rows = {}, !.scores = NoScores] \in Runs
    BY <1>1 DEF Runs, NoScores, Outcomes
  <2>2. \A s \in run.rows : run.scores[Content[s]] \in Outcomes
    BY <1>1, <1>16 DEF Runs, Typed, WellFormed, Insert
  <2>3. results' \in [Versions -> [Spans -> Outcomes]]
    BY <1>1, <1>16, <2>2 DEF Insert, Typed, TypeOK
  <2>. QED  BY <1>2, <1>16, <2>1, <2>3 DEF Insert, Steps, Typed, TypeOK, Signals
<1>17. CASE Raise(r)
  <2>1. PICK k \in run.found :
        LET twins  == {g \in signals : g.key = k /\ g.at = clock}
            signal == [key |-> k, at |-> clock, copy |-> Cardinality(twins), notified |-> FALSE]
        IN  /\ signals' = signals \cup {signal}
            /\ Goto(r, "post", [run EXCEPT !.found = @ \ {k}, !.raised = signal])
    BY <1>17 DEF Raise
  <2>. DEFINE twins  == {g \in signals : g.key = k /\ g.at = clock}
             signal == [key |-> k, at |-> clock, copy |-> Cardinality(twins), notified |-> FALSE]
  <2>2. Cardinality(twins) \in Nat
    BY FS_Subset, FS_CardinalityType DEF Typed
  <2>3. signal \in Signals
    BY <1>1, <2>2 DEF Signals, Runs
  <2>4. IsFiniteSet(signals \cup {signal})
    BY FS_AddElement DEF Typed
  <2>5. signals \subseteq Signals
    BY DEF Typed, TypeOK, Signals
  <2>. HIDE DEF signal
  <2>6. [run EXCEPT !.found = @ \ {k}, !.raised = signal] \in Runs
        /\ [run EXCEPT !.found = @ \ {k}, !.raised = signal].raised = signal
    BY <1>1, <2>3 DEF Runs
  <2>7. signals' = signals \cup {signal}
        /\ Goto(r, "post", [run EXCEPT !.found = @ \ {k}, !.raised = signal])
    BY <2>1 DEF signal
  <2>. QED  BY <1>2, <1>17, <2>3, <2>4, <2>5, <2>6, <2>7 DEF Raise, Steps, Typed, TypeOK
<1>18. CASE Notify(r)
  <2>1. run.raised \in Signals
    BY <1>18 DEF Notify, Typed, WellFormed
  <2>2. [run.raised EXCEPT !.notified = TRUE] \in Signals
    BY <2>1 DEF Signals
  <2>3. IsFiniteSet(signals') /\ signals' \subseteq Signals
    <3>1. signals \subseteq Signals /\ IsFiniteSet(signals)
      BY DEF Typed, TypeOK, Signals
    <3>2. IsFiniteSet(signals \ {run.raised})
      BY <3>1, FS_Subset
    <3>. QED  BY <1>18, <2>2, <3>1, <3>2, FS_AddElement DEF Notify
  <2>4. [run EXCEPT !.raised = NoSignal] \in Runs
    BY <1>1 DEF Runs
  <2>. QED  BY <1>2, <1>18, <2>3, <2>4 DEF Notify, Steps, Typed, TypeOK
<1>19. CASE Abort(r)
  <2>1. runner' \in [Runners -> Runs] /\ runner'[r].pc = "idle"
        /\ \A q \in Runners \ {r} : runner'[q] = runner[q]
    BY <1>19, RestingTyped DEF Abort, Typed
  <2>2. HasContent' = HasContent
    BY <1>1 DEF HasContent
  <2>3. \A q \in Runners : WellFormed(runner[q])'
    BY <2>1, <2>2 DEF WellFormed, Typed
  <2>4. aborts' \in 0 .. MaxAborts
    BY <1>19, Constants DEF Abort, Typed, TypeOK
  <2>. QED  BY <1>1, <1>19, <2>1, <2>2, <2>3, <2>4, RunsSuffice DEF Abort, Typed, TypeOK, Signals
<1>. QED
  BY <1>4, <1>5, <1>6, <1>7, <1>8, <1>9, <1>10, <1>11, <1>12, <1>13, <1>14, <1>15, <1>16, <1>17,
     <1>18, <1>19 DEF Run

\* Type correctness.
LEMMA NextTyped == Typed /\ [Next]_vars => Typed'
<1>1. Typed /\ UNCHANGED vars => Typed'
  BY DEF Typed, TypeOK, vars, HasContent, WellFormed
<1>. QED  BY <1>1, OthersTyped, RunTyped DEF Next

\* The model's types, for any constants.
THEOREM TypeCorrect == Spec => []TypeOK
<1>1. Typed => TypeOK
  BY DEF Typed
<1>. QED  BY <1>1, InitTyped, NextTyped, PTL DEF Spec

--------------------------------------------------------------------------------
(***************************************************************************)
(* The watermark and late content.                                         *)
(***************************************************************************)

\* A result is not taken back.
LEMMA ScoredStays ==
    ASSUME Typed, [Next]_vars, NEW s \in Spans, ScoredOnce(s)
    PROVE  ScoredOnce(s)'
<1>1. CASE results' = results
  BY <1>1 DEF ScoredOnce
<1>2. ASSUME NEW r \in Runners, Insert(r) PROVE ScoredOnce(s)'
  <2>1. PICK v \in Versions : results[v][s] # None
    BY DEF ScoredOnce
  <2>2. CASE s \in runner[r].rows /\ v = runner[r].ver
    <3>1. s \in HasContent
      BY <1>2, <2>2 DEF Typed, WellFormed, Insert
    <3>2. Content[s] \in Contents /\ Content[s] \in HashesOf(runner[r].rows)
      BY <2>2, <3>1 DEF Typed, HashesOf
    <3>3. runner[r].scores[Content[s]] # None
      BY <1>2, <3>2 DEF Insert, Unscored
    <3>. QED  BY <1>2, <2>2, <3>3 DEF Insert, ScoredOnce, Typed, TypeOK
  <2>3. CASE ~ (s \in runner[r].rows /\ v = runner[r].ver)
    <3>1. results'[v][s] = results[v][s]
      BY <1>2, <2>3 DEF Insert, Typed, TypeOK
    <3>. QED  BY <2>1, <3>1 DEF ScoredOnce
  <2>. QED  BY <2>2, <2>3
<1>3. results' = results \/ \E r \in Runners : Insert(r)
  BY DEF Next, vars, Run, Tick, LandSpan, LandContent, EditRead, EditWrite, EditInvalid, SetEnabled,
         List, ReadState, Scan, Existing, Events, Cache, Judge, Save, Detect, Recent, Raise, Notify,
         NotifyFailed, Finish, Abort
<1>. QED  BY <1>1, <1>2, <1>3

\* A run that rests leaves nothing behind.
LEMMA RestingCovered == ASSUME clock \in 1 .. MaxTime PROVE Covered(Resting)
BY Constants DEF Covered, Resting, InTime

\* A run that keeps its window, page and rows keeps what they cover.
LEMMA SameCovered ==
    ASSUME Typed, NEW run \in Runs, Covered(run), NEW next \in Runs, NEW pc \in Steps \ {"save"},
           next.since = run.since, next.newest = run.newest, next.now = run.now,
           next.rows = run.rows
    PROVE  Covered([next EXCEPT !.pc = pc])
BY DEF Covered, Runs

\* Time passes, spans land and definitions are edited.
LEMMA OthersCovered ==
    ASSUME IInv,
           \/ Tick \/ \E s \in Spans : LandSpan(s) \/ LandContent(s)
           \/ \E e \in Editors : EditRead(e) \/ EditWrite(e) \/ EditInvalid(e)
           \/ SetEnabled
    PROVE  Times' /\ AllCovered' /\ InTimeNeverPassed'
<1>1. /\ runner' = runner /\ results' = results /\ mark' = mark
      /\ clock \in Int /\ clock' \in Int /\ clock <= clock' /\ mark \in Int
  <2>1. runner' = runner /\ results' = results /\ mark' = mark
    BY DEF Tick, LandSpan, LandContent, EditRead, EditWrite, EditInvalid, SetEnabled
  <2>2. clock \in Int /\ mark \in Int
    BY DEF IInv, Typed, TypeOK
  <2>3. clock' = clock \/ clock' = clock + 1
    BY DEF Tick, LandSpan, LandContent, EditRead, EditWrite, EditInvalid, SetEnabled
  <2>. QED  BY <2>1, <2>2, <2>3
<1>2. \A r \in Runners : runner[r] \in Runs /\ Covered(runner[r])
  BY DEF IInv, Typed, AllCovered
<1>3. \A s \in Spans : Start[s] \in 1 .. MaxTime /\ (ScoredOnce(s)' <=> ScoredOnce(s))
  BY <1>1, Constants DEF ScoredOnce
<1>4. CASE stage' = stage
  <2>1. InTime' = InTime
    BY <1>4 DEF InTime
  <2>2. AllCovered'
    BY <1>1, <1>2, <1>3, <2>1, Constants DEF AllCovered, Covered, Runs, InTime
  <2>3. Times'
    BY <1>1, <1>3, <1>4, Constants DEF Times, IInv
  <2>4. InTimeNeverPassed'
    BY <1>1, <1>3, <1>4, Constants DEF IInv, InTimeNeverPassed
  <2>. QED  BY <2>2, <2>3, <2>4
<1>5. ASSUME NEW s \in Spans, LandSpan(s) PROVE Times' /\ AllCovered' /\ InTimeNeverPassed'
  <2>1. InTime' = InTime /\ clock' = clock /\ stage' = [stage EXCEPT ![s] = "bare"]
    BY <1>5 DEF InTime, LandSpan, IInv, Typed, TypeOK
  <2>2. AllCovered'
    BY <1>1, <1>2, <1>3, <2>1, Constants DEF AllCovered, Covered, Runs, InTime
  <2>3. Times'
    BY <1>1, <1>5, <2>1 DEF Times, IInv, Typed, TypeOK, LandSpan
  <2>4. InTimeNeverPassed'
    BY <1>1, <1>3, <2>1, Constants DEF IInv, InTimeNeverPassed, InTime
  <2>. QED  BY <2>2, <2>3, <2>4
<1>6. ASSUME NEW s \in Spans, LandContent(s) PROVE Times' /\ AllCovered' /\ InTimeNeverPassed'
  <2>1. /\ clock' = clock /\ InTime' \subseteq InTime \cup {s}
        /\ s \in InTime' => Start[s] > clock - Overlap
    BY <1>1, <1>3, <1>6, Constants DEF InTime, LandContent, IInv, Typed, TypeOK
  <2>2. AllCovered'
    <3>. SUFFICES ASSUME NEW r \in Runners PROVE Covered(runner[r])'
      BY DEF AllCovered
    <3>. DEFINE run == runner[r]
    <3>1. run \in Runs /\ Covered(run) /\ run' = run
      BY <1>1, <1>2
    <3>2. run.since \in Int /\ run.newest \in Int /\ run.now \in Int
      BY <3>1 DEF Runs
    <3>. HIDE DEF run
    <3>3. ASSUME NEW q \in InTime'
          PROVE  /\ Start[q] <= run.since => ScoredOnce(q)
                 /\ Start[q] <= run.newest - Overlap => ScoredOnce(q) \/ q \in run.rows
      <4>1. CASE q \in InTime
        BY <3>1, <4>1 DEF Covered
      <4>2. CASE q = s
        BY <1>1, <1>3, <2>1, <3>1, <3>2, <3>3, <4>2, Constants DEF Covered
      <4>. QED  BY <2>1, <3>3, <4>1, <4>2
    <3>4. \A q \in InTime' : q \in Spans
      BY Constants DEF InTime
    <3>5. Covered(run)'
      BY <1>3, <2>1, <3>1, <3>3, <3>4 DEF Covered
    <3>. QED  BY <3>5 DEF run
  <2>3. Times'
    <3>1. stage'[s] = "intime" => Overlap > 0
      <4>1. clock - Start[s] >= 0
        BY <1>1, <1>3, <1>6 DEF Times, IInv, LandContent
      <4>. QED  BY <1>1, <1>3, <1>6, <4>1, Constants DEF LandContent, IInv, Typed, TypeOK
    <3>2. \A q \in Spans \ {s} : stage'[q] = stage[q]
      BY <1>6 DEF LandContent, IInv, Typed, TypeOK
    <3>3. Start[s] <= clock
      BY <1>6 DEF Times, IInv, LandContent
    <3>. QED  BY <1>1, <2>1, <3>1, <3>2, <3>3 DEF Times, IInv
  <2>4. InTimeNeverPassed'
    <3>. SUFFICES ASSUME NEW q \in Sampled, stage'[q] = "intime", mark # 0, Start[q] <= mark - Overlap
                  PROVE  ScoredOnce(q)'
      BY <1>1 DEF InTimeNeverPassed
    <3>1. q \in InTime' /\ q \in Spans
      BY Constants DEF InTime
    <3>2. q # s
      BY <1>1, <1>3, <2>1, <3>1, Constants DEF Times, IInv
    <3>3. q \in InTime
      BY <2>1, <3>1, <3>2
    <3>. QED  BY <1>3, <3>1, <3>3 DEF InTime, IInv, InTimeNeverPassed
  <2>. QED  BY <2>2, <2>3, <2>4
<1>. QED
  BY <1>4, <1>5, <1>6 DEF Tick, EditRead, EditWrite, EditInvalid, SetEnabled

\* A run goes on.
LEMMA RunCovered ==
    ASSUME SeesAll, IInv, NEW r \in Runners, Run(r) \/ Abort(r)
    PROVE  Times' /\ AllCovered' /\ InTimeNeverPassed'
<1>. DEFINE run == runner[r]
<1>1. /\ Typed /\ Covered(run) /\ run \in Runs /\ clock \in 1 .. MaxTime /\ mark \in 0 .. MaxTime
      /\ runner \in [Runners -> Runs]
  BY DEF IInv, Typed, TypeOK, AllCovered
<1>2. clock' = clock /\ stage' = stage
  BY DEF Run, List, ReadState, Scan, Existing, Events, Cache, Judge, Insert, Save, Detect, Recent,
         Raise, Notify, NotifyFailed, Finish, Abort
<1>3. InTime' = InTime /\ \A s \in InTime : s \in Spans /\ Start[s] \in 1 .. MaxTime
  BY <1>2, Constants DEF InTime
<1>4. \A s \in Spans : ScoredOnce(s) => ScoredOnce(s)'
  <2>1. [Next]_vars
    BY DEF Next
  <2>. QED  BY <1>1, <2>1, ScoredStays
<1>5. ASSUME NEW x, Covered(x) PROVE Covered(x)'
  BY <1>2, <1>3, <1>4, <1>5 DEF Covered
\* What is left to show: the run that goes on is covered, and if it saves so is the watermark.
<1>6. ASSUME mark' = mark, Covered(runner[r])', \A q \in Runners \ {r} : runner'[q] = runner[q]
      PROVE  Times' /\ AllCovered' /\ InTimeNeverPassed'
  <2>1. AllCovered'
    <3>. SUFFICES ASSUME NEW q \in Runners PROVE Covered(runner[q])'
      BY DEF AllCovered
    <3>1. CASE q = r
      BY <1>6, <3>1
    <3>2. CASE q # r
      BY <1>5, <1>6, <3>2 DEF IInv, AllCovered
    <3>. QED  BY <3>1, <3>2
  <2>2. Times'
    BY <1>2, <1>6 DEF Times, IInv
  <2>3. InTimeNeverPassed'
    BY <1>2, <1>3, <1>4, <1>6 DEF IInv, InTimeNeverPassed, InTime
  <2>. QED  BY <2>1, <2>2, <2>3
<1>. DEFINE Goes(next, pc) == next \in Runs /\ pc \in Steps /\ Goto(r, pc, next) /\ mark' = mark
<1>7. ASSUME NEW next, NEW pc, Goes(next, pc), Covered([next EXCEPT !.pc = pc])
      PROVE  Times' /\ AllCovered' /\ InTimeNeverPassed'
  <2>1. /\ runner'[r] = [next EXCEPT !.pc = pc]
        /\ \A q \in Runners \ {r} : runner'[q] = runner[q]
    BY <1>1, <1>7, GotoSteps
  <2>2. Covered([next EXCEPT !.pc = pc])'
    BY <1>5, <1>7
  <2>3. Covered(runner[r])'
    BY <2>1, <2>2 DEF Covered
  <2>. QED  BY <1>6, <1>7, <2>1, <2>3
<1>8. ASSUME NEW next, NEW pc, Goes(next, pc), pc # "save", next.since = run.since,
             next.newest = run.newest, next.now = run.now, next.rows = run.rows
      PROVE  Times' /\ AllCovered' /\ InTimeNeverPassed'
  <2>. HIDE DEF run
  <2>1. Covered([next EXCEPT !.pc = pc])
    BY <1>1, <1>8, SameCovered
  <2>. QED  BY <1>7, <1>8, <2>1
<1>9. ASSUME NEW pc, pc = "idle", Goto(r, pc, Resting), mark' = mark
      PROVE  Times' /\ AllCovered' /\ InTimeNeverPassed'
  <2>1. [Resting EXCEPT !.pc = pc] = Resting
    BY <1>9, RestingTyped DEF Resting
  <2>. QED  BY <1>1, <1>7, <1>9, <2>1, RestingCovered, RestingTyped DEF Steps
<1>10. CASE List(r)
  <2>. DEFINE next == [Resting EXCEPT !.ver = def.version, !.config = def.config]
  <2>1. next \in Runs
    BY <1>1, RestingTyped DEF Runs, Typed, TypeOK
  <2>2. Covered([next EXCEPT !.pc = "listed"])
    BY <1>1, RestingCovered DEF Covered, Resting
  <2>. QED  BY <1>7, <1>10, <2>1, <2>2 DEF List, Steps
<1>11. CASE ReadState(r)
  <2>. DEFINE since == IF mark # 0 THEN mark - Overlap ELSE clock - Lookback
              next  == [run EXCEPT !.now = clock, !.since = since]
  <2>0. clock \in 0 .. MaxTime
    BY <1>1
  <2>1. since \in Int /\ (since <= 0 \/ since <= clock - Overlap)
    BY <1>1, Constants DEF SeesAll, IInv, Times
  <2>2. \A s \in InTime : Start[s] <= since => ScoredOnce(s)
    BY <1>1, <1>3, Constants DEF SeesAll, IInv, InTimeNeverPassed, InTime
  <2>3. Goto(r, "scan", next) /\ mark' = mark
    BY <1>11 DEF ReadState
  <2>. HIDE DEF since
  <2>4. /\ next \in Runs /\ next.since = since /\ next.now = clock
        /\ next.newest = run.newest /\ next.rows = run.rows
    <3>1. ASSUME NEW at \in 0 .. MaxTime, NEW from \in Int
          PROVE  /\ [run EXCEPT !.now = at, !.since = from] \in Runs
                 /\ [run EXCEPT !.now = at, !.since = from].since = from
                 /\ [run EXCEPT !.now = at, !.since = from].now = at
                 /\ [run EXCEPT !.now = at, !.since = from].newest = run.newest
                 /\ [run EXCEPT !.now = at, !.since = from].rows = run.rows
      BY <1>1 DEF Runs
    <3>. QED  BY <2>0, <2>1, <3>1, ZenonT(30)
  <2>5. run.newest <= clock
    BY <1>1, Constants DEF Covered, Runs
  <2>. HIDE DEF next
  <2>6. Covered([next EXCEPT !.pc = "scan"])
    BY <1>1, <2>1, <2>2, <2>4, <2>5, Constants DEF Covered, Runs
  <2>. QED  BY <1>7, <2>3, <2>4, <2>6 DEF Steps
<1>12. CASE Scan(r)
  <2>. DEFINE window == {s \in Visible : run.since < Start[s] /\ Start[s] <= run.now}
  <2>1. PICK page \in Pages(window) :
            IF page = {} THEN Goto(r, "detect", [run EXCEPT !.since = 0])
            ELSE Goto(r, "existing", [run EXCEPT !.since = 0, !.rows = page,
                                                 !.newest = Newest(page)])
    BY <1>12 DEF Scan
  <2>2. mark' = mark
    BY <1>12 DEF Scan
  <2>3. CASE page = {}
    <3>. DEFINE next == [run EXCEPT !.since = 0]
    <3>1. /\ next \in Runs /\ next.since = 0 /\ next.now = run.now
          /\ next.newest = run.newest /\ next.rows = run.rows
      BY <1>1 DEF Runs
    <3>2. Goto(r, "detect", next)
      BY <2>1, <2>3
    <3>. HIDE DEF next
    <3>3. Covered([next EXCEPT !.pc = "detect"])
      BY <1>1, <1>3, <3>1, Constants DEF Covered, Runs
    <3>. QED  BY <1>7, <2>2, <3>1, <3>2, <3>3 DEF Steps
  <2>4. CASE page # {}
    <3>1. window \in SUBSET Spans
      BY DEF Visible
    <3>2. /\ page \subseteq window /\ Newest(page) \in 1 .. MaxTime
          /\ \E s \in page : Start[s] = Newest(page)
          /\ \A s \in window \ page : Newest(page) <= Start[s]
      BY <2>4, <3>1, PageIsClosed
    <3>3. Newest(page) <= run.now
      BY <3>2
    <3>. DEFINE next == [run EXCEPT !.since = 0, !.rows = page, !.newest = Newest(page)]
    <3>4. next \in Runs
      BY <1>1, <3>1, <3>2, PageInRuns
    <3>5. next.since = 0 /\ next.now = run.now /\ next.newest = Newest(page) /\ next.rows = page
      BY <1>1 DEF Runs
    <3>6. Goto(r, "existing", next)
      BY <2>1, <2>4
    <3>7. ASSUME NEW s \in InTime, Start[s] <= Newest(page) - Overlap
          PROVE  ScoredOnce(s) \/ s \in page
      <4>1. Overlap > 0 /\ s \in Visible
        BY <1>3 DEF InTime, Visible, IInv, Times
      <4>2. Start[s] < Newest(page) /\ Start[s] <= run.now
        BY <1>1, <1>3, <3>2, <3>3, <3>7, <4>1, Constants DEF Runs
      <4>3. CASE Start[s] <= run.since
        BY <1>1, <4>3 DEF Covered
      <4>4. CASE run.since < Start[s]
        <5>1. s \in window
          BY <4>1, <4>2, <4>4
        <5>. QED  BY <1>3, <3>2, <4>2, <5>1
      <4>. QED  BY <1>1, <1>3, <4>3, <4>4 DEF Runs
    <3>. HIDE DEF next, window
    <3>8. run.now <= clock
      BY <1>1 DEF Covered
    <3>9. Covered([next EXCEPT !.pc = "existing"])
      BY <1>1, <1>3, <3>3, <3>4, <3>5, <3>7, <3>8 DEF Covered, Runs
    <3>. QED  BY <1>7, <2>2, <3>4, <3>6, <3>9 DEF Steps
  <2>. QED  BY <2>3, <2>4
<1>13. CASE Existing(r)
  <2>. DEFINE fresh == {s \in run.rows \cap Sampled : results[run.ver][s] = None}
              next  == [run EXCEPT !.rows = fresh]
              pc    == IF fresh = {} THEN "save" ELSE "events"
  <2>1. Goto(r, pc, next) /\ mark' = mark /\ pc \in Steps
    BY <1>13 DEF Existing, Steps
  <2>2. fresh \subseteq run.rows /\ (pc = "save" => fresh = {})
    OBVIOUS
  <2>3. \A s \in InTime : s \in run.rows => ScoredOnce(s) \/ s \in fresh
    BY <1>1 DEF InTime, ScoredOnce, Runs
  <2>. HIDE DEF fresh, pc
  <2>4. /\ next \in Runs /\ next.since = run.since /\ next.now = run.now
        /\ next.newest = run.newest /\ next.rows = fresh
    BY <1>1, <2>2 DEF Runs
  <2>. HIDE DEF next
  <2>5. Covered([next EXCEPT !.pc = pc])
    BY <1>1, <2>1, <2>2, <2>3, <2>4 DEF Covered, Runs
  <2>. QED  BY <1>7, <2>1, <2>4, <2>5
<1>14. CASE Events(r)
  <2>. DEFINE next == [run EXCEPT !.rows = @ \cap HasContent]
  <2>1. Goto(r, "cache", next) /\ mark' = mark
    BY <1>14 DEF Events
  <2>2. InTime \subseteq HasContent
    BY <1>3 DEF InTime, HasContent
  <2>3. /\ next \in Runs /\ next.since = run.since /\ next.now = run.now
        /\ next.newest = run.newest /\ next.rows = run.rows \cap HasContent
    BY <1>1 DEF Runs
  <2>. HIDE DEF next
  <2>4. Covered([next EXCEPT !.pc = "cache"])
    BY <1>1, <2>2, <2>3 DEF Covered, Runs
  <2>. QED  BY <1>7, <2>1, <2>3, <2>4 DEF Steps
<1>15. CASE Cache(r)
  <2>1. PICK hits \in [Contents -> Configs \cup {None}] :
            Goto(r, "judge", [run EXCEPT !.scores = hits]) /\ mark' = mark
    BY <1>15 DEF Cache
  <2>. DEFINE next == [run EXCEPT !.scores = hits]
  <2>2. /\ next \in Runs /\ next.since = run.since /\ next.now = run.now
        /\ next.newest = run.newest /\ next.rows = run.rows
    BY <1>1 DEF Runs, Outcomes
  <2>. QED  BY <1>8, <2>1, <2>2 DEF Steps
<1>16. CASE Judge(r)
  <2>1. PICK h \in Unscored(run), outcome \in {run.config, Err} :
            Goto(r, "judge", [run EXCEPT !.scores[h] = outcome]) /\ mark' = mark
    BY <1>16 DEF Judge
  <2>. DEFINE next == [run EXCEPT !.scores[h] = outcome]
  <2>2. /\ next \in Runs /\ next.since = run.since /\ next.now = run.now
        /\ next.newest = run.newest /\ next.rows = run.rows
    BY <1>1 DEF Runs, Outcomes
  <2>. QED  BY <1>8, <2>1, <2>2 DEF Steps
<1>17. CASE Insert(r)
  <2>1. PICK next \in Runs : next = [run EXCEPT !.rows = {}, !.scores = NoScores]
    BY <1>1 DEF Runs, NoScores, Outcomes
  <2>2. Goto(r, "save", next) /\ mark' = mark
    BY <1>17, <2>1 DEF Insert
  <2>3. /\ runner'[r] = [next EXCEPT !.pc = "save"]
        /\ \A q \in Runners \ {r} : runner'[q] = runner[q]
    BY <1>1, <2>2, <2>1, GotoSteps DEF Steps
  <2>4. /\ next.since = run.since /\ next.now = run.now
        /\ next.newest = run.newest /\ next.rows = {}
    BY <1>1, <2>1 DEF Runs
  <2>5. \A s \in run.rows : ScoredOnce(s)'
    <3>. SUFFICES ASSUME NEW s \in run.rows PROVE ScoredOnce(s)'
      OBVIOUS
    <3>1. s \in Spans /\ Content[s] \in Contents /\ Content[s] \in HashesOf(run.rows)
      BY <1>1, <1>17 DEF Typed, WellFormed, Insert, HashesOf, HasContent
    <3>2. run.scores[Content[s]] # None
      BY <1>17, <3>1 DEF Insert, Unscored
    <3>3. run.ver \in Versions
      BY <1>1 DEF Runs
    <3>. QED  BY <1>1, <1>17, <3>1, <3>2, <3>3 DEF Insert, ScoredOnce, Typed, TypeOK
  <2>6. Covered([next EXCEPT !.pc = "save"])'
    BY <1>1, <1>2, <1>3, <1>4, <2>1, <2>4, <2>5 DEF Covered, Runs
  <2>7. Covered(runner[r])'
    BY <2>3, <2>6 DEF Covered
  <2>. QED  BY <1>6, <2>2, <2>3, <2>7
<1>18. CASE Save(r)
  <2>1. PICK next \in Runs : next = [run EXCEPT !.newest = 0]
    <3>1. 0 \in 0 .. MaxTime
      BY Constants
    <3>. QED  BY <1>1, <3>1 DEF Runs
  <2>2. Goto(r, "detect", next) /\ mark' = run.newest /\ results' = results
    BY <1>18, <2>1 DEF Save
  <2>3. /\ runner'[r] = [next EXCEPT !.pc = "detect"]
        /\ \A q \in Runners \ {r} : runner'[q] = runner[q]
    <3>1. "detect" \in Steps
      BY DEF Steps
    <3>. QED  BY <1>1, <2>2, <3>1, GotoSteps
  <2>4. next.since = run.since /\ next.now = run.now /\ next.newest = 0 /\ next.rows = run.rows
    BY <1>1, <2>1 DEF Runs
  <2>5. Covered([next EXCEPT !.pc = "detect"])
    BY <1>1, <1>3, <2>1, <2>4, Constants DEF Covered, Runs
  <2>6. Covered(runner[r])'
    BY <1>5, <2>3, <2>5 DEF Covered
  <2>7. AllCovered'
    <3>. SUFFICES ASSUME NEW q \in Runners PROVE Covered(runner[q])'
      BY DEF AllCovered
    <3>1. CASE q = r
      BY <2>6, <3>1
    <3>2. CASE q # r
      BY <1>5, <2>3, <3>2 DEF IInv, AllCovered
    <3>. QED  BY <3>1, <3>2
  <2>8. Times'
    BY <1>1, <1>2, <2>2, Constants DEF Times, IInv, Covered, Runs
  <2>9. InTimeNeverPassed'
    <3>. SUFFICES ASSUME NEW s \in InTime, Start[s] <= run.newest - Overlap PROVE ScoredOnce(s)'
      BY <1>2, <2>2 DEF InTimeNeverPassed, InTime
    <3>1. run.rows = {}
      BY <1>1, <1>18 DEF Covered, Save
    <3>2. ScoredOnce(s)
      BY <1>1, <3>1 DEF Covered
    <3>. QED  BY <1>3, <1>4, <3>2
  <2>. QED  BY <2>7, <2>8, <2>9
<1>19. CASE Detect(r)
  <2>1. PICK K \in SUBSET Keys : IF K = {} THEN Goto(r, "idle", Resting)
                                 ELSE Goto(r, "recent", [run EXCEPT !.found = K])
    BY <1>19 DEF Detect
  <2>. DEFINE next == [run EXCEPT !.found = K]
  <2>2. /\ next \in Runs /\ next.since = run.since /\ next.now = run.now
        /\ next.newest = run.newest /\ next.rows = run.rows
    BY <1>1 DEF Runs
  <2>. QED  BY <1>8, <1>9, <1>19, <2>1, <2>2 DEF Detect, Steps
<1>20. CASE Recent(r)
  <2>. DEFINE seen == {g.key : g \in {x \in signals : x.at > run.now - Window}}
              next == [run EXCEPT !.found = @ \ seen]
  <2>1. /\ next \in Runs /\ next.since = run.since /\ next.now = run.now
        /\ next.newest = run.newest /\ next.rows = run.rows
    BY <1>1 DEF Runs
  <2>. QED  BY <1>8, <1>20, <2>1 DEF Recent, Steps
<1>21. CASE Raise(r)
  <2>1. PICK k, signal :
            /\ k \in run.found
            /\ signals' = signals \cup {signal}
            /\ Goto(r, "post", [run EXCEPT !.found = @ \ {k}, !.raised = signal])
            /\ mark' = mark
            /\ signal = [key |-> k, at |-> clock, notified |-> FALSE,
                         copy |-> Cardinality({g \in signals : g.key = k /\ g.at = clock})]
    BY <1>21 DEF Raise
  <2>. DEFINE next == [run EXCEPT !.found = @ \ {k}, !.raised = signal]
  <2>2. signal \in Signals
    <3>1. Cardinality({g \in signals : g.key = k /\ g.at = clock}) \in Nat
      BY <1>1, FS_Subset, FS_CardinalityType DEF Typed
    <3>. QED  BY <1>1, <2>1, <3>1 DEF Signals, Runs
  <2>3. /\ next \in Runs /\ next.since = run.since /\ next.now = run.now
        /\ next.newest = run.newest /\ next.rows = run.rows
    BY <1>1, <2>2 DEF Runs
  <2>. QED  BY <1>8, <2>1, <2>3 DEF Steps
<1>22. CASE Notify(r) \/ NotifyFailed(r)
  <2>. DEFINE next == [run EXCEPT !.raised = NoSignal]
  <2>1. /\ next \in Runs /\ next.since = run.since /\ next.now = run.now
        /\ next.newest = run.newest /\ next.rows = run.rows
    BY <1>1 DEF Runs
  <2>. QED  BY <1>8, <1>22, <2>1 DEF Notify, NotifyFailed, Steps
<1>23. CASE Finish(r)
  BY <1>9, <1>23 DEF Finish
<1>24. CASE Abort(r)
  <2>1. /\ mark' = mark /\ runner'[r] = Resting
        /\ \A q \in Runners \ {r} : runner'[q] = runner[q]
    BY <1>1, <1>24 DEF Abort
  <2>2. Covered(runner[r])'
    BY <1>1, <1>5, <2>1, RestingCovered DEF Covered
  <2>. QED  BY <1>6, <2>1, <2>2
<1>. QED
  BY <1>10, <1>11, <1>12, <1>13, <1>14, <1>15, <1>16, <1>17, <1>18, <1>19, <1>20, <1>21, <1>22,
     <1>23, <1>24 DEF Run

LEMMA InitCovered == Init => IInv
<1>. SUFFICES ASSUME Init PROVE IInv
  OBVIOUS
<1>1. Typed /\ clock \in 1 .. MaxTime
  BY InitTyped DEF Typed, TypeOK
<1>2. AllCovered
  BY <1>1, RestingCovered DEF Init, AllCovered
<1>3. Times /\ InTimeNeverPassed
  BY Constants DEF Init, Times, InTimeNeverPassed
<1>. QED  BY <1>1, <1>2, <1>3 DEF IInv

LEMMA NextCovered == SeesAll /\ IInv /\ [Next]_vars => IInv'
<1>. SUFFICES ASSUME SeesAll, IInv, [Next]_vars PROVE IInv'
  OBVIOUS
<1>1. Typed'
  BY NextTyped DEF IInv
<1>2. CASE UNCHANGED vars
  BY <1>1, <1>2 DEF IInv, Times, AllCovered, Covered, InTimeNeverPassed, InTime, ScoredOnce, vars
<1>3. CASE Next
  BY <1>1, <1>3, OthersCovered, RunCovered DEF IInv, Next
<1>. QED  BY <1>2, <1>3

\* When the first run looks back far enough to see every span, no watermark passes a
\* sampled span that arrived in time, whatever the number of runners and of edits.
THEOREM NothingInTimePassed == ASSUME SeesAll PROVE Spec => []InTimeNeverPassed
<1>1. IInv /\ [Next]_vars => IInv'
  BY NextCovered
<1>2. IInv => InTimeNeverPassed
  BY DEF IInv
<1>. QED  BY <1>1, <1>2, InitCovered, PTL DEF Spec

--------------------------------------------------------------------------------
(***************************************************************************)
(* One configuration per version.  Two editors may write the same version, *)
(* so the theorem is about one.                                            *)
(***************************************************************************)
OneEditor == \A e, f \in Editors : e = f

\* of[v] is the configuration of version v, from its edit on.
VersionsFix(of) ==
    /\ of \in [Versions -> Configs]
    /\ of[1] = FirstConfig /\ of[def.version] = def.config
    /\ \A e \in Editors : editor[e] \in {0, def.version}
    /\ \A v \in Versions, s \in Spans :
           /\ results[v][s] \in {of[v], Err, None}
           /\ v > def.version => results[v][s] = None
    /\ \A r \in Runners :
           /\ runner[r].ver <= def.version /\ runner[r].config = of[runner[r].ver]
           /\ \A h \in Contents : runner[r].scores[h] \in {runner[r].config, Err, None}

VInv == Typed /\ \E of \in [Versions -> Configs] : VersionsFix(of)

LEMMA OneIsVersion == 1 \in Versions /\ \A v \in Versions : v >= 1 /\ v \in Int
BY Constants DEF Versions

LEMMA VersionsSuffice == VInv => OneConfigPerVersion
<1>. SUFFICES ASSUME VInv, NEW v \in Versions
              PROVE  Cardinality({results[v][s] : s \in Spans} \cap Configs) <= 1
  BY DEF OneConfigPerVersion
<1>. DEFINE used == {results[v][s] : s \in Spans} \cap Configs
<1>1. PICK of \in [Versions -> Configs] : VersionsFix(of)
  BY DEF VInv
<1>2. used \subseteq {of[v]}
  BY <1>1, Constants DEF VersionsFix
<1>3. IsFiniteSet({of[v]}) /\ Cardinality({of[v]}) = 1
  BY FS_Singleton
<1>. HIDE DEF used
<1>4. Cardinality(used) <= 1
  BY <1>2, <1>3, FS_Subset
<1>. QED  BY <1>4 DEF used

LEMMA InitVersions == Init => VInv
<1>. SUFFICES ASSUME Init PROVE VInv
  OBVIOUS
<1>. DEFINE of == [v \in Versions |-> FirstConfig]
<1>1. of \in [Versions -> Configs]
  BY EvalAssumption
<1>2. VersionsFix(of)
  BY <1>1, OneIsVersion, EvalAssumption DEF Init, VersionsFix, Resting, NoScores
<1>. QED  BY <1>1, <1>2, InitTyped DEF VInv

\* A step of the runner, or of anything that neither edits nor writes results.
LEMMA RunVersions ==
    ASSUME VInv, Typed', NEW r \in Runners, Run(r) \/ Abort(r)
    PROVE  VInv'
<1>1. PICK of \in [Versions -> Configs] : VersionsFix(of)
  BY DEF VInv
<1>. DEFINE run == runner[r]
<1>2. /\ def' = def /\ editor' = editor /\ run \in Runs /\ runner \in [Runners -> Runs]
      /\ def.version \in Versions
  BY DEF Run, List, ReadState, Scan, Existing, Events, Cache, Judge, Insert, Save, Detect, Recent,
         Raise, Notify, NotifyFailed, Finish, Abort, VInv, Typed, TypeOK
<1>. DEFINE Fits(next) == /\ next.ver <= def.version /\ next.config = of[next.ver]
                          /\ \A h \in Contents : next.scores[h] \in {next.config, Err, None}
<1>3. ASSUME results' = results, \A q \in Runners \ {r} : runner'[q] = runner[q], Fits(runner'[r])
      PROVE  VInv'
  <2>1. VersionsFix(of)'
    BY <1>1, <1>2, <1>3 DEF VersionsFix
  <2>. QED  BY <1>1, <2>1 DEF VInv
<1>4. Fits(Resting)
  BY <1>1, <1>2, OneIsVersion DEF VersionsFix, Resting, NoScores
<1>5. Fits(run)
  BY <1>1 DEF VersionsFix
<1>6. ASSUME NEW pc, NEW next, Goto(r, pc, next), results' = results, DOMAIN next = DOMAIN run,
             next.ver = run.ver, next.config = run.config, next.scores = run.scores
      PROVE  VInv'
  <2>1. /\ runner'[r] = [next EXCEPT !.pc = pc]
        /\ \A q \in Runners \ {r} : runner'[q] = runner[q]
    BY <1>2, <1>6 DEF Goto
  <2>2. Fits([next EXCEPT !.pc = pc])
    BY <1>2, <1>5, <1>6 DEF Runs
  <2>. QED  BY <1>3, <1>6, <2>1, <2>2
<1>7. CASE /\ results' = results /\ runner'[r] = Resting
           /\ \A q \in Runners \ {r} : runner'[q] = runner[q]
  BY <1>3, <1>4, <1>7
<1>8. CASE List(r)
  <2>. DEFINE next == [Resting EXCEPT !.ver = def.version, !.config = def.config]
  <2>1. /\ runner'[r] = [next EXCEPT !.pc = "listed"]
        /\ \A q \in Runners \ {r} : runner'[q] = runner[q]
    BY <1>2, <1>8 DEF List, Goto
  <2>2. def.version \in Int
    BY <1>2, OneIsVersion
  <2>3. Fits([next EXCEPT !.pc = "listed"])
    BY <1>1, <2>2 DEF VersionsFix, Resting, NoScores
  <2>. QED  BY <1>3, <1>8, <2>1, <2>3 DEF List
<1>9. CASE ReadState(r)
  BY <1>2, <1>6, <1>9 DEF ReadState, Runs
<1>10. CASE Scan(r)
  <2>1. PICK next, pc : Goto(r, pc, next) /\ results' = results
                        /\ \E page : next \in {[run EXCEPT !.since = 0],
                              [run EXCEPT !.since = 0, !.rows = page, !.newest = Newest(page)]}
    BY <1>10 DEF Scan
  <2>2. /\ DOMAIN next = DOMAIN run
        /\ next.ver = run.ver /\ next.config = run.config /\ next.scores = run.scores
    BY <1>2, <2>1 DEF Runs
  <2>. QED  BY <1>6, <2>1, <2>2
<1>11. CASE Existing(r)
  BY <1>2, <1>6, <1>11 DEF Existing, Runs
<1>12. CASE Events(r)
  BY <1>2, <1>6, <1>12 DEF Events, Runs
<1>13. CASE Cache(r)
  <2>1. PICK hits \in [Contents -> Configs \cup {None}] :
            /\ \A h \in Contents : hits[h] \in Scored(run.ver, h) \cup {None}
            /\ Goto(r, "judge", [run EXCEPT !.scores = hits]) /\ results' = results
    BY <1>13 DEF Cache
  <2>2. \A h \in Contents : Scored(run.ver, h) \subseteq {run.config}
    <3>1. run.ver \in Versions
      BY <1>2 DEF Runs
    <3>. QED  BY <1>1, <3>1, Constants DEF Scored, VersionsFix
  <2>3. /\ runner'[r] = [[run EXCEPT !.scores = hits] EXCEPT !.pc = "judge"]
        /\ \A q \in Runners \ {r} : runner'[q] = runner[q]
    BY <1>2, <2>1 DEF Goto
  <2>4. Fits(runner'[r])
    BY <1>2, <1>5, <2>1, <2>2, <2>3 DEF Runs
  <2>. QED  BY <1>3, <2>1, <2>3, <2>4
<1>14. CASE Judge(r)
  <2>1. PICK h \in Unscored(run), outcome \in {run.config, Err} :
            Goto(r, "judge", [run EXCEPT !.scores[h] = outcome]) /\ results' = results
    BY <1>14 DEF Judge
  <2>2. /\ runner'[r] = [[run EXCEPT !.scores[h] = outcome] EXCEPT !.pc = "judge"]
        /\ \A q \in Runners \ {r} : runner'[q] = runner[q]
    BY <1>2, <2>1 DEF Goto
  <2>3. Fits(runner'[r])
    BY <1>2, <1>5, <2>1, <2>2 DEF Runs
  <2>. QED  BY <1>3, <2>1, <2>2, <2>3
<1>15. CASE Insert(r)
  <2>1. /\ run.ver \in Versions /\ results \in [Versions -> [Spans -> Outcomes]]
        /\ run.scores \in [Contents -> Outcomes]
    BY <1>2 DEF Runs, VInv, Typed, TypeOK
  <2>2. /\ runner'[r] = [[run EXCEPT !.rows = {}, !.scores = NoScores] EXCEPT !.pc = "save"]
        /\ \A q \in Runners \ {r} : runner'[q] = runner[q]
    BY <1>2, <1>15 DEF Insert, Goto
  <2>3. Fits(runner'[r])
    BY <1>2, <1>5, <2>2 DEF Runs, NoScores
  <2>4. \A s \in run.rows : run.scores[Content[s]] \in {of[run.ver], Err, None}
    <3>1. \A s \in run.rows : Content[s] \in Contents
      BY <1>15 DEF Insert, VInv, Typed, WellFormed
    <3>. QED  BY <1>5, <3>1
  <2>5. ASSUME NEW v \in Versions, NEW s \in Spans
        PROVE  /\ results'[v][s] \in {of[v], Err, None}
               /\ v > def.version => results'[v][s] = None
    <3>1. CASE v = run.ver /\ s \in run.rows
      <4>1. results'[v][s] = run.scores[Content[s]]
        BY <1>15, <2>1, <3>1 DEF Insert
      <4>2. ~ (v > def.version)
        BY <1>2, <1>5, <3>1, OneIsVersion
      <4>. QED  BY <2>4, <3>1, <4>1, <4>2
    <3>2. CASE ~ (v = run.ver /\ s \in run.rows)
      <4>1. results'[v][s] = results[v][s]
        BY <1>15, <2>1, <3>2 DEF Insert
      <4>. QED  BY <1>1, <4>1 DEF VersionsFix
    <3>. QED  BY <3>1, <3>2
  <2>6. VersionsFix(of)'
    BY <1>1, <1>2, <2>2, <2>3, <2>5 DEF VersionsFix
  <2>. QED  BY <2>6 DEF VInv
<1>16. CASE Save(r)
  BY <1>2, <1>6, <1>16 DEF Save, Runs
<1>17. CASE Detect(r)
  <2>1. CASE Goto(r, "idle", Resting)
    <3>1. [Resting EXCEPT !.pc = "idle"] = Resting
      BY DEF Resting
    <3>. QED  BY <1>2, <1>7, <1>17, <2>1, <3>1 DEF Detect, Goto
  <2>2. ASSUME NEW K, Goto(r, "recent", [run EXCEPT !.found = K]) PROVE VInv'
    BY <1>2, <1>6, <1>17, <2>2 DEF Detect, Runs
  <2>. QED  BY <1>17, <2>1, <2>2 DEF Detect
<1>18. CASE Recent(r)
  BY <1>2, <1>6, <1>18 DEF Recent, Runs
<1>19. CASE Raise(r)
  <2>1. PICK k, signal : Goto(r, "post", [run EXCEPT !.found = @ \ {k}, !.raised = signal])
                         /\ results' = results
    BY <1>19 DEF Raise
  <2>. QED  BY <1>2, <1>6, <2>1 DEF Runs
<1>20. CASE Notify(r) \/ NotifyFailed(r)
  BY <1>2, <1>6, <1>20 DEF Notify, NotifyFailed, Runs
<1>21. CASE Finish(r) \/ Abort(r)
  <2>1. [Resting EXCEPT !.pc = "idle"] = Resting
    BY DEF Resting
  <2>. QED  BY <1>2, <1>7, <1>21, <2>1 DEF Finish, Abort, Goto
<1>. QED
  BY <1>8, <1>9, <1>10, <1>11, <1>12, <1>13, <1>14, <1>15, <1>16, <1>17, <1>18, <1>19, <1>20, <1>21
  DEF Run

LEMMA NextVersions == OneEditor /\ VInv /\ Typed' /\ [Next]_vars => VInv'
<1>. SUFFICES ASSUME OneEditor, VInv, Typed', [Next]_vars PROVE VInv'
  OBVIOUS
<1>1. PICK of \in [Versions -> Configs] : VersionsFix(of)
  BY DEF VInv
<1>2. CASE UNCHANGED <<def, editor, results, runner>>
  <2>1. VersionsFix(of)'
    BY <1>1, <1>2 DEF VersionsFix
  <2>. QED  BY <2>1 DEF VInv
<1>3. ASSUME NEW e \in Editors, EditRead(e) \/ EditInvalid(e) PROVE VInv'
  <2>1. \A f \in Editors : editor'[f] \in {0, def.version}
    BY <1>1, <1>3 DEF VersionsFix, EditRead, EditInvalid, VInv, Typed, TypeOK
  <2>2. UNCHANGED <<def, results, runner>>
    BY <1>3 DEF EditRead, EditInvalid
  <2>3. VersionsFix(of)'
    BY <1>1, <2>1, <2>2 DEF VersionsFix
  <2>. QED  BY <2>3 DEF VInv
<1>4. ASSUME NEW e \in Editors, EditWrite(e) PROVE VInv'
  <2>. DEFINE new == def.version + 1
  <2>1. PICK g \in Configs : def' = [def EXCEPT !.config = g, !.version = editor[e] + 1]
    BY <1>4 DEF EditWrite
  <2>2. /\ editor[e] = def.version /\ UNCHANGED <<results, runner>>
        /\ \A f \in Editors : editor'[f] = 0
    BY <1>1, <1>4 DEF VersionsFix, EditWrite, OneEditor, VInv, Typed, TypeOK
  <2>3. /\ def \in [version : Versions, config : Configs, enabled : BOOLEAN]
        /\ def' \in [version : Versions, config : Configs, enabled : BOOLEAN]
    BY DEF VInv, Typed, TypeOK
  <2>4. /\ def'.version = new /\ def'.config = g /\ new \in Versions
        /\ def.version \in Versions /\ new # 1 /\ def.version < new /\ def.version \in Int
    <3>1. def'.version = new /\ def'.config = g
      BY <2>1, <2>2, <2>3
    <3>2. def.version \in Versions /\ def'.version \in Versions
      BY <2>3
    <3>3. def.version \in Int /\ def.version >= 1
      BY <3>2, OneIsVersion
    <3>. QED  BY <3>1, <3>2, <3>3
  <2>. HIDE DEF new
  <2>5. PICK next \in [Versions -> Configs] : next = [of EXCEPT ![new] = g]
    OBVIOUS
  <2>6. next[new] = g /\ \A v \in Versions : v # new => next[v] = of[v]
    BY <2>4, <2>5
  <2>7. \A v \in Versions : v <= def.version => v # new /\ ~ (v > new)
    BY <2>4, OneIsVersion DEF new
  <2>8. \A v \in Versions : v >= new => v > def.version
    BY <2>4, OneIsVersion DEF new
  <2>9. \A r \in Runners :
            /\ runner[r].ver <= def'.version /\ runner[r].config = next[runner[r].ver]
    <3>1. \A r \in Runners : runner[r].ver \in Versions /\ runner[r].ver <= def.version
      BY <1>1 DEF VersionsFix, VInv, Typed, TypeOK
    <3>2. \A v \in Versions : v <= def.version => v <= new
      BY <2>4, OneIsVersion DEF new
    <3>. QED  BY <1>1, <2>4, <2>6, <2>7, <3>1, <3>2 DEF VersionsFix
  <2>10. \A v \in Versions, s \in Spans :
            /\ results[v][s] \in {next[v], Err, None}
            /\ v > def'.version => results[v][s] = None
    <3>1. \A s \in Spans : results[new][s] = None
      BY <1>1, <2>4, <2>8, OneIsVersion DEF VersionsFix
    <3>2. \A v \in Versions : v > new => v >= new
      BY <2>4, OneIsVersion
    <3>. QED  BY <1>1, <2>4, <2>6, <2>8, <3>1, <3>2 DEF VersionsFix
  <2>11. next[1] = FirstConfig
    BY <1>1, <2>4, <2>6, OneIsVersion DEF VersionsFix
  <2>12. VersionsFix(next)'
    BY <1>1, <2>2, <2>4, <2>6, <2>9, <2>10, <2>11 DEF VersionsFix
  <2>. QED  BY <2>12 DEF VInv
<1>5. CASE SetEnabled
  <2>1. def'.version = def.version /\ def'.config = def.config
    BY <1>5 DEF SetEnabled, VInv, Typed, TypeOK
  <2>2. VersionsFix(of)'
    BY <1>1, <1>5, <2>1 DEF VersionsFix, SetEnabled
  <2>. QED  BY <2>2 DEF VInv
<1>6. ASSUME NEW r \in Runners, Run(r) \/ Abort(r) PROVE VInv'
  BY <1>6, RunVersions
<1>. QED
  BY <1>2, <1>3, <1>4, <1>5, <1>6 DEF Next, vars, Tick, LandSpan, LandContent

\* With one edit at a time, all results of a version come from one configuration, though
\* edits land during runs and runs reuse the results of earlier ones.
THEOREM VersionsAreConfigs == ASSUME OneEditor PROVE Spec => []OneConfigPerVersion
<1>1. VInv /\ [Next]_vars => VInv'
  BY NextVersions, NextTyped DEF VInv
<1>. QED  BY <1>1, InitVersions, VersionsSuffice, PTL DEF Spec

--------------------------------------------------------------------------------
(***************************************************************************)
(* Signals a window apart.  The signals of a window are read before they   *)
(* are raised, so the theorem is about one runner.                         *)
(***************************************************************************)
OneRunner == \A q, r \in Runners : q = r

\* What is about to be raised was not raised in this window.
Clear(run) ==
    /\ run.now <= clock
    /\ run.pc \in {"raise", "post"} =>
           \A k \in run.found : \A x \in signals : x.key = k => x.at <= run.now - Window
    /\ run.pc = "post" => run.raised \in signals

SInv ==
    /\ Typed /\ SignalsSpaced
    /\ \A x \in signals : x.at <= clock
    /\ \A r \in Runners : Clear(runner[r])

LEMMA InitSpaced == Init => SInv
<1>. SUFFICES ASSUME Init PROVE SInv
  OBVIOUS
<1>1. \A r \in Runners : Clear(runner[r])
  BY Constants DEF Init, Clear, Resting
<1>. QED  BY <1>1, InitTyped DEF Init, SInv, SignalsSpaced

\* Steps that leave the signals alone.
LEMMA QuietSpaced ==
    ASSUME OneRunner, SInv, Typed', signals' = signals, clock' \in {clock, clock + 1},
           \A r \in Runners : Clear(runner'[r])
    PROVE  SInv'
<1>1. clock \in Int /\ signals \subseteq Signals
  BY DEF SInv, Typed, TypeOK, Signals
<1>2. \A x \in signals : x.at \in Int
  BY <1>1 DEF Signals
<1>3. SignalsSpaced'
  BY DEF SInv, SignalsSpaced
<1>4. \A x \in signals' : x.at <= clock'
  BY <1>1, <1>2 DEF SInv
<1>5. ASSUME NEW r \in Runners PROVE Clear(runner[r])'
  <2>1. runner'[r].now \in Int
    BY DEF Typed, TypeOK
  <2>. QED  BY <1>1, <2>1 DEF Clear
<1>. QED  BY <1>3, <1>4, <1>5 DEF SInv

LEMMA NextSpaced == OneRunner /\ SInv /\ Typed' /\ [Next]_vars => SInv'
<1>. SUFFICES ASSUME OneRunner, SInv, Typed', [Next]_vars PROVE SInv'
  OBVIOUS
<1>1. /\ Typed /\ clock \in 1 .. MaxTime /\ runner \in [Runners -> Runs] /\ Window \in Nat
      /\ signals \subseteq Signals /\ \A x \in signals : x.at \in Int /\ x.at <= clock
  BY Constants DEF SInv, Typed, TypeOK, Signals
<1>2. CASE UNCHANGED <<signals, runner>> /\ clock' \in {clock, clock + 1}
  BY <1>2, QuietSpaced DEF SInv
<1>3. ASSUME NEW r \in Runners, Run(r) \/ Abort(r) PROVE SInv'
  <2>. DEFINE run == runner[r]
  <2>1. clock' = clock /\ run \in Runs /\ Clear(run) /\ run.now \in Int
    <3>1. clock' = clock
      BY <1>3 DEF Run, List, ReadState, Scan, Existing, Events, Cache, Judge, Insert, Save, Detect,
             Recent, Raise, Notify, NotifyFailed, Finish, Abort
    <3>. QED  BY <1>1, <3>1 DEF SInv, Runs
  <2>2. ASSUME signals' = signals, Clear(runner'[r]) PROVE SInv'
    <3>1. \A q \in Runners : Clear(runner'[q])
      BY <2>2 DEF OneRunner
    <3>. QED  BY <2>1, <2>2, <3>1, QuietSpaced
  <2>3. CASE signals' = signals /\ runner'[r].pc \notin {"raise", "post"}
             /\ runner'[r].now \in {run.now, clock, 0}
    BY <1>1, <2>1, <2>2, <2>3 DEF Clear
  <2>4. CASE Recent(r)
    <3>. DEFINE seen == {g.key : g \in {x \in signals : x.at > run.now - Window}}
    <3>1. /\ signals' = signals /\ runner'[r].found = run.found \ seen
          /\ runner'[r].pc = "raise" /\ runner'[r].now = run.now
      BY <1>1, <2>1, <2>4 DEF Recent, Goto, Runs
    <3>2. \A k \in run.found \ seen : \A x \in signals : x.key = k => x.at <= run.now - Window
      BY <1>1, <2>1
    <3>. QED  BY <2>1, <2>2, <3>1, <3>2 DEF Clear
  <2>5. CASE Raise(r)
    <3>1. PICK k, signal :
            /\ k \in run.found
            /\ signals' = signals \cup {signal}
            /\ Goto(r, "post", [run EXCEPT !.found = @ \ {k}, !.raised = signal])
            /\ signal.key = k /\ signal.at = clock
      <4>1. PICK k, signal :
            /\ k \in run.found
            /\ signals' = signals \cup {signal}
            /\ Goto(r, "post", [run EXCEPT !.found = @ \ {k}, !.raised = signal])
            /\ signal = [key |-> k, at |-> clock, notified |-> FALSE,
                         copy |-> Cardinality({g \in signals : g.key = k /\ g.at = clock})]
        BY <2>5 DEF Raise
      <4>2. signal.key = k /\ signal.at = clock
        BY <4>1
      <4>. QED  BY <4>1, <4>2
    <3>2. /\ runner'[r].found = run.found \ {k} /\ runner'[r].raised = signal
          /\ runner'[r].now = run.now
      BY <1>1, <2>1, <3>1 DEF Goto, Runs
    <3>3. \A x \in signals : x.key = k => x.at <= clock - Window
      BY <1>1, <2>1, <2>5, <3>1 DEF Clear, Raise
    <3>4. SignalsSpaced'
      <4>. SUFFICES ASSUME NEW x \in signals', NEW y \in signals', x.key = y.key, x.at <= y.at,
                           x # y
                    PROVE  y.at - x.at >= Window
        BY DEF SignalsSpaced
      <4>1. CASE x \in signals /\ y \in signals
        BY <4>1 DEF SInv, SignalsSpaced
      <4>2. CASE y = signal /\ x \in signals
        BY <1>1, <3>1, <3>3, <4>2
      <4>3. CASE x = signal /\ y \in signals
        BY <1>1, <3>1, <3>3, <4>3
      <4>. QED  BY <3>1, <4>1, <4>2, <4>3
    <3>5. \A x \in signals' : x.at <= clock'
      BY <1>1, <2>1, <3>1
    <3>6. ASSUME NEW j \in run.found \ {k}, NEW x \in signals', x.key = j
          PROVE  x.at <= run.now - Window
      <4>1. x \in signals
        BY <3>1, <3>6
      <4>. QED  BY <2>1, <2>5, <3>6, <4>1 DEF Clear, Raise
    <3>7. \A q \in Runners : Clear(runner[q])'
      BY <2>1, <3>1, <3>2, <3>6 DEF Clear, OneRunner
    <3>. QED  BY <3>4, <3>5, <3>7 DEF SInv
  <2>6. CASE Notify(r)
    <3>. DEFINE known == [run.raised EXCEPT !.notified = TRUE]
    <3>1. /\ signals' = (signals \ {run.raised}) \cup {known} /\ run.raised \in signals
          /\ runner'[r].found = run.found /\ runner'[r].now = run.now /\ runner'[r].pc = "raise"
      BY <1>1, <2>1, <2>6 DEF Notify, Clear, Goto, Runs
    <3>2. known.key = run.raised.key /\ known.at = run.raised.at
      BY <1>1, <3>1 DEF Signals
    <3>. HIDE DEF known
    <3>3. SignalsSpaced'
      <4>. SUFFICES ASSUME NEW x \in signals', NEW y \in signals', x.key = y.key, x.at <= y.at,
                           x # y
                    PROVE  y.at - x.at >= Window
        BY DEF SignalsSpaced
      <4>1. CASE x \in signals /\ y \in signals
        BY <4>1 DEF SInv, SignalsSpaced
      <4>2. CASE y = known /\ x \in signals \ {run.raised}
        BY <3>1, <3>2, <4>2 DEF SInv, SignalsSpaced
      <4>3. CASE x = known /\ y \in signals \ {run.raised}
        BY <3>1, <3>2, <4>3 DEF SInv, SignalsSpaced
      <4>. QED  BY <3>1, <4>1, <4>2, <4>3
    <3>4. \A x \in signals' : x.at <= clock'
      BY <1>1, <2>1, <3>1, <3>2
    <3>5. \A k \in run.found : \A x \in signals' : x.key = k => x.at <= run.now - Window
      BY <2>1, <2>6, <3>1, <3>2 DEF Clear, Notify
    <3>6. \A q \in Runners : Clear(runner[q])'
      BY <2>1, <3>1, <3>5 DEF Clear, OneRunner
    <3>. QED  BY <3>3, <3>4, <3>6 DEF SInv
  <2>7. CASE NotifyFailed(r)
    <3>1. /\ signals' = signals /\ runner'[r].found = run.found
          /\ runner'[r].pc = "raise" /\ runner'[r].now = run.now /\ run.pc = "post"
      BY <1>1, <2>1, <2>7 DEF NotifyFailed, Goto, Runs
    <3>. QED  BY <2>1, <2>2, <3>1 DEF Clear
  <2>8. CASE List(r) \/ ReadState(r) \/ Existing(r) \/ Events(r) \/ Insert(r) \/ Save(r)
    <3>1. CASE List(r)
      BY <1>1, <2>1, <2>3, <3>1 DEF List, Goto, Resting
    <3>2. CASE ReadState(r)
      BY <1>1, <2>1, <2>3, <3>2 DEF ReadState, Goto, Runs
    <3>3. CASE Existing(r)
      BY <1>1, <2>1, <2>3, <3>3 DEF Existing, Goto, Runs
    <3>4. CASE Events(r) \/ Save(r)
      <4>1. PICK pc, next :
                /\ pc \in {"cache", "detect"} /\ Goto(r, pc, next) /\ signals' = signals
                /\ next \in {[run EXCEPT !.rows = @ \cap HasContent], [run EXCEPT !.newest = 0]}
        BY <3>4 DEF Events, Save
      <4>2. DOMAIN next = DOMAIN run /\ next.now = run.now
        BY <2>1, <4>1 DEF Runs
      <4>3. runner'[r].pc \in {"cache", "detect"} /\ runner'[r].now = run.now
        BY <1>1, <2>1, <4>1, <4>2 DEF Goto, Runs
      <4>. QED  BY <2>3, <4>1, <4>3
    <3>5. CASE Insert(r)
      <4>1. /\ signals' = signals
            /\ runner'[r] = [[run EXCEPT !.rows = {}, !.scores = NoScores] EXCEPT !.pc = "save"]
        BY <1>1, <3>5 DEF Insert, Goto
      <4>2. runner'[r].pc = "save" /\ runner'[r].now = run.now
        BY <2>1, <4>1 DEF Runs
      <4>. QED  BY <2>3, <4>1, <4>2
    <3>. QED  BY <2>8, <3>1, <3>2, <3>3, <3>4, <3>5
  <2>9. CASE Scan(r) \/ Cache(r) \/ Judge(r) \/ Detect(r)
    <3>1. CASE Scan(r)
      <4>1. ASSUME NEW pc \in {"detect", "existing"}, NEW next, Goto(r, pc, next),
                   DOMAIN next = DOMAIN run, next.now = run.now
            PROVE  SInv'
        <5>1. runner'[r].pc = pc /\ runner'[r].now = run.now
          BY <1>1, <2>1, <4>1 DEF Goto, Runs
        <5>. QED  BY <2>3, <3>1, <5>1 DEF Scan
      <4>2. ASSUME Goto(r, "detect", [run EXCEPT !.since = 0]) PROVE SInv'
        BY <2>1, <4>1, <4>2 DEF Runs
      <4>3. ASSUME NEW page, Goto(r, "existing", [run EXCEPT !.since = 0, !.rows = page,
                                                             !.newest = Newest(page)])
            PROVE  SInv'
        BY <2>1, <4>1, <4>3 DEF Runs
      <4>. QED  BY <3>1, <4>2, <4>3 DEF Scan
    <3>2. CASE Cache(r) \/ Judge(r)
      <4>1. PICK next : /\ Goto(r, "judge", next) /\ signals' = signals
                        /\ \E scores : next = [run EXCEPT !.scores = scores]
        BY <2>1, <3>2 DEF Cache, Judge, Runs
      <4>2. DOMAIN next = DOMAIN run /\ next.now = run.now
        BY <2>1, <4>1 DEF Runs
      <4>3. runner'[r].pc = "judge" /\ runner'[r].now = run.now
        BY <1>1, <2>1, <4>1, <4>2 DEF Goto, Runs
      <4>. QED  BY <2>3, <4>1, <4>3
    <3>3. CASE Detect(r)
      <4>1. PICK pc, next :
                /\ pc \in {"idle", "recent"} /\ Goto(r, pc, next) /\ signals' = signals
                /\ \/ next = Resting
                   \/ \E K : next = [run EXCEPT !.found = K]
        BY <3>3 DEF Detect
      <4>2. DOMAIN next = DOMAIN run /\ next.now \in {0, run.now}
        BY <2>1, <4>1 DEF Runs, Resting
      <4>3. runner'[r].pc \in {"idle", "recent"} /\ runner'[r].now \in {0, run.now}
        BY <1>1, <2>1, <4>1, <4>2 DEF Goto, Runs
      <4>. QED  BY <2>3, <4>1, <4>3
    <3>. QED  BY <2>9, <3>1, <3>2, <3>3
  <2>10. CASE Finish(r) \/ Abort(r)
    BY <1>1, <2>1, <2>3, <2>10 DEF Finish, Abort, Goto, Resting
  <2>. QED  BY <1>3, <2>4, <2>5, <2>6, <2>7, <2>8, <2>9, <2>10 DEF Run
<1>. QED
  BY <1>2, <1>3 DEF Next, vars, Tick, LandSpan, LandContent, EditRead, EditWrite, EditInvalid,
                    SetEnabled

\* With one runner, signals for one variant and metric are a window apart, although runs
\* are aborted between raising a signal and announcing it.
THEOREM SignalsApart == ASSUME OneRunner PROVE Spec => []SignalsSpaced
<1>1. SInv /\ [Next]_vars => SInv'
  BY NextSpaced, NextTyped DEF SInv
<1>2. SInv => SignalsSpaced
  BY DEF SInv
<1>. QED  BY <1>1, <1>2, InitSpaced, PTL DEF Spec

--------------------------------------------------------------------------------
(***************************************************************************)
(* Runs only add.  Two runners may score the same span, and a page that is *)
(* cut may end below the watermark, so the theorem is about one runner     *)
(* whose pages hold every span.                                            *)
(***************************************************************************)
WholePages == IsFiniteSet(Spans) /\ Cardinality(Spans) <= BatchLimit

Scoring == {"events", "cache", "judge"}
Paged   == {"existing", "events", "cache", "judge", "save"}

\* Some visible span starts at t.
Starts(t) == \E s \in Visible : Start[s] = t

Adds(run) ==
    /\ run.now <= clock
    /\ run.pc = "scan" => mark <= run.now /\ (mark # 0 => run.since = mark - Overlap)
    /\ run.pc \in Paged => mark <= run.newest /\ run.newest <= run.now /\ Starts(run.newest)
    /\ run.pc \in Scoring => \A s \in run.rows : results[run.ver][s] = None
    /\ run.pc = "judge" => \A h \in Unscored(run) : Scored(run.ver, h) = {}

AInv ==
    /\ Typed
    /\ mark <= clock /\ (mark # 0 => Starts(mark))
    /\ \A r \in Runners : Adds(runner[r])

LEMMA InitAdds == Init => AInv
<1>. SUFFICES ASSUME Init PROVE AInv
  OBVIOUS
<1>1. \A r \in Runners : Adds(runner[r])
  BY Constants DEF Init, Adds, Resting, Paged, Scoring
<1>2. mark <= clock /\ mark = 0
  BY DEF Init
<1>. QED  BY <1>1, <1>2, InitTyped DEF AInv

\* A window that holds the watermark's span ends no earlier than the watermark.
LEMMA NewestNotOlder ==
    ASSUME WholePages, AInv, NEW run \in Runs, Adds(run), run.pc = "scan", NEW window,
           window = {s \in Visible : run.since < Start[s] /\ Start[s] <= run.now},
           NEW page \in Pages(window), page # {}
    PROVE  mark <= Newest(page) /\ Newest(page) <= run.now /\ Starts(Newest(page))
<1>1. window \in SUBSET Spans /\ mark \in Nat
  BY Constants DEF Visible, AInv, Typed, TypeOK
<1>2. page = window
  <2>1. Cardinality(window) <= Cardinality(Spans)
    BY <1>1, FS_Subset DEF WholePages
  <2>2. IsFiniteSet(window) /\ Cardinality(window) \in Nat /\ Cardinality(Spans) \in Nat
    BY <1>1, FS_Subset, FS_CardinalityType DEF WholePages
  <2>3. Cardinality(window) <= BatchLimit
    BY <2>1, <2>2, Constants DEF WholePages
  <2>. QED  BY <2>3 DEF Pages
<1>3. PICK s \in page : Start[s] = Newest(page)
  BY <1>1, PageIsClosed
<1>4. \A q \in page : Start[q] <= Newest(page)
  BY <1>1, PageIsClosed
<1>5. /\ s \in Visible /\ run.since < Newest(page) /\ Newest(page) <= run.now
      /\ Newest(page) \in Nat
  BY <1>1, <1>2, <1>3, Constants
<1>6. mark <= Newest(page)
  <2>1. CASE mark = 0
    BY <1>1, <1>5, <2>1
  <2>2. CASE mark # 0
    <3>1. PICK m \in Visible : Start[m] = mark
      BY <2>2 DEF AInv, Starts
    <3>2. run.since = mark - Overlap /\ mark <= run.now
      BY <2>2 DEF Adds
    <3>3. CASE Overlap = 0
      BY <1>1, <1>5, <3>2, <3>3
    <3>4. CASE Overlap # 0
      <4>1. run.since < mark
        BY <1>1, <3>2, <3>4, Constants
      <4>2. m \in window
        BY <3>1, <3>2, <4>1
      <4>. QED  BY <1>2, <1>4, <3>1, <4>2
    <3>. QED  BY <3>3, <3>4
  <2>. QED  BY <2>1, <2>2
<1>. QED  BY <1>3, <1>5, <1>6 DEF Starts

\* Spans land and time passes; what is visible stays so.
LEMMA OthersAdd ==
    ASSUME AInv, Typed',
           \/ Tick \/ \E s \in Spans : LandSpan(s) \/ LandContent(s)
           \/ \E e \in Editors : EditRead(e) \/ EditWrite(e) \/ EditInvalid(e)
           \/ SetEnabled \/ UNCHANGED vars
    PROVE  AInv' /\ UNCHANGED <<results, mark, runner>>
<1>1. UNCHANGED <<results, mark, runner>> /\ clock' \in {clock, clock + 1}
  BY DEF Tick, LandSpan, LandContent, EditRead, EditWrite, EditInvalid, SetEnabled, vars
<1>2. Visible \subseteq Visible'
  <2>1. CASE stage' = stage
    BY <2>1 DEF Visible
  <2>2. ASSUME NEW s \in Spans, LandSpan(s) \/ LandContent(s) PROVE Visible \subseteq Visible'
    BY <2>2 DEF Visible, LandSpan, LandContent, AInv, Typed, TypeOK
  <2>. QED  BY <2>1, <2>2 DEF Tick, EditRead, EditWrite, EditInvalid, SetEnabled, vars
<1>3. \A t : Starts(t) => Starts(t)'
  BY <1>2 DEF Starts
<1>4. clock \in Int /\ mark \in Int
  BY DEF AInv, Typed, TypeOK
<1>5. ASSUME NEW r \in Runners PROVE Adds(runner[r])'
  <2>1. Adds(runner[r]) /\ runner[r].now \in Int
    BY DEF AInv, Typed, TypeOK
  <2>2. Unscored(runner[r])' = Unscored(runner[r])
        /\ \A h : Scored(runner[r].ver, h)' = Scored(runner[r].ver, h)
    BY <1>1 DEF Unscored, Scored, HashesOf
  <2>. QED  BY <1>1, <1>3, <1>4, <2>1, <2>2 DEF Adds
<1>. QED  BY <1>1, <1>3, <1>4, <1>5 DEF AInv

LEMMA RunAdds ==
    ASSUME WholePages, OneRunner, AInv, Typed', NEW r \in Runners, Run(r) \/ Abort(r)
    PROVE  /\ AInv' /\ ResultsStable /\ mark' >= mark
<1>. DEFINE run == runner[r]
            Result == AInv' /\ ResultsStable /\ mark' >= mark
<1>1. /\ Typed /\ run \in Runs /\ Adds(run) /\ runner \in [Runners -> Runs] /\ mark \in Nat
      /\ mark <= clock /\ clock \in Nat /\ run.now \in Nat /\ run.newest \in Nat
      /\ run.ver \in Versions
  BY Constants DEF AInv, Typed, TypeOK, Runs
<1>2. clock' = clock /\ stage' = stage
  BY DEF Run, List, ReadState, Scan, Existing, Events, Cache, Judge, Insert, Save, Detect, Recent,
         Raise, Notify, NotifyFailed, Finish, Abort
<1>3. \A t : Starts(t)' <=> Starts(t)
  BY <1>2 DEF Starts, Visible
\* A step that writes neither results nor the watermark need only leave Adds.
<1>4. ASSUME UNCHANGED <<results, mark>>, Adds(runner'[r]) PROVE Result
  <2>1. Adds(runner[r])'
    BY <1>2, <1>3, <1>4 DEF Adds, Unscored, Scored, HashesOf
  <2>2. \A q \in Runners : Adds(runner[q])'
    BY <2>1 DEF OneRunner
  <2>3. AInv'
    BY <1>2, <1>3, <1>4, <2>2 DEF AInv
  <2>4. ResultsStable /\ mark' >= mark
    BY <1>1, <1>4 DEF ResultsStable
  <2>. QED  BY <2>3, <2>4
<1>5. ASSUME UNCHANGED <<results, mark>>, runner'[r].now \in {run.now, clock, 0},
             runner'[r].pc \notin Paged \cup {"scan"}
      PROVE  Result
  <2>1. Adds(runner'[r])
    BY <1>1, <1>5 DEF Adds, Paged, Scoring
  <2>. QED  BY <1>4, <1>5, <2>1
<1>6. ASSUME NEW pc, NEW next, Goto(r, pc, next), DOMAIN next = DOMAIN run
      PROVE  /\ runner'[r] = [next EXCEPT !.pc = pc] /\ runner'[r].pc = pc
             /\ \A f \in DOMAIN run \ {"pc"} : runner'[r][f] = next[f]
  BY <1>1, <1>6 DEF Goto, Runs
<1>. DEFINE Keeps(next) == /\ DOMAIN next = DOMAIN run /\ next.now = run.now
                           /\ next.newest = run.newest /\ next.ver = run.ver
<1>7. CASE List(r) \/ Finish(r) \/ Abort(r)
  <2>1. UNCHANGED <<results, mark>> /\ runner'[r].now = 0 /\ runner'[r].pc \in {"listed", "idle"}
    <3>1. CASE List(r)
      BY <1>1, <3>1 DEF List, Goto, Resting
    <3>2. CASE Finish(r) \/ Abort(r)
      BY <1>1, <3>2 DEF Finish, Abort, Goto, Resting
    <3>. QED  BY <1>7, <3>1, <3>2
  <2>. QED  BY <1>5, <2>1 DEF Paged
<1>8. CASE ReadState(r)
  <2>1. /\ UNCHANGED <<results, mark>> /\ runner'[r].pc = "scan" /\ runner'[r].now = clock
        /\ mark # 0 => runner'[r].since = mark - Overlap
    BY <1>1, <1>8 DEF ReadState, Goto, Runs
  <2>2. Adds(runner'[r])
    BY <1>1, <2>1 DEF Adds, Paged, Scoring
  <2>. QED  BY <1>4, <2>1, <2>2
<1>9. CASE Scan(r)
  <2>. DEFINE window == {s \in Visible : run.since < Start[s] /\ Start[s] <= run.now}
  <2>1. PICK page \in Pages(window) :
            IF page = {} THEN Goto(r, "detect", [run EXCEPT !.since = 0])
            ELSE Goto(r, "existing", [run EXCEPT !.since = 0, !.rows = page,
                                                 !.newest = Newest(page)])
    BY <1>9 DEF Scan
  <2>2. UNCHANGED <<results, mark>> /\ run.pc = "scan"
    BY <1>9 DEF Scan
  <2>3. CASE page = {}
    <3>. DEFINE next == [run EXCEPT !.since = 0]
    <3>1. Goto(r, "detect", next) /\ DOMAIN next = DOMAIN run /\ next.now = run.now
      BY <1>1, <2>1, <2>3 DEF Runs
    <3>. HIDE DEF next
    <3>2. runner'[r].pc = "detect" /\ runner'[r].now = run.now
      BY <1>1, <3>1 DEF Goto, Runs
    <3>. QED  BY <1>5, <2>2, <3>2 DEF Paged
  <2>4. CASE page # {}
    <3>1. mark <= Newest(page) /\ Newest(page) <= run.now /\ Starts(Newest(page))
      BY <1>1, <2>2, <2>4, NewestNotOlder
    <3>. DEFINE next == [run EXCEPT !.since = 0, !.rows = page, !.newest = Newest(page)]
    <3>2. /\ Goto(r, "existing", next) /\ DOMAIN next = DOMAIN run
          /\ next.now = run.now /\ next.newest = Newest(page)
      BY <1>1, <2>1, <2>4 DEF Runs
    <3>. HIDE DEF next
    <3>3. runner'[r].pc = "existing" /\ runner'[r].now = run.now /\ runner'[r].newest = Newest(page)
      BY <1>1, <3>2 DEF Goto, Runs
    <3>4. Adds(runner'[r])
      BY <1>1, <3>1, <3>3 DEF Adds, Scoring
    <3>. QED  BY <1>4, <2>2, <3>4
  <2>. QED  BY <2>3, <2>4
<1>10. CASE Existing(r)
  <2>. DEFINE fresh == {s \in run.rows \cap Sampled : results[run.ver][s] = None}
              next  == [run EXCEPT !.rows = fresh]
              pc    == IF fresh = {} THEN "save" ELSE "events"
  <2>1. /\ Goto(r, pc, next) /\ UNCHANGED <<results, mark>> /\ run.pc = "existing"
        /\ pc \in {"save", "events"} /\ \A s \in fresh : results[run.ver][s] = None
    BY <1>10 DEF Existing
  <2>. HIDE DEF fresh, pc
  <2>2. Keeps(next) /\ next.rows = fresh
    BY <1>1 DEF Runs
  <2>. HIDE DEF next
  <2>3. /\ runner'[r].pc = pc /\ runner'[r].now = run.now /\ runner'[r].newest = run.newest
        /\ runner'[r].ver = run.ver /\ runner'[r].rows = fresh
    BY <1>1, <2>1, <2>2 DEF Goto, Runs
  <2>4. Adds(runner'[r])
    BY <1>1, <2>1, <2>3 DEF Adds, Paged, Scoring
  <2>. QED  BY <1>4, <2>1, <2>4
<1>11. CASE Events(r)
  <2>. DEFINE next == [run EXCEPT !.rows = @ \cap HasContent]
  <2>1. Goto(r, "cache", next) /\ UNCHANGED <<results, mark>> /\ run.pc = "events"
    BY <1>11 DEF Events
  <2>2. Keeps(next) /\ next.rows = run.rows \cap HasContent
    BY <1>1 DEF Runs
  <2>. HIDE DEF next
  <2>3. /\ runner'[r].pc = "cache" /\ runner'[r].now = run.now /\ runner'[r].newest = run.newest
        /\ runner'[r].ver = run.ver /\ runner'[r].rows \subseteq run.rows
    BY <1>1, <2>1, <2>2 DEF Goto, Runs
  <2>4. Adds(runner'[r])
    BY <1>1, <2>1, <2>3 DEF Adds, Paged, Scoring
  <2>. QED  BY <1>4, <2>1, <2>4
<1>12. CASE Cache(r)
  <2>1. PICK hits \in [Contents -> Configs \cup {None}] :
            /\ \A h \in Contents : h \in HashesOf(run.rows) /\ Scored(run.ver, h) # {}
                                    => hits[h] \in Scored(run.ver, h)
            /\ Goto(r, "judge", [run EXCEPT !.scores = hits])
            /\ UNCHANGED <<results, mark>> /\ run.pc = "cache"
    BY <1>12 DEF Cache
  <2>. DEFINE next == [run EXCEPT !.scores = hits]
  <2>2. Keeps(next) /\ next.rows = run.rows /\ next.scores = hits
    BY <1>1 DEF Runs
  <2>. HIDE DEF next
  <2>3. /\ runner'[r].pc = "judge" /\ runner'[r].now = run.now /\ runner'[r].newest = run.newest
        /\ runner'[r].ver = run.ver /\ runner'[r].rows = run.rows /\ runner'[r].scores = hits
    BY <1>1, <2>1, <2>2 DEF Goto, Runs, next
  <2>4. \A h \in Unscored(runner'[r]) : Scored(run.ver, h) = {}
    <3>. SUFFICES ASSUME NEW h \in HashesOf(run.rows), hits[h] = None PROVE Scored(run.ver, h) = {}
      BY <2>3 DEF Unscored
    <3>1. h \in Contents
      BY <1>1, <2>1 DEF Typed, WellFormed, HashesOf
    <3>. QED  BY <2>1, <3>1, Constants DEF Scored
  <2>5. Adds(runner'[r])
    BY <1>1, <2>1, <2>3, <2>4 DEF Adds, Paged, Scoring
  <2>. QED  BY <1>4, <2>1, <2>5
<1>13. CASE Judge(r)
  <2>1. PICK h \in Unscored(run), outcome \in {run.config, Err} :
            /\ Goto(r, "judge", [run EXCEPT !.scores[h] = outcome])
            /\ UNCHANGED <<results, mark>> /\ run.pc = "judge"
    BY <1>13 DEF Judge
  <2>. DEFINE next == [run EXCEPT !.scores[h] = outcome]
  <2>2. Keeps(next) /\ next.rows = run.rows /\ next.scores = [run.scores EXCEPT ![h] = outcome]
    BY <1>1 DEF Runs
  <2>3. Goto(r, "judge", next)
    BY <2>1
  <2>. HIDE DEF next
  <2>4. /\ runner'[r].pc = "judge" /\ runner'[r].now = run.now /\ runner'[r].newest = run.newest
        /\ runner'[r].ver = run.ver /\ runner'[r].rows = run.rows /\ runner'[r].scores = next.scores
    BY <1>1, <2>2, <2>3 DEF Goto, Runs
  <2>5. \A g \in Unscored(runner'[r]) : Scored(run.ver, g) = {}
    <3>. SUFFICES ASSUME NEW g \in HashesOf(run.rows), next.scores[g] = None
                  PROVE  Scored(run.ver, g) = {}
      BY <2>4 DEF Unscored
    <3>1. CASE g = h
      BY <1>1, <2>1, <3>1 DEF Adds
    <3>2. CASE g # h
      <4>1. g \in Contents
        BY <1>1, <2>1 DEF Typed, WellFormed, HashesOf
      <4>2. run.scores[g] = None
        BY <1>1, <2>2, <3>2, <4>1 DEF Runs
      <4>. QED  BY <1>1, <2>1, <4>2 DEF Adds, Unscored
    <3>. QED  BY <3>1, <3>2
  <2>6. Adds(runner'[r])
    BY <1>1, <2>1, <2>4, <2>5 DEF Adds, Paged, Scoring
  <2>. QED  BY <1>4, <2>1, <2>6
<1>14. CASE Insert(r)
  <2>1. PICK next : next = [run EXCEPT !.rows = {}, !.scores = NoScores]
    OBVIOUS
  <2>2. Goto(r, "save", next) /\ mark' = mark /\ run.pc = "judge"
    BY <1>14, <2>1 DEF Insert
  <2>3. Keeps(next)
    BY <1>1, <2>1 DEF Runs
  <2>4. /\ runner'[r].pc = "save" /\ runner'[r].now = run.now /\ runner'[r].newest = run.newest
    BY <1>1, <2>2, <2>3 DEF Goto, Runs
  <2>5. Adds(runner[r])'
    BY <1>1, <1>2, <1>3, <2>2, <2>4 DEF Adds, Paged, Scoring
  <2>6. ResultsStable
    <3>. SUFFICES ASSUME NEW v \in Versions, NEW s \in Spans, results[v][s] # None
                  PROVE  results'[v][s] = results[v][s]
      BY DEF ResultsStable
    <3>1. ~ (v = run.ver /\ s \in run.rows)
      BY <1>1, <2>2 DEF Adds, Scoring
    <3>. QED  BY <1>1, <1>14, <3>1 DEF Insert, Typed, TypeOK
  <2>7. \A q \in Runners : Adds(runner[q])'
    BY <2>5 DEF OneRunner
  <2>8. AInv'
    BY <1>2, <1>3, <2>2, <2>7 DEF AInv
  <2>. QED  BY <1>1, <2>2, <2>6, <2>8
<1>15. CASE Save(r)
  <2>1. PICK next : next = [run EXCEPT !.newest = 0]
    OBVIOUS
  <2>2. Goto(r, "detect", next) /\ mark' = run.newest /\ results' = results /\ run.pc = "save"
    BY <1>15, <2>1 DEF Save
  <2>3. DOMAIN next = DOMAIN run /\ next.now = run.now
    BY <1>1, <2>1 DEF Runs
  <2>4. runner'[r].pc = "detect" /\ runner'[r].now = run.now
    BY <1>1, <2>2, <2>3 DEF Goto, Runs
  <2>5. Adds(runner[r])'
    BY <1>1, <1>2, <2>4 DEF Adds, Paged, Scoring
  <2>6. mark <= run.newest /\ run.newest <= clock /\ Starts(run.newest)
    BY <1>1, <2>2 DEF Adds, Paged
  <2>7. \A q \in Runners : Adds(runner[q])'
    BY <2>5 DEF OneRunner
  <2>8. AInv'
    BY <1>2, <1>3, <2>2, <2>6, <2>7 DEF AInv
  <2>9. ResultsStable /\ mark' >= mark
    BY <1>1, <2>2, <2>6 DEF ResultsStable
  <2>. QED  BY <2>8, <2>9
<1>16. ASSUME NEW pc, NEW next, Goto(r, pc, next), UNCHANGED <<results, mark>>,
              pc \in {"idle", "recent", "raise", "post"}, DOMAIN next = DOMAIN run,
              next.now \in {0, run.now}
       PROVE  Result
  <2>1. runner'[r].pc = pc /\ runner'[r].now \in {0, run.now}
    BY <1>1, <1>16 DEF Goto, Runs
  <2>. QED  BY <1>5, <1>16, <2>1 DEF Paged
<1>17. CASE Detect(r)
  <2>1. CASE Goto(r, "idle", Resting)
    <3>1. DOMAIN Resting = DOMAIN run /\ Resting.now = 0
      BY <1>1 DEF Runs, Resting
    <3>. QED  BY <1>16, <1>17, <2>1, <3>1 DEF Detect
  <2>2. ASSUME NEW K, Goto(r, "recent", [run EXCEPT !.found = K]) PROVE Result
    BY <1>1, <1>16, <1>17, <2>2 DEF Detect, Runs
  <2>. QED  BY <1>17, <2>1, <2>2 DEF Detect
<1>18. CASE Recent(r)
  BY <1>1, <1>16, <1>18 DEF Recent, Runs
<1>19. CASE Raise(r)
  <2>1. PICK k, signal : /\ Goto(r, "post", [run EXCEPT !.found = @ \ {k}, !.raised = signal])
                         /\ UNCHANGED <<results, mark>>
    BY <1>19 DEF Raise
  <2>. QED  BY <1>1, <1>16, <2>1 DEF Runs
<1>20. CASE Notify(r) \/ NotifyFailed(r)
  BY <1>1, <1>16, <1>20 DEF Notify, NotifyFailed, Runs
<1>. QED
  BY <1>7, <1>8, <1>9, <1>10, <1>11, <1>12, <1>13, <1>14, <1>15, <1>17, <1>18, <1>19, <1>20 DEF Run

\* With one runner whose pages hold every span, a run never overwrites a result, never has
\* scored content judged again and never moves the watermark back.
THEOREM OnlyAdditions == ASSUME WholePages, OneRunner PROVE Spec => RunsOnlyAdd
<1>1. ASSUME AInv, [Next]_vars
      PROVE  AInv' /\ TypeOK' /\ ResultsStable /\ NeverRejudged /\ mark' >= mark
  <2>1. Typed' /\ TypeOK'
    BY <1>1, NextTyped DEF AInv, Typed
  <2>2. NeverRejudged
    BY <1>1 DEF AInv, Adds, NeverRejudged
  <2>3. mark \in Int
    BY <1>1 DEF AInv, Typed, TypeOK
  <2>4. AInv' /\ ResultsStable /\ mark' >= mark
    <3>1. CASE \E r \in Runners : Run(r) \/ Abort(r)
      BY <1>1, <2>1, <3>1, RunAdds
    <3>2. CASE ~ \E r \in Runners : Run(r) \/ Abort(r)
      <4>1. AInv' /\ UNCHANGED <<results, mark, runner>>
        BY <1>1, <2>1, <3>2, OthersAdd DEF Next
      <4>. QED  BY <2>3, <4>1 DEF ResultsStable
    <3>. QED  BY <3>1, <3>2
  <2>. QED  BY <2>1, <2>2, <2>4
<1>. QED  BY <1>1, InitAdds, PTL DEF Spec, RunsOnlyAdd

================================================================================
