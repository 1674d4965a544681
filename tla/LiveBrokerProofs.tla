------------------------------ MODULE LiveBrokerProofs ------------------------------
(***************************************************************************)
(* Proofs about LiveBroker for any traces, tabs, connections, limits and   *)
(* faults: the broker's books are true, reading moves forward, and, with   *)
(* one tab to a trace or while nothing fails, no row is lost: no tab's     *)
(* position passes a row it misses, what is trimmed was delivered, and a   *)
(* stream that ends complete has shown the root.                           *)
(***************************************************************************)
EXTENDS LiveBroker, FiniteSetTheorems, WellFoundedInduction, TLAPS

AnyRow == Row("span") \cup Row("eval")

Deltas ==
    {d \in [rows : [Kinds -> SUBSET AnyRow], cursor : Cursors, root : BOOLEAN] :
        \A k \in Kinds : d.rows[k] \subseteq Row(k)}

PollerRecs ==
    [trace : Traces \cup {None}, stopped : BOOLEAN, phase : {"idle", "timer", "polling"},
     subs : SUBSET Conns, head : Cursors, boundary : [Kinds -> SUBSET {RowKey(r) : r \in AnyRow}],
     root : BOOLEAN, quiet : 0 .. 2, errors : 0 .. MaxErrors - 1, result : Deltas]

ConnRecs ==
    [state : {"free", "open", "dead"}, client : Clients \cup {None}, poller : Pollers \cup {None},
     strikes : 0 .. MaxStrikes, catchUp : {"none", "asked", "read"}, from : Cursors,
     result : Deltas]

\* What TypeOK asks of a tab; its view is of no concern to the books.
TabOK(c) ==
    /\ DOMAIN c = {"status", "cursor", "resume", "view", "root", "reason"}
    /\ c.status \in {"unloaded", "connecting", "live", "reconnecting", "paused", "ended",
                     "unavailable"}
    /\ c.cursor \in Cursors /\ c.resume \in Cursors
    /\ c.reason \in {None, "complete", "idle"}
TabsOK(cl) == DOMAIN cl = Clients /\ \A c \in Clients : TabOK(cl[c])

Typed ==
    /\ DOMAIN table = Kinds /\ \A k \in Kinds : table[k] \subseteq Row(k)
    /\ clock \in Cursors
    /\ poller \in [Pollers -> PollerRecs]
    /\ registry \in [Traces -> Pollers \cup {None}]
    /\ count \in Nat
    /\ conn \in [Conns -> ConnRecs]
    /\ TabsOK(client)
    /\ faults \in 0 .. MaxFaults

\* A connection is attached exactly while it is not free, only such a one catches up,
\* and a registered poller runs, for the trace it is registered for.
Attached ==
    /\ \A n \in Conns : /\ conn[n].state # "free" <=> conn[n].poller # None
                        /\ conn[n].catchUp # "none" => conn[n].state # "free"
    /\ \A t \in Traces : registry[t] # None =>
           poller[registry[t]].trace = t /\ ~ poller[registry[t]].stopped
    /\ \A p \in Pollers : ~ poller[p].stopped => poller[p].trace \in Traces

Books == OneLoopPerTrace /\ SubscribersCounted /\ Attached
IInv  == Typed /\ Books

--------------------------------------------------------------------------------
(***************************************************************************)
(* Deltas.                                                                 *)
(***************************************************************************)

\* A nonempty set of milliseconds has a latest one.
LEMMA LatestExists ==
    ASSUME NEW N \in Nat, NEW S \in SUBSET (0 .. N), S # {}
    PROVE  Max(S) \in S /\ \A y \in S : Max(S) >= y
<1> DEFINE F == {I \in SUBSET (0 .. N) : \E k \in -1 .. N : I = 0 .. k /\ S \subseteq I}
<1>1. 0 .. N \in F
  OBVIOUS
<1>2. IsFiniteSet(0 .. N)
  BY FS_Interval
<1>3. IsWellFoundedOn(StrictSubsetOrdering(0 .. N), FiniteSubsetsOf(0 .. N))
  BY FS_StrictSubsetOrderingWellFounded
<1>4. F \subseteq FiniteSubsetsOf(0 .. N)
  BY <1>2, FS_Subset DEF FiniteSubsetsOf
<1>5. PICK I \in F : \A J \in F : <<J, I>> \notin StrictSubsetOrdering(0 .. N)
  <2>1. F # {}
    BY <1>1
  <2>. HIDE DEF F
  <2>. QED  BY <2>1, <1>3, <1>4, WFMin
<1>6. PICK k \in -1 .. N : I = 0 .. k /\ S \subseteq I
  OBVIOUS
<1>7. k \in S
  <2>. SUFFICES ASSUME k \notin S PROVE FALSE
    OBVIOUS
  <2>1. PICK y \in S : TRUE
    OBVIOUS
  <2>2. k - 1 \in -1 .. N /\ S \subseteq 0 .. (k - 1)
    BY <1>6, <2>1
  <2>3. 0 .. (k - 1) \in F
    BY <2>2
  <2>4. 0 .. (k - 1) # I /\ 0 .. (k - 1) \subseteq I
    BY <1>6, <2>1
  <2>. QED  BY <2>3, <2>4, <1>5 DEF StrictSubsetOrdering
<1>8. \A y \in S : k >= y
  BY <1>6
<1>. QED  BY <1>7, <1>8 DEF Max

LEMMA WatermarkBounded ==
    ASSUME NEW k \in Kinds, NEW rows, rows \subseteq Row(k), NEW lo \in 0 .. MaxMs
    PROVE  MaxMsOf(rows, lo) \in 0 .. MaxMs /\ lo <= MaxMsOf(rows, lo)
<1>. DEFINE S == {lo} \cup {r.ms : r \in rows}
<1>1. S \in SUBSET (0 .. MaxMs) /\ S # {} /\ MaxMs \in Nat /\ lo \in S
  BY SizeAssumption DEF Row
<1>. HIDE DEF S
<1>2. Max(S) \in S /\ \A y \in S : Max(S) >= y
  BY <1>1, LatestExists
<1>3. MaxMsOf(rows, lo) = Max(S)
  BY DEF MaxMsOf, S
<1>. QED  BY <1>1, <1>2, <1>3

LEMMA NothingTyped ==
    /\ Zero \in Cursors /\ NoDelta \in Deltas /\ NoPoller \in PollerRecs /\ FreeConn \in ConnRecs
    /\ TabOK(NewClient)
<1>1. MaxMs \in Nat /\ MaxErrors \in Nat \ {0} /\ MaxStrikes \in Nat
  BY SizeAssumption
<1>2. Zero \in Cursors
  BY <1>1 DEF Zero, Cursors
<1>3. NoDelta \in Deltas
  BY <1>2 DEF NoDelta, Deltas, NoRows
<1>4. NoPoller \in PollerRecs
  BY <1>1, <1>2, <1>3 DEF NoPoller, PollerRecs, NoRows
<1>5. FreeConn \in ConnRecs
  BY <1>1, <1>2, <1>3 DEF FreeConn, ConnRecs
<1>6. TabOK(NewClient)
  BY <1>2 DEF NewClient, TabOK
<1>. QED  BY <1>2, <1>3, <1>4, <1>5, <1>6

\* A poller after a read that succeeded.
LEMMA ReadTyped ==
    ASSUME NEW q \in PollerRecs, NEW head \in Cursors, NEW root \in BOOLEAN, NEW quiet \in 0 .. 2,
           NEW boundary \in [Kinds -> SUBSET {RowKey(r) : r \in AnyRow}]
    PROVE  [q EXCEPT !.phase = "idle", !.result = NoDelta, !.errors = 0, !.head = head,
                     !.boundary = boundary, !.root = root, !.quiet = quiet] \in PollerRecs
<1>. DEFINE read == [q EXCEPT !.phase = "idle", !.result = NoDelta, !.errors = 0,
                              !.head = head, !.boundary = boundary, !.root = root,
                              !.quiet = quiet]
            rec  == [trace |-> q.trace, stopped |-> q.stopped, phase |-> "idle",
                     subs |-> q.subs, head |-> head, boundary |-> boundary, root |-> root,
                     quiet |-> quiet, errors |-> 0, result |-> NoDelta]
<1>1. rec \in PollerRecs
  <2>1. 0 \in 0 .. MaxErrors - 1 /\ NoDelta \in Deltas
    BY NothingTyped, SizeAssumption
  <2>. QED  BY <2>1 DEF PollerRecs
<1>2. DOMAIN q = {"trace", "stopped", "phase", "subs", "head", "boundary", "root", "quiet",
                  "errors", "result"}
  BY DEF PollerRecs
<1>3. DOMAIN read = DOMAIN rec
  BY <1>2
<1>4. \A f \in DOMAIN rec : read[f] = rec[f]
  <2>1. read.phase = "idle" /\ read.result = NoDelta /\ read.errors = 0 /\ read.head = head
    BY <1>2
  <2>2. read.boundary = boundary /\ read.root = root /\ read.quiet = quiet
    BY <1>2
  <2>3. read.trace = q.trace /\ read.stopped = q.stopped /\ read.subs = q.subs
    BY <1>2
  <2>. HIDE DEF read
  <2>. QED  BY <2>1, <2>2, <2>3
<1>5. read = [f \in DOMAIN read |-> read[f]] /\ rec = [f \in DOMAIN rec |-> rec[f]]
  OBVIOUS
<1>. HIDE DEF read, rec
<1>6. read = rec
  BY <1>3, <1>4, <1>5
<1>. QED  BY <1>1, <1>6 DEF read

\* What a read of the store answers.
LEMMA FetchedTyped ==
    ASSUME Typed, NEW t, NEW cursor \in Cursors, NEW d \in FetchDeltas(t, cursor)
    PROVE  d \in Deltas /\ \A k \in Kinds : cursor[k] <= d.cursor[k]
<1>1. ASSUME NEW k \in Kinds, NEW S \in Firsts(k, Past(k, t, cursor[k])) PROVE S \subseteq Row(k)
  <2>1. Past(k, t, cursor[k]) \subseteq Row(k)
    BY DEF Past, RowsOf, Typed
  <2>2. S \subseteq Past(k, t, cursor[k])
    BY <1>1 DEF Firsts, kSubset
  <2>. QED  BY <2>1, <2>2
<1>2. PICK S \in Firsts("span", Past("span", t, cursor["span"])),
           E \in Firsts("eval", Past("eval", t, cursor["eval"])) :
           d = [rows   |-> [k \in Kinds |-> IF k = "span" THEN S ELSE E],
                cursor |-> [k \in Kinds |-> MaxMsOf(IF k = "span" THEN S ELSE E, cursor[k])],
                root   |-> \E r \in S : r.item \in Roots]
  BY DEF FetchDeltas
<1>3. S \subseteq Row("span") /\ E \subseteq Row("eval")
  BY <1>1, <1>2 DEF Kinds
<1>. DEFINE rows == [k \in Kinds |-> IF k = "span" THEN S ELSE E]
            mark == [k \in Kinds |-> MaxMsOf(IF k = "span" THEN S ELSE E, cursor[k])]
<1>4. \A k \in Kinds : rows[k] \subseteq Row(k)
  BY <1>3 DEF Kinds
<1>5. mark \in Cursors /\ \A k \in Kinds : cursor[k] <= mark[k]
  <2>1. \A k \in Kinds : mark[k] = MaxMsOf(rows[k], cursor[k]) /\ cursor[k] \in 0 .. MaxMs
    BY DEF Cursors
  <2>2. DOMAIN mark = Kinds /\ mark = [k \in Kinds |-> mark[k]]
    OBVIOUS
  <2>3. \A k \in Kinds : mark[k] \in 0 .. MaxMs /\ cursor[k] <= mark[k]
    <3>. HIDE DEF mark, rows
    <3>. QED  BY <2>1, <1>4, WatermarkBounded
  <2>. HIDE DEF mark
  <2>. QED  BY <2>2, <2>3 DEF Cursors
<1>6. rows \in [Kinds -> SUBSET AnyRow]
  BY <1>3 DEF AnyRow, Kinds
<1>7. d.rows = rows /\ d.cursor = mark /\ d.root \in BOOLEAN
      /\ d = [rows |-> d.rows, cursor |-> d.cursor, root |-> d.root]
  BY <1>2
<1>. HIDE DEF rows, mark
<1>. QED  BY <1>4, <1>5, <1>6, <1>7 DEF Deltas

--------------------------------------------------------------------------------
(***************************************************************************)
(* Tabs.                                                                   *)
(***************************************************************************)
LEMMA DeliverTyped ==
    ASSUME TabsOK(client), NEW S, NEW d, d.cursor \in Cursors
    PROVE  TabsOK(Deliver(S, d))
<1>1. ASSUME NEW c \in Clients PROVE TabOK(ApplyDelta(client[c], d))
  <2>1. MaxCursor(client[c].cursor, d.cursor) \in Cursors
    BY DEF MaxCursor, Cursors, TabsOK, TabOK
  <2>. QED  BY <2>1 DEF ApplyDelta, TabsOK, TabOK
<1>. QED  BY <1>1 DEF Deliver, TabsOK

LEMMA CutTyped == ASSUME NEW cl, TabsOK(cl), NEW S PROVE TabsOK(Cut(cl, S))
BY DEF Cut, TabsOK, TabOK

LEMMA EndedTyped ==
    ASSUME NEW cl, TabsOK(cl), NEW S, NEW why \in {"complete", "idle"}
    PROVE  TabsOK(Ended(cl, S, why))
BY DEF Ended, TabsOK, TabOK

--------------------------------------------------------------------------------
(***************************************************************************)
(* Leaving and ending.                                                     *)
(***************************************************************************)

\* cn frees the subscribers of p that are not left, and keeps every other connection's
\* attachment.
Frees(p, left, cn) ==
    \A n \in Conns :
        IF n \in poller[p].subs \ left THEN cn[n] = FreeConn
        ELSE /\ cn[n].poller = conn[n].poller
             /\ cn[n].state = "free" <=> conn[n].state = "free"
             /\ cn[n].catchUp # "none" => conn[n].catchUp # "none"

\* What may become of poller p when subscribers leave it.
Remains(p, r) ==
    /\ r \in PollerRecs /\ r.trace = poller[p].trace
    /\ r.subs \subseteq poller[p].subs
    /\ r.stopped <=> r.subs = {}

LEMMA SubsOf ==
    ASSUME IInv, NEW p \in Pollers
    PROVE  /\ poller[p] \in PollerRecs
           /\ poller[p].subs \subseteq Conns
           /\ poller[p].subs = {n \in Conns : conn[n].poller = p}
           /\ poller[p].stopped <=> poller[p].subs = {}
           /\ poller[p].phase = "timer" => ~ poller[p].stopped
BY DEF IInv, Typed, PollerRecs, Books, SubscribersCounted, OneLoopPerTrace

LEMMA DetachedRemains ==
    ASSUME NEW p \in Pollers, NEW q, Remains(p, q), NEW S \in SUBSET q.subs
    PROVE  /\ Remains(p, Detached(q, S))
           /\ Detached(q, S).subs = q.subs \ S
           /\ q.phase # "timer" => Detached(q, S).phase = q.phase
           /\ Detached(q, S).stopped => q.stopped \/ Detached(q, S).phase # "timer"
           /\ ~ Detached(q, S).stopped => Detached(q, S).phase = q.phase
<1>1. CASE S = {} \/ q.subs \ S # {}
  BY <1>1 DEF Detached, Remains, PollerRecs
<1>2. CASE ~ (S = {} \/ q.subs \ S # {})
  BY <1>2 DEF Detached, Remains, PollerRecs
<1>. QED  BY <1>1, <1>2

\* The books after subscribers have left a poller.
LEMMA LeavesBooks ==
    ASSUME IInv, NEW p \in Pollers, NEW r, Remains(p, r), SetPoller(p, r),
           conn' \in [Conns -> ConnRecs], Frees(p, r.subs, conn'),
           r.stopped => r.phase # "timer", ~ r.stopped => r.phase # "idle"
    PROVE  /\ Books' /\ poller' \in [Pollers -> PollerRecs]
           /\ registry' \in [Traces -> Pollers \cup {None}] /\ count' \in Nat
<1>. DEFINE subs == poller[p].subs
            gone == subs \ r.subs
<1>1. Typed /\ OneLoopPerTrace /\ SubscribersCounted /\ Attached
  BY DEF IInv, Books
<1>2. /\ subs = {n \in Conns : conn[n].poller = p} /\ r.subs \subseteq subs
      /\ poller[p].stopped <=> subs = {}
  BY SubsOf DEF Remains
<1>3. /\ Collected(r) \in PollerRecs
      /\ Collected(r).subs = r.subs /\ Collected(r).stopped = r.stopped
      /\ r.stopped => Collected(r).phase # "timer"
      /\ ~ r.stopped => Collected(r) = r
  BY NothingTyped DEF Collected, Remains, NoPoller
<1>4. /\ poller' \in [Pollers -> PollerRecs] /\ poller'[p] = Collected(r)
      /\ \A q \in Pollers : q # p => poller'[q] = poller[q]
  BY <1>1, <1>3 DEF SetPoller, Typed
<1>5. /\ registry' \in [Traces -> Pollers \cup {None}]
      /\ \A t \in Traces : registry'[t] = IF r.stopped /\ registry[t] = p THEN None ELSE registry[t]
  BY <1>1 DEF SetPoller, Unregistered, Typed
<1>6. /\ \A n \in gone : conn'[n].state = "free" /\ conn'[n].poller = None /\ conn'[n].catchUp = "none"
      /\ \A n \in Conns : n \notin gone =>
             /\ conn'[n].poller = conn[n].poller
             /\ conn'[n].state = "free" <=> conn[n].state = "free"
             /\ conn'[n].catchUp # "none" => conn[n].catchUp # "none"
  BY <1>2 DEF Frees, FreeConn
<1>7. Attached'
  <2>1. \A n \in Conns : /\ conn'[n].state # "free" <=> conn'[n].poller # None
                         /\ conn'[n].catchUp # "none" => conn'[n].state # "free"
    BY <1>1, <1>6 DEF Attached
  <2>2. ASSUME NEW t \in Traces, registry'[t] # None
        PROVE  poller'[registry'[t]].trace = t /\ ~ poller'[registry'[t]].stopped
    <3>1. registry'[t] = registry[t] /\ ~ (r.stopped /\ registry[t] = p)
      BY <1>5, <2>2
    <3>2. poller[registry[t]].trace = t /\ ~ poller[registry[t]].stopped /\ registry[t] \in Pollers
      BY <1>1, <2>2, <3>1 DEF Attached, Typed
    <3>3. CASE registry[t] = p
      BY <1>3, <1>4, <3>1, <3>2, <3>3 DEF Remains
    <3>4. CASE registry[t] # p
      BY <1>4, <3>1, <3>2, <3>4
    <3>. QED  BY <3>3, <3>4
  <2>3. ASSUME NEW q \in Pollers, ~ poller'[q].stopped PROVE poller'[q].trace \in Traces
    <3>1. CASE q = p
      <4>1. ~ poller[p].stopped
        BY <1>2, <1>3, <1>4, <2>3, <3>1 DEF Remains
      <4>. QED  BY <1>1, <1>3, <1>4, <2>3, <3>1, <4>1 DEF Remains, Attached
    <3>2. CASE q # p
      BY <1>1, <1>4, <2>3, <3>2 DEF Attached
    <3>. QED  BY <3>1, <3>2
  <2>. QED  BY <2>1, <2>2, <2>3 DEF Attached
<1>8. OneLoopPerTrace'
  <2>. SUFFICES ASSUME NEW q \in Pollers
                PROVE  IF poller'[q].stopped
                       THEN poller'[q].phase # "timer" /\ poller'[q].subs = {}
                       ELSE /\ registry'[poller'[q].trace] = q
                            /\ poller'[q].subs # {} /\ poller'[q].phase # "idle"
    BY DEF OneLoopPerTrace
  <2>1. CASE q = p /\ r.stopped
    BY <1>3, <1>4, <2>1 DEF Remains
  <2>2. CASE q = p /\ ~ r.stopped
    <3>1. ~ poller[p].stopped
      BY <1>2, <2>2 DEF Remains
    <3>2. registry[r.trace] = p /\ r.trace \in Traces
      BY <1>1, <3>1 DEF OneLoopPerTrace, Remains, Attached
    <3>. QED  BY <1>3, <1>4, <1>5, <2>2, <3>2 DEF Remains
  <2>3. CASE q # p /\ poller[q].stopped
    BY <1>1, <1>4, <2>3 DEF OneLoopPerTrace
  <2>4. CASE q # p /\ ~ poller[q].stopped
    BY <1>1, <1>4, <1>5, <2>4 DEF OneLoopPerTrace, Attached
  <2>. QED  BY <2>1, <2>2, <2>3, <2>4
<1>9. SubscribersCounted' /\ count' \in Nat
  <2>. DEFINE A == {n \in Conns : conn[n].state # "free"}
  <2>1. p # None
    BY SizeAssumption
  <2>2. gone \subseteq A /\ subs \subseteq Conns
    BY <1>1, <1>2, <2>1 DEF Attached
  <2>3. {n \in Conns : conn'[n].state # "free"} = A \ gone
    BY <1>6
  <2>4. IsFiniteSet(A) /\ IsFiniteSet(gone) /\ IsFiniteSet(subs)
    BY <2>2, FS_Subset, SizeAssumption
  <2>5. /\ Cardinality(A \ gone) = Cardinality(A) - Cardinality(A \cap gone)
        /\ A \cap gone = gone
    BY <2>2, <2>4, FS_Difference
  <2>6. Cardinality(gone) \in Nat /\ Cardinality(A \ gone) \in Nat /\ Cardinality(A) \in Nat
    BY <2>4, FS_CardinalityType, FS_Difference
  <2>7. count = Cardinality(A) /\ count <= MaxSubscribers /\ count' = count - Cardinality(gone)
    BY <1>1 DEF SubscribersCounted, SetPoller
  <2>8. count' = Cardinality(A \ gone) /\ count' <= MaxSubscribers
    <3>1. Cardinality(A \ gone) = Cardinality(A) - Cardinality(gone)
      BY <2>5
    <3>2. MaxSubscribers \in Nat
      BY SizeAssumption
    <3>. HIDE DEF A, gone
    <3>. QED  BY <2>6, <2>7, <3>1, <3>2
  <2>9. ASSUME NEW q \in Pollers
        PROVE  /\ poller'[q].subs = {n \in Conns : conn'[n].poller = q}
               /\ Cardinality(poller'[q].subs) <= MaxPerTrace
    <3>1. q # None
      BY SizeAssumption
    <3>2. poller[q].subs = {n \in Conns : conn[n].poller = q} /\ Cardinality(poller[q].subs) <= MaxPerTrace
      BY <1>1 DEF SubscribersCounted
    <3>3. CASE q = p
      <4>1. poller'[q].subs = r.subs
        BY <1>3, <1>4, <3>3
      <4>2. r.subs = {n \in Conns : conn'[n].poller = q}
        BY <1>2, <1>6, <3>1, <3>3
      <4>3. Cardinality(r.subs) <= Cardinality(subs) /\ Cardinality(r.subs) \in Nat /\ Cardinality(subs) \in Nat
        BY <1>2, <2>4, FS_Subset, FS_CardinalityType
      <4>4. Cardinality(r.subs) <= MaxPerTrace
        <5>. HIDE DEF subs
        <5>1. Cardinality(subs) <= MaxPerTrace
          BY <3>2, <3>3 DEF subs
        <5>. QED  BY <4>3, <5>1, SizeAssumption
      <4>. QED  BY <4>1, <4>2, <4>4
    <3>4. CASE q # p
      <4>1. poller'[q].subs = poller[q].subs
        BY <1>4, <3>4
      <4>2. {n \in Conns : conn'[n].poller = q} = {n \in Conns : conn[n].poller = q}
        BY <1>2, <1>6, <3>1, <3>4
      <4>. QED  BY <3>2, <4>1, <4>2
    <3>. QED  BY <3>3, <3>4
  <2>. QED  BY <2>3, <2>6, <2>8, <2>9 DEF SubscribersCounted
<1>. QED  BY <1>4, <1>5, <1>7, <1>8, <1>9 DEF Books

\* The end of a tick, whatever it sent.
LEMMA ConcludeInv ==
    ASSUME IInv, NEW p \in Pollers, NEW q, Remains(p, q), q.phase = "idle",
           NEW cl, TabsOK(cl), NEW cn \in [Conns -> ConnRecs], Frees(p, q.subs, cn),
           Conclude(p, q, cl, cn)
    PROVE  /\ Books' /\ poller' \in [Pollers -> PollerRecs]
           /\ registry' \in [Traces -> Pollers \cup {None}] /\ count' \in Nat
           /\ conn' \in [Conns -> ConnRecs] /\ TabsOK(client')
<1>. DEFINE v == Verdict(q)
<1>1. v \in {"stopped", "complete", "idle", "again"}
      /\ (v \in {"complete", "idle"} => ~ q.stopped)
      /\ (v = "again" => ~ q.stopped) /\ (v = "stopped" => q.stopped)
  <2>1. q.stopped \in BOOLEAN /\ q.root \in BOOLEAN
    BY DEF Remains, PollerRecs
  <2>2. CASE q.stopped
    BY <2>1, <2>2 DEF Verdict
  <2>3. CASE ~ q.stopped /\ q.root /\ q.quiet >= 1
    BY <2>1, <2>3 DEF Verdict
  <2>4. CASE ~ q.stopped /\ ~ q.root /\ q.quiet >= 2
    BY <2>1, <2>4 DEF Verdict
  <2>5. CASE ~ q.stopped /\ ~ (q.root /\ q.quiet >= 1) /\ ~ (~ q.root /\ q.quiet >= 2)
    BY <2>1, <2>5 DEF Verdict
  <2>. QED  BY <2>1, <2>2, <2>3, <2>4, <2>5
<1>2. CASE /\ v \in {"complete", "idle"}
           /\ client' = Ended(cl, q.subs, v)
           /\ conn' = Freed(cn, q.subs)
           /\ SetPoller(p, Detached(q, q.subs))
  <2>. DEFINE r == Detached(q, q.subs)
  <2>1. Remains(p, r) /\ r.subs = {} /\ r.stopped /\ r.phase = "idle"
    BY DetachedRemains DEF Remains
  <2>2. conn' \in [Conns -> ConnRecs]
    BY <1>2, NothingTyped DEF Freed
  <2>3. Frees(p, r.subs, conn')
    <3>1. q.subs \subseteq poller[p].subs
      BY DEF Remains
    <3>. HIDE DEF r
    <3>. QED  BY <1>2, <2>1, <3>1 DEF Frees, Freed
  <2>4. TabsOK(client')
    BY <1>2, EndedTyped
  <2>. HIDE DEF r
  <2>5. SetPoller(p, r)
    BY <1>2 DEF r
  <2>. QED  BY <2>1, <2>2, <2>3, <2>4, <2>5, LeavesBooks
<1>3. CASE /\ v \in {"again", "stopped"}
           /\ client' = cl
           /\ conn' = cn
           /\ SetPoller(p, IF v = "again" THEN [q EXCEPT !.phase = "timer"] ELSE q)
  <2>. DEFINE r == IF v = "again" THEN [q EXCEPT !.phase = "timer"] ELSE q
  <2>1. /\ Remains(p, r) /\ r.subs = q.subs
        /\ r.stopped => r.phase # "timer"
        /\ ~ r.stopped => r.phase # "idle"
    BY <1>1, <1>3 DEF Remains, PollerRecs
  <2>2. SetPoller(p, r)
    BY <1>3
  <2>. HIDE DEF r, v
  <2>3. Frees(p, r.subs, conn') /\ conn' \in [Conns -> ConnRecs] /\ TabsOK(client')
    BY <1>3, <2>1
  <2>. QED  BY <2>1, <2>2, <2>3, LeavesBooks
<1>. QED  BY <1>2, <1>3 DEF Conclude

\* Steps that change nobody's attachment.
LEMMA StaysBooks ==
    ASSUME IInv, UNCHANGED <<registry, count>>,
           conn' \in [Conns -> ConnRecs], poller' \in [Pollers -> PollerRecs],
           \A p \in Pollers :
               /\ poller'[p].trace = poller[p].trace /\ poller'[p].subs = poller[p].subs
               /\ poller'[p].stopped = poller[p].stopped
               /\ \/ poller'[p].phase = poller[p].phase
                  \/ poller'[p].phase = "polling",
           \A n \in Conns :
               /\ conn'[n].poller = conn[n].poller
               /\ conn'[n].state = "free" <=> conn[n].state = "free"
               /\ conn'[n].catchUp # "none" => conn[n].catchUp # "none"
    PROVE  Books'
<1>1. Attached /\ OneLoopPerTrace /\ SubscribersCounted /\ Typed
  BY DEF IInv, Books
<1>2. Attached'
  BY <1>1 DEF Attached, Typed
<1>3. OneLoopPerTrace'
  BY <1>1 DEF OneLoopPerTrace
<1>4. SubscribersCounted'
  <2>1. {n \in Conns : conn'[n].state # "free"} = {n \in Conns : conn[n].state # "free"}
    OBVIOUS
  <2>2. \A p \in Pollers : {n \in Conns : conn'[n].poller = p} = {n \in Conns : conn[n].poller = p}
    OBVIOUS
  <2>. QED  BY <1>1, <2>1, <2>2 DEF SubscribersCounted
<1>. QED  BY <1>2, <1>3, <1>4 DEF Books

--------------------------------------------------------------------------------
(***************************************************************************)
(* The steps.                                                              *)
(***************************************************************************)
LEMMA InitInv == ASSUME Init PROVE IInv
<1>. USE SizeAssumption
<1>1. Typed
  <2>1. faults \in 0 .. MaxFaults /\ count \in Nat /\ clock \in Cursors
    BY NothingTyped DEF Init
  <2>2. poller \in [Pollers -> PollerRecs] /\ conn \in [Conns -> ConnRecs]
    BY NothingTyped DEF Init
  <2>3. TabsOK(client)
    BY NothingTyped DEF Init, TabsOK
  <2>4. DOMAIN table = Kinds /\ \A k \in Kinds : table[k] \subseteq Row(k)
    BY DEF Init, NoRows
  <2>5. registry \in [Traces -> Pollers \cup {None}]
    BY DEF Init
  <2>. QED  BY <2>1, <2>2, <2>3, <2>4, <2>5 DEF Typed
<1>2. Attached
  BY DEF Init, Attached, FreeConn, NoPoller
<1>3. OneLoopPerTrace
  BY DEF Init, OneLoopPerTrace, NoPoller
<1>4. SubscribersCounted
  <2>1. {n \in Conns : conn[n].state # "free"} = {}
    BY DEF Init, FreeConn
  <2>2. \A p \in Pollers : poller[p].subs = {} /\ {n \in Conns : conn[n].poller = p} = {}
    BY DEF Init, FreeConn, NoPoller
  <2>3. Cardinality({n \in Conns : conn[n].state # "free"}) = 0
    BY <2>1, FS_EmptySet
  <2>4. \A p \in Pollers : Cardinality(poller[p].subs) = 0
    BY <2>2, FS_EmptySet
  <2>5. count = 0 /\ 0 <= MaxPerTrace /\ 0 <= MaxSubscribers
    BY DEF Init
  <2>. QED  BY <2>2, <2>3, <2>4, <2>5 DEF SubscribersCounted
<1>. QED  BY <1>1, <1>2, <1>3, <1>4 DEF IInv, Books

\* The store, the page load and the tab alone.
LEMMA InsertInv == ASSUME IInv, NEW k \in Kinds, Insert(k) PROVE IInv'
<1>1. PICK i \in Items[k], v \in 1 .. MaxVer[k], m \in clock[k] .. clock[k] + 1 :
          LET r == [item |-> i, ver |-> v, ms |-> m] IN
          /\ 1 <= m /\ m <= MaxMs
          /\ table' = [table EXCEPT ![k] = {r} \cup
                 (IF k = "span" THEN @ ELSE {q \in @ : RowKey(q) # RowKey(r)})]
          /\ clock' = [clock EXCEPT ![k] = m]
          /\ UNCHANGED <<poller, registry, count, conn, client, faults>>
  BY DEF Insert
<1>2. clock \in Cursors /\ DOMAIN table = Kinds /\ \A j \in Kinds : table[j] \subseteq Row(j)
  BY DEF IInv, Typed
<1>3. m \in 1 .. MaxMs /\ m \in 0 .. MaxMs
  BY <1>1, <1>2, SizeAssumption DEF Cursors
<1>4. clock' \in Cursors
  BY <1>1, <1>2, <1>3 DEF Cursors
<1>5. [item |-> i, ver |-> v, ms |-> m] \in Row(k)
  BY <1>3 DEF Row
<1>6. DOMAIN table' = Kinds /\ \A j \in Kinds : table'[j] \subseteq Row(j)
  BY <1>1, <1>2, <1>5
<1>7. Typed'
  BY <1>1, <1>4, <1>6 DEF IInv, Typed
<1>8. Books'
  BY <1>1, StaysBooks DEF IInv, Typed
<1>. QED  BY <1>7, <1>8 DEF IInv

LEMMA TabStepInv ==
    ASSUME IInv, UNCHANGED <<table, clock, poller, registry, count>>, TabsOK(client'),
           faults' \in 0 .. MaxFaults, conn' \in [Conns -> ConnRecs],
           \A n \in Conns :
               /\ conn'[n].poller = conn[n].poller
               /\ conn'[n].state = "free" <=> conn[n].state = "free"
               /\ conn'[n].catchUp # "none" => conn[n].catchUp # "none"
    PROVE  IInv'
<1>1. Typed'
  BY DEF IInv, Typed
<1>2. Books'
  BY StaysBooks DEF IInv, Typed
<1>. QED  BY <1>1, <1>2 DEF IInv

LEMMA TabsAloneInv ==
    ASSUME IInv, NEW c \in Clients, Load(c) \/ Rejected(c) \/ Show(c)
    PROVE  IInv'
<1>. USE DEF IInv, Typed
<1>1. CASE Load(c)
  <2>1. PICK S \in Snapshots("span", Watches[c]), E \in Snapshots("eval", Watches[c]) :
            LET rows == [k \in Kinds |-> IF k = "span" THEN S ELSE E]
                cur  == [k \in Kinds |-> MaxMsOf(rows[k], 0)] IN
            client' = [client EXCEPT ![c] =
                [@ EXCEPT !.status = "connecting", !.cursor = cur, !.resume = cur,
                          !.view = Merge(client[c].view, rows)]]
    BY <1>1, ZenonT(30) DEF Load
  <2>. DEFINE rows == [k \in Kinds |-> IF k = "span" THEN S ELSE E]
              cur  == [k \in Kinds |-> MaxMsOf(rows[k], 0)]
  <2>2. \A k \in Kinds : rows[k] \subseteq Row(k)
    BY <2>1 DEF Snapshots, RowsOf, Kinds
  <2>3. \A k \in Kinds : cur[k] \in 0 .. MaxMs
    <3>1. 0 \in 0 .. MaxMs
      BY SizeAssumption
    <3>. HIDE DEF rows
    <3>. QED  BY <2>2, <3>1, WatermarkBounded
  <2>4. cur \in Cursors
    <3>1. cur = [k \in Kinds |-> cur[k]]
      OBVIOUS
    <3>. HIDE DEF cur
    <3>. QED  BY <2>3, <3>1 DEF Cursors
  <2>5. client' = [client EXCEPT ![c] =
            [@ EXCEPT !.status = "connecting", !.cursor = cur, !.resume = cur,
                      !.view = Merge(client[c].view, rows)]]
    BY <2>1
  <2>. HIDE DEF cur, rows
  <2>6. TabsOK(client')
    BY <2>4, <2>5 DEF TabsOK, TabOK
  <2>. QED  BY <1>1, <2>6, TabStepInv DEF Load
<1>2. CASE Rejected(c)
  <2>1. TabsOK(client')
    BY <1>2 DEF Rejected, TabsOK, TabOK
  <2>. QED  BY <1>2, <2>1, TabStepInv DEF Rejected
<1>3. CASE Show(c)
  <2>1. TabsOK(client')
    BY <1>3 DEF Show, TabsOK, TabOK
  <2>. QED  BY <1>3, <2>1, TabStepInv DEF Show
<1>. QED  BY <1>1, <1>2, <1>3

\* A tab's end of the connection is gone; the server has not noticed.
LEMMA BrokenInv ==
    ASSUME IInv, NEW c \in Clients, Drop(c) \/ Hide(c)
    PROVE  IInv'
<1>1. conn' = Broken(c) /\ UNCHANGED <<table, clock, poller, registry, count>>
  BY DEF Drop, Hide
<1>2. conn \in [Conns -> ConnRecs]
  BY DEF IInv, Typed
<1>3. conn' \in [Conns -> ConnRecs]
  BY <1>1, <1>2 DEF Broken, ConnRecs
<1>4. \A n \in Conns : /\ conn'[n].poller = conn[n].poller
                       /\ conn'[n].state = "free" <=> conn[n].state = "free"
                       /\ conn'[n].catchUp = conn[n].catchUp
  BY <1>1, <1>2 DEF Broken, ConnRecs
<1>5. faults' \in 0 .. MaxFaults
  BY SizeAssumption DEF Drop, Hide, Fault, IInv, Typed
<1>6. TabsOK(client')
  BY DEF Drop, Hide, TabsOK, TabOK, IInv, Typed
<1>. QED  BY <1>1, <1>3, <1>4, <1>5, <1>6, TabStepInv

\* A connection joins the trace's poller, or starts one.
LEMMA SubscribeInv == ASSUME IInv, NEW c \in Clients, Subscribe(c) PROVE IInv'
<1>. DEFINE t == Watches[c]
            from == client[c].resume
<1>1. Typed /\ OneLoopPerTrace /\ SubscribersCounted /\ Attached
  BY DEF IInv, Books
<1>2. t \in Traces /\ from \in Cursors
  BY <1>1, SizeAssumption DEF Typed, TabsOK, TabOK
<1>3. PICK n \in Conns :
        /\ conn[n].state = "free"
        /\ client' = [client EXCEPT ![c].status = "live"]
        /\ count' = count + 1
        /\ \/ /\ registry[t] # None
              /\ poller' = [poller EXCEPT ![registry[t]].subs = @ \cup {n}]
              /\ conn' = [conn EXCEPT ![n] = [FreeConn EXCEPT
                     !.state = "open", !.client = c, !.poller = registry[t],
                     !.catchUp = IF NeedsCatchUp(from, poller[registry[t]].head)
                                 THEN "asked" ELSE "none",
                     !.from = IF NeedsCatchUp(from, poller[registry[t]].head)
                              THEN from ELSE Zero]]
              /\ UNCHANGED registry
           \/ /\ registry[t] = None
              /\ \E p \in Pollers :
                 /\ poller[p] = NoPoller
                 /\ poller' = [poller EXCEPT ![p] = [NoPoller EXCEPT
                        !.trace = t, !.stopped = FALSE, !.phase = "timer",
                        !.subs = {n}, !.head = from]]
                 /\ registry' = [registry EXCEPT ![t] = p]
                 /\ conn' = [conn EXCEPT ![n] = [FreeConn EXCEPT
                        !.state = "open", !.client = c, !.poller = p]]
  BY DEF Subscribe
<1>4. CanAccept(t) /\ UNCHANGED <<table, clock, faults>>
  BY DEF Subscribe
<1>5. TabsOK(client')
  BY <1>1, <1>3 DEF Typed, TabsOK, TabOK
<1>6. conn[n].poller = None /\ n \in Conns
  BY <1>1, <1>3 DEF Attached
<1>7. PICK p \in Pollers :
        /\ poller' \in [Pollers -> PollerRecs] /\ conn' \in [Conns -> ConnRecs]
        /\ registry' \in [Traces -> Pollers \cup {None}] /\ registry'[t] = p
        /\ \A u \in Traces : u # t => registry'[u] = registry[u]
        /\ registry[t] = None \/ registry[t] = p
        /\ \A q \in Pollers : q # p => poller'[q] = poller[q]
        /\ \A m \in Conns : m # n => conn'[m] = conn[m]
        /\ conn'[n].poller = p /\ conn'[n].state = "open"
        /\ poller'[p].subs = poller[p].subs \cup {n}
        /\ poller'[p].trace = t /\ ~ poller'[p].stopped /\ poller'[p].phase # "idle"
        /\ Cardinality(poller[p].subs) < MaxPerTrace
        /\ poller[p].stopped <=> registry[t] = None
  <2>1. CASE registry[t] # None
    <3>. DEFINE p == registry[t]
    <3>1. p \in Pollers /\ poller[p].trace = t /\ ~ poller[p].stopped
      BY <1>1, <1>2, <2>1 DEF Typed, Attached
    <3>2. poller[p].phase # "idle"
      BY <1>1, <3>1 DEF OneLoopPerTrace
    <3>3. poller' = [poller EXCEPT ![p].subs = @ \cup {n}] /\ registry' = registry
      BY <1>3, <2>1
    <3>4. PICK catchUp \in {"asked", "none"}, start \in Cursors :
            conn' = [conn EXCEPT ![n] = [FreeConn EXCEPT
                !.state = "open", !.client = c, !.poller = p,
                !.catchUp = catchUp, !.from = start]]
      BY <1>2, <1>3, <2>1, NothingTyped
    <3>5. Cardinality(poller[p].subs) < MaxPerTrace
      BY <1>4, <2>1 DEF CanAccept
    <3>. HIDE DEF p
    <3>6. conn' \in [Conns -> ConnRecs]
      BY <1>1, <3>1, <3>4, NothingTyped DEF Typed, FreeConn, ConnRecs
    <3>7. poller' \in [Pollers -> PollerRecs]
      BY <1>1, <3>1, <3>3 DEF Typed, PollerRecs
    <3>8. conn'[n].poller = p /\ conn'[n].state = "open" /\ \A m \in Conns : m # n => conn'[m] = conn[m]
      BY <1>1, <3>4 DEF Typed, FreeConn
    <3>9. /\ poller'[p].subs = poller[p].subs \cup {n} /\ poller'[p].trace = t
          /\ ~ poller'[p].stopped /\ poller'[p].phase # "idle"
          /\ \A q \in Pollers : q # p => poller'[q] = poller[q]
      BY <1>1, <3>1, <3>2, <3>3 DEF Typed, PollerRecs
    <3>10. registry[t] = p
      BY DEF p
    <3>11. registry' \in [Traces -> Pollers \cup {None}] /\ registry'[t] = p
      BY <1>1, <3>3, <3>10 DEF Typed
    <3>. QED  BY <2>1, <3>1, <3>3, <3>5, <3>6, <3>7, <3>8, <3>9, <3>10, <3>11
  <2>2. CASE registry[t] = None
    <3>1. PICK p \in Pollers :
            /\ poller[p] = NoPoller
            /\ poller' = [poller EXCEPT ![p] = [NoPoller EXCEPT
                   !.trace = t, !.stopped = FALSE, !.phase = "timer",
                   !.subs = {n}, !.head = from]]
            /\ registry' = [registry EXCEPT ![t] = p]
            /\ conn' = [conn EXCEPT ![n] = [FreeConn EXCEPT
                   !.state = "open", !.client = c, !.poller = p]]
      BY <1>3, <2>2
    <3>2. [NoPoller EXCEPT !.trace = t, !.stopped = FALSE, !.phase = "timer",
                           !.subs = {n}, !.head = from] \in PollerRecs
      BY <1>2, <1>6, NothingTyped DEF NoPoller, PollerRecs
    <3>3. poller' \in [Pollers -> PollerRecs]
      BY <1>1, <3>1, <3>2 DEF Typed
    <3>4. conn' \in [Conns -> ConnRecs]
      BY <1>1, <3>1, NothingTyped DEF Typed, FreeConn, ConnRecs
    <3>5. conn'[n].poller = p /\ conn'[n].state = "open" /\ \A m \in Conns : m # n => conn'[m] = conn[m]
      BY <1>1, <3>1 DEF Typed, FreeConn
    <3>6. /\ poller'[p].subs = poller[p].subs \cup {n} /\ poller'[p].trace = t
          /\ ~ poller'[p].stopped /\ poller'[p].phase # "idle"
          /\ \A q \in Pollers : q # p => poller'[q] = poller[q]
      BY <1>1, <3>1 DEF Typed, NoPoller
    <3>7. Cardinality(poller[p].subs) < MaxPerTrace
      <4>1. poller[p].subs = {} /\ 0 < MaxPerTrace
        BY <3>1, SizeAssumption DEF NoPoller
      <4>2. Cardinality({}) = 0
        BY FS_EmptySet
      <4>. QED  BY <4>1, <4>2
    <3>8. /\ registry' \in [Traces -> Pollers \cup {None}] /\ registry'[t] = p
          /\ \A u \in Traces : u # t => registry'[u] = registry[u]
      BY <1>1, <1>2, <3>1 DEF Typed
    <3>9. poller[p].stopped
      BY <3>1 DEF NoPoller
    <3>. QED  BY <2>2, <3>3, <3>4, <3>5, <3>6, <3>7, <3>8, <3>9
  <2>. QED  BY <2>1, <2>2
<1>. HIDE DEF t, from
<1>8. p # None /\ IsFiniteSet(Conns) /\ MaxSubscribers \in Nat /\ MaxPerTrace \in Nat
  BY SizeAssumption
<1>9. Attached'
  <2>1. \A m \in Conns : /\ conn'[m].state # "free" <=> conn'[m].poller # None
                         /\ conn'[m].catchUp # "none" => conn'[m].state # "free"
    BY <1>1, <1>7, <1>8 DEF Attached
  <2>2. ASSUME NEW u \in Traces, registry'[u] # None
        PROVE  poller'[registry'[u]].trace = u /\ ~ poller'[registry'[u]].stopped
    <3>1. CASE u = t
      BY <1>7, <3>1
    <3>2. CASE u # t
      <4>1. /\ registry'[u] = registry[u] /\ registry[u] \in Pollers
            /\ poller[registry[u]].trace = u /\ ~ poller[registry[u]].stopped
        BY <1>1, <1>7, <2>2, <3>2 DEF Attached, Typed
      <4>2. registry[u] # p
        <5>1. poller[p].stopped \/ poller[p].trace = t
          BY <1>1, <1>2, <1>7, <1>8 DEF Attached
        <5>. QED  BY <3>2, <4>1, <5>1
      <4>. QED  BY <1>7, <4>1, <4>2
    <3>. QED  BY <3>1, <3>2
  <2>3. \A q \in Pollers : ~ poller'[q].stopped => poller'[q].trace \in Traces
    BY <1>1, <1>2, <1>7 DEF Attached
  <2>. QED  BY <2>1, <2>2, <2>3 DEF Attached
<1>10. OneLoopPerTrace'
  <2>. SUFFICES ASSUME NEW q \in Pollers
                PROVE  IF poller'[q].stopped
                       THEN poller'[q].phase # "timer" /\ poller'[q].subs = {}
                       ELSE /\ registry'[poller'[q].trace] = q
                            /\ poller'[q].subs # {} /\ poller'[q].phase # "idle"
    BY DEF OneLoopPerTrace
  <2>1. CASE q = p
    BY <1>7, <2>1
  <2>2. CASE q # p /\ poller[q].stopped
    BY <1>1, <1>7, <2>2 DEF OneLoopPerTrace
  <2>3. CASE q # p /\ ~ poller[q].stopped
    <3>1. poller[q].trace # t
      BY <1>1, <1>7, <2>3, SizeAssumption DEF OneLoopPerTrace
    <3>2. poller[q].trace \in Traces
      BY <1>1, <2>3 DEF Attached
    <3>. QED  BY <1>1, <1>7, <2>3, <3>1, <3>2 DEF OneLoopPerTrace
  <2>. QED  BY <2>1, <2>2, <2>3
<1>11. SubscribersCounted' /\ count' \in Nat
  <2>. DEFINE A == {m \in Conns : conn[m].state # "free"}
  <2>1. {m \in Conns : conn'[m].state # "free"} = A \cup {n} /\ n \notin A
    <3>1. conn[n].state = "free" /\ conn'[n].state = "open"
      BY <1>3, <1>7
    <3>2. \A m \in Conns : m # n => conn'[m].state = conn[m].state
      BY <1>7
    <3>. QED  BY <3>1, <3>2
  <2>2. IsFiniteSet(A) /\ A \subseteq Conns
    BY <1>8, FS_Subset
  <2>3. Cardinality(A \cup {n}) = Cardinality(A) + 1 /\ Cardinality(A) \in Nat
    BY <2>1, <2>2, FS_AddElement, FS_CardinalityType
  <2>4. count = Cardinality(A) /\ count < MaxSubscribers /\ count' = count + 1
    BY <1>1, <1>3, <1>4 DEF SubscribersCounted, CanAccept
  <2>5. count' = Cardinality(A \cup {n}) /\ count' <= MaxSubscribers /\ count' \in Nat
    <3>. HIDE DEF A
    <3>. QED  BY <1>8, <2>3, <2>4
  <2>6. ASSUME NEW q \in Pollers
        PROVE  /\ poller'[q].subs = {m \in Conns : conn'[m].poller = q}
               /\ Cardinality(poller'[q].subs) <= MaxPerTrace
    <3>1. poller[q].subs = {m \in Conns : conn[m].poller = q} /\ Cardinality(poller[q].subs) <= MaxPerTrace
      BY <1>1 DEF SubscribersCounted
    <3>2. CASE q = p
      <4>1. n \notin poller[p].subs /\ poller[p].subs \subseteq Conns
        BY <1>6, <1>8, <3>1, <3>2
      <4>2. poller'[p].subs = {m \in Conns : conn'[m].poller = p}
        BY <1>6, <1>7, <3>1, <3>2
      <4>3. IsFiniteSet(poller[p].subs) /\ Cardinality(poller[p].subs) \in Nat
        BY <1>8, <4>1, FS_Subset, FS_CardinalityType
      <4>4. Cardinality(poller[p].subs \cup {n}) = Cardinality(poller[p].subs) + 1
        BY <4>1, <4>3, FS_AddElement
      <4>5. Cardinality(poller'[p].subs) = Cardinality(poller[p].subs) + 1
        BY <1>7, <4>4
      <4>6. Cardinality(poller'[p].subs) <= MaxPerTrace
        <5>1. Cardinality(poller[p].subs) < MaxPerTrace
          BY <1>7
        <5>. QED  BY <1>8, <4>3, <4>5, <5>1
      <4>. QED  BY <3>2, <4>2, <4>6
    <3>3. CASE q # p
      <4>1. {m \in Conns : conn'[m].poller = q} = {m \in Conns : conn[m].poller = q}
        <5>1. q # None
          BY SizeAssumption
        <5>. QED  BY <1>6, <1>7, <3>3, <5>1
      <4>. QED  BY <1>7, <3>1, <3>3, <4>1
    <3>. QED  BY <3>2, <3>3
  <2>. QED  BY <2>1, <2>5, <2>6 DEF SubscribersCounted
<1>12. Typed'
  BY <1>1, <1>4, <1>5, <1>7, <1>11 DEF Typed
<1>. QED  BY <1>9, <1>10, <1>11, <1>12 DEF IInv, Books

\* Subscribers leave poller p, whether it noticed, could not catch them up or dropped them.
LEMMA LeaveInv ==
    ASSUME IInv, NEW p \in Pollers, NEW q, Remains(p, q), q.subs = poller[p].subs,
           q.phase = poller[p].phase \/ (q.phase = "idle" /\ q.subs # {}),
           NEW S \in SUBSET q.subs, q.phase = poller[p].phase \/ S = q.subs,
           SetPoller(p, Detached(q, S)), conn' = Freed(conn, S), TabsOK(client'),
           UNCHANGED <<table, clock>>, faults' \in 0 .. MaxFaults
    PROVE  IInv'
<1>. DEFINE r == Detached(q, S)
<1>1. /\ poller[p].subs \subseteq Conns
      /\ poller[p].stopped <=> poller[p].subs = {}
      /\ poller[p].phase = "timer" => ~ poller[p].stopped
      /\ ~ poller[p].stopped => poller[p].phase # "idle"
      /\ conn \in [Conns -> ConnRecs]
  BY SubsOf DEF IInv, Typed, Books, OneLoopPerTrace
<1>2. Remains(p, r) /\ r.subs = q.subs \ S
  BY DetachedRemains
<1>3. r.stopped => r.phase # "timer"
  BY <1>1, DetachedRemains DEF Remains
<1>4. ~ r.stopped => r.phase # "idle"
  <2>. SUFFICES ASSUME ~ r.stopped PROVE r.phase # "idle"
    OBVIOUS
  <2>1. r.phase = q.phase /\ r.subs # {}
    BY <1>2, DetachedRemains DEF Remains
  <2>2. S # q.subs /\ ~ poller[p].stopped
    BY <1>1, <1>2, <2>1
  <2>. QED  BY <1>1, <2>1, <2>2
<1>5. conn' \in [Conns -> ConnRecs]
  BY <1>1, NothingTyped DEF Freed
<1>. HIDE DEF r
<1>6. Frees(p, r.subs, conn')
  BY <1>1, <1>2 DEF Frees, Freed
<1>7. SetPoller(p, r)
  BY DEF r
<1>8. /\ Books' /\ poller' \in [Pollers -> PollerRecs]
      /\ registry' \in [Traces -> Pollers \cup {None}] /\ count' \in Nat
  BY <1>2, <1>3, <1>4, <1>5, <1>6, <1>7, LeavesBooks
<1>. QED  BY <1>5, <1>8 DEF IInv, Typed

\* A poller as it is, with nobody gone.
LEMMA PollerRemains == ASSUME IInv, NEW p \in Pollers PROVE Remains(p, poller[p])
BY SubsOf DEF Remains

\* The poller of an attached connection.
LEMMA PollerOf ==
    ASSUME IInv, NEW n \in Conns, conn[n].state # "free" \/ conn[n].catchUp # "none"
    PROVE  /\ conn[n].poller \in Pollers /\ {n} \in SUBSET poller[conn[n].poller].subs
           /\ conn[n].state # "free"
<1>1. conn[n].state # "free" /\ conn[n].poller \in Pollers
  BY DEF IInv, Books, Attached, Typed, ConnRecs
<1>. QED  BY <1>1, SubsOf

LEMMA NoticeInv == ASSUME IInv, NEW n \in Conns, Notice(n) PROVE IInv'
<1>. DEFINE p == conn[n].poller
<1>1. p \in Pollers /\ {n} \in SUBSET poller[p].subs
  BY PollerOf DEF Notice
<1>2. /\ SetPoller(p, Detached(poller[p], {n})) /\ conn' = Freed(conn, {n})
      /\ UNCHANGED <<table, clock, client, faults>>
  BY DEF Notice
<1>3. TabsOK(client') /\ faults' \in 0 .. MaxFaults
  BY <1>2 DEF IInv, Typed
<1>. HIDE DEF p
<1>. QED  BY <1>1, <1>2, <1>3, PollerRemains, LeaveInv

LEMMA CatchUpFailInv == ASSUME IInv, NEW n \in Conns, CatchUpFail(n) PROVE IInv'
<1>. DEFINE p == conn[n].poller
<1>1. p \in Pollers /\ {n} \in SUBSET poller[p].subs
  BY PollerOf DEF CatchUpFail
<1>2. /\ SetPoller(p, Detached(poller[p], {n})) /\ conn' = Freed(conn, {n})
      /\ client' = Cut(client, {n}) /\ UNCHANGED <<table, clock>>
  BY DEF CatchUpFail
<1>3. faults' \in 0 .. MaxFaults
  BY SizeAssumption DEF CatchUpFail, Fault, IInv, Typed
<1>4. TabsOK(client')
  BY <1>2, CutTyped DEF IInv, Typed
<1>. HIDE DEF p
<1>. QED  BY <1>1, <1>2, <1>3, <1>4, PollerRemains, LeaveInv

LEMMA SlowCounted ==
    ASSUME IInv, NEW S, NEW slow \in SlowOnes(S), CountSlow(slow)
    PROVE  slow \subseteq S /\ faults' \in 0 .. MaxFaults
BY SizeAssumption DEF SlowOnes, CountSlow, IInv, Typed

LEMMA CatchUpReadInv == ASSUME IInv, NEW n \in Conns, CatchUpRead(n) PROVE IInv'
<1>1. PICK d \in FetchDeltas(poller[conn[n].poller].trace, conn[n].from) :
          conn' = [conn EXCEPT ![n].catchUp = "read", ![n].from = Zero, ![n].result = d]
  BY DEF CatchUpRead
<1>2. conn \in [Conns -> ConnRecs] /\ Typed
  BY DEF IInv, Typed
<1>3. d \in Deltas
  BY <1>1, <1>2, FetchedTyped DEF ConnRecs
<1>. DEFINE read == [conn[n] EXCEPT !.catchUp = "read", !.from = Zero, !.result = d]
<1>7. /\ read \in ConnRecs /\ conn[n].catchUp # "none"
      /\ read.poller = conn[n].poller /\ read.state = conn[n].state
  BY <1>2, <1>3, NothingTyped DEF ConnRecs, CatchUpRead
<1>8. conn' = [conn EXCEPT ![n] = read]
  BY <1>1, <1>2
<1>. HIDE DEF read
<1>4. conn' \in [Conns -> ConnRecs]
  BY <1>2, <1>7, <1>8
<1>5. \A m \in Conns : /\ conn'[m].poller = conn[m].poller
                       /\ conn'[m].state = conn[m].state
                       /\ conn'[m].catchUp # "none" => conn[m].catchUp # "none"
  BY <1>2, <1>7, <1>8
<1>6. UNCHANGED <<table, clock, poller, registry, count, client, faults>>
  BY DEF CatchUpRead
<1>. QED  BY <1>2, <1>4, <1>5, <1>6, TabStepInv DEF Typed

LEMMA CatchUpDoneInv == ASSUME IInv, NEW n \in Conns, CatchUpDone(n) PROVE IInv'
<1>. DEFINE d    == conn[n].result
            p    == conn[n].poller
            done == [conn EXCEPT ![n].catchUp = "none", ![n].result = NoDelta]
<1>1. conn \in [Conns -> ConnRecs] /\ TabsOK(client) /\ faults \in 0 .. MaxFaults
  BY DEF IInv, Typed
<1>2. p \in Pollers /\ {n} \in SUBSET poller[p].subs
  BY PollerOf DEF CatchUpDone
<1>3. /\ done \in [Conns -> ConnRecs]
      /\ \A m \in Conns : /\ done[m].poller = conn[m].poller /\ done[m].state = conn[m].state
                          /\ done[m].catchUp # "none" => conn[m].catchUp # "none"
  BY <1>1, NothingTyped DEF ConnRecs
<1>4. UNCHANGED <<table, clock>>
  BY DEF CatchUpDone
<1>5. CASE conn' = done /\ UNCHANGED <<poller, registry, count, client, faults>>
  <2>. HIDE DEF done
  <2>. QED  BY <1>1, <1>3, <1>4, <1>5, TabStepInv
<1>6. ASSUME NEW slow \in SlowOnes({n}), CountSlow(slow), Overrun(slow) = {},
             client' = Deliver({n}, d),
             conn' = [done EXCEPT ![n].strikes = IF n \in slow THEN @ + 1 ELSE 0],
             UNCHANGED <<poller, registry, count>>
      PROVE  IInv'
  <2>1. TabsOK(client')
    <3>1. d.cursor \in Cursors
      BY <1>1 DEF ConnRecs, Deltas
    <3>. HIDE DEF d
    <3>. QED  BY <1>1, <1>6, <3>1, DeliverTyped
  <2>2. faults' \in 0 .. MaxFaults
    BY <1>6, SlowCounted
  <2>3. n \in slow => conn[n].strikes < MaxStrikes
    BY <1>1, <1>6, SizeAssumption DEF Overrun, ConnRecs
  <2>4. done[n].strikes = conn[n].strikes
    BY <1>1 DEF ConnRecs
  <2>. HIDE DEF done
  <2>5. conn' \in [Conns -> ConnRecs]
    <3>1. (IF n \in slow THEN done[n].strikes + 1 ELSE 0) \in 0 .. MaxStrikes
      BY <1>1, <2>3, <2>4, SizeAssumption DEF ConnRecs
    <3>. QED  BY <1>3, <1>6, <3>1 DEF ConnRecs
  <2>6. \A m \in Conns : /\ conn'[m].poller = done[m].poller /\ conn'[m].state = done[m].state
                         /\ conn'[m].catchUp = done[m].catchUp
    BY <1>3, <1>6 DEF ConnRecs
  <2>. QED  BY <1>3, <1>4, <1>6, <2>1, <2>2, <2>5, <2>6, TabStepInv
<1>7. ASSUME NEW slow \in SlowOnes({n}), CountSlow(slow), client' = Cut(client, {n}),
             conn' = Freed(conn, {n}), SetPoller(p, Detached(poller[p], {n}))
      PROVE  IInv'
  <2>1. TabsOK(client')
    BY <1>1, <1>7, CutTyped
  <2>2. faults' \in 0 .. MaxFaults
    BY <1>7, SlowCounted
  <2>. HIDE DEF p
  <2>. QED  BY <1>2, <1>4, <1>7, <2>1, <2>2, PollerRemains, LeaveInv
<1>. QED
  <2>1. CASE ~ HasData(d)
    BY <1>5, <2>1 DEF CatchUpDone
  <2>2. CASE HasData(d)
    <3>1. PICK slow \in SlowOnes({n}) :
              /\ CountSlow(slow)
              /\ IF Overrun(slow) = {}
                 THEN /\ client' = Deliver({n}, d)
                      /\ conn' = [done EXCEPT ![n].strikes = IF n \in slow THEN @ + 1 ELSE 0]
                      /\ UNCHANGED <<poller, registry, count>>
                 ELSE /\ client' = Cut(client, {n})
                      /\ conn' = Freed(conn, {n})
                      /\ SetPoller(p, Detached(poller[p], {n}))
      BY <2>2 DEF CatchUpDone
    <3>. HIDE DEF d, p, done
    <3>. QED  BY <3>1, <1>6, <1>7
  <2>. QED  BY <2>1, <2>2

LEMMA PollerAloneInv ==
    ASSUME IInv, NEW p \in Pollers, TickRead(p) \/ Quieten(p)
    PROVE  IInv'
<1>1. Typed /\ poller \in [Pollers -> PollerRecs]
  BY DEF IInv, Typed
<1>2. UNCHANGED <<table, clock, registry, count, conn, client, faults>>
  BY DEF TickRead, Quieten
<1>3. /\ poller' \in [Pollers -> PollerRecs]
      /\ \A q \in Pollers :
             /\ poller'[q].trace = poller[q].trace /\ poller'[q].subs = poller[q].subs
             /\ poller'[q].stopped = poller[q].stopped
             /\ \/ poller'[q].phase = poller[q].phase
                \/ poller'[q].phase = "polling"
  <2>1. CASE TickRead(p)
    <3>1. PICK d \in FetchDeltas(poller[p].trace, poller[p].head) :
              poller' = [poller EXCEPT ![p].phase = "polling", ![p].result = d]
      BY <2>1 DEF TickRead
    <3>2. d \in Deltas
      BY <1>1, <3>1, FetchedTyped DEF PollerRecs
    <3>3. poller' \in [Pollers -> PollerRecs]
      <4>. DEFINE asking == [poller[p] EXCEPT !.phase = "polling", !.result = d]
      <4>1. asking \in PollerRecs
        BY <1>1, <3>2 DEF PollerRecs
      <4>2. poller' = [poller EXCEPT ![p] = asking]
        BY <1>1, <3>1
      <4>. HIDE DEF asking
      <4>. QED  BY <1>1, <4>1, <4>2
    <3>4. DOMAIN poller[p] = {"trace", "stopped", "phase", "subs", "head", "boundary", "root",
                              "quiet", "errors", "result"}
      BY <1>1 DEF PollerRecs
    <3>5. /\ poller'[p].trace = poller[p].trace /\ poller'[p].subs = poller[p].subs
          /\ poller'[p].stopped = poller[p].stopped /\ poller'[p].phase = "polling"
      BY <1>1, <3>1, <3>4
    <3>6. \A q \in Pollers : q # p => poller'[q] = poller[q]
      BY <1>1, <3>1
    <3>. QED  BY <3>3, <3>5, <3>6
  <2>2. CASE Quieten(p)
    <3>1. poller' = [poller EXCEPT ![p].quiet = @ + 1] /\ poller[p].quiet + 1 \in 0 .. 2
      BY <1>1, <2>2 DEF Quieten, PollerRecs
    <3>. QED  BY <1>1, <3>1 DEF PollerRecs
  <2>. QED  BY <2>1, <2>2
<1>4. Books'
  BY <1>1, <1>2, <1>3, StaysBooks DEF Typed
<1>5. Typed'
  BY <1>1, <1>2, <1>3 DEF Typed
<1>. QED  BY <1>4, <1>5 DEF IInv

LEMMA TickFailInv == ASSUME IInv, NEW p \in Pollers, TickFail(p) PROVE IInv'
<1>. DEFINE q == [poller[p] EXCEPT !.phase = "idle", !.errors = @ + 1]
<1>1. /\ poller[p] \in PollerRecs
      /\ poller[p].phase = "timer" /\ poller[p].subs # {}
      /\ poller[p].stopped <=> poller[p].subs = {}
  BY SubsOf DEF TickFail
<1>2. faults' \in 0 .. MaxFaults /\ UNCHANGED <<table, clock>>
  BY SizeAssumption DEF TickFail, Fault, IInv, Typed
<1>3. /\ q.subs = poller[p].subs /\ q.trace = poller[p].trace /\ q.stopped = poller[p].stopped
      /\ q.phase = "idle" /\ q.errors = poller[p].errors + 1
  BY <1>1 DEF PollerRecs
<1>4. CASE /\ q.errors >= MaxErrors
           /\ client' = Cut(client, q.subs)
           /\ conn' = Freed(conn, q.subs)
           /\ SetPoller(p, Detached(q, q.subs))
  \* The breaker: the poller is gone, so the number of its errors is of no account.
  <2>. DEFINE g == [poller[p] EXCEPT !.phase = "idle"]
  <2>1. g \in PollerRecs /\ g.subs = poller[p].subs /\ g.phase = "idle"
        /\ g.trace = poller[p].trace /\ g.stopped = poller[p].stopped
    BY <1>1 DEF PollerRecs
  <2>2. Remains(p, g)
    BY <1>1, <2>1 DEF Remains
  <2>3. /\ Detached(q, q.subs).stopped /\ Detached(q, q.subs).phase = "idle"
        /\ Detached(q, q.subs).subs = {}
    BY <1>1, <1>3 DEF Detached, PollerRecs
  <2>4. /\ Detached(g, g.subs).stopped /\ Detached(g, g.subs).phase = "idle"
        /\ Detached(g, g.subs).subs = {}
    BY <1>1, <2>1 DEF Detached, PollerRecs
  <2>. HIDE DEF g, q
  <2>5. SetPoller(p, Detached(g, g.subs))
    BY <1>4, <2>3, <2>4 DEF SetPoller, Collected, Unregistered
  <2>6. TabsOK(client')
    BY <1>4, CutTyped DEF IInv, Typed
  <2>7. conn' = Freed(conn, g.subs)
    BY <1>3, <1>4, <2>1
  <2>. QED  BY <1>1, <1>2, <2>1, <2>2, <2>5, <2>6, <2>7, LeaveInv
<1>5. CASE q.errors < MaxErrors /\ Conclude(p, q, client, conn)
  <2>1. q \in PollerRecs
    <3>1. poller[p].errors + 1 \in 0 .. MaxErrors - 1
      BY <1>1, <1>3, <1>5, SizeAssumption DEF PollerRecs
    <3>. QED  BY <1>1, <3>1 DEF PollerRecs
  <2>2. Remains(p, q)
    BY <1>1, <1>3, <2>1 DEF Remains
  <2>. HIDE DEF q
  <2>3. conn \in [Conns -> ConnRecs] /\ TabsOK(client)
    BY DEF IInv, Typed
  <2>4. Frees(p, q.subs, conn)
    BY <1>3 DEF Frees
  <2>5. /\ Books' /\ poller' \in [Pollers -> PollerRecs]
        /\ registry' \in [Traces -> Pollers \cup {None}] /\ count' \in Nat
        /\ conn' \in [Conns -> ConnRecs] /\ TabsOK(client')
    BY <1>3, <1>5, <2>2, <2>3, <2>4, ConcludeInv
  <2>. QED  BY <1>2, <2>5 DEF IInv, Typed
<1>. QED  BY <1>4, <1>5 DEF TickFail

\* The poller after a successful read, before its verdict.
LEMMA ReadRemains ==
    ASSUME IInv, NEW p \in Pollers
    PROVE  LET q     == poller[p]
               delta == [q.result EXCEPT !.rows = Trimmed(q)]
               fresh == HasData(delta)
               root  == q.root \/ delta.root
               quiet == IF fresh THEN 0 ELSE q.quiet
               read  == [q EXCEPT !.phase = "idle", !.result = NoDelta, !.errors = 0,
                                  !.head = delta.cursor, !.boundary = NextBoundary(q),
                                  !.root = root, !.quiet = quiet]
           IN  /\ delta.cursor = q.result.cursor /\ delta.cursor \in Cursors
               /\ Remains(p, read) /\ read.phase = "idle" /\ read.subs = q.subs
               /\ read.head = delta.cursor
<1>. DEFINE q     == poller[p]
            delta == [q.result EXCEPT !.rows = Trimmed(q)]
            fresh == HasData(delta)
            root  == q.root \/ delta.root
            quiet == IF fresh THEN 0 ELSE q.quiet
            read  == [q EXCEPT !.phase = "idle", !.result = NoDelta, !.errors = 0,
                               !.head = delta.cursor, !.boundary = NextBoundary(q),
                               !.root = root, !.quiet = quiet]
<1>1. /\ q \in PollerRecs /\ q.subs \subseteq Conns
      /\ q.stopped <=> q.subs = {}
  BY SubsOf
<1>2. /\ delta.cursor = q.result.cursor /\ delta.root = q.result.root
      /\ delta.cursor \in Cursors /\ delta.root \in BOOLEAN /\ q.result \in Deltas
  BY <1>1 DEF PollerRecs, Deltas
<1>3. NextBoundary(q) \in [Kinds -> SUBSET {RowKey(r) : r \in AnyRow}]
  <2>1. \A k \in Kinds : q.result.rows[k] \subseteq AnyRow
    BY <1>2 DEF Deltas
  <2>2. \A k \in Kinds : q.boundary[k] \subseteq {RowKey(r) : r \in AnyRow}
    BY <1>1 DEF PollerRecs
  <2>. QED  BY <2>1, <2>2 DEF NextBoundary
<1>4. Remains(p, read) /\ read.phase = "idle" /\ read.subs = q.subs
      /\ read.head = delta.cursor
  <2>. HIDE DEF delta, fresh
  <2>1. read \in PollerRecs
    <3>1. root \in BOOLEAN
      OBVIOUS
    <3>2. quiet \in 0 .. 2
      BY <1>1 DEF PollerRecs
    <3>. HIDE DEF root, quiet
    <3>. QED  BY <1>1, <1>2, <1>3, <3>1, <3>2, ReadTyped
  <2>2. /\ read.phase = "idle" /\ read.subs = q.subs /\ read.trace = q.trace
        /\ read.stopped = q.stopped /\ read.head = delta.cursor
    BY <1>1 DEF PollerRecs
  <2>. HIDE DEF read
  <2>. QED  BY <1>1, <2>1, <2>2 DEF Remains
<1>. QED  BY <1>2, <1>4

LEMMA TickDoneInv == ASSUME IInv, NEW p \in Pollers, TickDone(p) PROVE IInv'
<1>. DEFINE q     == poller[p]
            delta == [q.result EXCEPT !.rows = Trimmed(q)]
            fresh == HasData(delta)
            root  == q.root \/ delta.root
            quiet == IF fresh THEN 0 ELSE q.quiet
            read  == [q EXCEPT !.phase = "idle", !.result = NoDelta, !.errors = 0,
                               !.head = delta.cursor, !.boundary = NextBoundary(q),
                               !.root = root, !.quiet = quiet]
<1>1. PICK slow \in IF fresh THEN SlowOnes(q.subs) ELSE {{}} :
        LET gone == Overrun(slow)
            sent == IF fresh THEN q.subs \ gone ELSE {} IN
        /\ CountSlow(slow)
        /\ Conclude(p, Detached(read, gone), Cut(Deliver(sent, delta), gone),
                    Freed(Struck(sent, slow), gone))
  BY DEF TickDone
<1>. DEFINE gone == Overrun(slow)
            sent == IF fresh THEN q.subs \ gone ELSE {}
            cl   == Cut(Deliver(sent, delta), gone)
            cn   == Freed(Struck(sent, slow), gone)
<1>2. /\ delta.cursor \in Cursors
      /\ Remains(p, read) /\ read.phase = "idle" /\ read.subs = q.subs
  BY ReadRemains
<1>3. slow \subseteq q.subs /\ faults' \in 0 .. MaxFaults
  <2>1. slow \in SlowOnes(q.subs) \/ slow = {}
    BY <1>1
  <2>2. CASE slow = {}
    BY <1>1, <2>2 DEF CountSlow, IInv, Typed
  <2>3. CASE slow \in SlowOnes(q.subs)
    BY <1>1, <2>3, SlowCounted
  <2>. QED  BY <2>1, <2>2, <2>3
<1>4. gone \subseteq slow
  BY DEF Overrun
<1>5. conn \in [Conns -> ConnRecs] /\ TabsOK(client)
  BY DEF IInv, Typed
<1>6. TabsOK(cl)
  <2>. HIDE DEF delta, gone, sent
  <2>. QED  BY <1>2, <1>5, DeliverTyped, CutTyped
<1>7. /\ cn \in [Conns -> ConnRecs]
      /\ \A n \in Conns : IF n \in gone THEN cn[n] = FreeConn
              ELSE /\ cn[n].poller = conn[n].poller /\ cn[n].state = conn[n].state
                   /\ cn[n].catchUp = conn[n].catchUp
  <2>. SUFFICES ASSUME NEW n \in Conns
                PROVE  /\ cn[n] \in ConnRecs
                       /\ IF n \in gone THEN cn[n] = FreeConn
                          ELSE /\ cn[n].poller = conn[n].poller /\ cn[n].state = conn[n].state
                               /\ cn[n].catchUp = conn[n].catchUp
    BY DEF Freed
  <2>1. CASE n \in gone
    BY <2>1, NothingTyped DEF Freed
  <2>2. CASE n \notin gone /\ n \notin sent
    <3>. HIDE DEF sent, gone
    <3>. QED  BY <1>5, <2>2 DEF Freed, Struck
  <2>3. CASE n \notin gone /\ n \in sent
    <3>1. n \in slow => conn[n].strikes < MaxStrikes
      BY <1>5, <2>3, SizeAssumption DEF Overrun, ConnRecs
    <3>2. (IF n \in slow THEN conn[n].strikes + 1 ELSE 0) \in 0 .. MaxStrikes
      BY <1>5, <3>1, SizeAssumption DEF ConnRecs
    <3>. HIDE DEF sent, gone
    <3>3. cn[n] = [conn[n] EXCEPT !.strikes = IF n \in slow THEN conn[n].strikes + 1 ELSE 0]
      BY <2>3 DEF Freed, Struck
    <3>. QED  BY <1>5, <2>3, <3>2, <3>3 DEF ConnRecs
  <2>. QED  BY <2>1, <2>2, <2>3
<1>8. gone \in SUBSET read.subs
  BY <1>2, <1>3, <1>4
<1>. HIDE DEF delta, fresh, root, quiet, read, gone, sent
<1>9. Remains(p, Detached(read, gone)) /\ Detached(read, gone).phase = "idle"
       /\ Detached(read, gone).subs = q.subs \ gone
  BY <1>2, <1>8, DetachedRemains
<1>. HIDE DEF cl, cn
<1>10. Frees(p, Detached(read, gone).subs, cn)
  BY <1>2, <1>7, <1>8, <1>9 DEF Frees
<1>11. Conclude(p, Detached(read, gone), cl, cn)
  BY <1>1 DEF gone, sent, cl, cn
<1>12. /\ Books' /\ poller' \in [Pollers -> PollerRecs]
       /\ registry' \in [Traces -> Pollers \cup {None}] /\ count' \in Nat
       /\ conn' \in [Conns -> ConnRecs] /\ TabsOK(client')
  BY <1>6, <1>7, <1>9, <1>10, <1>11, ConcludeInv
<1>13. UNCHANGED <<table, clock>>
  BY DEF TickDone
<1>. QED  BY <1>3, <1>12, <1>13 DEF IInv, Typed

LEMMA NextInv == ASSUME IInv, [Next]_vars PROVE IInv'
<1>1. CASE UNCHANGED vars
  <2>1. Typed'
    BY <1>1 DEF vars, IInv, Typed
  <2>2. Books'
    BY <1>1, StaysBooks DEF vars, IInv, Typed
  <2>. QED  BY <2>1, <2>2 DEF IInv
<1>2. CASE \E k \in Kinds : Insert(k)
  BY <1>2, InsertInv
<1>3. CASE \E c \in Clients : Load(c) \/ Subscribe(c) \/ Rejected(c) \/ Drop(c) \/ Hide(c) \/ Show(c)
  BY <1>3, TabsAloneInv, SubscribeInv, BrokenInv
<1>4. CASE \E n \in Conns : Notice(n) \/ CatchUpRead(n) \/ CatchUpDone(n) \/ CatchUpFail(n)
  BY <1>4, NoticeInv, CatchUpReadInv, CatchUpDoneInv, CatchUpFailInv
<1>5. CASE \E p \in Pollers : TickRead(p) \/ TickDone(p) \/ TickFail(p) \/ Quieten(p)
  BY <1>5, PollerAloneInv, TickDoneInv, TickFailInv
<1>. QED  BY <1>1, <1>2, <1>3, <1>4, <1>5 DEF Next

LEMMA BooksFollow == ASSUME IInv PROVE BrokerBooks
<1>1. \A d \in Deltas : IsDelta(d)
  BY DEF Deltas, IsDelta
<1>2. TypeOK
  <2>1. \A k \in Kinds : table[k] \subseteq Row(k) /\ clock[k] \in 0 .. MaxMs
    BY DEF IInv, Typed, Cursors
  <2>2. \A p \in Pollers : poller[p] \in PollerRecs
    BY DEF IInv, Typed
  <2>3. \A n \in Conns : conn[n] \in ConnRecs
    BY DEF IInv, Typed
  <2>4. \A p \in Pollers : IsDelta(poller[p].result)
    BY <1>1, <2>2 DEF PollerRecs
  <2>5. \A n \in Conns : IsDelta(conn[n].result)
    BY <1>1, <2>3 DEF ConnRecs
  <2>6. \A c \in Clients : TabOK(client[c])
    BY DEF IInv, Typed, TabsOK
  <2>. QED  BY <2>1, <2>2, <2>3, <2>4, <2>5, <2>6
            DEF TypeOK, PollerRecs, ConnRecs, TabOK, IInv, Typed
<1>. QED  BY <1>2 DEF IInv, Books, BrokerBooks

\* One loop per watched trace and none without subscribers, and counters that are true and
\* within the caps, after any order of connections, fetches, ends, drops and faults.
THEOREM BooksTrue == Spec => []BrokerBooks
<1>1. Init => IInv
  BY InitInv
<1>2. IInv /\ [Next]_vars => IInv'
  BY NextInv
<1>3. IInv => BrokerBooks
  BY BooksFollow
<1>. QED  BY <1>1, <1>2, <1>3, PTL DEF Spec

--------------------------------------------------------------------------------
(***************************************************************************)
(* Reading moves forward.                                                  *)
(***************************************************************************)
NotBefore(a, b) == \A k \in Kinds : b[k] <= a[k]

\* A fetch under way answers from the poller's watermark on, and a tab that has not
\* loaded has read nothing and is sent nothing.
Ahead ==
    /\ \A p \in Pollers : poller[p].phase = "polling" =>
           NotBefore(poller[p].result.cursor, poller[p].head)
    /\ \A c \in Clients : client[c].status = "unloaded" =>
           /\ client[c].cursor = Zero
           /\ \A n \in Conns : conn[n].state = "open" => conn[n].client # c

PollersAdvance ==
    \A p \in Pollers :
        /\ \/ poller[p] = NoPoller \/ poller'[p] = NoPoller
           \/ NotBefore(poller'[p].head, poller[p].head)
        /\ poller'[p].phase = "polling" => NotBefore(poller'[p].result.cursor, poller'[p].head)

TabsAdvance(cl) ==
    \A c \in Clients :
        /\ NotBefore(cl[c].cursor, client[c].cursor)
        /\ cl[c].status = "unloaded" =>
               client[c].status = "unloaded" /\ cl[c].cursor = client[c].cursor

ConnsKept(cn) ==
    \A n \in Conns : cn[n].state = "open" =>
        conn[n].state = "open" /\ cn[n].client = conn[n].client

Advances == PollersAdvance /\ TabsAdvance(client')

LEMMA AheadInit == ASSUME Init PROVE Ahead
BY DEF Init, Ahead, NoPoller, NewClient, FreeConn

LEMMA AheadStep ==
    ASSUME Ahead, PollersAdvance, TabsAdvance(client'), ConnsKept(conn')
    PROVE  Ahead'
BY DEF Ahead, PollersAdvance, TabsAdvance, ConnsKept

LEMMA Reflexive ==
    ASSUME IInv
    PROVE  /\ \A p \in Pollers : NotBefore(poller[p].head, poller[p].head)
           /\ \A c \in Clients : NotBefore(client[c].cursor, client[c].cursor)
           /\ TabsAdvance(client) /\ ConnsKept(conn)
<1>1. \A a \in Cursors : NotBefore(a, a)
  BY SizeAssumption DEF Cursors, NotBefore
<1>. QED  BY <1>1 DEF IInv, Typed, PollerRecs, TabsOK, TabOK, TabsAdvance, ConnsKept

LEMMA SamePollers == ASSUME IInv, Ahead, poller' = poller PROVE PollersAdvance
BY Reflexive DEF PollersAdvance, Ahead

\* A poller that subscribers left, or whose tick ended.
LEMMA SetAdvances ==
    ASSUME IInv, Ahead, NEW p \in Pollers, NEW r, SetPoller(p, r),
           NotBefore(r.head, poller[p].head),
           r.phase = "polling" => /\ poller[p].phase = "polling"
                                  /\ r.head = poller[p].head /\ r.result = poller[p].result
    PROVE  PollersAdvance
<1>1. /\ poller'[p] = r \/ poller'[p] = NoPoller
      /\ \A q \in Pollers : q # p => poller'[q] = poller[q]
  BY DEF SetPoller, Collected, IInv, Typed
<1>2. NoPoller.phase # "polling"
  BY DEF NoPoller
<1>. QED  BY <1>1, <1>2, Reflexive DEF PollersAdvance, Ahead

LEMMA DetachedKeeps ==
    ASSUME NEW q \in PollerRecs, NEW S
    PROVE  /\ Detached(q, S).head = q.head /\ Detached(q, S).result = q.result
           /\ Detached(q, S).phase = q.phase \/ Detached(q, S).phase = "idle"
BY DEF Detached, PollerRecs

LEMMA LeaveAdvances ==
    ASSUME IInv, Ahead, NEW p \in Pollers, NEW S, SetPoller(p, Detached(poller[p], S))
    PROVE  PollersAdvance
<1>1. poller[p] \in PollerRecs
  BY DEF IInv, Typed
<1>. QED  BY <1>1, DetachedKeeps, Reflexive, SetAdvances

LEMMA DeliverAdvances ==
    ASSUME IInv, Ahead, NEW S \in SUBSET Conns, NEW d, d.cursor \in Cursors
    PROVE  TabsAdvance(Deliver(S, d))
<1>. SUFFICES ASSUME NEW c \in Clients
              PROVE  /\ NotBefore(Deliver(S, d)[c].cursor, client[c].cursor)
                     /\ Deliver(S, d)[c].status = "unloaded" =>
                            /\ client[c].status = "unloaded"
                            /\ Deliver(S, d)[c].cursor = client[c].cursor
  BY DEF TabsAdvance
<1>1. TabOK(client[c])
  BY DEF IInv, Typed, TabsOK
<1>2. CASE c \in ClientsOf(Reached(S))
  <2>1. Deliver(S, d)[c] = ApplyDelta(client[c], d)
    BY <1>2 DEF Deliver
  <2>2. /\ ApplyDelta(client[c], d).cursor = MaxCursor(client[c].cursor, d.cursor)
        /\ ApplyDelta(client[c], d).status = client[c].status
    BY <1>1 DEF ApplyDelta, TabOK
  <2>3. NotBefore(MaxCursor(client[c].cursor, d.cursor), client[c].cursor)
    BY <1>1, SizeAssumption DEF MaxCursor, NotBefore, Cursors, TabOK
  <2>4. client[c].status # "unloaded"
    BY <1>2 DEF ClientsOf, Reached, Ahead
  <2>. QED  BY <2>1, <2>2, <2>3, <2>4
<1>3. CASE c \notin ClientsOf(Reached(S))
  BY <1>3, Reflexive DEF Deliver
<1>. QED  BY <1>2, <1>3

LEMMA CutAdvances ==
    ASSUME NEW cl, TabsOK(cl), TabsAdvance(cl), NEW S
    PROVE  TabsAdvance(Cut(cl, S))
BY DEF TabsAdvance, Cut, TabsOK, TabOK

LEMMA EndedAdvances ==
    ASSUME NEW cl, TabsOK(cl), TabsAdvance(cl), NEW S, NEW why
    PROVE  TabsAdvance(Ended(cl, S, why))
BY DEF TabsAdvance, Ended, TabsOK, TabOK

LEMMA FreedKept ==
    ASSUME NEW cn, ConnsKept(cn), NEW S
    PROVE  ConnsKept(Freed(cn, S))
BY DEF ConnsKept, Freed, FreeConn

LEMMA ConcludeAdvances ==
    ASSUME IInv, Ahead, NEW p \in Pollers, NEW q \in PollerRecs, q.phase = "idle",
           NotBefore(q.head, poller[p].head),
           NEW cl, TabsOK(cl), TabsAdvance(cl), NEW cn, ConnsKept(cn), Conclude(p, q, cl, cn)
    PROVE  Advances /\ Ahead'
<1>. DEFINE v == Verdict(q)
            t == IF v = "again" THEN [q EXCEPT !.phase = "timer"] ELSE q
<1>1. t.head = q.head /\ t.phase # "polling"
  BY DEF PollerRecs
<1>2. Detached(q, q.subs).head = q.head /\ Detached(q, q.subs).phase # "polling"
  BY DetachedKeeps
<1>3. CASE /\ client' = Ended(cl, q.subs, v)
           /\ conn' = Freed(cn, q.subs)
           /\ SetPoller(p, Detached(q, q.subs))
  <2>1. PollersAdvance
    BY <1>2, <1>3, SetAdvances
  <2>. HIDE DEF v
  <2>2. TabsAdvance(client') /\ ConnsKept(conn')
    BY <1>3, EndedAdvances, FreedKept
  <2>. QED  BY <2>1, <2>2, AheadStep DEF Advances
<1>4. CASE client' = cl /\ conn' = cn /\ SetPoller(p, t)
  <2>. HIDE DEF t, v
  <2>1. PollersAdvance
    BY <1>1, <1>4, SetAdvances
  <2>. QED  BY <1>4, <2>1, AheadStep DEF Advances
<1>. QED  BY <1>3, <1>4 DEF Conclude

\* Steps of a tab alone, and of the store.
LEMMA TabsAloneAdvance ==
    ASSUME IInv, Ahead, NEW c \in Clients, Load(c) \/ Rejected(c) \/ Drop(c) \/ Hide(c) \/ Show(c)
    PROVE  Advances /\ Ahead'
<1>1. PollersAdvance
  BY SamePollers DEF Load, Rejected, Drop, Hide, Show
<1>2. TabsOK(client) /\ conn \in [Conns -> ConnRecs]
  BY DEF IInv, Typed
<1>3. ConnsKept(conn')
  <2>1. CASE Load(c) \/ Rejected(c) \/ Show(c)
    BY <2>1, Reflexive DEF Load, Rejected, Show, ConnsKept
  <2>2. CASE Drop(c) \/ Hide(c)
    <3>1. conn' = Broken(c)
      BY <2>2 DEF Drop, Hide
    <3>. QED  BY <1>2, <3>1 DEF Broken, ConnsKept, ConnRecs
  <2>. QED  BY <2>1, <2>2
<1>4. TabsAdvance(client')
  <2>1. CASE Load(c)
    <3>1. PICK S \in Snapshots("span", Watches[c]), E \in Snapshots("eval", Watches[c]) :
              LET rows == [k \in Kinds |-> IF k = "span" THEN S ELSE E]
                  cur  == [k \in Kinds |-> MaxMsOf(rows[k], 0)] IN
              client' = [client EXCEPT ![c] =
                  [@ EXCEPT !.status = "connecting", !.cursor = cur, !.resume = cur,
                            !.view = Merge(client[c].view, rows)]]
      BY <2>1 DEF Load
    <3>. DEFINE rows == [k \in Kinds |-> IF k = "span" THEN S ELSE E]
                cur  == [k \in Kinds |-> MaxMsOf(rows[k], 0)]
    <3>2. NotBefore(cur, Zero)
      <4>1. 0 \in 0 .. MaxMs
        BY SizeAssumption
      <4>2. \A k \in Kinds : rows[k] \subseteq Row(k)
        BY <3>1 DEF Snapshots, RowsOf, Kinds, IInv, Typed
      <4>3. \A k \in Kinds : 0 <= MaxMsOf(rows[k], 0)
        <5>. HIDE DEF rows
        <5>. QED  BY <4>1, <4>2, WatermarkBounded
      <4>. HIDE DEF rows
      <4>. QED  BY <4>3 DEF NotBefore, Zero
    <3>3. client[c].cursor = Zero
      BY <2>1 DEF Load, Ahead
    <3>4. client' = [client EXCEPT ![c] =
              [@ EXCEPT !.status = "connecting", !.cursor = cur, !.resume = cur,
                        !.view = Merge(client[c].view, rows)]]
      BY <3>1
    <3>. HIDE DEF cur, rows
    <3>5. client'[c].cursor = cur /\ client'[c].status = "connecting"
      BY <1>2, <3>4 DEF TabsOK, TabOK
    <3>6. \A e \in Clients : e # c => client'[e] = client[e]
      BY <1>2, <3>4 DEF TabsOK
    <3>. QED  BY <3>2, <3>3, <3>5, <3>6, Reflexive DEF TabsAdvance
  <2>2. CASE Rejected(c)
    BY <1>2, <2>2, Reflexive DEF Rejected, TabsAdvance, TabsOK, TabOK
  <2>3. CASE Drop(c)
    BY <1>2, <2>3, Reflexive DEF Drop, TabsAdvance, TabsOK, TabOK
  <2>4. CASE Hide(c)
    BY <1>2, <2>4, Reflexive DEF Hide, TabsAdvance, TabsOK, TabOK
  <2>5. CASE Show(c)
    BY <1>2, <2>5, Reflexive DEF Show, TabsAdvance, TabsOK, TabOK
  <2>. QED  BY <2>1, <2>2, <2>3, <2>4, <2>5
<1>. QED  BY <1>1, <1>3, <1>4, AheadStep DEF Advances

LEMMA SubscribeAdvances ==
    ASSUME IInv, Ahead, NEW c \in Clients, Subscribe(c)
    PROVE  Advances /\ Ahead'
<1>. DEFINE t == Watches[c]
<1>1. /\ TabsOK(client) /\ conn \in [Conns -> ConnRecs] /\ poller \in [Pollers -> PollerRecs]
      /\ registry \in [Traces -> Pollers \cup {None}] /\ t \in Traces
  BY SizeAssumption DEF IInv, Typed
<1>2. PICK n \in Conns :
        /\ client' = [client EXCEPT ![c].status = "live"]
        /\ \/ /\ registry[t] # None
              /\ poller' = [poller EXCEPT ![registry[t]].subs = @ \cup {n}]
              /\ conn' = [conn EXCEPT ![n] = [FreeConn EXCEPT
                     !.state = "open", !.client = c, !.poller = registry[t],
                     !.catchUp = IF NeedsCatchUp(client[c].resume, poller[registry[t]].head)
                                 THEN "asked" ELSE "none",
                     !.from = IF NeedsCatchUp(client[c].resume, poller[registry[t]].head)
                              THEN client[c].resume ELSE Zero]]
           \/ /\ registry[t] = None
              /\ \E p \in Pollers :
                 /\ poller[p] = NoPoller
                 /\ poller' = [poller EXCEPT ![p] = [NoPoller EXCEPT
                        !.trace = t, !.stopped = FALSE, !.phase = "timer",
                        !.subs = {n}, !.head = client[c].resume]]
                 /\ conn' = [conn EXCEPT ![n] = [FreeConn EXCEPT
                        !.state = "open", !.client = c, !.poller = p]]
  BY DEF Subscribe
<1>3. PollersAdvance /\ conn'[n].client = c /\ \A m \in Conns : m # n => conn'[m] = conn[m]
  <2>1. CASE registry[t] # None
    <3>. DEFINE catchUp == IF NeedsCatchUp(client[c].resume, poller[registry[t]].head)
                           THEN "asked" ELSE "none"
                start   == IF NeedsCatchUp(client[c].resume, poller[registry[t]].head)
                           THEN client[c].resume ELSE Zero
    <3>1. /\ poller' = [poller EXCEPT ![registry[t]].subs = @ \cup {n}]
          /\ conn' = [conn EXCEPT ![n] = [FreeConn EXCEPT
                 !.state = "open", !.client = c, !.poller = registry[t],
                 !.catchUp = catchUp, !.from = start]]
      BY <1>2, <2>1
    <3>. HIDE DEF catchUp, start
    <3>2. \A p \in Pollers : /\ poller'[p].head = poller[p].head /\ poller'[p].phase = poller[p].phase
                             /\ poller'[p].result = poller[p].result
      BY <1>1, <2>1, <3>1 DEF PollerRecs
    <3>3. conn'[n].client = c /\ \A m \in Conns : m # n => conn'[m] = conn[m]
      BY <1>1, <3>1 DEF FreeConn
    <3>. QED  BY <3>2, <3>3, Reflexive DEF PollersAdvance, Ahead
  <2>2. CASE registry[t] = None
    <3>1. PICK p \in Pollers :
            /\ poller[p] = NoPoller
            /\ poller' = [poller EXCEPT ![p] = [NoPoller EXCEPT
                   !.trace = t, !.stopped = FALSE, !.phase = "timer",
                   !.subs = {n}, !.head = client[c].resume]]
            /\ conn' = [conn EXCEPT ![n] = [FreeConn EXCEPT
                   !.state = "open", !.client = c, !.poller = p]]
      BY <1>2, <2>2
    <3>2. poller'[p].phase = "timer" /\ \A q \in Pollers : q # p => poller'[q] = poller[q]
      BY <1>1, <3>1 DEF NoPoller
    <3>3. conn'[n].client = c /\ \A m \in Conns : m # n => conn'[m] = conn[m]
      BY <1>1, <3>1 DEF FreeConn
    <3>. QED  BY <3>1, <3>2, <3>3, Reflexive DEF PollersAdvance, Ahead
  <2>. QED  BY <2>1, <2>2
<1>4. TabsAdvance(client') /\ client'[c].status = "live"
  BY <1>1, <1>2, Reflexive DEF TabsAdvance, TabsOK, TabOK
<1>5. Ahead'
  BY <1>3, <1>4 DEF Ahead, PollersAdvance, TabsAdvance
<1>. QED  BY <1>3, <1>4, <1>5 DEF Advances

LEMMA ConnAdvances ==
    ASSUME IInv, Ahead, NEW n \in Conns,
           Notice(n) \/ CatchUpRead(n) \/ CatchUpDone(n) \/ CatchUpFail(n)
    PROVE  Advances /\ Ahead'
<1>1. TabsOK(client) /\ conn \in [Conns -> ConnRecs]
  BY DEF IInv, Typed
<1>2. TabsAdvance(client) /\ ConnsKept(conn)
  BY Reflexive
<1>3. ASSUME NEW p \in Pollers, SetPoller(p, Detached(poller[p], {n})),
             conn' = Freed(conn, {n}), client' = client \/ client' = Cut(client, {n})
      PROVE  Advances /\ Ahead'
  <2>1. PollersAdvance
    BY <1>3, LeaveAdvances
  <2>2. ConnsKept(conn') /\ TabsAdvance(client')
    BY <1>1, <1>2, <1>3, FreedKept, CutAdvances
  <2>. QED  BY <2>1, <2>2, AheadStep DEF Advances
<1>4. CASE Notice(n)
  BY <1>3, <1>4, PollerOf DEF Notice
<1>5. CASE CatchUpFail(n)
  BY <1>3, <1>5, PollerOf DEF CatchUpFail
<1>6. CASE CatchUpRead(n)
  <2>1. ConnsKept(conn')
    <3>1. PICK d : conn' = [conn EXCEPT ![n].catchUp = "read", ![n].from = Zero, ![n].result = d]
      BY <1>6 DEF CatchUpRead
    <3>2. \A m \in Conns : conn'[m].state = conn[m].state /\ conn'[m].client = conn[m].client
      BY <1>1, <3>1 DEF ConnRecs
    <3>. QED  BY <3>2 DEF ConnsKept
  <2>2. PollersAdvance /\ TabsAdvance(client')
    BY <1>2, <1>6, SamePollers DEF CatchUpRead, TabsAdvance
  <2>. QED  BY <2>1, <2>2, AheadStep DEF Advances
<1>7. CASE CatchUpDone(n)
  <2>. DEFINE d    == conn[n].result
              done == [conn EXCEPT ![n].catchUp = "none", ![n].result = NoDelta]
  <2>1. \A m \in Conns : done[m].state = conn[m].state /\ done[m].client = conn[m].client
    BY <1>1 DEF ConnRecs
  <2>2. ConnsKept(done)
    BY <2>1 DEF ConnsKept
  <2>3. CASE conn' = done /\ UNCHANGED <<poller, client>>
    <3>1. PollersAdvance /\ TabsAdvance(client')
      BY <1>2, <2>3, SamePollers DEF TabsAdvance
    <3>. HIDE DEF done
    <3>. QED  BY <2>2, <2>3, <3>1, AheadStep DEF Advances
  <2>4. ASSUME NEW slow, client' = Deliver({n}, d), poller' = poller,
               conn' = [done EXCEPT ![n].strikes = IF n \in slow THEN @ + 1 ELSE 0]
        PROVE  Advances /\ Ahead'
    <3>1. d.cursor \in Cursors
      BY <1>1 DEF ConnRecs, Deltas
    <3>2. \A m \in Conns : conn'[m].state = done[m].state /\ conn'[m].client = done[m].client
      BY <1>1, <2>4, NothingTyped DEF ConnRecs
    <3>. HIDE DEF d, done
    <3>3. TabsAdvance(client')
      BY <2>4, <3>1, DeliverAdvances
    <3>4. PollersAdvance /\ ConnsKept(conn')
      BY <2>2, <2>4, <3>2, SamePollers DEF ConnsKept
    <3>. QED  BY <3>3, <3>4, AheadStep DEF Advances
  <2>5. ASSUME ~ (conn' = done /\ UNCHANGED <<poller, client>>)
        PROVE  Advances /\ Ahead'
    <3>1. PICK slow \in SlowOnes({n}) :
              IF Overrun(slow) = {}
              THEN /\ client' = Deliver({n}, d)
                   /\ conn' = [done EXCEPT ![n].strikes = IF n \in slow THEN @ + 1 ELSE 0]
                   /\ UNCHANGED <<poller, registry, count>>
              ELSE /\ client' = Cut(client, {n})
                   /\ conn' = Freed(conn, {n})
                   /\ SetPoller(conn[n].poller, Detached(poller[conn[n].poller], {n}))
      BY <1>7, <2>5 DEF CatchUpDone
    <3>2. conn[n].poller \in Pollers
      BY <1>7, PollerOf DEF CatchUpDone
    <3>. HIDE DEF d, done
    <3>. QED  BY <1>3, <2>4, <3>1, <3>2
  <2>. QED  BY <2>3, <2>5
<1>. QED  BY <1>4, <1>5, <1>6, <1>7

LEMMA PollerStepAdvances ==
    ASSUME IInv, Ahead, NEW p \in Pollers,
           TickRead(p) \/ TickDone(p) \/ TickFail(p) \/ Quieten(p)
    PROVE  Advances /\ Ahead'
<1>1. /\ TabsOK(client) /\ conn \in [Conns -> ConnRecs]
      /\ poller \in [Pollers -> PollerRecs] /\ Typed
  BY DEF IInv, Typed
<1>2. TabsAdvance(client) /\ ConnsKept(conn)
  BY Reflexive
<1>3. CASE TickRead(p) \/ Quieten(p)
  <2>1. PollersAdvance
    <3>1. CASE TickRead(p)
      <4>1. PICK d \in FetchDeltas(poller[p].trace, poller[p].head) :
                poller' = [poller EXCEPT ![p].phase = "polling", ![p].result = d]
        BY <3>1 DEF TickRead
      <4>2. NotBefore(d.cursor, poller[p].head)
        BY <1>1, <4>1, FetchedTyped DEF NotBefore, PollerRecs
      <4>3. poller'[p].head = poller[p].head /\ poller'[p].result = d
        BY <1>1, <4>1 DEF PollerRecs
      <4>4. \A q \in Pollers : q # p => poller'[q] = poller[q]
        BY <1>1, <4>1
      <4>. QED  BY <4>2, <4>3, <4>4, Reflexive DEF PollersAdvance, Ahead
    <3>2. CASE Quieten(p)
      <4>1. \A q \in Pollers : /\ poller'[q].head = poller[q].head /\ poller'[q].phase = poller[q].phase
                               /\ poller'[q].result = poller[q].result
        BY <1>1, <3>2 DEF Quieten, PollerRecs
      <4>. QED  BY <4>1, Reflexive DEF PollersAdvance, Ahead
    <3>. QED  BY <1>3, <3>1, <3>2
  <2>2. client' = client /\ conn' = conn
    BY <1>3 DEF TickRead, Quieten
  <2>. QED  BY <1>2, <2>1, <2>2, AheadStep DEF Advances
<1>4. CASE TickFail(p)
  <2>. DEFINE q == [poller[p] EXCEPT !.phase = "idle", !.errors = @ + 1]
  <2>1. q.head = poller[p].head /\ q.phase = "idle"
    BY <1>1 DEF PollerRecs
  <2>2. CASE /\ client' = Cut(client, q.subs)
             /\ conn' = Freed(conn, q.subs)
             /\ SetPoller(p, Detached(q, q.subs))
    <3>1. Detached(q, q.subs).head = q.head /\ Detached(q, q.subs).phase # "polling"
      BY <1>1 DEF Detached, PollerRecs
    <3>. HIDE DEF q
    <3>2. PollersAdvance
      BY <2>1, <2>2, <3>1, Reflexive, SetAdvances
    <3>3. TabsAdvance(client') /\ ConnsKept(conn')
      BY <1>1, <1>2, <2>2, CutAdvances, FreedKept
    <3>. QED  BY <3>2, <3>3, AheadStep DEF Advances
  <2>3. CASE q.errors < MaxErrors /\ Conclude(p, q, client, conn)
    <3>1. q \in PollerRecs
      <4>1. poller[p].errors + 1 \in 0 .. MaxErrors - 1
        BY <1>1, <2>3, SizeAssumption DEF PollerRecs
      <4>. QED  BY <1>1, <4>1 DEF PollerRecs
    <3>. HIDE DEF q
    <3>. QED  BY <1>1, <1>2, <2>1, <2>3, <3>1, Reflexive, ConcludeAdvances
  <2>. QED  BY <1>4, <2>2, <2>3 DEF TickFail
<1>5. CASE TickDone(p)
  <2>. DEFINE q     == poller[p]
              delta == [q.result EXCEPT !.rows = Trimmed(q)]
              fresh == HasData(delta)
              root  == q.root \/ delta.root
              quiet == IF fresh THEN 0 ELSE q.quiet
              read  == [q EXCEPT !.phase = "idle", !.result = NoDelta, !.errors = 0,
                                 !.head = delta.cursor, !.boundary = NextBoundary(q),
                                 !.root = root, !.quiet = quiet]
  <2>1. PICK slow \in IF fresh THEN SlowOnes(q.subs) ELSE {{}} :
          LET gone == Overrun(slow)
              sent == IF fresh THEN q.subs \ gone ELSE {} IN
          Conclude(p, Detached(read, gone), Cut(Deliver(sent, delta), gone),
                   Freed(Struck(sent, slow), gone))
    BY <1>5 DEF TickDone
  <2>. DEFINE gone == Overrun(slow)
              S    == IF fresh THEN q.subs \ gone ELSE {}
              cl   == Deliver(S, delta)
              cut  == Cut(cl, gone)
              cn   == Freed(Struck(S, slow), gone)
  <2>2. /\ delta.cursor = q.result.cursor /\ delta.cursor \in Cursors
        /\ read \in PollerRecs /\ read.phase = "idle" /\ read.head = delta.cursor
    BY ReadRemains DEF Remains
  <2>3. NotBefore(delta.cursor, q.head)
    BY <1>5, <2>2 DEF TickDone, Ahead
  <2>4. Conclude(p, Detached(read, gone), cut, cn)
    BY <2>1
  <2>5. S \in SUBSET Conns
    BY <1>1 DEF PollerRecs
  <2>. HIDE DEF delta, fresh, root, quiet, read, gone, S
  <2>6. TabsAdvance(cl) /\ TabsOK(cl)
    BY <1>1, <2>2, <2>5, DeliverAdvances, DeliverTyped
  <2>. HIDE DEF cl
  <2>7. TabsAdvance(cut) /\ TabsOK(cut)
    BY <2>6, CutAdvances, CutTyped
  <2>8. ConnsKept(cn)
    <3>1. \A n \in Conns : /\ Struck(S, slow)[n].state = conn[n].state
                           /\ Struck(S, slow)[n].client = conn[n].client
      BY <1>1 DEF Struck, ConnRecs
    <3>2. ConnsKept(Struck(S, slow))
      BY <3>1 DEF ConnsKept
    <3>. QED  BY <3>2, FreedKept
  <2>9. /\ Detached(read, gone) \in PollerRecs /\ Detached(read, gone).head = delta.cursor
        /\ Detached(read, gone).phase = "idle"
    <3>1. Detached(read, gone) \in PollerRecs
      BY <2>2 DEF Detached, PollerRecs
    <3>. QED  BY <2>2, <3>1, DetachedKeeps
  <2>. HIDE DEF cut, cn
  <2>. QED  BY <2>3, <2>7, <2>8, <2>9, <2>4, ConcludeAdvances
<1>. QED  BY <1>3, <1>4, <1>5

LEMMA AdvanceInv == ASSUME IInv, Ahead, [Next]_vars PROVE Advances /\ Ahead'
<1>1. CASE UNCHANGED vars
  BY <1>1, SamePollers, Reflexive, AheadStep DEF vars, Advances, TabsAdvance, ConnsKept
<1>2. CASE \E k \in Kinds : Insert(k)
  BY <1>2, SamePollers, Reflexive, AheadStep DEF Insert, Advances, TabsAdvance, ConnsKept
<1>3. CASE \E c \in Clients : Load(c) \/ Subscribe(c) \/ Rejected(c) \/ Drop(c) \/ Hide(c) \/ Show(c)
  BY <1>3, TabsAloneAdvance, SubscribeAdvances
<1>4. CASE \E n \in Conns : Notice(n) \/ CatchUpRead(n) \/ CatchUpDone(n) \/ CatchUpFail(n)
  BY <1>4, ConnAdvances
<1>5. CASE \E p \in Pollers : TickRead(p) \/ TickDone(p) \/ TickFail(p) \/ Quieten(p)
  BY <1>5, PollerStepAdvances
<1>. QED  BY <1>1, <1>2, <1>3, <1>4, <1>5 DEF Next

\* A poller's watermark never goes back while it lives, nor does the cursor a tab has
\* merged, whatever overlaps, fails and reconnects.
THEOREM NeverBackwards == Spec => ReadingAdvances
<1>1. Init => IInv /\ Ahead
  BY InitInv, AheadInit
<1>2. IInv /\ Ahead /\ [Next]_vars => IInv' /\ Ahead' /\ Advances
  BY NextInv, AdvanceInv
<1>3. IInv /\ IInv' /\ Advances =>
          /\ \A p \in Pollers : poller'[p] # NoPoller /\ poller[p] # NoPoller =>
                 ~ Behind(poller'[p].head, poller[p].head)
          /\ \A c \in Clients : ~ Behind(client'[c].cursor, client[c].cursor)
  <2>1. ASSUME NEW a \in Cursors, NEW b \in Cursors, NotBefore(a, b) PROVE ~ Behind(a, b)
    BY <2>1, SizeAssumption DEF NotBefore, Behind, Cursors
  <2>2. ASSUME IInv, IInv'
        PROVE  /\ \A p \in Pollers : poller[p].head \in Cursors /\ poller'[p].head \in Cursors
               /\ \A c \in Clients : client[c].cursor \in Cursors /\ client'[c].cursor \in Cursors
    BY <2>2 DEF IInv, Typed, PollerRecs, TabsOK, TabOK
  <2>. QED  BY <2>1, <2>2 DEF Advances, PollersAdvance, TabsAdvance
<1>. QED  BY <1>1, <1>2, <1>3, PTL DEF Spec, ReadingAdvances

(***************************************************************************)
(* No tab's resume position passes a row the tab misses, what a poller     *)
(* trims has been delivered, and a trace that ends 'complete' has shown    *)
(* its root.  They hold in two regimes.                                    *)
(***************************************************************************)

\* Each trace has one tab, whose losses are noticed before it connects again: any
\* drops, pauses, failing polls, stalls, capped pages and shared milliseconds.
Alone ==
    /\ "unnoticed" \notin Faults
    /\ \A c, d \in Clients : Watches[c] = Watches[d] => c = d

\* Any number of tabs share a trace and join when they will, and nothing fails: reads
\* are not capped, and no two batches land in one millisecond.
Calm ==
    /\ Faults = {} /\ ~ SharedMs
    /\ \A k \in Kinds : MaxRows <= Cap[k]

\* Rows at m are complete for whoever has read up to mark: none will land there.
Seen(m, mark) == m < mark \/ (~ SharedMs /\ m = mark)

Reading(c)          == client[c].status \notin {"unloaded", "ended"}
Has(c, k, i, v)     == client[c].view[k][i] >= v
Carries(d, k, i, v) == \E q \in d.rows[k] : q.item = i /\ q.ver >= v
HasRoot(rows)       == \E r \in rows : r.item \in Roots
Kept(k, t, i, v)    == \E q \in RowsOf(k, t) : q.item = i /\ q.ver = v
Unattached(c)       == \A n \in Conns : conn[n].client # c

\* The tab of connection n has item i in version v, or its catch-up brings it.
Known(n, k, i, v) == Has(conn[n].client, k, i, v) \/ Carries(conn[n].result, k, i, v)

(***************************************************************************)
(* The inductive invariant.                                                *)
(***************************************************************************)

\* Marks never pass what has landed, and a tab resumes where it has read.
Clocked ==
    /\ \A k \in Kinds : \A r \in table[k] : r.ms <= clock[k]
    /\ \A c \in Clients, k \in Kinds :
           client[c].resume[k] <= client[c].cursor[k] /\ client[c].cursor[k] <= clock[k]
    /\ \A p \in Pollers, k \in Kinds :
           /\ poller[p].head[k] <= clock[k] /\ poller[p].result.cursor[k] <= clock[k]
           /\ \A r \in poller[p].result.rows[k] : r.ms <= poller[p].result.cursor[k]
    /\ \A n \in Conns, k \in Kinds :
           conn[n].from[k] <= clock[k] /\ conn[n].result.cursor[k] <= clock[k]

Stored ==
    /\ \A k \in Kinds : IsFiniteSet(table[k]) /\ Cardinality(table[k]) <= MaxRows
    /\ ~ SharedMs => \A k \in Kinds : \A r, q \in table[k] : r.ms = q.ms => r = q

ViewsTyped ==
    \A c \in Clients :
        /\ client[c].root \in BOOLEAN
        /\ \A k \in Kinds : \A i \in Items[k] : client[c].view[k][i] \in 0 .. MaxVer[k]

\* A connection belongs to one tab, which has no other, and reads that tab's trace.
Paired ==
    \A n \in Conns :
        IF conn[n].state = "free" THEN conn[n].client = None
        ELSE /\ conn[n].client \in Clients
             /\ poller[conn[n].poller].trace = Watches[conn[n].client]
             /\ conn[n].state = "open" => client[conn[n].client].status = "live"
             /\ \A m \in Conns : conn[m].client = conn[n].client => m = n

\* Only tabs that share a trace are caught up, and only then is there a result.
Calmly ==
    \A n \in Conns :
        /\ conn[n].catchUp # "none" => Calm /\ ~ Alone
        /\ conn[n].catchUp # "read" => conn[n].result = NoDelta
        /\ Calm => conn[n].state # "dead"

RootsTold ==
    /\ \A p \in Pollers : poller[p].result.root <=> HasRoot(poller[p].result.rows["span"])
    /\ \A n \in Conns : conn[n].result.root <=> HasRoot(conn[n].result.rows["span"])
    /\ \A c \in Clients : \A i \in Items["span"] \cap Roots : Has(c, "span", i, 1) => client[c].root

\* What a running poller has read or sent is in the table, if not as the same row.
StillThere ==
    \A p \in Pollers : ~ poller[p].stopped =>
        /\ \A k \in Kinds :
               /\ \A r \in poller[p].result.rows[k] : Kept(k, poller[p].trace, r.item, r.ver)
               /\ \A b \in poller[p].boundary[k] : Kept(k, poller[p].trace, b[1], b[2])
        /\ poller[p].result.rows["span"] \subseteq RowsOf("span", poller[p].trace)
        /\ poller[p].root =>
               HasRoot({r \in RowsOf("span", poller[p].trace) : r.ms <= poller[p].head["span"]})

\* A poll under way carries what there is between its two watermarks.
Fetched ==
    \A p \in Pollers : poller[p].phase = "polling" =>
        \A k \in Kinds : \A r \in RowsOf(k, poller[p].trace) :
            poller[p].head[k] <= r.ms /\ Seen(r.ms, poller[p].result.cursor[k])
                => Carries(poller[p].result, k, r.item, r.ver)

\* A tab that is not catching up has what it has read past.
TabHas ==
    \A c \in Clients : Reading(c) /\ ~ CatchingUp(c) =>
        \A k \in Kinds : \A r \in RowsOf(k, Watches[c]) :
            Seen(r.ms, client[c].cursor[k]) => Has(c, k, r.item, r.ver)

\* A tab that may yet join a poller has what the poller will not send it again.
OffHas ==
    Calm => \A c \in Clients : Reading(c) /\ Unattached(c) =>
        \A p \in Pollers : ~ poller[p].stopped /\ poller[p].trace = Watches[c] =>
            \A k \in Kinds :
                /\ \A r \in poller[p].result.rows[k] :
                       r.ms <= client[c].cursor[k] => Has(c, k, r.item, r.ver)
                /\ poller[p].head[k] <= client[c].cursor[k] =>
                       \A b \in poller[p].boundary[k] : Has(c, k, b[1], b[2])

\* A connected tab has, or is about to be sent, all its poller has read past.
Due(n, k, m) ==
    \/ Seen(m, poller[conn[n].poller].head[k])
    \/ Seen(m, client[conn[n].client].cursor[k])
    \/ conn[n].catchUp = "read" /\ Seen(m, conn[n].result.cursor[k])

Served(n) ==
    /\ \A k \in Kinds :
           /\ \A r \in RowsOf(k, Watches[conn[n].client]) :
                  Due(n, k, r.ms) => Known(n, k, r.item, r.ver)
           /\ \A b \in poller[conn[n].poller].boundary[k] : Known(n, k, b[1], b[2])
    /\ poller[conn[n].poller].root => client[conn[n].client].root \/ conn[n].result.root

OnHas == \A n \in Conns : conn[n].state = "open" /\ conn[n].catchUp # "asked" => Served(n)

\* A catch-up that has not read yet starts where its tab has everything.
AskedHas ==
    \A n \in Conns : conn[n].catchUp = "asked" =>
        \A k \in Kinds : \A r \in RowsOf(k, Watches[conn[n].client]) :
            r.ms <= conn[n].from[k] => Has(conn[n].client, k, r.item, r.ver)

Settled == Alone => CompleteMeansRoot

Marks == Clocked /\ Stored /\ ViewsTyped /\ Paired /\ Calmly /\ RootsTold
Reads == StillThere /\ Fetched
Holds == TabHas /\ OffHas /\ OnHas /\ AskedHas /\ Settled
GInv  == Marks /\ Reads /\ Holds


--------------------------------------------------------------------------------
(***************************************************************************)
(* Reads of the store.                                                     *)
(***************************************************************************)

\* The watermark of a page is its start or the latest of its rows.
LEMMA WatermarkIs ==
    ASSUME NEW k \in Kinds, NEW rows, rows \subseteq Row(k), NEW lo \in 0 .. MaxMs
    PROVE  /\ MaxMsOf(rows, lo) \in 0 .. MaxMs /\ lo <= MaxMsOf(rows, lo)
           /\ \A r \in rows : r.ms <= MaxMsOf(rows, lo)
           /\ MaxMsOf(rows, lo) = lo \/ \E r \in rows : r.ms = MaxMsOf(rows, lo)
<1>. DEFINE S == {lo} \cup {r.ms : r \in rows}
<1>1. S \in SUBSET (0 .. MaxMs) /\ S # {} /\ MaxMs \in Nat /\ lo \in S /\ \A r \in rows : r.ms \in S
  BY SizeAssumption DEF Row
<1>2. \A y \in S : y = lo \/ \E r \in rows : y = r.ms
  OBVIOUS
<1>. HIDE DEF S
<1>3. Max(S) \in S /\ \A y \in S : Max(S) >= y
  BY <1>1, LatestExists
<1>4. MaxMsOf(rows, lo) = Max(S)
  BY DEF MaxMsOf, S
<1>. QED  BY <1>1, <1>2, <1>3, <1>4

\* Of the copies of a span one landed first.
LEMMA EarliestCopy ==
    ASSUME NEW R \in SUBSET Row("span"), NEW r \in R
    PROVE  \E q \in R : q.item = r.item /\ q.ms <= r.ms /\ \A x \in R : x.item = q.item => q.ms <= x.ms
<1>. DEFINE S == {MaxMs - x.ms : x \in {y \in R : y.item = r.item}}
<1>1. MaxMs \in Nat /\ \A x \in R : x.ms \in 1 .. MaxMs
  BY SizeAssumption DEF Row
<1>2. S \in SUBSET (0 .. MaxMs) /\ S # {}
  BY <1>1
<1>3. \A x \in R : x.item = r.item => MaxMs - x.ms \in S
  OBVIOUS
<1>4. \A y \in S : \E x \in R : x.item = r.item /\ y = MaxMs - x.ms
  OBVIOUS
<1>. HIDE DEF S
<1>5. Max(S) \in S /\ \A y \in S : Max(S) >= y
  BY <1>1, <1>2, LatestExists
<1>6. PICK q \in R : q.item = r.item /\ Max(S) = MaxMs - q.ms
  BY <1>4, <1>5
<1>7. ASSUME NEW x \in R, x.item = r.item PROVE q.ms <= x.ms
  <2>1. MaxMs - q.ms >= MaxMs - x.ms
    BY <1>3, <1>5, <1>6, <1>7
  <2>. QED  BY <1>1, <2>1
<1>. QED  BY <1>6, <1>7

\* Every row from lo on is, or repeats, one of those the query orders and cuts off.
LEMMA PastCovers ==
    ASSUME Typed, NEW k \in Kinds, NEW t, NEW lo, NEW r \in RowsOf(k, t), lo <= r.ms
    PROVE  \E q \in Past(k, t, lo) :
               /\ q \in RowsOf(k, t) /\ lo <= q.ms /\ q.ms <= r.ms
               /\ q.item = r.item /\ q.ver >= r.ver
<1>. DEFINE rows == {x \in RowsOf(k, t) : x.ms >= lo}
<1>1. RowsOf(k, t) \subseteq Row(k)
  BY DEF Typed, RowsOf
<1>2. CASE k = "eval"
  <2>1. r \in rows /\ Past(k, t, lo) = rows
    BY <1>2 DEF Past
  <2>2. r.ms \in Nat /\ r.ver \in Nat
    BY <1>1 DEF Row
  <2>. QED  BY <2>1, <2>2
<1>3. CASE k = "span"
  <2>1. rows \in SUBSET Row("span") /\ r \in rows
    BY <1>1, <1>3
  <2>2. PICK q \in rows : q.item = r.item /\ q.ms <= r.ms /\ \A x \in rows : x.item = q.item => q.ms <= x.ms
    <3>. HIDE DEF rows
    <3>. QED  BY <2>1, EarliestCopy
  <2>3. q \in Past(k, t, lo)
    BY <1>3, <2>2 DEF Past, Kinds
  <2>4. q.ver = 1 /\ r.ver = 1 /\ q \in RowsOf(k, t) /\ lo <= q.ms
    BY <1>1, <1>3, <2>1, <2>2, ShapeAssumption DEF Row
  <2>. QED  BY <2>2, <2>3, <2>4
<1>. QED  BY <1>2, <1>3 DEF Kinds

\* A page covers what lies between its start and its watermark, and all there is if it
\* is not capped.
LEMMA PageCovers ==
    ASSUME Typed, Stored, NEW k \in Kinds, NEW t, NEW lo \in 0 .. MaxMs,
           NEW S \in Firsts(k, Past(k, t, lo)), NEW r \in RowsOf(k, t), lo <= r.ms,
           Calm \/ Seen(r.ms, MaxMsOf(S, lo))
    PROVE  \E q \in S : q.item = r.item /\ q.ver >= r.ver
<1>. DEFINE P == Past(k, t, lo)
<1>1. RowsOf(k, t) \subseteq table[k] /\ RowsOf(k, t) \subseteq Row(k) /\ P \subseteq RowsOf(k, t)
  BY DEF Typed, RowsOf, Past
<1>2. PICK q \in P : q.ms <= r.ms /\ q.item = r.item /\ q.ver >= r.ver
  BY PastCovers
<1>3. CASE Cardinality(P) <= Cap[k]
  BY <1>2, <1>3 DEF Firsts
<1>4. CASE ~ (Cardinality(P) <= Cap[k])
  <2>1. /\ S \subseteq P /\ Cardinality(S) = Cap[k] /\ IsFiniteSet(P)
        /\ \A s \in S, x \in P \ S : ~ Before(k, x, s)
    <3>1. S \in {X \in kSubset(Cap[k], P) : \A s \in X, x \in P \ X : ~ Before(k, x, s)}
      BY <1>4 DEF Firsts
    <3>2. IsFiniteSet(P)
      BY <1>1, FS_Subset DEF Stored
    <3>. QED  BY <3>1, <3>2 DEF kSubset
  <2>2. ~ Calm
    <3>1. Cardinality(P) \in Nat /\ Cardinality(table[k]) \in Nat /\ Cardinality(P) <= Cardinality(table[k])
      BY <1>1, FS_Subset, FS_CardinalityType DEF Stored
    <3>2. Cardinality(table[k]) <= MaxRows /\ MaxRows \in Nat /\ Cap[k] \in Nat
      BY SizeAssumption, ShapeAssumption DEF Stored
    <3>. HIDE DEF P
    <3>. QED  BY <1>4, <3>1, <3>2 DEF Calm
  <2>3. S \subseteq Row(k) /\ \A s \in S : s \in table[k] /\ s.ms \in Nat
    BY <1>1, <2>1 DEF Row
  <2>4. S # {}
    <3>1. Cap[k] # 0
      BY ShapeAssumption
    <3>. QED  BY <2>1, <3>1, FS_EmptySet
  <2>5. q \in table[k] /\ q.ms \in Nat /\ lo <= q.ms /\ r.ms \in Nat /\ lo \in Nat
    BY <1>1, <1>2 DEF Past, Row
  <2>6. SUFFICES ASSUME q \notin S PROVE FALSE
    BY <1>2
  <2>7. \A s \in S : s.ms <= q.ms
    BY <1>2, <2>1, <2>3, <2>5, <2>6 DEF Before
  <2>. DEFINE M == MaxMsOf(S, lo)
  <2>8. /\ M \in Nat /\ lo <= M /\ \A s \in S : s.ms <= M
        /\ M = lo \/ \E s \in S : s.ms = M
    BY <2>3, WatermarkIs
  <2>. HIDE DEF M
  <2>9. M <= q.ms
    BY <2>5, <2>7, <2>8
  <2>10. ~ (r.ms < M)
    BY <1>2, <2>5, <2>8, <2>9
  <2>11. ~ SharedMs /\ r.ms = M /\ q.ms = M
    BY <1>2, <2>2, <2>5, <2>8, <2>9, <2>10 DEF Seen, M
  <2>12. \E s \in S : s.ms = M
    <3>1. \A s \in S : s \in P /\ lo <= s.ms
      BY <2>1 DEF Past
    <3>. QED  BY <2>3, <2>4, <2>5, <2>8, <3>1
  <2>. QED  BY <2>3, <2>5, <2>6, <2>11, <2>12 DEF Stored
<1>. QED  BY <1>3, <1>4

\* What a read answers.
LEMMA ReadIs ==
    ASSUME Typed, Stored, NEW t, NEW cursor \in Cursors, NEW d \in FetchDeltas(t, cursor)
    PROVE  /\ \A k \in Kinds :
                  /\ d.rows[k] \subseteq RowsOf(k, t)
                  /\ \A r \in d.rows[k] : r.ms <= d.cursor[k]
                  /\ d.cursor[k] = cursor[k] \/ \E r \in d.rows[k] : r.ms = d.cursor[k]
                  /\ \A r \in RowsOf(k, t) :
                         cursor[k] <= r.ms /\ (Calm \/ Seen(r.ms, d.cursor[k]))
                             => Carries(d, k, r.item, r.ver)
           /\ d.root <=> HasRoot(d.rows["span"])
<1>1. PICK S \in Firsts("span", Past("span", t, cursor["span"])),
           E \in Firsts("eval", Past("eval", t, cursor["eval"])) :
           d = [rows   |-> [k \in Kinds |-> IF k = "span" THEN S ELSE E],
                cursor |-> [k \in Kinds |-> MaxMsOf(IF k = "span" THEN S ELSE E, cursor[k])],
                root   |-> \E r \in S : r.item \in Roots]
  BY DEF FetchDeltas
<1>2. ASSUME NEW k \in Kinds
      PROVE  /\ d.rows[k] \in Firsts(k, Past(k, t, cursor[k]))
             /\ d.cursor[k] = MaxMsOf(d.rows[k], cursor[k])
  BY <1>1 DEF Kinds
<1>3. d.root <=> HasRoot(d.rows["span"])
  BY <1>1 DEF HasRoot, Kinds
<1>4. ASSUME NEW k \in Kinds
      PROVE  /\ d.rows[k] \subseteq RowsOf(k, t)
             /\ \A r \in d.rows[k] : r.ms <= d.cursor[k]
             /\ d.cursor[k] = cursor[k] \/ \E r \in d.rows[k] : r.ms = d.cursor[k]
             /\ \A r \in RowsOf(k, t) :
                    cursor[k] <= r.ms /\ (Calm \/ Seen(r.ms, d.cursor[k]))
                        => Carries(d, k, r.item, r.ver)
  <2>1. d.rows[k] \subseteq Past(k, t, cursor[k])
    BY <1>2 DEF Firsts, kSubset
  <2>2. Past(k, t, cursor[k]) \subseteq RowsOf(k, t) /\ RowsOf(k, t) \subseteq Row(k)
    BY DEF Past, RowsOf, Typed
  <2>3. cursor[k] \in 0 .. MaxMs
    BY DEF Cursors
  <2>4. /\ \A r \in d.rows[k] : r.ms <= d.cursor[k]
        /\ d.cursor[k] = cursor[k] \/ \E r \in d.rows[k] : r.ms = d.cursor[k]
    BY <1>2, <2>1, <2>2, <2>3, WatermarkIs
  <2>5. ASSUME NEW r \in RowsOf(k, t), cursor[k] <= r.ms, Calm \/ Seen(r.ms, d.cursor[k])
        PROVE  Carries(d, k, r.item, r.ver)
    <3>1. d.rows[k] \in Firsts(k, Past(k, t, cursor[k])) /\ d.cursor[k] = MaxMsOf(d.rows[k], cursor[k])
      BY <1>2
    <3>2. \E q \in d.rows[k] : q.item = r.item /\ q.ver >= r.ver
      BY <2>3, <2>5, <3>1, PageCovers
    <3>. QED  BY <3>2 DEF Carries
  <2>. QED  BY <2>1, <2>2, <2>4, <2>5
<1>. QED  BY <1>3, <1>4


--------------------------------------------------------------------------------
(***************************************************************************)
(* What a tab has after a delta.                                           *)
(***************************************************************************)
LEMMA MergeIs ==
    ASSUME NEW k \in Kinds, NEW rows, rows[k] \subseteq Row(k), NEW view, NEW i \in Items[k],
           view[k][i] \in 0 .. MaxVer[k]
    PROVE  /\ Merge(view, rows)[k][i] \in 0 .. MaxVer[k]
           /\ view[k][i] <= Merge(view, rows)[k][i]
           /\ \A r \in rows[k] : r.item = i => r.ver <= Merge(view, rows)[k][i]
           /\ \/ Merge(view, rows)[k][i] = view[k][i]
              \/ \E r \in rows[k] : r.item = i /\ Merge(view, rows)[k][i] = r.ver
<1>. DEFINE S == {view[k][i]} \cup {r.ver : r \in {q \in rows[k] : q.item = i}}
<1>1. /\ S \in SUBSET (0 .. MaxVer[k]) /\ S # {} /\ MaxVer[k] \in Nat /\ view[k][i] \in S
      /\ \A r \in rows[k] : r.item = i => r.ver \in S
  BY SizeAssumption DEF Row
<1>2. \A y \in S : y = view[k][i] \/ \E r \in rows[k] : r.item = i /\ y = r.ver
  OBVIOUS
<1>3. Merge(view, rows)[k][i] = Max(S)
  BY DEF Merge
<1>. HIDE DEF S
<1>4. Max(S) \in S /\ \A y \in S : Max(S) >= y
  BY <1>1, LatestExists
<1>. QED  BY <1>1, <1>2, <1>3, <1>4

\* y is tab x after delta d.
Told(x, y, d) ==
    /\ y.view = Merge(x.view, d.rows) /\ y.cursor = MaxCursor(x.cursor, d.cursor)
    /\ y.root = (x.root \/ d.root) /\ y.resume = d.cursor

Untold(x, y) == y.view = x.view /\ y.cursor = x.cursor /\ y.root = x.root

IsPage(d) ==
    /\ \A k \in Kinds : d.rows[k] \subseteq Row(k) /\ d.cursor[k] \in 0 .. MaxMs
    /\ d.root \in BOOLEAN

\* Nothing is unlearnt, and what is learnt was carried.
LEMMA ToldHas ==
    ASSUME IInv, ViewsTyped, NEW c \in Clients, NEW d, IsPage(d), Told(client[c], client'[c], d)
    PROVE  /\ client'[c].root \in BOOLEAN /\ (client[c].root \/ d.root => client'[c].root)
           /\ \A k \in Kinds :
                  /\ client'[c].resume[k] <= client'[c].cursor[k]
                  /\ \/ client'[c].cursor[k] = client[c].cursor[k]
                     \/ client'[c].cursor[k] = d.cursor[k]
                  /\ d.cursor[k] <= client'[c].cursor[k]
                  /\ client[c].cursor[k] <= client'[c].cursor[k]
                  /\ \A i \in Items[k] :
                         /\ client'[c].view[k][i] \in 0 .. MaxVer[k]
                         /\ \A v \in Nat : Has(c, k, i, v) \/ Carries(d, k, i, v) => Has(c, k, i, v)'
                         /\ \A v \in Nat : Has(c, k, i, v)' => Has(c, k, i, v) \/ Carries(d, k, i, v)
<1>1. client[c].root \in BOOLEAN /\ TabOK(client[c])
  BY DEF ViewsTyped, IInv, Typed, TabsOK
<1>2. client'[c].root \in BOOLEAN /\ (client[c].root \/ d.root => client'[c].root)
  BY <1>1 DEF Told, IsPage
<1>3. ASSUME NEW k \in Kinds
      PROVE  /\ client'[c].resume[k] <= client'[c].cursor[k]
             /\ \/ client'[c].cursor[k] = client[c].cursor[k]
                \/ client'[c].cursor[k] = d.cursor[k]
             /\ d.cursor[k] <= client'[c].cursor[k]
             /\ client[c].cursor[k] <= client'[c].cursor[k]
  <2>1. client[c].cursor[k] \in Nat /\ d.cursor[k] \in Nat
    BY <1>1, SizeAssumption DEF TabOK, Cursors, IsPage
  <2>2. client'[c].cursor[k] = IF client[c].cursor[k] > d.cursor[k] THEN client[c].cursor[k] ELSE d.cursor[k]
    BY DEF Told, MaxCursor
  <2>3. client'[c].resume[k] = d.cursor[k]
    BY DEF Told
  <2>. QED  BY <2>1, <2>2, <2>3
<1>4. ASSUME NEW k \in Kinds, NEW i \in Items[k]
      PROVE  /\ client'[c].view[k][i] \in 0 .. MaxVer[k]
             /\ \A v \in Nat : Has(c, k, i, v) \/ Carries(d, k, i, v) => Has(c, k, i, v)'
             /\ \A v \in Nat : Has(c, k, i, v)' => Has(c, k, i, v) \/ Carries(d, k, i, v)
  <2>1. client[c].view[k][i] \in 0 .. MaxVer[k] /\ d.rows[k] \subseteq Row(k)
    BY DEF ViewsTyped, IsPage
  <2>2. client'[c].view[k][i] = Merge(client[c].view, d.rows)[k][i]
    BY DEF Told
  <2>. DEFINE old == client[c].view[k][i]
              new == client'[c].view[k][i]
  <2>3. /\ new \in 0 .. MaxVer[k] /\ old <= new
        /\ \A r \in d.rows[k] : r.item = i => r.ver <= new
        /\ new = old \/ \E r \in d.rows[k] : r.item = i /\ new = r.ver
    BY <2>1, <2>2, MergeIs
  <2>4. MaxVer[k] \in Nat /\ \A r \in d.rows[k] : r.ver \in Nat
    BY <2>1, SizeAssumption DEF Row
  <2>5. \A v : (Has(c, k, i, v) <=> old >= v) /\ (Has(c, k, i, v)' <=> new >= v)
    BY DEF Has
  <2>. HIDE DEF old, new
  <2>6. old \in Nat /\ new \in Nat
    BY <2>1, <2>3, <2>4 DEF old
  <2>7. ASSUME NEW v \in Nat, old >= v \/ Carries(d, k, i, v) PROVE new >= v
    BY <2>3, <2>4, <2>6, <2>7 DEF Carries
  <2>8. ASSUME NEW v \in Nat, new >= v PROVE old >= v \/ Carries(d, k, i, v)
    BY <2>3, <2>4, <2>6, <2>8 DEF Carries
  <2>. QED  BY <2>3, <2>5, <2>7, <2>8 DEF new
<1>. QED  BY <1>2, <1>3, <1>4

LEMMA SeenLater ==
    ASSUME NEW m \in Nat, NEW a \in Nat, NEW b \in Nat, a <= b, Seen(m, a)
    PROVE  Seen(m, b)
BY DEF Seen

\* The numbers and rows of a state.
LEMMA Numbers ==
    ASSUME IInv
    PROVE  /\ \A k \in Kinds :
                  /\ clock[k] \in Nat /\ table[k] \subseteq Row(k)
                  /\ \A r \in Row(k) : r.ms \in Nat /\ r.ver \in Nat /\ r.item \in Items[k]
                  /\ Zero[k] = 0 /\ NoRows[k] = {}
           /\ \A c \in Clients, k \in Kinds :
                  client[c].cursor[k] \in Nat /\ client[c].resume[k] \in Nat
           /\ \A p \in Pollers, k \in Kinds :
                  /\ poller[p].head[k] \in Nat /\ poller[p].result.cursor[k] \in Nat
                  /\ poller[p].result.rows[k] \subseteq Row(k)
           /\ \A n \in Conns, k \in Kinds :
                  /\ conn[n].from[k] \in Nat /\ conn[n].result.cursor[k] \in Nat
                  /\ conn[n].result.rows[k] \subseteq Row(k)
<1>1. MaxMs \in Nat /\ \A k \in Kinds : MaxVer[k] \in Nat
  BY SizeAssumption
<1>2. \A x \in Cursors, k \in Kinds : x[k] \in Nat
  BY <1>1 DEF Cursors
<1>3. \A d \in Deltas : d.cursor \in Cursors /\ \A k \in Kinds : d.rows[k] \subseteq Row(k)
  BY DEF Deltas
<1>4. \A k \in Kinds : /\ clock[k] \in Nat /\ table[k] \subseteq Row(k)
                       /\ \A r \in Row(k) : r.ms \in Nat /\ r.ver \in Nat /\ r.item \in Items[k]
                       /\ Zero[k] = 0 /\ NoRows[k] = {}
  BY <1>1, <1>2 DEF IInv, Typed, Row, Zero, NoRows
<1>5. \A c \in Clients : client[c].cursor \in Cursors /\ client[c].resume \in Cursors
  BY DEF IInv, Typed, TabsOK, TabOK
<1>6. \A p \in Pollers : poller[p].head \in Cursors /\ poller[p].result \in Deltas
  BY DEF IInv, Typed, PollerRecs
<1>7. \A n \in Conns : conn[n].from \in Cursors /\ conn[n].result \in Deltas
  BY DEF IInv, Typed, ConnRecs
<1>. QED  BY <1>2, <1>3, <1>4, <1>5, <1>6, <1>7

\* The poller of a connection runs.
Runs(n) == /\ conn[n].poller \in Pollers /\ ~ poller[conn[n].poller].stopped
           /\ n \in poller[conn[n].poller].subs

LEMMA ConnsRun == ASSUME IInv, NEW n \in Conns, conn[n].state # "free" PROVE Runs(n)
BY DEF IInv, Typed, ConnRecs, Books, Attached, SubscribersCounted, OneLoopPerTrace, Runs

LEMMA ConnsStillRun == ASSUME IInv', NEW n \in Conns, conn'[n].state # "free" PROVE Runs(n)'
BY DEF IInv, Typed, ConnRecs, Books, Attached, SubscribersCounted, OneLoopPerTrace, Runs

--------------------------------------------------------------------------------
(***************************************************************************)
(* Steps that bring no rows: tabs that go, come back or give up, losses    *)
(* noticed, polls and catch-ups that fail, and quiet minutes.              *)
(***************************************************************************)
QuietTab(c) ==
    /\ Untold(client[c], client'[c]) /\ client'[c].resume \in {client[c].resume, client[c].cursor}
    /\ Reading(c)' => Reading(c)
    /\ client'[c].reason = "complete" /\ (Alone \/ ~ CatchingUp(c))
           => client[c].reason = "complete" \/ client[c].root

SameConn(n) ==
    /\ conn'[n].client = conn[n].client /\ conn'[n].poller = conn[n].poller
    /\ conn'[n].catchUp = conn[n].catchUp /\ conn'[n].from = conn[n].from
    /\ conn'[n].result = conn[n].result

QuietConn(n) ==
    \/ conn'[n] = FreeConn /\ ~ Calm
    \/ /\ SameConn(n)
       /\ conn'[n].state \in {conn[n].state, "dead"} /\ (Calm => conn'[n].state = conn[n].state)
       /\ conn[n].state = "free" => conn'[n].state = "free"
       /\ conn'[n].state = "open" => client'[conn[n].client].status = "live"

QuietPoller(p) ==
    \/ poller'[p] = NoPoller
    \/ /\ ~ poller'[p].stopped => ~ poller[p].stopped
       /\ poller'[p].phase = "polling" => poller[p].phase = "polling"
       /\ poller'[p].trace = poller[p].trace /\ poller'[p].head = poller[p].head
       /\ poller'[p].boundary = poller[p].boundary /\ poller'[p].root = poller[p].root
       /\ poller'[p].result = poller[p].result

LEMMA QuietInv ==
    ASSUME IInv, IInv', GInv, UNCHANGED <<table, clock>>,
           \A c \in Clients : QuietTab(c), \A n \in Conns : QuietConn(n),
           \A p \in Pollers : QuietPoller(p)
    PROVE  GInv'
<1>. USE DEF GInv, Marks, Reads, Holds
<1>1. \A k \in Kinds : \A t : RowsOf(k, t)' = RowsOf(k, t)
  BY DEF RowsOf
<1>2. /\ ~ NoPoller.phase = "polling" /\ NoPoller.stopped /\ NoPoller.head = Zero
      /\ NoPoller.result = NoDelta /\ NoDelta.cursor = Zero /\ NoDelta.rows = NoRows
      /\ ~ NoDelta.root /\ FreeConn.state = "free" /\ FreeConn.client = None
      /\ FreeConn.catchUp = "none" /\ FreeConn.from = Zero /\ FreeConn.result = NoDelta
  BY DEF NoPoller, FreeConn, NoDelta
<1>3. \A p \in Pollers : ~ poller'[p].stopped =>
          /\ ~ poller[p].stopped /\ poller'[p].trace = poller[p].trace
          /\ poller'[p].head = poller[p].head /\ poller'[p].boundary = poller[p].boundary
          /\ poller'[p].root = poller[p].root /\ poller'[p].result = poller[p].result
  BY <1>2 DEF QuietPoller
<1>4. ASSUME NEW n \in Conns, conn'[n].state # "free"
      PROVE  /\ conn[n].state # "free" /\ SameConn(n)
             /\ conn[n].client \in Clients /\ conn[n].poller \in Pollers
             /\ ~ poller'[conn[n].poller].stopped /\ ~ poller[conn[n].poller].stopped
             /\ conn'[n].state = "open" =>
                    conn[n].state = "open" /\ client'[conn[n].client].status = "live"
  <2>1. /\ SameConn(n) /\ conn[n].state # "free" /\ conn'[n].state \in {conn[n].state, "dead"}
        /\ conn'[n].state = "open" => client'[conn[n].client].status = "live"
    BY <1>2, <1>4 DEF QuietConn
  <2>. QED  BY <1>3, <1>4, <2>1, ConnsStillRun DEF Runs, SameConn, Paired
<1>5. \A n \in Conns : conn'[n].client # None => SameConn(n) /\ conn'[n].client = conn[n].client
  BY <1>2 DEF QuietConn, SameConn
<1>6. \A k \in Kinds, c \in Clients : \A i \in Items[k] : \A v : Has(c, k, i, v)' <=> Has(c, k, i, v)
  BY DEF Has, QuietTab, Untold
<1>7. \A c \in Clients, k \in Kinds :
          client'[c].cursor[k] = client[c].cursor[k] /\ client'[c].root = client[c].root
  BY DEF QuietTab, Untold
<1>8. Clocked'
  <2>1. \A c \in Clients, k \in Kinds :
            client'[c].resume[k] <= client'[c].cursor[k] /\ client'[c].cursor[k] <= clock[k]
    BY Numbers DEF Clocked, QuietTab, Untold
  <2>2. \A p \in Pollers, k \in Kinds :
            /\ poller'[p].head[k] <= clock[k] /\ poller'[p].result.cursor[k] <= clock[k]
            /\ \A r \in poller'[p].result.rows[k] : r.ms <= poller'[p].result.cursor[k]
    BY <1>2, Numbers DEF Clocked, QuietPoller
  <2>3. \A n \in Conns, k \in Kinds :
            conn'[n].from[k] <= clock[k] /\ conn'[n].result.cursor[k] <= clock[k]
    BY <1>2, Numbers DEF Clocked, QuietConn, SameConn
  <2>. QED  BY <2>1, <2>2, <2>3 DEF Clocked
<1>9. Stored'
  BY DEF Stored
<1>10. ViewsTyped'
  BY <1>7 DEF ViewsTyped, QuietTab, Untold
<1>11. Paired'
  <2>. SUFFICES ASSUME NEW n \in Conns
                PROVE  IF conn'[n].state = "free" THEN conn'[n].client = None
                       ELSE /\ conn'[n].client \in Clients
                            /\ poller'[conn'[n].poller].trace = Watches[conn'[n].client]
                            /\ conn'[n].state = "open" => client'[conn'[n].client].status = "live"
                            /\ \A m \in Conns : conn'[m].client = conn'[n].client => m = n
    BY DEF Paired
  <2>1. CASE conn'[n].state = "free"
    <3>1. conn'[n] = FreeConn \/ (SameConn(n) /\ conn[n].state = "free")
      BY <2>1 DEF QuietConn
    <3>. QED  BY <1>2, <2>1, <3>1 DEF SameConn, Paired
  <2>2. CASE conn'[n].state # "free"
    <3>1. \A m \in Conns : conn'[m].client = conn'[n].client => m = n
      BY <1>4, <1>5, <2>2, SizeAssumption DEF Paired, SameConn
    <3>. QED  BY <1>3, <1>4, <2>2, <3>1 DEF Paired, SameConn
  <2>. QED  BY <2>1, <2>2
<1>12. Calmly'
  BY <1>2 DEF Calmly, QuietConn, SameConn
<1>13. RootsTold'
  <2>1. \A p \in Pollers : poller'[p].result.root <=> HasRoot(poller'[p].result.rows["span"])
    BY <1>2, Numbers DEF RootsTold, QuietPoller, HasRoot, Kinds
  <2>2. \A n \in Conns : conn'[n].result.root <=> HasRoot(conn'[n].result.rows["span"])
    BY <1>2, Numbers DEF RootsTold, QuietConn, SameConn, HasRoot, Kinds
  <2>3. \A c \in Clients : \A i \in Items["span"] \cap Roots : Has(c, "span", i, 1)' => client'[c].root
    BY <1>6, <1>7 DEF RootsTold, Kinds
  <2>. QED  BY <2>1, <2>2, <2>3 DEF RootsTold
<1>14. StillThere'
  <2>. SUFFICES ASSUME NEW p \in Pollers, ~ poller'[p].stopped
                PROVE  /\ \A k \in Kinds :
                              /\ \A r \in poller'[p].result.rows[k] :
                                     Kept(k, poller[p].trace, r.item, r.ver)
                              /\ \A b \in poller'[p].boundary[k] : Kept(k, poller[p].trace, b[1], b[2])
                       /\ poller'[p].result.rows["span"] \subseteq RowsOf("span", poller[p].trace)
                       /\ poller'[p].root =>
                              HasRoot({r \in RowsOf("span", poller[p].trace) :
                                          r.ms <= poller'[p].head["span"]})
    BY <1>1, <1>3 DEF StillThere, Kept, Kinds
  <2>. QED  BY <1>3 DEF StillThere
<1>15. Fetched'
  BY <1>1, <1>2 DEF Fetched, QuietPoller, Carries
<1>16. ASSUME NEW c \in Clients, Reading(c)', ~ CatchingUp(c)' PROVE Reading(c) /\ ~ CatchingUp(c)
  <2>1. Reading(c)
    BY <1>16 DEF QuietTab
  <2>2. ASSUME NEW n \in Conns, conn[n].client = c, conn[n].state = "open", conn[n].catchUp # "none"
        PROVE  FALSE
    <3>1. Calm
      BY <2>2 DEF Calmly
    <3>2. SameConn(n) /\ conn'[n].state = "open"
      BY <2>2, <3>1 DEF QuietConn
    <3>. QED  BY <1>16, <2>2, <3>2 DEF SameConn, CatchingUp
  <2>. QED  BY <2>1, <2>2 DEF CatchingUp
<1>17. TabHas'
  <2>. SUFFICES ASSUME NEW c \in Clients, Reading(c)', ~ CatchingUp(c)', NEW k \in Kinds,
                       NEW r \in RowsOf(k, Watches[c]), Seen(r.ms, client'[c].cursor[k])
                PROVE  Has(c, k, r.item, r.ver)'
    BY <1>1 DEF TabHas, Seen
  <2>1. Has(c, k, r.item, r.ver)
    BY <1>7, <1>16 DEF TabHas
  <2>2. r.item \in Items[k]
    BY Numbers DEF RowsOf
  <2>. QED  BY <1>6, <2>1, <2>2
<1>18. OffHas'
  <2>. SUFFICES ASSUME Calm, NEW c \in Clients, Reading(c)', Unattached(c)',
                       NEW p \in Pollers, ~ poller'[p].stopped, poller'[p].trace = Watches[c],
                       NEW k \in Kinds
                PROVE  /\ \A r \in poller'[p].result.rows[k] :
                              r.ms <= client'[c].cursor[k] => Has(c, k, r.item, r.ver)'
                       /\ poller'[p].head[k] <= client'[c].cursor[k] =>
                              \A b \in poller'[p].boundary[k] : Has(c, k, b[1], b[2])'
    BY DEF OffHas
  <2>1. Reading(c) /\ Unattached(c)
    BY DEF QuietTab, QuietConn, SameConn, Unattached
  <2>2. /\ \A r \in poller[p].result.rows[k] :
               r.ms <= client[c].cursor[k] => Has(c, k, r.item, r.ver)
        /\ poller[p].head[k] <= client[c].cursor[k] =>
               \A b \in poller[p].boundary[k] : Has(c, k, b[1], b[2])
    BY <1>3, <2>1 DEF OffHas
  <2>. QED  BY <1>3, <1>7, <2>2 DEF Has, QuietTab, Untold
<1>19. OnHas'
  <2>. SUFFICES ASSUME NEW n \in Conns, conn'[n].state = "open", conn'[n].catchUp # "asked"
                PROVE  Served(n)'
    BY DEF OnHas
  <2>1. /\ Served(n) /\ SameConn(n) /\ conn[n].client \in Clients /\ conn[n].poller \in Pollers
        /\ ~ poller'[conn[n].poller].stopped
    BY <1>4 DEF OnHas, SameConn
  <2>2. \A k \in Kinds : \A m : Due(n, k, m)' => Due(n, k, m)
    BY <1>3, <1>7, <2>1 DEF Due, SameConn, Seen
  <2>3. \A k \in Kinds : \A i, v : Known(n, k, i, v) => Known(n, k, i, v)'
    BY <2>1 DEF Known, Has, Carries, SameConn, QuietTab, Untold
  <2>. DEFINE c == conn[n].client
              p == conn[n].poller
  <2>4. /\ conn'[n].client = c /\ conn'[n].poller = p /\ conn'[n].result = conn[n].result
        /\ poller'[p].boundary = poller[p].boundary /\ poller'[p].root = poller[p].root
        /\ client'[c].root = client[c].root
    BY <1>3, <1>7, <2>1 DEF SameConn, Kinds
  <2>5. /\ \A k \in Kinds : /\ \A r \in RowsOf(k, Watches[c]) : Due(n, k, r.ms) => Known(n, k, r.item, r.ver)
                            /\ \A b \in poller[p].boundary[k] : Known(n, k, b[1], b[2])
        /\ poller[p].root => client[c].root \/ conn[n].result.root
    BY <2>1 DEF Served
  <2>6. \A k \in Kinds : \A r \in RowsOf(k, Watches[conn[n].client])' : Due(n, k, r.ms)' => Known(n, k, r.item, r.ver)'
    <3>. SUFFICES ASSUME NEW k \in Kinds, NEW r \in RowsOf(k, Watches[conn[n].client])', Due(n, k, r.ms)'
                  PROVE  Known(n, k, r.item, r.ver)'
      OBVIOUS
    <3>1. r \in RowsOf(k, Watches[c])
      BY <2>4 DEF RowsOf
    <3>2. Known(n, k, r.item, r.ver)
      BY <2>2, <2>5, <3>1
    <3>. QED  BY <2>3, <3>2
  <2>7. \A k \in Kinds : \A b \in poller'[conn'[n].poller].boundary[k] : Known(n, k, b[1], b[2])'
    <3>. SUFFICES ASSUME NEW k \in Kinds, NEW b \in poller'[conn'[n].poller].boundary[k]
                  PROVE  Known(n, k, b[1], b[2])'
      OBVIOUS
    <3>1. Known(n, k, b[1], b[2])
      BY <2>4, <2>5
    <3>. QED  BY <2>3, <3>1
  <2>8. poller'[conn'[n].poller].root => client'[conn'[n].client].root \/ conn'[n].result.root
    BY <2>4, <2>5
  <2>. QED  BY <2>6, <2>7, <2>8 DEF Served
<1>20. AskedHas'
  <2>. SUFFICES ASSUME NEW n \in Conns, conn'[n].catchUp = "asked", NEW k \in Kinds,
                       NEW r \in RowsOf(k, Watches[conn'[n].client]), r.ms <= conn'[n].from[k]
                PROVE  client'[conn'[n].client].view[k][r.item] >= r.ver
    BY <1>1 DEF AskedHas, Has
  <2>1. SameConn(n)
    BY <1>2 DEF QuietConn
  <2>2. conn[n].state # "free" /\ conn[n].client \in Clients
    BY <2>1 DEF SameConn, IInv, Books, Attached, Paired
  <2>. QED  BY <2>1, <2>2 DEF AskedHas, SameConn, Has, QuietTab, Untold
<1>21. Settled'
  BY <1>7 DEF Settled, CompleteMeansRoot, QuietTab, Untold
<1>. QED  BY <1>8, <1>9, <1>10, <1>11, <1>12, <1>13, <1>14, <1>15, <1>17, <1>18, <1>19, <1>20, <1>21

LEMMA SetQuiet ==
    ASSUME IInv, NEW p \in Pollers, NEW q, SetPoller(p, q),
           ~ q.stopped => ~ poller[p].stopped, q.phase = "polling" => poller[p].phase = "polling",
           q.trace = poller[p].trace, q.head = poller[p].head, q.boundary = poller[p].boundary,
           q.root = poller[p].root, q.result = poller[p].result
    PROVE  \A x \in Pollers : QuietPoller(x)
<1>1. \A x \in Pollers : poller'[x] = IF x = p THEN Collected(q) ELSE poller[x]
  BY DEF SetPoller, IInv, Typed
<1>. QED  BY <1>1 DEF Collected, QuietPoller

\* Connections that lose their stream without an end message.
LEMMA QuietCut ==
    ASSUME IInv, GInv, NEW S \in SUBSET Conns, client' = Cut(client, S)
    PROVE  /\ \A c \in Clients : QuietTab(c)
           /\ \A n \in Conns \ S : conn[n].state = "open" => client'[conn[n].client].status = "live"
<1>1. /\ DOMAIN client = Clients /\ \A c \in Clients : TabOK(client[c])
      /\ Paired
  BY DEF IInv, Typed, TabsOK, GInv, Marks
<1>2. ASSUME NEW c \in Clients, c \in ClientsOf(Reached(S))
      PROVE  client[c].status = "live" /\ client'[c] = [client[c] EXCEPT !.status = "reconnecting"]
  BY <1>1, <1>2 DEF Cut, ClientsOf, Reached, Paired
<1>3. ASSUME NEW c \in Clients, c \notin ClientsOf(Reached(S))
      PROVE  client'[c] = client[c]
  BY <1>3 DEF Cut
<1>4. ASSUME NEW c \in Clients PROVE QuietTab(c)
  <2>1. CASE c \in ClientsOf(Reached(S))
    <3>. client'[c] = [client[c] EXCEPT !.status = "reconnecting"] /\ TabOK(client[c])
      BY <1>1, <1>2, <2>1
    <3>1. /\ Untold(client[c], client'[c]) /\ client'[c].resume = client[c].resume
          /\ client'[c].reason = client[c].reason
      BY DEF TabOK, Untold
    <3>2. client[c].status = "live"
      BY <1>2, <2>1
    <3>. QED  BY <3>1, <3>2 DEF QuietTab, Reading
  <2>2. CASE c \notin ClientsOf(Reached(S))
    BY <1>3, <2>2 DEF QuietTab, Untold, Reading
  <2>. QED  BY <2>1, <2>2
<1>5. ASSUME NEW n \in Conns \ S, conn[n].state = "open"
      PROVE  client'[conn[n].client].status = "live"
  <2>1. conn[n].client \in Clients /\ client[conn[n].client].status = "live"
    BY <1>1, <1>5 DEF Paired
  <2>2. conn[n].client \notin ClientsOf(Reached(S))
    BY <1>1, <1>5 DEF Paired, ClientsOf, Reached
  <2>. QED  BY <1>3, <2>1, <2>2
<1>. QED  BY <1>4, <1>5

\* A poller that ends without reading has told its lone subscriber of the root.
LEMMA QuietEnd ==
    ASSUME IInv, GInv, NEW p \in Pollers, NEW why \in {"complete", "idle"},
           client' = Ended(client, poller[p].subs, why), why = "complete" => poller[p].root
    PROVE  /\ \A c \in Clients : QuietTab(c)
           /\ \A n \in Conns \ poller[p].subs :
                  conn[n].state = "open" => client'[conn[n].client].status = "live"
<1>. DEFINE S == poller[p].subs
<1>1. /\ DOMAIN client = Clients /\ \A c \in Clients : TabOK(client[c])
      /\ Paired /\ S = {n \in Conns : conn[n].poller = p}
  BY SubsOf DEF IInv, Typed, TabsOK, GInv, Marks
<1>. HIDE DEF S
<1>2. ASSUME NEW c \in Clients, c \in ClientsOf(Reached(S))
      PROVE  client'[c] = [client[c] EXCEPT !.status = "ended", !.reason = why]
  BY <1>2 DEF Ended, S
<1>3. ASSUME NEW c \in Clients, c \notin ClientsOf(Reached(S))
      PROVE  client'[c] = client[c]
  BY <1>3 DEF Ended, S
<1>4. ASSUME NEW c \in Clients PROVE QuietTab(c)
  <2>1. CASE c \in ClientsOf(Reached(S))
    <3>. client'[c] = [client[c] EXCEPT !.status = "ended", !.reason = why] /\ TabOK(client[c])
      BY <1>1, <1>2, <2>1
    <3>1. /\ client'[c].status = "ended" /\ client'[c].reason = why
          /\ Untold(client[c], client'[c]) /\ client'[c].resume = client[c].resume
      BY DEF TabOK, Untold
    <3>2. ASSUME why = "complete", Alone \/ ~ CatchingUp(c) PROVE client[c].root
      <4>1. PICK n \in S : conn[n].state = "open" /\ conn[n].client = c
        BY <2>1 DEF ClientsOf, Reached
      <4>2. n \in Conns /\ conn[n].poller = p /\ poller[p].root
        BY <1>1, <3>2, <4>1
      <4>3. conn[n].catchUp # "read" => conn[n].result = NoDelta
        BY <3>2, <4>2 DEF GInv, Marks, Calmly
      <4>4. conn[n].catchUp = "none" => client[c].root
        BY <4>1, <4>2, <4>3 DEF GInv, Holds, OnHas, Served, NoDelta
      <4>5. conn[n].catchUp = "none"
        BY <3>2, <4>1, <4>2 DEF GInv, Marks, Calmly, CatchingUp
      <4>. QED  BY <4>4, <4>5
    <3>. QED  BY <3>1, <3>2 DEF QuietTab, Reading
  <2>2. CASE c \notin ClientsOf(Reached(S))
    BY <1>3, <2>2 DEF QuietTab, Untold, Reading
  <2>. QED  BY <2>1, <2>2
<1>5. ASSUME NEW n \in Conns \ S, conn[n].state = "open"
      PROVE  client'[conn[n].client].status = "live"
  <2>1. conn[n].client \in Clients /\ client[conn[n].client].status = "live"
    BY <1>1, <1>5 DEF Paired
  <2>2. conn[n].client \notin ClientsOf(Reached(S))
    BY <1>1, <1>5 DEF Paired, ClientsOf, Reached
  <2>. QED  BY <1>3, <2>1, <2>2
<1>. QED  BY <1>4, <1>5 DEF S

LEMMA FreedQuiet ==
    ASSUME NEW S \in SUBSET Conns, conn' = Freed(conn, S), ~ Calm, IInv,
           \A n \in Conns \ S : conn[n].state = "open" => client'[conn[n].client].status = "live"
    PROVE  \A n \in Conns : QuietConn(n)
<1>1. \A n \in Conns : conn'[n] = IF n \in S THEN FreeConn ELSE conn[n]
  BY DEF Freed
<1>. QED  BY <1>1 DEF QuietConn, SameConn

LEMMA SomeFault == ASSUME NEW f, Fault(f) PROVE ~ Calm
BY DEF Fault, Calm

LEMMA NoticeG == ASSUME IInv, IInv', GInv, NEW n \in Conns, Notice(n) PROVE GInv'
<1>. DEFINE p == conn[n].poller
            q == Detached(poller[p], {n})
<1>1. /\ p \in Pollers /\ {n} \in SUBSET poller[p].subs /\ poller[p] \in PollerRecs
      /\ Remains(p, poller[p])
  BY PollerOf, PollerRemains, SubsOf DEF Notice
<1>2. /\ conn[n].state = "dead" /\ SetPoller(p, q) /\ conn' = Freed(conn, {n})
      /\ UNCHANGED <<table, clock, client, faults>>
  BY DEF Notice
<1>3. ~ Calm
  BY <1>2 DEF GInv, Marks, Calmly
<1>4. \A x \in Pollers : QuietPoller(x)
  <2>1. /\ q.trace = poller[p].trace /\ q.head = poller[p].head /\ q.boundary = poller[p].boundary
        /\ q.root = poller[p].root /\ q.result = poller[p].result
        /\ ~ q.stopped => ~ poller[p].stopped
        /\ q.phase = "polling" => poller[p].phase = "polling"
    BY <1>1 DEF Detached, PollerRecs
  <2>. HIDE DEF p, q
  <2>. QED  BY <1>1, <1>2, <2>1, SetQuiet
<1>5. \A c \in Clients : QuietTab(c)
  BY <1>2 DEF QuietTab, Untold, Reading
<1>6. \A x \in Conns : QuietConn(x)
  <2>1. \A x \in Conns : conn[x].state = "open" => client'[conn[x].client].status = "live"
    BY <1>2 DEF GInv, Marks, Paired
  <2>. QED  BY <1>2, <1>3, <2>1, FreedQuiet
<1>. QED  BY <1>2, <1>4, <1>5, <1>6, QuietInv

LEMMA CatchUpFailG == ASSUME IInv, IInv', GInv, NEW n \in Conns, CatchUpFail(n) PROVE GInv'
<1>1. ~ Calm /\ Calm
  BY SomeFault DEF CatchUpFail, GInv, Marks, Calmly
<1>. QED  BY <1>1

\* Steps of a poller that touch nothing the invariant speaks of.
LEMMA QuietenG == ASSUME IInv, IInv', GInv, NEW p \in Pollers, Quieten(p) PROVE GInv'
<1>1. /\ poller' = [poller EXCEPT ![p].quiet = @ + 1]
      /\ UNCHANGED <<table, clock, registry, count, conn, client, faults>>
      /\ poller \in [Pollers -> PollerRecs]
  BY DEF Quieten, IInv, Typed
<1>2. \A x \in Pollers : QuietPoller(x)
  BY <1>1 DEF QuietPoller, PollerRecs
<1>3. \A c \in Clients : QuietTab(c)
  BY <1>1 DEF QuietTab, Untold, Reading
<1>4. \A n \in Conns : QuietConn(n)
  BY <1>1 DEF QuietConn, SameConn, GInv, Marks, Paired
<1>. QED  BY <1>1, <1>2, <1>3, <1>4, QuietInv

LEMMA StutterG == ASSUME IInv, IInv', GInv, UNCHANGED vars PROVE GInv'
<1>1. UNCHANGED <<table, clock, poller, conn, client>>
  BY DEF vars
<1>2. \A x \in Pollers : QuietPoller(x)
  BY <1>1 DEF QuietPoller
<1>3. \A c \in Clients : QuietTab(c)
  BY <1>1 DEF QuietTab, Untold, Reading
<1>4. \A n \in Conns : QuietConn(n)
  BY <1>1 DEF QuietConn, SameConn, GInv, Marks, Paired
<1>. QED  BY <1>1, <1>2, <1>3, <1>4, QuietInv

\* Tabs that go, come back or give up.
LEMMA TabGoesG ==
    ASSUME IInv, IInv', GInv, NEW c \in Clients,
           Rejected(c) \/ Drop(c) \/ Hide(c) \/ Show(c)
    PROVE  GInv'
<1>. DEFINE own == {n \in Conns : conn[n].client = c /\ conn[n].state = "open"}
<1>1. /\ DOMAIN client = Clients /\ \A x \in Clients : TabOK(client[x])
      /\ conn \in [Conns -> ConnRecs] /\ Paired
  BY DEF IInv, Typed, TabsOK, GInv, Marks
<1>2. UNCHANGED <<table, clock, poller>>
  BY DEF Rejected, Drop, Hide, Show
<1>3. \A x \in Pollers : QuietPoller(x)
  BY <1>2 DEF QuietPoller
<1>4. \E status : /\ client' \in {[client EXCEPT ![c].status = status],
                                  [client EXCEPT ![c].status = status, ![c].resume = client[c].cursor]}
                  /\ Reading(c)
  BY DEF Rejected, Drop, Hide, Show, Reading, Wanting
<1>5. \A x \in Clients : x # c => client'[x] = client[x]
  BY <1>1, <1>4
<1>6. \A x \in Clients : QuietTab(x)
  <2>1. QuietTab(c)
    BY <1>1, <1>4 DEF QuietTab, Untold, TabOK
  <2>. QED  BY <1>5, <2>1 DEF QuietTab, Untold, Reading
<1>7. \/ conn' = Broken(c) /\ ~ Calm
      \/ conn' = conn /\ client[c].status # "live"
  BY SomeFault DEF Rejected, Drop, Hide, Show, Wanting
<1>8. \A n \in Conns : QuietConn(n)
  <2>. SUFFICES ASSUME NEW n \in Conns PROVE QuietConn(n)
    OBVIOUS
  <2>1. CASE conn' = conn /\ client[c].status # "live"
    <3>1. conn[n].state = "open" => client'[conn[n].client].status = "live"
      BY <1>1, <1>5, <2>1 DEF Paired
    <3>. QED  BY <2>1, <3>1 DEF QuietConn, SameConn
  <2>2. CASE conn' = Broken(c) /\ ~ Calm
    <3>1. CASE n \in own
      BY <1>1, <2>2, <3>1 DEF QuietConn, SameConn, Broken, ConnRecs
    <3>2. CASE n \notin own
      <4>1. conn'[n] = conn[n]
        BY <2>2, <3>2 DEF Broken
      <4>2. conn[n].state = "open" => client'[conn[n].client].status = "live"
        BY <1>1, <1>5, <3>2 DEF Paired
      <4>. QED  BY <2>2, <4>1, <4>2 DEF QuietConn, SameConn
    <3>. QED  BY <3>1, <3>2
  <2>. QED  BY <1>7, <2>1, <2>2
<1>. QED  BY <1>2, <1>3, <1>6, <1>8, QuietInv

LEMMA TickFailQuiet ==
    ASSUME IInv, GInv, NEW p \in Pollers, TickFail(p)
    PROVE  /\ UNCHANGED <<table, clock>>
           /\ \A x \in Pollers : QuietPoller(x)
           /\ \A c \in Clients : QuietTab(c)
           /\ \A n \in Conns : QuietConn(n)
<1>. DEFINE q == [poller[p] EXCEPT !.phase = "idle", !.errors = @ + 1]
            v == Verdict(q)
            out == Detached(q, q.subs)
            t   == IF v = "again" THEN [q EXCEPT !.phase = "timer"] ELSE q
<1>1. /\ poller[p] \in PollerRecs /\ poller[p].subs \subseteq Conns
      /\ UNCHANGED <<table, clock>> /\ ~ Calm
  BY SubsOf, SomeFault DEF TickFail
<1>2. /\ q.subs = poller[p].subs /\ q.root = poller[p].root /\ q.phase = "idle"
      /\ q.stopped = poller[p].stopped /\ q.head = poller[p].head /\ q.trace = poller[p].trace
      /\ q.boundary = poller[p].boundary /\ q.result = poller[p].result
  BY <1>1 DEF PollerRecs
<1>3. /\ out.trace = poller[p].trace /\ out.head = poller[p].head /\ out.root = poller[p].root
      /\ out.boundary = poller[p].boundary /\ out.result = poller[p].result
      /\ out.phase # "polling" /\ (~ out.stopped => ~ poller[p].stopped)
  BY <1>1, <1>2 DEF Detached, PollerRecs
<1>4. /\ t.trace = poller[p].trace /\ t.head = poller[p].head /\ t.root = poller[p].root
      /\ t.boundary = poller[p].boundary /\ t.result = poller[p].result
      /\ t.phase # "polling" /\ (~ t.stopped => ~ poller[p].stopped)
  <2>. HIDE DEF v
  <2>. QED  BY <1>1, <1>2 DEF PollerRecs
<1>5. v = "complete" => q.root
  BY DEF Verdict
<1>. HIDE DEF q, v, out, t
<1>6. \/ client' = Cut(client, q.subs) /\ conn' = Freed(conn, q.subs) /\ SetPoller(p, out)
      \/ client' = Ended(client, q.subs, v) /\ conn' = Freed(conn, q.subs) /\ SetPoller(p, out)
            /\ v \in {"complete", "idle"}
      \/ client' = client /\ conn' = conn /\ SetPoller(p, t)
  BY DEF TickFail, Conclude, q, v, out, t
<1>7. \A x \in Pollers : QuietPoller(x)
  BY <1>3, <1>4, <1>6, SetQuiet
<1>8. CASE client' = client /\ conn' = conn
  <2>1. \A c \in Clients : QuietTab(c)
    BY <1>8 DEF QuietTab, Untold, Reading
  <2>2. \A n \in Conns : QuietConn(n)
    BY <1>8 DEF QuietConn, SameConn, GInv, Marks, Paired
  <2>. QED  BY <1>1, <1>7, <2>1, <2>2
<1>9. CASE /\ conn' = Freed(conn, q.subs)
           /\ \/ client' = Cut(client, q.subs)
              \/ client' = Ended(client, q.subs, v) /\ v \in {"complete", "idle"}
  <2>1. /\ \A c \in Clients : QuietTab(c)
        /\ \A n \in Conns \ q.subs :
               conn[n].state = "open" => client'[conn[n].client].status = "live"
    BY <1>1, <1>2, <1>5, <1>9, QuietCut, QuietEnd
  <2>2. \A n \in Conns : QuietConn(n)
    BY <1>1, <1>2, <1>9, <2>1, FreedQuiet
  <2>. QED  BY <1>1, <1>7, <2>1, <2>2
<1>. QED  BY <1>6, <1>8, <1>9

LEMMA TickFailG == ASSUME IInv, IInv', GInv, NEW p \in Pollers, TickFail(p) PROVE GInv'
BY TickFailQuiet, QuietInv

--------------------------------------------------------------------------------
(***************************************************************************)
(* The store and the tabs.                                                 *)
(***************************************************************************)
LEMMA InitG == ASSUME Init PROVE GInv
<1>1. /\ NoPoller.stopped /\ NoPoller.phase = "idle" /\ NoPoller.head = Zero
      /\ NoPoller.result = NoDelta /\ NoDelta.cursor = Zero /\ NoDelta.rows = NoRows
      /\ NoDelta.root = FALSE /\ FreeConn.state = "free" /\ FreeConn.client = None
      /\ FreeConn.catchUp = "none" /\ FreeConn.from = Zero /\ FreeConn.result = NoDelta
      /\ NewClient.status = "unloaded" /\ NewClient.cursor = Zero /\ NewClient.resume = Zero
      /\ NewClient.root = FALSE /\ NewClient.reason = None
      /\ \A k \in Kinds : \A i \in Items[k] : NewClient.view[k][i] = 0
      /\ \A k \in Kinds : Zero[k] = 0 /\ NoRows[k] = {}
  BY DEF NoPoller, FreeConn, NoDelta, NewClient, Zero, NoRows
<1>2. /\ \A k \in Kinds : table[k] = {} /\ clock[k] = 0
      /\ \A p \in Pollers : poller[p] = NoPoller
      /\ \A n \in Conns : conn[n] = FreeConn
      /\ \A c \in Clients : client[c] = NewClient
  BY <1>1 DEF Init
<1>3. \A k \in Kinds : MaxVer[k] \in Nat /\ MaxRows \in Nat
  BY SizeAssumption
<1>4. Clocked
  BY <1>1, <1>2 DEF Clocked
<1>5. Stored
  BY <1>2, <1>3, FS_EmptySet DEF Stored
<1>6. ViewsTyped
  <2>1. \A c \in Clients : client[c].root = FALSE /\ client[c].view = NewClient.view
    BY <1>1, <1>2
  <2>2. \A k \in Kinds : 0 \in 0 .. MaxVer[k]
    BY <1>3
  <2>3. \A c \in Clients : \A k \in Kinds : \A i \in Items[k] : client[c].view[k][i] \in 0 .. MaxVer[k]
    BY <1>1, <2>1, <2>2
  <2>4. \A c \in Clients : client[c].root \in BOOLEAN
    BY <2>1
  <2>. QED  BY <2>3, <2>4 DEF ViewsTyped
<1>7. Paired /\ Calmly
  BY <1>1, <1>2 DEF Paired, Calmly
<1>8. RootsTold
  <2>1. "span" \in Kinds /\ Roots \subseteq Items["span"] /\ \A x : ~ HasRoot(NoRows["span"])
    BY <1>1, ShapeAssumption DEF HasRoot, Kinds
  <2>. QED  BY <1>1, <1>2, <2>1 DEF RootsTold, Has
<1>9. StillThere /\ Fetched /\ OffHas /\ TabHas /\ OnHas /\ AskedHas /\ Settled
  BY <1>1, <1>2 DEF StillThere, Fetched, OffHas, TabHas, OnHas, AskedHas, Settled, Reading,
                    CompleteMeansRoot, None
<1>. QED  BY <1>4, <1>5, <1>6, <1>7, <1>8, <1>9 DEF GInv, Marks, Reads, Holds

\* A row that lands is ahead of every mark.
LEMMA InsertG == ASSUME IInv, IInv', GInv, NEW j \in Kinds, Insert(j) PROVE GInv'
<1>. USE DEF GInv, Marks, Reads, Holds
<1>1. PICK i \in Items[j], v \in 1 .. MaxVer[j], m \in clock[j] .. clock[j] + 1 :
          LET r == [item |-> i, ver |-> v, ms |-> m] IN
          /\ 1 <= m /\ m <= MaxMs
          /\ SharedMs \/ m > clock[j]
          /\ table' = [table EXCEPT ![j] = {r} \cup
                 (IF j = "span" THEN @ ELSE {q \in @ : RowKey(q) # RowKey(r)})]
          /\ Cardinality(table'[j]) <= MaxRows
          /\ clock' = [clock EXCEPT ![j] = m]
          /\ UNCHANGED <<poller, registry, count, conn, client, faults>>
  BY DEF Insert
<1>. DEFINE new  == [item |-> i, ver |-> v, ms |-> m]
            keep == IF j = "span" THEN table[j] ELSE {q \in table[j] : RowKey(q) # RowKey(new)}
<1>2. UNCHANGED <<poller, conn, client>>
  BY <1>1
<1>3. /\ table'[j] = {new} \cup keep /\ clock'[j] = m /\ keep \subseteq table[j]
      /\ \A k \in Kinds : k # j => table'[k] = table[k] /\ clock'[k] = clock[k]
  BY <1>1 DEF IInv, Typed, Cursors
<1>4. m \in Nat /\ clock[j] \in Nat /\ clock[j] <= m /\ (SharedMs \/ m > clock[j])
  BY <1>1, Numbers
<1>5. \A q \in table[j] : q \notin keep => j = "eval" /\ q.item = new.item /\ q.ver = new.ver
  BY DEF RowKey, Kinds
<1>6. new.ms = m
  OBVIOUS
<1>. HIDE DEF new, keep
<1>7. \A k \in Kinds : \A t : \A r \in RowsOf(k, t)' :
          \/ r \in RowsOf(k, t)
          \/ /\ \A mark \in Nat : mark <= clock[k] => ~ Seen(r.ms, mark)
             /\ \A mark \in Nat : mark <= clock[k] /\ ~ SharedMs => ~ (r.ms <= mark)
  BY <1>3, <1>4, <1>6 DEF RowsOf, Seen
<1>8. \A k \in Kinds : \A t : \A x, y : Kept(k, t, x, y) => Kept(k, t, x, y)'
  BY <1>3, <1>5 DEF Kept, RowsOf
<1>9. \A t : RowsOf("span", t) \subseteq RowsOf("span", t)'
  BY <1>3, <1>5 DEF RowsOf, Kinds
<1>10. /\ \A c \in Clients, k \in Kinds : client[c].cursor[k] \in Nat
       /\ \A p \in Pollers, k \in Kinds : poller[p].head[k] \in Nat /\ poller[p].result.cursor[k] \in Nat
       /\ \A n \in Conns, k \in Kinds : conn[n].from[k] \in Nat /\ conn[n].result.cursor[k] \in Nat
  BY Numbers
<1>11. /\ \A c \in Clients, k \in Kinds : client[c].cursor[k] <= clock[k]
       /\ \A p \in Pollers, k \in Kinds :
              poller[p].head[k] <= clock[k] /\ poller[p].result.cursor[k] <= clock[k]
       /\ \A n \in Conns, k \in Kinds :
              conn[n].from[k] <= clock[k] /\ conn[n].result.cursor[k] <= clock[k]
  BY DEF Clocked
<1>12. Clocked'
  <2>1. \A k \in Kinds : clock[k] \in Nat /\ clock'[k] \in Nat /\ clock[k] <= clock'[k]
    BY <1>3, <1>4, Numbers
  <2>2. \A k \in Kinds : \A r \in table'[k] : r.ms <= clock'[k]
    <3>1. ASSUME NEW r \in table'[j] PROVE r.ms <= clock'[j]
      <4>1. r = new \/ r \in table[j]
        BY <1>3
      <4>2. r \in table[j] => r.ms \in Nat /\ r.ms <= clock[j]
        BY Numbers DEF Clocked
      <4>. QED  BY <1>3, <1>4, <1>6, <4>1, <4>2
    <3>. QED  BY <1>3, <3>1 DEF Clocked
  <2>3. /\ \A c \in Clients, k \in Kinds :
               client'[c].resume[k] <= client'[c].cursor[k] /\ client'[c].cursor[k] <= clock'[k]
        /\ \A p \in Pollers, k \in Kinds :
               /\ poller'[p].head[k] <= clock'[k] /\ poller'[p].result.cursor[k] <= clock'[k]
               /\ \A r \in poller'[p].result.rows[k] : r.ms <= poller'[p].result.cursor[k]
        /\ \A n \in Conns, k \in Kinds :
               conn'[n].from[k] <= clock'[k] /\ conn'[n].result.cursor[k] <= clock'[k]
    BY <1>2, <1>10, <1>11, <2>1 DEF Clocked
  <2>. QED  BY <2>2, <2>3 DEF Clocked
<1>13. Stored'
  <2>1. IsFiniteSet(table'[j])
    <3>1. IsFiniteSet(keep)
      BY <1>3, FS_Subset DEF Stored
    <3>2. IsFiniteSet(keep \cup {new})
      BY <3>1, FS_AddElement
    <3>3. table'[j] = keep \cup {new}
      BY <1>3
    <3>. QED  BY <3>2, <3>3
  <2>2. ASSUME ~ SharedMs, NEW r \in table'[j], NEW q \in table'[j], r.ms = q.ms PROVE r = q
    <3>1. \A x \in table[j] : x.ms \in Nat /\ x.ms <= clock[j] /\ x.ms # new.ms
      BY <1>4, <1>6, <2>2, Numbers DEF Clocked
    <3>. QED  BY <1>3, <2>2, <3>1 DEF Stored
  <2>. QED  BY <1>1, <1>3, <2>1, <2>2 DEF Stored
<1>14. ViewsTyped' /\ Paired' /\ Calmly' /\ RootsTold' /\ Settled'
  BY <1>2 DEF ViewsTyped, Paired, Calmly, RootsTold, Settled, CompleteMeansRoot, Has, HasRoot
<1>15. StillThere'
  <2>. SUFFICES ASSUME NEW p \in Pollers, ~ poller[p].stopped, NEW t, t = poller[p].trace
                PROVE  /\ \A k \in Kinds :
                              /\ \A r \in poller[p].result.rows[k] : Kept(k, t, r.item, r.ver)'
                              /\ \A b \in poller[p].boundary[k] : Kept(k, t, b[1], b[2])'
                       /\ poller[p].result.rows["span"] \subseteq RowsOf("span", t)'
                       /\ poller[p].root =>
                              HasRoot({r \in RowsOf("span", t)' : r.ms <= poller[p].head["span"]})
    BY <1>2 DEF StillThere, Kept, RowsOf, HasRoot
  <2>1. \A k \in Kinds : /\ \A r \in poller[p].result.rows[k] : Kept(k, t, r.item, r.ver)
                         /\ \A b \in poller[p].boundary[k] : Kept(k, t, b[1], b[2])
    BY DEF StillThere
  <2>2. \A k \in Kinds : /\ \A r \in poller[p].result.rows[k] : Kept(k, t, r.item, r.ver)'
                         /\ \A b \in poller[p].boundary[k] : Kept(k, t, b[1], b[2])'
    BY <1>8, <2>1
  <2>3. RowsOf("span", t) \subseteq RowsOf("span", t)'
    BY <1>9
  <2>. QED  BY <2>2, <2>3 DEF StillThere, HasRoot
<1>16. Fetched'
  <2>. SUFFICES ASSUME NEW p \in Pollers, poller[p].phase = "polling", NEW k \in Kinds,
                       NEW r \in RowsOf(k, poller[p].trace)',
                       poller[p].head[k] <= r.ms, Seen(r.ms, poller[p].result.cursor[k])
                PROVE  Carries(poller[p].result, k, r.item, r.ver)
    BY <1>2 DEF Fetched, Carries, Seen
  <2>1. r \in RowsOf(k, poller[p].trace)
    BY <1>2, <1>7, <1>10, <1>11 DEF RowsOf
  <2>. QED  BY <2>1 DEF Fetched
<1>17. TabHas'
  <2>. SUFFICES ASSUME NEW c \in Clients, Reading(c), ~ CatchingUp(c), NEW k \in Kinds,
                       NEW r \in RowsOf(k, Watches[c])', Seen(r.ms, client[c].cursor[k])
                PROVE  Has(c, k, r.item, r.ver)
    BY <1>2 DEF TabHas, Reading, CatchingUp, Seen, Has
  <2>1. r \in RowsOf(k, Watches[c])
    BY <1>7, <1>10, <1>11
  <2>. QED  BY <2>1 DEF TabHas
<1>18. OffHas'
  BY <1>2 DEF OffHas, Reading, Unattached, Has
<1>19. OnHas'
  <2>. SUFFICES ASSUME NEW n \in Conns, conn[n].state = "open", conn[n].catchUp # "asked"
                PROVE  Served(n)'
    BY <1>2 DEF OnHas
  <2>1. Served(n) /\ conn[n].poller \in Pollers /\ conn[n].client \in Clients
    BY ConnsRun DEF OnHas, Runs, Paired
  <2>2. ASSUME NEW k \in Kinds, NEW r \in RowsOf(k, Watches[conn[n].client])', Due(n, k, r.ms)'
        PROVE  Known(n, k, r.item, r.ver)'
    <3>1. Due(n, k, r.ms)
      BY <1>2, <2>2 DEF Due, Seen
    <3>2. r \in RowsOf(k, Watches[conn[n].client])
      BY <1>2, <1>7, <1>10, <1>11, <2>1, <3>1 DEF Due, RowsOf
    <3>3. Known(n, k, r.item, r.ver)
      BY <2>1, <3>1, <3>2 DEF Served
    <3>. QED  BY <1>2, <3>3 DEF Known, Has, Carries
  <2>3. \A k \in Kinds : \A b \in poller'[conn'[n].poller].boundary[k] : Known(n, k, b[1], b[2])'
    BY <1>2, <2>1 DEF Served, Known, Has, Carries
  <2>4. \A k \in Kinds : \A r \in RowsOf(k, Watches[conn[n].client])' :
            Due(n, k, r.ms)' => Known(n, k, r.item, r.ver)'
    BY <2>2
  <2>5. poller'[conn'[n].poller].root => client'[conn'[n].client].root \/ conn'[n].result.root
    BY <1>2, <2>1 DEF Served
  <2>. QED  BY <2>3, <2>4, <2>5 DEF Served
<1>20. AskedHas'
  <2>. SUFFICES ASSUME NEW n \in Conns, conn[n].catchUp = "asked", NEW k \in Kinds,
                       NEW r \in RowsOf(k, Watches[conn[n].client])', r.ms <= conn[n].from[k]
                PROVE  Has(conn[n].client, k, r.item, r.ver)
    BY <1>2 DEF AskedHas, Has
  <2>1. ~ SharedMs
    BY DEF Calmly, Calm
  <2>2. r \in RowsOf(k, Watches[conn[n].client])
    BY <1>2, <1>7, <1>10, <1>11, <2>1 DEF RowsOf
  <2>. QED  BY <2>2 DEF AskedHas
<1>. QED  BY <1>12, <1>13, <1>14, <1>15, <1>16, <1>17, <1>18, <1>19, <1>20

\* A page shows what there is, so its tab misses nothing.
LEMMA LoadG == ASSUME IInv, IInv', GInv, NEW c \in Clients, Load(c) PROVE GInv'
<1>. USE DEF GInv, Marks, Reads, Holds
<1>1. PICK S \in Snapshots("span", Watches[c]), E \in Snapshots("eval", Watches[c]) :
          LET rows == [k \in Kinds |-> IF k = "span" THEN S ELSE E]
              cur  == [k \in Kinds |-> MaxMsOf(rows[k], 0)] IN
          /\ \A r \in S : r.item \notin Roots
          /\ client' = [client EXCEPT ![c] =
                 [@ EXCEPT !.status = "connecting", !.cursor = cur, !.resume = cur,
                           !.view = Merge(client[c].view, rows)]]
  BY DEF Load
<1>. DEFINE rows == [k \in Kinds |-> IF k = "span" THEN S ELSE E]
            cur  == [k \in Kinds |-> MaxMsOf(rows[k], 0)]
<1>2. client[c].status = "unloaded" /\ UNCHANGED <<table, clock, poller, conn>>
  BY DEF Load
<1>3. \A x \in Clients : x # c => client'[x] = client[x]
  BY <1>1
<1>4. DOMAIN client = Clients /\ TabOK(client[c])
  BY DEF IInv, Typed, TabsOK
<1>5. /\ client'[c].status = "connecting" /\ client'[c].cursor = cur /\ client'[c].resume = cur
      /\ client'[c].root = client[c].root /\ client'[c].reason = client[c].reason
      /\ client'[c].view = Merge(client[c].view, rows)
  <2>1. client' = [client EXCEPT ![c] = [@ EXCEPT !.status = "connecting", !.cursor = cur,
                                         !.resume = cur, !.view = Merge(client[c].view, rows)]]
    BY <1>1
  <2>. HIDE DEF rows, cur
  <2>. QED  BY <1>4, <2>1 DEF TabOK
<1>6. \A k \in Kinds : rows[k] \in Snapshots(k, Watches[c]) /\ cur[k] = MaxMsOf(rows[k], 0)
  BY DEF Kinds
<1>7. \A r \in rows["span"] : r.item \notin Roots
  BY <1>1 DEF Kinds
<1>. HIDE DEF rows, cur
<1>8. \A k \in Kinds :
          /\ rows[k] \subseteq RowsOf(k, Watches[c]) /\ rows[k] \subseteq Row(k)
          /\ \A r \in RowsOf(k, Watches[c]) : \E q \in rows[k] : q.item = r.item /\ q.ver >= r.ver
  <2>1. \A k \in Kinds : RowsOf(k, Watches[c]) \subseteq Row(k)
    BY Numbers DEF RowsOf
  <2>. QED  BY <1>6, <2>1 DEF Snapshots
<1>9. \A k \in Kinds : cur[k] \in Nat /\ cur[k] <= clock[k]
  <2>. SUFFICES ASSUME NEW k \in Kinds PROVE cur[k] \in Nat /\ cur[k] <= clock[k]
    OBVIOUS
  <2>1. /\ MaxMsOf(rows[k], 0) \in 0 .. MaxMs
        /\ MaxMsOf(rows[k], 0) = 0 \/ \E r \in rows[k] : r.ms = MaxMsOf(rows[k], 0)
    BY <1>8, WatermarkIs, SizeAssumption
  <2>2. clock[k] \in Nat /\ \A r \in rows[k] : r.ms <= clock[k]
    BY <1>8, Numbers DEF Clocked, RowsOf
  <2>. QED  BY <1>6, <2>1, <2>2
<1>10. ASSUME NEW k \in Kinds, NEW i \in Items[k]
       PROVE  /\ client'[c].view[k][i] \in 0 .. MaxVer[k]
              /\ client[c].view[k][i] <= client'[c].view[k][i]
              /\ \A r \in rows[k] : r.item = i => r.ver <= client'[c].view[k][i]
              /\ \/ client'[c].view[k][i] = client[c].view[k][i]
                 \/ \E r \in rows[k] : r.item = i
  BY <1>5, <1>8, MergeIs DEF ViewsTyped
<1>11. \A k \in Kinds : \A r \in RowsOf(k, Watches[c]) : Has(c, k, r.item, r.ver)'
  <2>. SUFFICES ASSUME NEW k \in Kinds, NEW r \in RowsOf(k, Watches[c])
                PROVE  client'[c].view[k][r.item] >= r.ver
    BY DEF Has
  <2>1. PICK q \in rows[k] : q.item = r.item /\ q.ver >= r.ver
    BY <1>8
  <2>2. r.item \in Items[k] /\ r.ver \in Nat /\ q.ver \in Nat /\ MaxVer[k] \in Nat
    BY <1>8, Numbers, SizeAssumption DEF RowsOf
  <2>. QED  BY <1>10, <2>1, <2>2
<1>12. \A n \in Conns : conn[n].state = "open" \/ conn[n].catchUp # "none" => conn[n].client # c /\ conn[n].client \in Clients
  BY <1>2, PollerOf DEF Paired, Calmly, IInv, Typed, ConnRecs
<1>13. Clocked'
  BY <1>2, <1>3, <1>5, <1>9 DEF Clocked
<1>14. Stored' /\ Calmly' /\ StillThere' /\ Fetched'
  BY <1>2 DEF Stored, Calmly, StillThere, Fetched, Kept, RowsOf, Carries, Seen, HasRoot
<1>15. ViewsTyped'
  BY <1>3, <1>5, <1>10 DEF ViewsTyped
<1>16. Paired'
  BY <1>2, <1>3, <1>12 DEF Paired
<1>17. RootsTold'
  <2>1. ASSUME NEW i \in Items["span"] \cap Roots, Has(c, "span", i, 1)' PROVE client'[c].root
    <3>1. "span" \in Kinds
      BY DEF Kinds
    <3>2. client'[c].view["span"][i] = client[c].view["span"][i]
      BY <1>7, <1>10, <3>1
    <3>. QED  BY <1>5, <2>1, <3>2 DEF RootsTold, Has
  <2>. QED  BY <1>2, <1>3, <2>1 DEF RootsTold, Has
<1>18. TabHas'
  <2>. SUFFICES ASSUME NEW x \in Clients, Reading(x)', ~ CatchingUp(x), NEW k \in Kinds,
                       NEW r \in RowsOf(k, Watches[x]), Seen(r.ms, client'[x].cursor[k])
                PROVE  Has(x, k, r.item, r.ver)'
    BY <1>2 DEF TabHas, CatchingUp, RowsOf, Seen
  <2>1. CASE x = c
    BY <1>11, <2>1
  <2>2. CASE x # c
    BY <1>3, <2>2 DEF TabHas, Has, Reading
  <2>. QED  BY <2>1, <2>2
<1>19. OffHas'
  <2>. SUFFICES ASSUME Calm, NEW x \in Clients, Reading(x)', Unattached(x),
                       NEW p \in Pollers, ~ poller[p].stopped, poller[p].trace = Watches[x],
                       NEW k \in Kinds
                PROVE  /\ \A r \in poller[p].result.rows[k] :
                              r.ms <= client'[x].cursor[k] => Has(x, k, r.item, r.ver)'
                       /\ poller[p].head[k] <= client'[x].cursor[k] =>
                              \A b \in poller[p].boundary[k] : Has(x, k, b[1], b[2])'
    BY <1>2 DEF OffHas, Unattached
  <2>1. CASE x = c
    <3>1. \A i, v : Kept(k, Watches[c], i, v) => Has(c, k, i, v)'
      BY <1>11 DEF Kept
    <3>2. /\ \A r \in poller[p].result.rows[k] : Kept(k, Watches[c], r.item, r.ver)
          /\ \A b \in poller[p].boundary[k] : Kept(k, Watches[c], b[1], b[2])
      BY <2>1 DEF StillThere
    <3>. QED  BY <2>1, <3>1, <3>2
  <2>2. CASE x # c
    BY <1>3, <2>2 DEF OffHas, Has, Reading
  <2>. QED  BY <2>1, <2>2
<1>20. OnHas'
  <2>. SUFFICES ASSUME NEW n \in Conns, conn[n].state = "open", conn[n].catchUp # "asked"
                PROVE  Served(n)'
    BY <1>2 DEF OnHas
  <2>1. Served(n) /\ client'[conn[n].client] = client[conn[n].client]
    BY <1>3, <1>12 DEF OnHas
  <2>. QED  BY <1>2, <2>1, SMTT(30) DEF Served, Due, Known, Has, Carries, RowsOf, Seen
<1>21. AskedHas'
  BY <1>2, <1>3, <1>12 DEF AskedHas, Has, RowsOf
<1>22. Settled'
  BY <1>3, <1>5 DEF Settled, CompleteMeansRoot
<1>. QED  BY <1>13, <1>14, <1>15, <1>16, <1>17, <1>18, <1>19, <1>20, <1>21, <1>22

SamePoller(p) ==
    /\ poller'[p].trace = poller[p].trace /\ poller'[p].stopped = poller[p].stopped
    /\ poller'[p].phase = poller[p].phase /\ poller'[p].head = poller[p].head
    /\ poller'[p].boundary = poller[p].boundary /\ poller'[p].root = poller[p].root
    /\ poller'[p].result = poller[p].result

\* Connection n subscribes tab c to poller p, which runs already or starts.
Joins(c, n, p) ==
    /\ SamePoller(p) /\ poller[p].trace = Watches[c] /\ ~ poller[p].stopped
    /\ \/ conn'[n].catchUp = "asked" /\ conn'[n].from = client[c].resume
       \/ /\ conn'[n].catchUp = "none" /\ conn'[n].from = Zero
          /\ \A k \in Kinds : ~ (client[c].resume[k] < poller[p].head[k])

Starts(c, n, p) ==
    /\ poller[p] = NoPoller /\ conn'[n].catchUp = "none" /\ conn'[n].from = Zero
    /\ poller'[p].trace = Watches[c] /\ ~ poller'[p].stopped /\ poller'[p].phase = "timer"
    /\ poller'[p].head = client[c].resume /\ poller'[p].boundary = NoRows
    /\ poller'[p].root = FALSE /\ poller'[p].result = NoDelta

LEMMA SubscribeIs ==
    ASSUME IInv, NEW c \in Clients, Subscribe(c)
    PROVE  /\ client[c].status \in {"connecting", "reconnecting"} /\ NoticedAll(c)
           /\ UNCHANGED <<table, clock>>
           /\ client'[c].status = "live" /\ Untold(client[c], client'[c])
           /\ client'[c].resume = client[c].resume /\ client'[c].reason = client[c].reason
           /\ \A x \in Clients : x # c => client'[x] = client[x]
           /\ \E n \in Conns, p \in Pollers :
                 /\ conn[n].state = "free" /\ conn'[n].state = "open"
                 /\ conn'[n].client = c /\ conn'[n].poller = p /\ conn'[n].result = NoDelta
                 /\ \A m \in Conns : m # n => conn'[m] = conn[m]
                 /\ \A q \in Pollers : q # p => poller'[q] = poller[q]
                 /\ Joins(c, n, p) \/ Starts(c, n, p)
<1>. DEFINE t == Watches[c]
<1>1. /\ DOMAIN client = Clients /\ TabOK(client[c])
      /\ conn \in [Conns -> ConnRecs] /\ poller \in [Pollers -> PollerRecs]
      /\ registry \in [Traces -> Pollers \cup {None}] /\ t \in Traces
  BY SizeAssumption DEF IInv, Typed, TabsOK
<1>2. PICK n \in Conns :
        /\ conn[n].state = "free"
        /\ client' = [client EXCEPT ![c].status = "live"]
        /\ \/ /\ registry[t] # None
              /\ poller' = [poller EXCEPT ![registry[t]].subs = @ \cup {n}]
              /\ conn' = [conn EXCEPT ![n] = [FreeConn EXCEPT
                     !.state = "open", !.client = c, !.poller = registry[t],
                     !.catchUp = IF NeedsCatchUp(client[c].resume, poller[registry[t]].head)
                                 THEN "asked" ELSE "none",
                     !.from = IF NeedsCatchUp(client[c].resume, poller[registry[t]].head)
                              THEN client[c].resume ELSE Zero]]
           \/ /\ registry[t] = None
              /\ \E p \in Pollers :
                 /\ poller[p] = NoPoller
                 /\ poller' = [poller EXCEPT ![p] = [NoPoller EXCEPT
                        !.trace = t, !.stopped = FALSE, !.phase = "timer",
                        !.subs = {n}, !.head = client[c].resume]]
                 /\ conn' = [conn EXCEPT ![n] = [FreeConn EXCEPT
                        !.state = "open", !.client = c, !.poller = p]]
  BY DEF Subscribe
<1>3. /\ client'[c].status = "live" /\ Untold(client[c], client'[c])
      /\ client'[c].resume = client[c].resume /\ client'[c].reason = client[c].reason
      /\ \A x \in Clients : x # c => client'[x] = client[x]
  BY <1>1, <1>2 DEF TabOK, Untold
<1>4. client[c].status \in {"connecting", "reconnecting"} /\ NoticedAll(c) /\ UNCHANGED <<table, clock>>
  BY DEF Subscribe, Wanting
<1>5. \E p \in Pollers :
         /\ conn'[n].state = "open" /\ conn'[n].client = c /\ conn'[n].poller = p
         /\ conn'[n].result = NoDelta
         /\ \A m \in Conns : m # n => conn'[m] = conn[m]
         /\ \A q \in Pollers : q # p => poller'[q] = poller[q]
         /\ Joins(c, n, p) \/ Starts(c, n, p)
  <2>1. CASE registry[t] # None
    <3>. DEFINE p       == registry[t]
                catchUp == IF NeedsCatchUp(client[c].resume, poller[p].head) THEN "asked" ELSE "none"
                start   == IF NeedsCatchUp(client[c].resume, poller[p].head)
                           THEN client[c].resume ELSE Zero
    <3>1. /\ poller' = [poller EXCEPT ![p].subs = @ \cup {n}]
          /\ conn' = [conn EXCEPT ![n] = [FreeConn EXCEPT
                 !.state = "open", !.client = c, !.poller = p,
                 !.catchUp = catchUp, !.from = start]]
      BY <1>2, <2>1
    <3>2. p \in Pollers /\ poller[p].trace = t /\ ~ poller[p].stopped
      BY <1>1, <2>1 DEF IInv, Books, Attached
    <3>3. \/ catchUp = "asked" /\ start = client[c].resume
          \/ /\ catchUp = "none" /\ start = Zero
             /\ \A k \in Kinds : ~ (client[c].resume[k] < poller[p].head[k])
      BY DEF NeedsCatchUp, Behind
    <3>. HIDE DEF catchUp, start, p
    <3>4. /\ conn'[n].state = "open" /\ conn'[n].client = c /\ conn'[n].poller = p
          /\ conn'[n].result = NoDelta /\ conn'[n].catchUp = catchUp /\ conn'[n].from = start
          /\ \A m \in Conns : m # n => conn'[m] = conn[m]
      BY <1>1, <3>1 DEF FreeConn
    <3>5. SamePoller(p) /\ \A q \in Pollers : q # p => poller'[q] = poller[q]
      BY <1>1, <3>1, <3>2 DEF PollerRecs, SamePoller
    <3>6. Joins(c, n, p)
      BY <3>2, <3>3, <3>4, <3>5 DEF Joins
    <3>. QED  BY <3>2, <3>4, <3>5, <3>6
  <2>2. CASE registry[t] = None
    <3>1. PICK p \in Pollers :
            /\ poller[p] = NoPoller
            /\ poller' = [poller EXCEPT ![p] = [NoPoller EXCEPT
                   !.trace = t, !.stopped = FALSE, !.phase = "timer",
                   !.subs = {n}, !.head = client[c].resume]]
            /\ conn' = [conn EXCEPT ![n] = [FreeConn EXCEPT
                   !.state = "open", !.client = c, !.poller = p]]
      BY <1>2, <2>2
    <3>2. /\ poller'[p].trace = t /\ ~ poller'[p].stopped /\ poller'[p].phase = "timer"
          /\ poller'[p].head = client[c].resume /\ poller'[p].boundary = NoRows
          /\ poller'[p].root = FALSE /\ poller'[p].result = NoDelta
          /\ \A q \in Pollers : q # p => poller'[q] = poller[q]
      BY <1>1, <3>1 DEF NoPoller
    <3>3. /\ conn'[n].state = "open" /\ conn'[n].client = c /\ conn'[n].poller = p
          /\ conn'[n].result = NoDelta /\ conn'[n].catchUp = "none" /\ conn'[n].from = Zero
          /\ \A m \in Conns : m # n => conn'[m] = conn[m]
      BY <1>1, <3>1 DEF FreeConn
    <3>4. Starts(c, n, p)
      BY <3>1, <3>2, <3>3 DEF Starts
    <3>. QED  BY <3>2, <3>3, <3>4
  <2>. QED  BY <2>1, <2>2
<1>. QED  BY <1>2, <1>3, <1>4, <1>5

\* A trace with one tab has no poller when that tab comes, so it never joins one.
LEMMA AloneNeverJoins ==
    ASSUME IInv, GInv, Alone, NEW c \in Clients, Unattached(c),
           NEW p \in Pollers, ~ poller[p].stopped, poller[p].trace = Watches[c]
    PROVE  FALSE
<1>1. PICK m \in poller[p].subs : TRUE
  BY DEF IInv, Books, OneLoopPerTrace
<1>2. m \in Conns /\ conn[m].poller = p /\ p # None
  BY <1>1, SubsOf, SizeAssumption
<1>3. conn[m].state # "free"
  BY <1>2 DEF IInv, Books, Attached
<1>4. conn[m].client \in Clients /\ Watches[conn[m].client] = Watches[c]
  BY <1>2, <1>3 DEF GInv, Marks, Paired
<1>. QED  BY <1>2, <1>4 DEF Alone, Unattached

\* A connection whose poller and tab are as they were is as well served.
LEMMA ServedKept ==
    ASSUME NEW m \in Conns, NEW c, NEW p, c = conn[m].client, p = conn[m].poller,
           conn'[m].client = c, conn'[m].poller = p, conn'[m].catchUp = conn[m].catchUp,
           conn'[m].result = conn[m].result, UNCHANGED table, poller'[p].head = poller[p].head,
           poller'[p].boundary = poller[p].boundary, poller'[p].root = poller[p].root,
           client'[c].view = client[c].view, client'[c].cursor = client[c].cursor,
           client'[c].root = client[c].root, Served(m)
    PROVE  Served(m)'
<1>1. \A k \in Kinds : \A i, v : Known(m, k, i, v) => Known(m, k, i, v)'
  BY DEF Known, Has, Carries
<1>2. \A k \in Kinds : \A x : Due(m, k, x)' => Due(m, k, x)
  BY DEF Due, Seen
<1>3. \A k \in Kinds : \A r \in RowsOf(k, Watches[conn[m].client])' :
          Due(m, k, r.ms)' => Known(m, k, r.item, r.ver)'
  <2>. SUFFICES ASSUME NEW k \in Kinds, NEW r \in RowsOf(k, Watches[c]), Due(m, k, r.ms)'
                PROVE  Known(m, k, r.item, r.ver)'
    BY DEF RowsOf
  <2>1. Known(m, k, r.item, r.ver)
    BY <1>2 DEF Served
  <2>. QED  BY <1>1, <2>1
<1>4. \A k \in Kinds : \A b \in poller'[conn'[m].poller].boundary[k] : Known(m, k, b[1], b[2])'
  <2>. SUFFICES ASSUME NEW k \in Kinds, NEW b \in poller[p].boundary[k]
                PROVE  Known(m, k, b[1], b[2])'
    OBVIOUS
  <2>1. Known(m, k, b[1], b[2])
    BY DEF Served
  <2>. QED  BY <1>1, <2>1
<1>5. poller'[conn'[m].poller].root => client'[conn'[m].client].root \/ conn'[m].result.root
  BY DEF Served
<1>. QED  BY <1>3, <1>4, <1>5 DEF Served

\* A tab resumes where it has read, so a poller that is not ahead of it owes it nothing.
LEMMA SubscribeG ==
    ASSUME IInv, IInv', GInv, Alone \/ Calm, NEW c \in Clients, Subscribe(c)
    PROVE  GInv'
<1>. USE DEF GInv, Marks, Reads, Holds
<1>. DEFINE t == Watches[c]
<1>1. /\ client[c].status \in {"connecting", "reconnecting"}
      /\ UNCHANGED <<table, clock>>
      /\ client'[c].status = "live" /\ Untold(client[c], client'[c])
      /\ client'[c].resume = client[c].resume /\ client'[c].reason = client[c].reason
      /\ \A x \in Clients : x # c => client'[x] = client[x]
  BY SubscribeIs
<1>2. PICK n \in Conns, p \in Pollers :
         /\ conn[n].state = "free" /\ conn'[n].state = "open"
         /\ conn'[n].client = c /\ conn'[n].poller = p /\ conn'[n].result = NoDelta
         /\ \A m \in Conns : m # n => conn'[m] = conn[m]
         /\ \A q \in Pollers : q # p => poller'[q] = poller[q]
         /\ Joins(c, n, p) \/ Starts(c, n, p)
  BY SubscribeIs
<1>3. Reading(c) /\ Unattached(c) /\ ~ CatchingUp(c)
  <2>1. NoticedAll(c)
    BY SubscribeIs
  <2>. QED  BY <1>1, <2>1 DEF NoticedAll, Unattached, Reading, CatchingUp, Alone, Calm
<1>4. Joins(c, n, p) => Calm /\ ~ Alone
  BY <1>3, AloneNeverJoins DEF Joins
<1>5. conn'[n].catchUp \in {"none", "asked"} /\ (conn'[n].catchUp = "asked" => Calm /\ ~ Alone)
  BY <1>2, <1>4 DEF Joins, Starts
<1>6. /\ NoDelta.rows = NoRows /\ NoDelta.cursor = Zero /\ NoDelta.root = FALSE
      /\ \A k \in Kinds : NoRows[k] = {} /\ Zero[k] = 0
  BY DEF NoDelta, NoRows, Zero
<1>7. \A k \in Kinds : /\ client[c].resume[k] \in Nat /\ client[c].cursor[k] \in Nat /\ clock[k] \in Nat
                       /\ client[c].resume[k] <= client[c].cursor[k]
                       /\ client[c].cursor[k] <= clock[k]
  BY Numbers DEF Clocked
<1>8. /\ \A x \in Clients : /\ client'[x].view = client[x].view /\ client'[x].cursor = client[x].cursor
                            /\ client'[x].root = client[x].root /\ client'[x].resume = client[x].resume
                            /\ client'[x].reason = client[x].reason /\ (Reading(x)' => Reading(x))
  BY <1>1, <1>3 DEF Untold, Reading
<1>9. \A q \in Pollers : SamePoller(q) \/ (q = p /\ Starts(c, n, p))
  BY <1>2 DEF Joins, SamePoller
<1>10. \A m \in Conns : m # n /\ conn[m].state # "free" =>
           /\ conn[m].poller \in Pollers /\ SamePoller(conn[m].poller)
           /\ conn[m].client \in Clients /\ conn[m].client # c
  <2>. SUFFICES ASSUME NEW m \in Conns, m # n, conn[m].state # "free"
                PROVE  /\ conn[m].poller \in Pollers /\ SamePoller(conn[m].poller)
                       /\ conn[m].client \in Clients /\ conn[m].client # c
    OBVIOUS
  <2>1. conn[m].poller \in Pollers /\ ~ poller[conn[m].poller].stopped
    BY ConnsRun DEF Runs
  <2>. QED  BY <1>3, <1>9, <2>1 DEF Starts, NoPoller, Paired, Unattached
<1>11. \A k \in Kinds : \A r \in RowsOf(k, t) : Seen(r.ms, client[c].cursor[k]) => Has(c, k, r.item, r.ver)
  BY <1>3 DEF TabHas
<1>12. Clocked'
  <2>1. \A q \in Pollers, k \in Kinds :
            /\ poller'[q].head[k] <= clock[k] /\ poller'[q].result.cursor[k] <= clock[k]
            /\ \A r \in poller'[q].result.rows[k] : r.ms <= poller'[q].result.cursor[k]
    BY <1>6, <1>7, <1>9 DEF SamePoller, Starts, Clocked
  <2>2. \A m \in Conns, k \in Kinds : conn'[m].from[k] <= clock[k] /\ conn'[m].result.cursor[k] <= clock[k]
    BY <1>2, <1>6, <1>7 DEF Joins, Starts, Clocked
  <2>. QED  BY <1>1, <1>8, <2>1, <2>2 DEF Clocked
<1>13. Stored' /\ ViewsTyped' /\ Settled'
  BY <1>1, <1>8 DEF Stored, ViewsTyped, Settled, CompleteMeansRoot
<1>14. Paired'
  <2>1. ASSUME NEW m \in Conns, m # n, conn[m].state # "free"
        PROVE  /\ poller'[conn[m].poller].trace = Watches[conn[m].client]
               /\ conn[m].state = "open" => client'[conn[m].client].status = "live"
               /\ \A y \in Conns : conn'[y].client = conn[m].client => y = m
    BY <1>1, <1>2, <1>10, <2>1 DEF Paired, SamePoller
  <2>2. poller'[p].trace = t /\ \A y \in Conns : conn'[y].client = c => y = n
    BY <1>2, <1>3 DEF Joins, Starts, SamePoller, Unattached
  <2>. QED  BY <1>1, <1>2, <1>10, <2>1, <2>2 DEF Paired
<1>15. Calmly'
  BY <1>2, <1>5 DEF Calmly
<1>16. RootsTold'
  <2>1. ~ HasRoot(NoDelta.rows["span"])
    BY <1>6 DEF HasRoot, Kinds
  <2>. QED  BY <1>2, <1>6, <1>8, <1>9, <2>1 DEF RootsTold, Has, SamePoller, Starts
<1>17. StillThere'
  <2>. SUFFICES ASSUME NEW q \in Pollers, ~ poller'[q].stopped
                PROVE  /\ \A k \in Kinds :
                              /\ \A r \in poller'[q].result.rows[k] :
                                     Kept(k, poller'[q].trace, r.item, r.ver)
                              /\ \A b \in poller'[q].boundary[k] :
                                     Kept(k, poller'[q].trace, b[1], b[2])
                       /\ poller'[q].result.rows["span"] \subseteq RowsOf("span", poller'[q].trace)
                       /\ poller'[q].root =>
                              HasRoot({r \in RowsOf("span", poller'[q].trace) :
                                          r.ms <= poller'[q].head["span"]})
    BY <1>1 DEF StillThere, Kept, RowsOf, HasRoot
  <2>1. CASE SamePoller(q)
    BY <2>1 DEF SamePoller, StillThere
  <2>2. CASE q = p /\ Starts(c, n, p)
    BY <1>6, <2>2 DEF Starts, Kinds
  <2>. QED  BY <1>9, <2>1, <2>2
<1>18. Fetched'
  <2>. SUFFICES ASSUME NEW q \in Pollers, poller'[q].phase = "polling", NEW k \in Kinds,
                       NEW r \in RowsOf(k, poller'[q].trace),
                       poller'[q].head[k] <= r.ms, Seen(r.ms, poller'[q].result.cursor[k])
                PROVE  Carries(poller'[q].result, k, r.item, r.ver)
    BY <1>1 DEF Fetched, RowsOf, Seen, Carries
  <2>1. SamePoller(q)
    BY <1>9 DEF Starts
  <2>. QED  BY <2>1 DEF SamePoller, Fetched
<1>19. TabHas'
  <2>. SUFFICES ASSUME NEW x \in Clients, Reading(x), ~ CatchingUp(x)', NEW k \in Kinds,
                       NEW r \in RowsOf(k, Watches[x]), Seen(r.ms, client[x].cursor[k])
                PROVE  Has(x, k, r.item, r.ver)
    BY <1>1, <1>8 DEF TabHas, RowsOf, Seen, Has
  <2>1. CASE x = c
    BY <1>11, <2>1
  <2>2. CASE x # c
    <3>1. ~ CatchingUp(x)
      BY <1>2, <2>2 DEF CatchingUp
    <3>. QED  BY <3>1 DEF TabHas
  <2>. QED  BY <2>1, <2>2
<1>20. OffHas'
  <2>. SUFFICES ASSUME Calm, NEW x \in Clients, Reading(x), Unattached(x)',
                       NEW q \in Pollers, ~ poller'[q].stopped, poller'[q].trace = Watches[x],
                       NEW k \in Kinds
                PROVE  /\ \A r \in poller'[q].result.rows[k] :
                              r.ms <= client[x].cursor[k] => Has(x, k, r.item, r.ver)
                       /\ poller'[q].head[k] <= client[x].cursor[k] =>
                              \A b \in poller'[q].boundary[k] : Has(x, k, b[1], b[2])
    BY <1>8 DEF OffHas, Has
  <2>1. CASE SamePoller(q)
    <3>1. Unattached(x)
      BY <1>2, SizeAssumption DEF Unattached, Paired
    <3>. QED  BY <2>1, <3>1 DEF OffHas, SamePoller
  <2>2. CASE q = p /\ Starts(c, n, p)
    BY <1>6, <2>2 DEF Starts
  <2>. QED  BY <1>9, <2>1, <2>2
<1>21. OnHas'
  <2>. SUFFICES ASSUME NEW m \in Conns, conn'[m].state = "open", conn'[m].catchUp # "asked"
                PROVE  Served(m)'
    BY DEF OnHas
  <2>1. CASE m # n
    <3>1. conn'[m] = conn[m] /\ Served(m) /\ SamePoller(conn[m].poller) /\ conn[m].client \in Clients
      BY <1>2, <1>10, <2>1 DEF OnHas
    <3>. QED  BY <1>1, <1>8, <3>1, ServedKept DEF SamePoller
  <2>2. CASE m = n
    <3>1. conn'[n].catchUp = "none" /\ conn'[n].client = c /\ conn'[n].poller = p
      BY <1>2, <1>5, <2>2
    <3>2. ASSUME NEW k \in Kinds, NEW r \in RowsOf(k, t), Due(n, k, r.ms)'
          PROVE  Has(c, k, r.item, r.ver)
      <4>1. Seen(r.ms, poller'[p].head[k]) \/ Seen(r.ms, client[c].cursor[k])
        BY <1>8, <3>1, <3>2 DEF Due, Seen
      <4>2. poller'[p].head[k] \in Nat /\ poller'[p].head[k] <= client[c].cursor[k] /\ r.ms \in Nat
        BY <1>2, <1>7, <3>1, Numbers DEF Joins, Starts, SamePoller, RowsOf
      <4>. QED  BY <1>7, <1>11, <4>1, <4>2, SeenLater
    <3>3. ASSUME NEW k \in Kinds, NEW b \in poller'[p].boundary[k]
          PROVE  Has(c, k, b[1], b[2])
      <4>1. CASE Starts(c, n, p)
        BY <1>6, <3>3, <4>1 DEF Starts
      <4>2. CASE Joins(c, n, p)
        <5>1. poller[p].head[k] <= client[c].cursor[k] /\ b \in poller[p].boundary[k]
          BY <1>7, <3>1, <3>3, <4>2, Numbers DEF Joins, SamePoller
        <5>. QED  BY <1>3, <1>4, <4>2, <5>1 DEF OffHas, Joins
      <4>. QED  BY <1>2, <4>1, <4>2
    <3>4. ASSUME poller'[p].root PROVE client[c].root
      <4>1. Joins(c, n, p)
        BY <1>2, <3>4 DEF Starts
      <4>2. poller[p].root /\ poller[p].trace = t /\ ~ poller[p].stopped
        BY <3>4, <4>1 DEF Joins, SamePoller
      <4>3. PICK r \in RowsOf("span", t) : r.ms <= poller[p].head["span"] /\ r.item \in Roots
        BY <4>2 DEF StillThere, HasRoot
      <4>4. "span" \in Kinds /\ ~ SharedMs
        BY <1>4, <4>1 DEF Calm, Kinds
      <4>5. r.ms \in Nat /\ r.item \in Items["span"] /\ r.ver = 1
        BY <4>4, Numbers, ShapeAssumption DEF RowsOf, Row
      <4>6. Seen(r.ms, client[c].cursor["span"])
        BY <1>7, <3>1, <4>1, <4>3, <4>4, <4>5, Numbers DEF Joins, Seen
      <4>. QED  BY <1>11, <4>3, <4>4, <4>5, <4>6 DEF RootsTold
    <3>5. \A k \in Kinds : \A i, v : Has(c, k, i, v) => Known(n, k, i, v)'
      BY <1>8, <3>1 DEF Known, Has
    <3>6. \A k \in Kinds : \A r \in RowsOf(k, t)' : Due(n, k, r.ms)' => Known(n, k, r.item, r.ver)'
      <4>. SUFFICES ASSUME NEW k \in Kinds, NEW r \in RowsOf(k, t), Due(n, k, r.ms)'
                    PROVE  Known(n, k, r.item, r.ver)'
        BY <1>1 DEF RowsOf
      <4>. QED  BY <3>2, <3>5
    <3>7. \A k \in Kinds : \A b \in poller'[p].boundary[k] : Known(n, k, b[1], b[2])'
      BY <3>3, <3>5
    <3>8. poller'[p].root => client'[c].root
      BY <1>8, <3>4
    <3>. QED  BY <2>2, <3>1, <3>6, <3>7, <3>8 DEF Served, RowsOf
  <2>. QED  BY <2>1, <2>2
<1>22. AskedHas'
  <2>. SUFFICES ASSUME NEW m \in Conns, conn'[m].catchUp = "asked", NEW k \in Kinds,
                       NEW r \in RowsOf(k, Watches[conn'[m].client]), r.ms <= conn'[m].from[k]
                PROVE  client'[conn'[m].client].view[k][r.item] >= r.ver
    BY <1>1 DEF AskedHas, Has, RowsOf
  <2>1. CASE m # n
    <3>1. conn'[m] = conn[m] /\ conn[m].client \in Clients
      BY <1>2, <1>10, <2>1, PollerOf
    <3>. QED  BY <1>8, <3>1 DEF AskedHas, Has
  <2>2. CASE m = n
    <3>1. conn'[n].from = client[c].resume /\ conn'[n].client = c /\ ~ SharedMs
      BY <1>2, <1>5, <2>2 DEF Joins, Starts, Calm
    <3>2. r.ms \in Nat /\ r.ms <= client[c].cursor[k]
      BY <1>7, <2>2, <3>1, Numbers DEF RowsOf
    <3>3. Seen(r.ms, client[c].cursor[k])
      BY <1>7, <3>1, <3>2 DEF Seen
    <3>. QED  BY <1>8, <1>11, <2>2, <3>1, <3>3 DEF Has
  <2>. QED  BY <2>1, <2>2
<1>. QED  BY <1>12, <1>13, <1>14, <1>15, <1>16, <1>17, <1>18, <1>19, <1>20, <1>21, <1>22

--------------------------------------------------------------------------------
(***************************************************************************)
(* Polls.                                                                  *)
(***************************************************************************)
LEMMA TickReadG == ASSUME IInv, IInv', GInv, NEW p \in Pollers, TickRead(p) PROVE GInv'
<1>. USE DEF GInv, Marks, Reads, Holds
<1>1. PICK d \in FetchDeltas(poller[p].trace, poller[p].head) :
          poller' = [poller EXCEPT ![p].phase = "polling", ![p].result = d]
  BY DEF TickRead
<1>2. UNCHANGED <<table, clock, registry, count, conn, client, faults>>
  BY DEF TickRead
<1>3. /\ poller \in [Pollers -> PollerRecs] /\ Typed /\ poller[p].head \in Cursors
      /\ ~ poller[p].stopped
  BY SubsOf DEF IInv, Typed, PollerRecs, TickRead
<1>. DEFINE t == poller[p].trace
<1>4. /\ poller'[p].trace = t /\ poller'[p].stopped = poller[p].stopped
      /\ poller'[p].head = poller[p].head /\ poller'[p].boundary = poller[p].boundary
      /\ poller'[p].root = poller[p].root /\ poller'[p].result = d
      /\ \A x \in Pollers : x # p => poller'[x] = poller[x]
  BY <1>1, <1>3 DEF PollerRecs
<1>5. /\ \A k \in Kinds :
             /\ d.rows[k] \subseteq RowsOf(k, t)
             /\ \A r \in d.rows[k] : r.ms <= d.cursor[k]
             /\ d.cursor[k] = poller[p].head[k] \/ \E r \in d.rows[k] : r.ms = d.cursor[k]
             /\ \A r \in RowsOf(k, t) :
                    poller[p].head[k] <= r.ms /\ (Calm \/ Seen(r.ms, d.cursor[k]))
                        => Carries(d, k, r.item, r.ver)
      /\ d.root <=> HasRoot(d.rows["span"])
  BY <1>3, ReadIs
<1>6. Clocked'
  <2>1. \A k \in Kinds : d.cursor[k] <= clock[k]
    BY <1>5 DEF Clocked, RowsOf
  <2>. QED  BY <1>2, <1>4, <1>5, <2>1 DEF Clocked
<1>7. Stored' /\ ViewsTyped' /\ Calmly' /\ Settled'
  BY <1>2 DEF Stored, ViewsTyped, Calmly, Settled, CompleteMeansRoot
<1>8. Paired'
  BY <1>2, <1>4, ConnsRun DEF Paired, Runs
<1>9. RootsTold'
  BY <1>2, <1>4, <1>5 DEF RootsTold, Has
<1>10. StillThere'
  <2>. SUFFICES ASSUME NEW q \in Pollers, ~ poller'[q].stopped
                PROVE  /\ \A k \in Kinds :
                              /\ \A r \in poller'[q].result.rows[k] :
                                     Kept(k, poller[q].trace, r.item, r.ver)
                              /\ \A b \in poller[q].boundary[k] :
                                     Kept(k, poller[q].trace, b[1], b[2])
                       /\ poller'[q].result.rows["span"] \subseteq RowsOf("span", poller[q].trace)
                       /\ poller[q].root =>
                              HasRoot({r \in RowsOf("span", poller[q].trace) :
                                          r.ms <= poller[q].head["span"]})
    BY <1>2, <1>4 DEF StillThere, Kept, RowsOf, HasRoot
  <2>1. CASE q = p
    BY <1>3, <1>4, <1>5, <2>1 DEF StillThere, Kept, Kinds
  <2>2. CASE q # p
    BY <1>4, <2>2 DEF StillThere
  <2>. QED  BY <2>1, <2>2
<1>11. Fetched'
  <2>. SUFFICES ASSUME NEW q \in Pollers, poller'[q].phase = "polling", NEW k \in Kinds,
                       NEW r \in RowsOf(k, poller[q].trace),
                       poller[q].head[k] <= r.ms, Seen(r.ms, poller'[q].result.cursor[k])
                PROVE  Carries(poller'[q].result, k, r.item, r.ver)
    BY <1>2, <1>4 DEF Fetched, RowsOf, Seen, Carries
  <2>1. CASE q = p
    BY <1>4, <1>5, <2>1
  <2>2. CASE q # p
    BY <1>4, <2>2 DEF Fetched
  <2>. QED  BY <2>1, <2>2
<1>12. TabHas' /\ AskedHas'
  BY <1>2 DEF TabHas, AskedHas, Has, RowsOf, Reading, CatchingUp, Seen
<1>13. OffHas'
  <2>. SUFFICES ASSUME Calm, NEW x \in Clients, Reading(x), Unattached(x),
                       NEW q \in Pollers, ~ poller'[q].stopped, poller[q].trace = Watches[x],
                       NEW k \in Kinds
                PROVE  /\ \A r \in poller'[q].result.rows[k] :
                              r.ms <= client[x].cursor[k] => Has(x, k, r.item, r.ver)
                       /\ poller[q].head[k] <= client[x].cursor[k] =>
                              \A b \in poller[q].boundary[k] : Has(x, k, b[1], b[2])
    BY <1>2, <1>4 DEF OffHas, Has, Reading, Unattached
  <2>1. CASE q = p
    <3>1. ASSUME NEW r \in d.rows[k], r.ms <= client[x].cursor[k] PROVE Has(x, k, r.item, r.ver)
      <4>1. r \in RowsOf(k, Watches[x]) /\ r.ms \in Nat /\ client[x].cursor[k] \in Nat
        BY <1>5, <2>1, Numbers DEF RowsOf
      <4>2. Seen(r.ms, client[x].cursor[k])
        BY <3>1, <4>1 DEF Seen, Calm
      <4>3. ~ CatchingUp(x)
        BY DEF CatchingUp, Unattached
      <4>. QED  BY <4>1, <4>2, <4>3 DEF TabHas
    <3>. QED  BY <1>3, <1>4, <2>1, <3>1 DEF OffHas
  <2>2. CASE q # p
    BY <1>4, <2>2 DEF OffHas
  <2>. QED  BY <2>1, <2>2
<1>14. OnHas'
  <2>. SUFFICES ASSUME NEW n \in Conns, conn[n].state = "open", conn[n].catchUp # "asked"
                PROVE  Served(n)'
    BY <1>2 DEF OnHas
  <2>1. conn[n].poller \in Pollers /\ Served(n)
    BY ConnsRun DEF Runs, OnHas
  <2>. QED  BY <1>2, <1>4, <2>1, ServedKept
<1>. QED  BY <1>6, <1>7, <1>8, <1>9, <1>10, <1>11, <1>12, <1>13, <1>14

--------------------------------------------------------------------------------
(***************************************************************************)
(* Catch-ups.                                                              *)
(***************************************************************************)

\* A catch-up's read finds whatever its tab had not when it asked.
LEMMA CatchUpReadG == ASSUME IInv, IInv', GInv, NEW n \in Conns, CatchUpRead(n) PROVE GInv'
<1>. USE DEF GInv, Marks, Reads, Holds
<1>1. PICK d \in FetchDeltas(poller[conn[n].poller].trace, conn[n].from) :
          conn' = [conn EXCEPT ![n].catchUp = "read", ![n].from = Zero, ![n].result = d]
  BY DEF CatchUpRead
<1>. DEFINE c == conn[n].client
            p == conn[n].poller
            t == poller[p].trace
<1>2. UNCHANGED <<table, clock, poller, registry, count, client, faults>> /\ conn[n].catchUp = "asked"
  BY DEF CatchUpRead
<1>3. /\ conn \in [Conns -> ConnRecs] /\ Typed /\ conn[n].from \in Cursors
      /\ Calm /\ conn[n].state = "open"
  BY <1>2, PollerOf DEF IInv, Typed, ConnRecs, Calmly
<1>4. p \in Pollers /\ ~ poller[p].stopped /\ c \in Clients /\ t = Watches[c]
  BY <1>3, ConnsRun DEF Runs, Paired
<1>5. /\ conn'[n].client = c /\ conn'[n].poller = p /\ conn'[n].state = "open"
      /\ conn'[n].catchUp = "read" /\ conn'[n].from = Zero /\ conn'[n].result = d
      /\ \A m \in Conns : m # n => conn'[m] = conn[m]
  BY <1>1, <1>3 DEF ConnRecs
<1>6. /\ \A k \in Kinds :
             /\ d.rows[k] \subseteq RowsOf(k, t)
             /\ d.cursor[k] = conn[n].from[k] \/ \E r \in d.rows[k] : r.ms = d.cursor[k]
             /\ \A r \in RowsOf(k, t) :
                    conn[n].from[k] <= r.ms /\ (Calm \/ Seen(r.ms, d.cursor[k]))
                        => Carries(d, k, r.item, r.ver)
      /\ d.root <=> HasRoot(d.rows["span"])
  BY <1>3, ReadIs
<1>7. Clocked'
  <2>1. \A k \in Kinds : d.cursor[k] <= clock[k] /\ Zero[k] <= clock[k]
    BY <1>6, Numbers DEF Clocked, RowsOf
  <2>. QED  BY <1>2, <1>5, <2>1 DEF Clocked
<1>8. Stored' /\ ViewsTyped' /\ Settled' /\ StillThere' /\ Fetched'
  BY <1>2 DEF Stored, ViewsTyped, Settled, CompleteMeansRoot, StillThere, Fetched, Kept, RowsOf,
              HasRoot, Carries, Seen
<1>9. Paired' /\ Calmly'
  BY <1>2, <1>3, <1>5 DEF Paired, Calmly
<1>10. RootsTold'
  BY <1>2, <1>5, <1>6 DEF RootsTold, Has
<1>11. TabHas'
  <2>1. \A x : CatchingUp(x)' <=> CatchingUp(x)
    BY <1>2, <1>3, <1>5 DEF CatchingUp
  <2>. QED  BY <1>2, <2>1 DEF TabHas, Has, RowsOf, Reading, Seen
<1>12. OffHas'
  <2>1. \A x : Unattached(x)' => Unattached(x)
    BY <1>5 DEF Unattached
  <2>. QED  BY <1>2, <2>1 DEF OffHas, Has, Reading
<1>13. AskedHas'
  BY <1>2, <1>5 DEF AskedHas, Has, RowsOf
<1>14. \A k \in Kinds : \A r \in RowsOf(k, t) : Known(n, k, r.item, r.ver)'
  <2>. SUFFICES ASSUME NEW k \in Kinds, NEW r \in RowsOf(k, t) PROVE Known(n, k, r.item, r.ver)'
    OBVIOUS
  <2>1. r.ms \in Nat /\ conn[n].from[k] \in Nat
    BY Numbers DEF RowsOf
  <2>2. CASE r.ms <= conn[n].from[k]
    BY <1>2, <1>4, <1>5, <2>2 DEF AskedHas, Known, Has
  <2>3. CASE conn[n].from[k] <= r.ms
    BY <1>3, <1>5, <1>6, <2>3 DEF Known, Carries
  <2>. QED  BY <2>1, <2>2, <2>3
<1>15. Served(n)'
  <2>1. \A k \in Kinds : \A r \in RowsOf(k, Watches[c])' : Due(n, k, r.ms)' => Known(n, k, r.item, r.ver)'
    BY <1>2, <1>4, <1>5, <1>14 DEF RowsOf
  <2>2. \A k \in Kinds : \A b \in poller'[p].boundary[k] : Known(n, k, b[1], b[2])'
    BY <1>2, <1>4, <1>14 DEF StillThere, Kept
  <2>3. poller'[p].root => client'[c].root \/ conn'[n].result.root
    <3>. SUFFICES ASSUME poller[p].root PROVE client[c].root \/ d.root
      BY <1>2, <1>5
    <3>1. PICK r \in RowsOf("span", t) : r.item \in Roots
      BY <1>4 DEF StillThere, HasRoot
    <3>2. "span" \in Kinds /\ r.item \in Items["span"] /\ r.ver = 1
      BY Numbers, ShapeAssumption DEF RowsOf, Row, Kinds
    <3>3. Has(c, "span", r.item, 1) \/ Carries(d, "span", r.item, 1)
      BY <1>2, <1>5, <1>14, <3>2 DEF Known, Has, Carries
    <3>. QED  BY <1>4, <1>6, <3>1, <3>2, <3>3 DEF RootsTold, Carries, HasRoot
  <2>. QED  BY <1>5, <2>1, <2>2, <2>3 DEF Served, RowsOf
<1>16. OnHas'
  <2>. SUFFICES ASSUME NEW m \in Conns, conn'[m].state = "open", conn'[m].catchUp # "asked", m # n
                PROVE  Served(m)'
    BY <1>15 DEF OnHas
  <2>1. conn'[m] = conn[m] /\ Served(m)
    BY <1>5 DEF OnHas
  <2>. QED  BY <1>2, <2>1, ServedKept
<1>. QED  BY <1>7, <1>8, <1>9, <1>10, <1>11, <1>12, <1>13, <1>16

\* Tab c knows what it knew and what d carries, and has read as far as it had or d has.
Learns(c, d) ==
    /\ client'[c].root \in BOOLEAN /\ (client[c].root \/ d.root => client'[c].root)
    /\ \A k \in Kinds :
           /\ client'[c].resume[k] <= client'[c].cursor[k]
           /\ client'[c].cursor[k] = client[c].cursor[k] \/ client'[c].cursor[k] = d.cursor[k]
           /\ client[c].cursor[k] <= client'[c].cursor[k]
           /\ \A i \in Items[k] :
                  /\ client'[c].view[k][i] \in 0 .. MaxVer[k]
                  /\ \A v \in Nat : Has(c, k, i, v) \/ Carries(d, k, i, v) => Has(c, k, i, v)'
                  /\ \A v \in Nat : Has(c, k, i, v)' => Has(c, k, i, v) \/ Carries(d, k, i, v)

LEMMA ToldLearns ==
    ASSUME IInv, GInv, NEW c \in Clients, NEW d, IsPage(d), Told(client[c], client'[c], d)
    PROVE  Learns(c, d)
BY ToldHas DEF Learns, GInv, Marks

LEMMA NothingLearnt ==
    ASSUME IInv, GInv, NEW c \in Clients, NEW d, ~ d.root, \A k \in Kinds : d.rows[k] = {},
           client'[c] = client[c]
    PROVE  Learns(c, d)
<1>1. client[c].root \in BOOLEAN
  BY DEF GInv, Marks, ViewsTyped
<1>2. \A k \in Kinds : client[c].resume[k] <= client[c].cursor[k] /\ client[c].cursor[k] \in Nat
  BY Numbers DEF GInv, Marks, Clocked
<1>3. \A k \in Kinds : \A i \in Items[k] : client[c].view[k][i] \in 0 .. MaxVer[k]
  BY DEF GInv, Marks, ViewsTyped
<1>4. \A k \in Kinds : \A i, v : ~ Carries(d, k, i, v) /\ (Has(c, k, i, v)' <=> Has(c, k, i, v))
  BY DEF Carries, Has
<1>. QED  BY <1>1, <1>2, <1>3, <1>4 DEF Learns

\* What a catch-up carries is its tab's once it is delivered.
LEMMA CatchUpDoneG == ASSUME IInv, IInv', GInv, NEW n \in Conns, CatchUpDone(n) PROVE GInv'
<1>. USE DEF GInv, Marks, Reads, Holds
<1>. DEFINE c == conn[n].client
            p == conn[n].poller
            d == conn[n].result
            done == [conn EXCEPT ![n].catchUp = "none", ![n].result = NoDelta]
<1>1. conn[n].catchUp = "read" /\ UNCHANGED <<table, clock>>
  BY DEF CatchUpDone
<1>2. /\ Calm /\ ~ Alone /\ conn[n].state = "open"
      /\ conn \in [Conns -> ConnRecs]
  BY <1>1, PollerOf DEF IInv, Typed, ConnRecs, Calmly
<1>3. p \in Pollers /\ ~ poller[p].stopped /\ c \in Clients /\ poller[p].trace = Watches[c]
  BY <1>2, ConnsRun DEF Runs, Paired
<1>4. IsPage(d)
  BY <1>2 DEF ConnRecs, Deltas, IsPage, Cursors
<1>5. /\ poller' = poller
      /\ \/ ~ HasData(d) /\ conn' = done /\ client' = client
         \/ client' = Deliver({n}, d) /\ conn' = [done EXCEPT ![n].strikes = 0]
  <2>1. SlowOnes({n}) = {{}} /\ Overrun({}) = {}
    BY <1>2 DEF Calm, SlowOnes, Overrun
  <2>. HIDE DEF d, done
  <2>. QED  BY <2>1 DEF CatchUpDone, d, done
<1>6. /\ conn'[n].state = "open" /\ conn'[n].client = c /\ conn'[n].poller = p
      /\ conn'[n].from = conn[n].from /\ conn'[n].catchUp = "none" /\ conn'[n].result = NoDelta
      /\ \A m \in Conns : m # n => conn'[m] = conn[m]
  BY <1>2, <1>5 DEF ConnRecs
<1>7. \A m \in Conns : m # n => conn[m].client # c
  BY <1>2 DEF Paired
<1>8. /\ Learns(c, d) /\ client'[c].status = client[c].status /\ client'[c].reason = client[c].reason
      /\ \A x \in Clients : x # c => client'[x] = client[x]
  <2>1. CASE ~ HasData(d) /\ client' = client
    <3>1. \A k \in Kinds : d.rows[k] = {}
      BY <2>1 DEF HasData, NoRows
    <3>2. ~ d.root
      BY <3>1 DEF RootsTold, HasRoot, Kinds
    <3>. QED  BY <1>3, <2>1, <3>1, <3>2, NothingLearnt
  <2>2. CASE client' = Deliver({n}, d)
    <3>1. ClientsOf(Reached({n})) = {c}
      BY <1>2 DEF ClientsOf, Reached
    <3>2. /\ client'[c] = ApplyDelta(client[c], d)
          /\ \A x \in Clients : x # c => client'[x] = client[x]
      BY <1>3, <2>2, <3>1 DEF Deliver
    <3>3. TabOK(client[c])
      BY <1>3 DEF IInv, Typed, TabsOK
    <3>4. /\ Told(client[c], client'[c], d) /\ client'[c].status = client[c].status
          /\ client'[c].reason = client[c].reason
      BY <3>2, <3>3 DEF TabOK, ApplyDelta, Told
    <3>. QED  BY <1>3, <1>4, <3>2, <3>4, ToldLearns
  <2>. QED  BY <1>5, <2>1, <2>2
<1>. HIDE DEF done
<1>9. /\ NoDelta.rows = NoRows /\ NoDelta.cursor = Zero /\ NoDelta.root = FALSE
      /\ \A k \in Kinds : NoRows[k] = {} /\ Zero[k] = 0
  BY DEF NoDelta, NoRows, Zero
<1>10. Clocked'
  <2>1. \A k \in Kinds : client'[c].resume[k] <= client'[c].cursor[k] /\ client'[c].cursor[k] <= clock[k]
    BY <1>3, <1>8 DEF Learns, Clocked
  <2>2. \A m \in Conns, k \in Kinds : conn'[m].from[k] <= clock[k] /\ conn'[m].result.cursor[k] <= clock[k]
    BY <1>6, <1>9, Numbers DEF Clocked
  <2>. QED  BY <1>1, <1>5, <1>8, <2>1, <2>2 DEF Clocked
<1>11. Stored' /\ StillThere' /\ Fetched'
  BY <1>1, <1>5 DEF Stored, StillThere, Fetched, Kept, RowsOf, HasRoot, Carries, Seen
<1>12. ViewsTyped'
  BY <1>8 DEF ViewsTyped, Learns
<1>13. Paired' /\ Calmly' /\ Settled'
  BY <1>2, <1>5, <1>6, <1>7, <1>8 DEF Paired, Calmly, Settled
<1>14. RootsTold'
  <2>1. ASSUME NEW i \in Items["span"] \cap Roots, Has(c, "span", i, 1)' PROVE client'[c].root
    <3>1. Has(c, "span", i, 1) \/ Carries(d, "span", i, 1)
      BY <1>8, <2>1 DEF Learns, Kinds
    <3>2. Carries(d, "span", i, 1) => d.root
      BY DEF Carries, RootsTold, HasRoot
    <3>. QED  BY <1>3, <1>8, <3>1, <3>2 DEF RootsTold, Learns
  <2>2. ~ HasRoot(NoDelta.rows["span"])
    BY <1>9 DEF HasRoot, Kinds
  <2>. QED  BY <1>5, <1>6, <1>8, <1>9, <2>1, <2>2 DEF RootsTold, Has
<1>15. \A k \in Kinds : \A i \in Items[k] : \A v \in Nat : Known(n, k, i, v) => Has(c, k, i, v)'
  BY <1>8 DEF Learns, Known
<1>16. Served(n) /\ \A k \in Kinds : \A r \in RowsOf(k, Watches[c]) : r.item \in Items[k] /\ r.ver \in Nat
  BY <1>1, <1>2, Numbers DEF OnHas, RowsOf
<1>17. \A k \in Kinds : \A r \in RowsOf(k, Watches[c]) :
           Seen(r.ms, client'[c].cursor[k]) \/ Seen(r.ms, poller[p].head[k])
               => Has(c, k, r.item, r.ver)'
  <2>. SUFFICES ASSUME NEW k \in Kinds, NEW r \in RowsOf(k, Watches[c]),
                       Seen(r.ms, client'[c].cursor[k]) \/ Seen(r.ms, poller[p].head[k])
                PROVE  Has(c, k, r.item, r.ver)'
    OBVIOUS
  <2>1. Due(n, k, r.ms)
    BY <1>1, <1>8 DEF Due, Learns
  <2>. QED  BY <1>15, <1>16, <2>1 DEF Served
<1>18. TabHas'
  <2>. SUFFICES ASSUME NEW x \in Clients, Reading(x)', ~ CatchingUp(x)', NEW k \in Kinds,
                       NEW r \in RowsOf(k, Watches[x]), Seen(r.ms, client'[x].cursor[k])
                PROVE  Has(x, k, r.item, r.ver)'
    BY <1>1 DEF TabHas, RowsOf, Seen
  <2>1. CASE x = c
    BY <1>6, <1>17, <2>1 DEF Has
  <2>2. CASE x # c
    <3>1. ~ CatchingUp(x)
      BY <1>6, <2>2 DEF CatchingUp
    <3>. QED  BY <1>8, <2>2, <3>1 DEF TabHas, Has, Reading
  <2>. QED  BY <2>1, <2>2
<1>19. OffHas'
  <2>1. \A x : Unattached(x)' => Unattached(x) /\ x # c
    BY <1>6 DEF Unattached
  <2>. QED  BY <1>5, <1>8, <2>1 DEF OffHas, Has, Reading
<1>20. Served(n)'
  <2>1. \A k \in Kinds : \A i, v : Has(c, k, i, v)' => Known(n, k, i, v)'
    BY <1>6 DEF Known, Has
  <2>2. \A k \in Kinds : \A r \in RowsOf(k, Watches[c]) : Due(n, k, r.ms)' => Known(n, k, r.item, r.ver)'
    <3>. SUFFICES ASSUME NEW k \in Kinds, NEW r \in RowsOf(k, Watches[c]), Due(n, k, r.ms)'
                  PROVE  Known(n, k, r.item, r.ver)'
      OBVIOUS
    <3>1. Seen(r.ms, client'[c].cursor[k]) \/ Seen(r.ms, poller[p].head[k])
      BY <1>5, <1>6 DEF Due, Seen
    <3>. QED  BY <1>17, <2>1, <3>1
  <2>3. \A k \in Kinds : \A b \in poller[p].boundary[k] : Known(n, k, b[1], b[2])'
    <3>. SUFFICES ASSUME NEW k \in Kinds, NEW b \in poller[p].boundary[k]
                  PROVE  Known(n, k, b[1], b[2])'
      OBVIOUS
    <3>1. Known(n, k, b[1], b[2])
      BY <1>16 DEF Served
    <3>2. b[1] \in Items[k] /\ b[2] \in Nat
      <4>1. Kept(k, Watches[c], b[1], b[2])
        BY <1>3 DEF StillThere
      <4>. QED  BY <1>16, <4>1 DEF Kept
    <3>. QED  BY <1>15, <2>1, <3>1, <3>2
  <2>4. poller[p].root => client'[c].root
    BY <1>8, <1>16 DEF Served, Learns
  <2>. QED  BY <1>1, <1>5, <1>6, <2>2, <2>3, <2>4 DEF Served, RowsOf
<1>21. OnHas'
  <2>. SUFFICES ASSUME NEW m \in Conns, conn'[m].state = "open", conn'[m].catchUp # "asked", m # n
                PROVE  Served(m)'
    BY <1>20 DEF OnHas
  <2>1. conn'[m] = conn[m] /\ Served(m) /\ conn[m].client \in Clients
    BY <1>6 DEF OnHas, Paired
  <2>. QED  BY <1>1, <1>5, <1>7, <1>8, <2>1, ServedKept
<1>22. AskedHas'
  <2>. SUFFICES ASSUME NEW m \in Conns, conn'[m].catchUp = "asked", NEW k \in Kinds,
                       NEW r \in RowsOf(k, Watches[conn'[m].client]), r.ms <= conn'[m].from[k]
                PROVE  client'[conn'[m].client].view[k][r.item] >= r.ver
    BY <1>1 DEF AskedHas, Has, RowsOf
  <2>1. conn'[m] = conn[m] /\ conn[m].client \in Clients /\ conn[m].client # c
    BY <1>6, <1>7, PollerOf DEF Paired
  <2>. QED  BY <1>8, <2>1 DEF AskedHas, Has
<1>. QED  BY <1>10, <1>11, <1>12, <1>13, <1>14, <1>18, <1>19, <1>21, <1>22

--------------------------------------------------------------------------------
(***************************************************************************)
(* The end of a poll.                                                      *)
(***************************************************************************)
Delta(p) == [poller[p].result EXCEPT !.rows = Trimmed(poller[p])]
Fresh(p) == HasData(Delta(p))

LEMMA DeltaIs ==
    ASSUME IInv, NEW p \in Pollers
    PROVE  /\ Delta(p).rows = Trimmed(poller[p]) /\ Delta(p).cursor = poller[p].result.cursor
           /\ Delta(p).root = poller[p].result.root
           /\ IsPage(Delta(p)) /\ Delta(p).cursor \in Cursors
           /\ \A k \in Kinds : Delta(p).rows[k] \subseteq poller[p].result.rows[k]
           /\ Fresh(p) <=> \E k \in Kinds : Delta(p).rows[k] # {}
<1>1. poller[p].result \in Deltas
  BY DEF IInv, Typed, PollerRecs
<1>2. /\ Delta(p).rows = Trimmed(poller[p]) /\ Delta(p).cursor = poller[p].result.cursor
      /\ Delta(p).root = poller[p].result.root
  BY <1>1 DEF Delta, Deltas
<1>3. \A k \in Kinds : Delta(p).rows[k] \subseteq poller[p].result.rows[k]
  BY <1>2 DEF Trimmed
<1>4. IsPage(Delta(p)) /\ Delta(p).cursor \in Cursors
  BY <1>1, <1>2, <1>3 DEF IsPage, Deltas, Cursors
<1>5. Fresh(p) <=> \E k \in Kinds : Delta(p).rows[k] # {}
  <2>1. Delta(p).rows = [k \in Kinds |-> Delta(p).rows[k]]
    BY <1>2 DEF Trimmed
  <2>. QED  BY <2>1 DEF Fresh, HasData, NoRows
<1>. QED  BY <1>2, <1>3, <1>4, <1>5

\* Tab c gets what is new in the poll of p, if anything is.
Updated(c, p) ==
    \/ Fresh(p) /\ Learns(c, Delta(p))
    \/ ~ Fresh(p) /\ Untold(client[c], client'[c]) /\ client'[c].resume = client[c].resume

\* An attached connection is dropped as too slow, stays, or is told of the end.
Dropped(n, c) ==
    /\ conn'[n] = FreeConn /\ ~ Calm
    /\ Untold(client[c], client'[c]) /\ client'[c].resume = client[c].resume
    /\ client'[c].status = "reconnecting" /\ client'[c].reason = client[c].reason

Stayed(n, c, p) ==
    /\ SameConn(n) /\ conn'[n].state = conn[n].state /\ Updated(c, p)
    /\ client'[c].status = client[c].status /\ client'[c].reason = client[c].reason

ToldEnd(n, c, p) ==
    /\ conn'[n] = FreeConn /\ Updated(c, p)
    /\ client'[c].status = "ended"
    /\ client'[c].reason = "complete" => poller[p].root \/ poller[p].result.root

PollDone(p) ==
    /\ \A x \in Pollers : x # p => poller'[x] = poller[x]
    /\ poller'[p].result = NoDelta /\ poller'[p].phase # "polling"
    /\ poller'[p].head \in {poller[p].result.cursor, Zero}
    /\ ~ poller'[p].stopped =>
           /\ ~ poller[p].stopped /\ poller'[p].trace = poller[p].trace
           /\ poller'[p].head = poller[p].result.cursor
           /\ poller'[p].boundary = NextBoundary(poller[p])
           /\ poller'[p].root = (poller[p].root \/ poller[p].result.root)

LEMMA OneConn ==
    ASSUME GInv, NEW n \in Conns, conn[n].state = "open", NEW S \in SUBSET Conns
    PROVE  conn[n].client \in ClientsOf(Reached(S)) <=> n \in S
BY DEF ClientsOf, Reached, GInv, Marks, Paired

\* What becomes of the poller.
LEMMA TickDonePoller == ASSUME IInv, NEW p \in Pollers, TickDone(p) PROVE PollDone(p)
<1>. DEFINE q     == poller[p]
            delta == Delta(p)
            root  == q.root \/ delta.root
            quiet == IF Fresh(p) THEN 0 ELSE q.quiet
            read  == [q EXCEPT !.phase = "idle", !.result = NoDelta, !.errors = 0,
                               !.head = delta.cursor, !.boundary = NextBoundary(q),
                               !.root = root, !.quiet = quiet]
<1>1. PICK gone, cl, cn : Conclude(p, Detached(read, gone), cl, cn)
  BY DEF TickDone, Delta, Fresh
<1>2. q \in PollerRecs /\ poller \in [Pollers -> PollerRecs]
  BY DEF IInv, Typed
<1>3. delta.cursor = q.result.cursor /\ delta.root = q.result.root
  BY DeltaIs
<1>. HIDE DEF delta, quiet
<1>4. /\ read.trace = q.trace /\ read.stopped = q.stopped /\ read.head = delta.cursor
      /\ read.boundary = NextBoundary(q) /\ read.root = root /\ read.result = NoDelta
      /\ read.phase = "idle" /\ DOMAIN read = DOMAIN NoPoller
  BY <1>2 DEF PollerRecs, NoPoller
<1>. HIDE DEF read, root
<1>. DEFINE r == Detached(read, gone)
            out == Detached(r, r.subs)
            t == IF Verdict(r) = "again" THEN [r EXCEPT !.phase = "timer"] ELSE r
<1>5. /\ r.trace = q.trace /\ (~ r.stopped => ~ q.stopped) /\ r.head = delta.cursor
      /\ r.boundary = NextBoundary(q) /\ r.root = root /\ r.result = NoDelta
      /\ r.phase = "idle" /\ DOMAIN r = DOMAIN NoPoller
  BY <1>4 DEF Detached, NoPoller
<1>. HIDE DEF r
<1>6. /\ out.trace = q.trace /\ (~ out.stopped => ~ q.stopped) /\ out.head = delta.cursor
      /\ out.boundary = NextBoundary(q) /\ out.root = root /\ out.result = NoDelta
      /\ out.phase = "idle"
  BY <1>5 DEF Detached, NoPoller
<1>7. /\ t.trace = q.trace /\ (~ t.stopped => ~ q.stopped) /\ t.head = delta.cursor
      /\ t.boundary = NextBoundary(q) /\ t.root = root /\ t.result = NoDelta
      /\ t.phase # "polling"
  <2>. DEFINE v == Verdict(r)
  <2>. HIDE DEF v
  <2>. QED  BY <1>5 DEF NoPoller, v
<1>8. SetPoller(p, out) \/ SetPoller(p, t)
  BY <1>1 DEF Conclude, r
<1>. HIDE DEF out, t
<1>9. PICK z \in {out, t} : poller'[p] = Collected(z) /\ \A x \in Pollers : x # p => poller'[x] = poller[x]
  BY <1>2, <1>8 DEF SetPoller
<1>10. /\ NoPoller.result = NoDelta /\ NoPoller.phase = "idle" /\ NoPoller.head = Zero
       /\ NoPoller.stopped
  BY DEF NoPoller
<1>. QED  BY <1>3, <1>6, <1>7, <1>9, <1>10 DEF Collected, PollDone, root

\* What becomes of the tabs and their connections.
LEMMA TickDoneTabs ==
    ASSUME IInv, GInv, NEW p \in Pollers, TickDone(p)
    PROVE  /\ \A n \in Conns : n \notin poller[p].subs => conn'[n] = conn[n]
           /\ \A n \in poller[p].subs :
                  conn'[n] = FreeConn \/ (SameConn(n) /\ conn'[n].state = conn[n].state)
           /\ \A c \in Clients :
                  (\A n \in poller[p].subs : conn[n].state = "open" => conn[n].client # c)
                      => client'[c] = client[c]
           /\ \A n \in poller[p].subs : conn[n].state = "open" =>
                  LET c == conn[n].client IN Dropped(n, c) \/ Stayed(n, c, p) \/ ToldEnd(n, c, p)
<1>. DEFINE q     == poller[p]
            delta == Delta(p)
            root  == q.root \/ delta.root
            quiet == IF Fresh(p) THEN 0 ELSE q.quiet
            read  == [q EXCEPT !.phase = "idle", !.result = NoDelta, !.errors = 0,
                               !.head = delta.cursor, !.boundary = NextBoundary(q),
                               !.root = root, !.quiet = quiet]
<1>1. PICK slow \in IF Fresh(p) THEN SlowOnes(q.subs) ELSE {{}} :
        LET gone == Overrun(slow)
            sent == IF Fresh(p) THEN q.subs \ gone ELSE {} IN
        Conclude(p, Detached(read, gone), Cut(Deliver(sent, delta), gone),
                 Freed(Struck(sent, slow), gone))
  BY DEF TickDone, Delta, Fresh
<1>. DEFINE gone == Overrun(slow)
            sent == IF Fresh(p) THEN q.subs \ gone ELSE {}
            rest == q.subs \ gone
            told == Deliver(sent, delta)
            cl   == Cut(told, gone)
            cn   == Freed(Struck(sent, slow), gone)
            r    == Detached(read, gone)
            v    == Verdict(r)
<1>2. /\ q.subs \subseteq Conns /\ gone \subseteq q.subs /\ (gone # {} => ~ Calm)
      /\ q \in PollerRecs /\ conn \in [Conns -> ConnRecs] /\ TabsOK(client) /\ Paired
  <2>1. slow \subseteq q.subs /\ (slow # {} => ~ Calm)
    BY <1>1 DEF SlowOnes, Calm
  <2>. QED  BY <2>1, SubsOf DEF Overrun, IInv, Typed, GInv, Marks
<1>3. delta.cursor = q.result.cursor /\ delta.root = q.result.root /\ IsPage(delta)
      /\ delta.cursor \in Cursors
  BY DeltaIs
<1>. HIDE DEF delta, quiet
<1>4. r.subs = rest /\ r.root = root
  <2>1. read.subs = q.subs /\ read.root = root /\ DOMAIN read = DOMAIN NoPoller
    BY <1>2 DEF PollerRecs, NoPoller
  <2>. HIDE DEF read
  <2>. QED  BY <1>2, <2>1 DEF Detached, NoPoller
<1>5. v = "complete" => root
  BY <1>4 DEF Verdict
<1>6. \/ client' = Ended(cl, rest, v) /\ conn' = Freed(cn, rest)
      \/ client' = cl /\ conn' = cn
  <2>1. Conclude(p, r, cl, cn)
    BY <1>1
  <2>. HIDE DEF r, cl, cn
  <2>. QED  BY <1>4, <2>1 DEF Conclude
<1>. HIDE DEF r, v, read
<1>7. \A n \in Conns :
          IF n \in gone THEN cn[n] = FreeConn
          ELSE /\ cn[n].client = conn[n].client /\ cn[n].poller = conn[n].poller
               /\ cn[n].catchUp = conn[n].catchUp /\ cn[n].from = conn[n].from
               /\ cn[n].result = conn[n].result /\ cn[n].state = conn[n].state
               /\ n \notin q.subs => cn[n] = conn[n]
  BY <1>2 DEF Freed, Struck, ConnRecs
<1>. HIDE DEF cn
<1>8. /\ \A n \in Conns : n \notin q.subs => conn'[n] = conn[n]
      /\ \A n \in q.subs : conn'[n] = FreeConn \/ (SameConn(n) /\ conn'[n].state = conn[n].state)
  <2>1. \A n \in Conns : conn'[n] = cn[n] \/ (conn'[n] = FreeConn /\ n \in rest)
    BY <1>6 DEF Freed
  <2>. QED  BY <1>2, <1>7, <2>1 DEF SameConn
<1>9. \A c \in Clients :
          /\ told[c] = IF c \in ClientsOf(Reached(sent)) THEN ApplyDelta(client[c], delta) ELSE client[c]
          /\ cl[c] = IF c \in ClientsOf(Reached(gone)) THEN [told[c] EXCEPT !.status = "reconnecting"]
                     ELSE told[c]
          /\ Ended(cl, rest, v)[c] = IF c \in ClientsOf(Reached(rest))
                                     THEN [cl[c] EXCEPT !.status = "ended", !.reason = v] ELSE cl[c]
  BY DEF Deliver, Cut, Ended
<1>10. TabsOK(told)
  BY <1>2, <1>3, DeliverTyped
<1>. HIDE DEF told, cl
<1>11. sent \subseteq q.subs /\ rest \subseteq q.subs
  OBVIOUS
<1>12. \A c \in Clients :
           (\A n \in q.subs : conn[n].state = "open" => conn[n].client # c) => client'[c] = client[c]
  <2>. SUFFICES ASSUME NEW c \in Clients, \A n \in q.subs : conn[n].state = "open" => conn[n].client # c
                PROVE  client'[c] = client[c]
    OBVIOUS
  <2>1. \A S : S \subseteq q.subs => c \notin ClientsOf(Reached(S))
    BY DEF ClientsOf, Reached
  <2>2. told[c] = client[c] /\ cl[c] = client[c] /\ Ended(cl, rest, v)[c] = client[c]
    BY <1>2, <1>9, <1>11, <2>1
  <2>. QED  BY <1>6, <2>2
<1>13. ASSUME NEW n \in q.subs, conn[n].state = "open"
       PROVE  LET c == conn[n].client IN Dropped(n, c) \/ Stayed(n, c, p) \/ ToldEnd(n, c, p)
  <2>. DEFINE c == conn[n].client
  <2>1. n \in Conns /\ c \in Clients /\ TabOK(client[c]) /\ TabOK(told[c])
    BY <1>2, <1>10, <1>13 DEF Paired, TabsOK
  <2>2. \A S : S \subseteq Conns => (c \in ClientsOf(Reached(S)) <=> n \in S)
    BY <1>13, <2>1, OneConn
  <2>3. /\ c \in ClientsOf(Reached(sent)) <=> n \in sent
        /\ c \in ClientsOf(Reached(gone)) <=> n \in gone
        /\ c \in ClientsOf(Reached(rest)) <=> n \in rest
    BY <1>2, <1>11, <2>2
  <2>. HIDE DEF c
  <2>4. CASE n \in gone
    <3>1. n \notin sent /\ n \notin rest
      BY <2>4
    <3>2. told[c] = client[c] /\ cl[c] = [told[c] EXCEPT !.status = "reconnecting"] /\ client'[c] = cl[c]
      BY <1>6, <1>9, <2>1, <2>3, <2>4, <3>1
    <3>3. /\ Untold(client[c], client'[c]) /\ client'[c].resume = client[c].resume
          /\ client'[c].status = "reconnecting" /\ client'[c].reason = client[c].reason
      BY <2>1, <3>2 DEF TabOK, Untold
    <3>4. conn'[n] = FreeConn
      BY <1>6, <1>7, <2>1, <2>4, <3>1 DEF Freed
    <3>. QED  BY <1>2, <2>4, <3>3, <3>4 DEF Dropped, c
  <2>5. CASE n \notin gone
    <3>1. n \in rest /\ (n \in sent <=> Fresh(p)) /\ cl[c] = told[c]
      BY <1>9, <2>1, <2>3, <2>5
    <3>2. /\ client'[c].view = told[c].view /\ client'[c].cursor = told[c].cursor
          /\ client'[c].root = told[c].root /\ client'[c].resume = told[c].resume
          /\ \/ /\ client'[c].status = told[c].status /\ client'[c].reason = told[c].reason
                /\ conn' = cn
             \/ client'[c].status = "ended" /\ client'[c].reason = v /\ conn' = Freed(cn, rest)
      <4>1. \/ client'[c] = [told[c] EXCEPT !.status = "ended", !.reason = v] /\ conn' = Freed(cn, rest)
            \/ client'[c] = told[c] /\ conn' = cn
        BY <1>6, <1>9, <2>1, <2>3, <3>1
      <4>. QED  BY <2>1, <4>1 DEF TabOK
    <3>3. told[c].status = client[c].status /\ told[c].reason = client[c].reason
      <4>1. told[c] = ApplyDelta(client[c], delta) \/ told[c] = client[c]
        BY <1>9, <2>1
      <4>. QED  BY <2>1, <4>1 DEF ApplyDelta, TabOK
    <3>4. Updated(c, p)
      <4>1. CASE Fresh(p)
        <5>1. told[c] = ApplyDelta(client[c], delta)
          BY <1>9, <2>1, <2>3, <3>1, <4>1
        <5>2. Told(client[c], told[c], delta)
          BY <2>1, <5>1 DEF Told, ApplyDelta, TabOK
        <5>3. Told(client[c], client'[c], delta)
          BY <3>2, <5>2 DEF Told
        <5>4. Learns(c, delta)
          BY <1>3, <2>1, <5>3, ToldLearns
        <5>. QED  BY <4>1, <5>4 DEF Updated, delta
      <4>2. CASE ~ Fresh(p)
        <5>1. told[c] = client[c]
          BY <1>9, <2>1, <2>3, <3>1, <4>2
        <5>. QED  BY <3>2, <4>2, <5>1 DEF Updated, Untold
      <4>. QED  BY <4>1, <4>2
    <3>5. CASE /\ client'[c].status = told[c].status /\ client'[c].reason = told[c].reason
               /\ conn' = cn
      <4>1. SameConn(n) /\ conn'[n].state = conn[n].state
        BY <1>7, <2>1, <2>5, <3>5 DEF SameConn
      <4>. QED  BY <3>3, <3>4, <3>5, <4>1 DEF Stayed, c
    <3>6. CASE client'[c].status = "ended" /\ client'[c].reason = v /\ conn' = Freed(cn, rest)
      <4>1. conn'[n] = FreeConn
        BY <2>1, <3>1, <3>6 DEF Freed
      <4>. QED  BY <1>3, <1>5, <3>4, <3>6, <4>1 DEF ToldEnd, c
    <3>. QED  BY <3>2, <3>5, <3>6
  <2>. QED  BY <2>4, <2>5
<1>. QED  BY <1>8, <1>12, <1>13

\* After a poll its tabs have, or are sent, all it has read past.
LEMMA PollServes ==
    ASSUME IInv, Ahead, GInv, NEW n \in Conns, Served(n),
           NEW p, p = conn[n].poller, p \in Pollers, poller[p].phase = "polling",
           poller[p].trace = Watches[conn[n].client], conn[n].client \in Clients,
           ~ poller[p].stopped
    PROVE  /\ \A k \in Kinds :
                  /\ \A r \in RowsOf(k, poller[p].trace) :
                         Seen(r.ms, poller[p].result.cursor[k]) =>
                             Known(n, k, r.item, r.ver) \/ Carries(Delta(p), k, r.item, r.ver)
                  /\ \A b \in NextBoundary(poller[p])[k] :
                         Known(n, k, b[1], b[2]) \/ Carries(Delta(p), k, b[1], b[2])
           /\ poller[p].root \/ poller[p].result.root =>
                  \/ client[conn[n].client].root \/ conn[n].result.root
                  \/ Fresh(p) /\ Delta(p).root
<1>. USE DEF GInv, Marks, Reads, Holds
<1>. DEFINE q == poller[p]
            c == conn[n].client
            t == q.trace
<1>1. ASSUME NEW k \in Kinds, NEW x \in q.result.rows[k]
      PROVE  \/ Known(n, k, x.item, x.ver)
             \/ x \in Delta(p).rows[k]
  <2>1. CASE x \in Trimmed(q)[k]
    BY <2>1, DeltaIs
  <2>2. CASE x \notin Trimmed(q)[k]
    <3>1. RowKey(x) \in q.boundary[k]
      BY <2>2 DEF Trimmed
    <3>. QED  BY <3>1 DEF Served, RowKey
  <2>. QED  BY <2>1, <2>2
<1>2. \A k \in Kinds : \A x \in q.result.rows[k] :
          x.item \in Items[k] /\ x.ver \in Nat
  BY Numbers
<1>3. \A k \in Kinds : \A i, v, w : v \in Nat /\ w \in Nat /\ i \in Items[k] /\ v <= w /\ Known(n, k, i, w)
          => Known(n, k, i, v)
  <2>. SUFFICES ASSUME NEW k \in Kinds, NEW i \in Items[k], NEW v \in Nat, NEW w \in Nat, v <= w,
                       Known(n, k, i, w)
                PROVE  Known(n, k, i, v)
    OBVIOUS
  <2>1. client[c].view[k][i] \in Nat
    BY SizeAssumption DEF ViewsTyped
  <2>2. \A x \in conn[n].result.rows[k] : x.ver \in Nat
    BY Numbers
  <2>. QED  BY <2>1, <2>2 DEF Known, Has, Carries
<1>4. ASSUME NEW k \in Kinds, NEW r \in RowsOf(k, t), Seen(r.ms, q.result.cursor[k])
      PROVE  Known(n, k, r.item, r.ver) \/ Carries(Delta(p), k, r.item, r.ver)
  <2>1. r.ms \in Nat /\ r.ver \in Nat /\ q.head[k] \in Nat /\ r.item \in Items[k]
    BY Numbers DEF RowsOf
  <2>2. CASE r.ms < q.head[k]
    <3>1. Due(n, k, r.ms)
      BY <2>2 DEF Due, Seen
    <3>. QED  BY <3>1 DEF Served
  <2>3. CASE q.head[k] <= r.ms
    <3>1. PICK x \in q.result.rows[k] : x.item = r.item /\ x.ver >= r.ver
      BY <1>4, <2>3 DEF Fetched, Carries
    <3>2. CASE Known(n, k, x.item, x.ver)
      BY <1>2, <1>3, <2>1, <3>1, <3>2
    <3>3. CASE x \in Delta(p).rows[k]
      BY <3>1, <3>3 DEF Carries
    <3>. QED  BY <1>1, <3>2, <3>3
  <2>. QED  BY <2>1, <2>2, <2>3
<1>5. ASSUME NEW k \in Kinds, NEW b \in NextBoundary(q)[k]
      PROVE  Known(n, k, b[1], b[2]) \/ Carries(Delta(p), k, b[1], b[2])
  <2>1. b \in q.boundary[k] \/ \E x \in q.result.rows[k] : b = <<x.item, x.ver>>
    BY <1>5 DEF NextBoundary, RowKey
  <2>2. CASE b \in q.boundary[k]
    BY <2>2 DEF Served
  <2>3. ASSUME NEW x \in q.result.rows[k], b = <<x.item, x.ver>>
        PROVE  Known(n, k, b[1], b[2]) \/ Carries(Delta(p), k, b[1], b[2])
    <3>1. x.ver >= x.ver
      BY <1>2
    <3>. QED  BY <1>1, <2>3, <3>1 DEF Carries
  <2>. QED  BY <2>1, <2>2, <2>3
<1>6. ASSUME q.root \/ q.result.root
      PROVE  client[c].root \/ conn[n].result.root \/ (Fresh(p) /\ Delta(p).root)
  <2>1. CASE q.root
    BY <2>1 DEF Served
  <2>2. CASE q.result.root
    <3>1. PICK x \in q.result.rows["span"] : x.item \in Roots
      BY <2>2 DEF RootsTold, HasRoot
    <3>2. "span" \in Kinds /\ x.ver = 1 /\ x.item \in Items["span"]
      BY <3>1, Numbers, ShapeAssumption DEF Row, Kinds
    <3>3. CASE Known(n, "span", x.item, 1)
      BY <3>1, <3>2, <3>3 DEF Known, RootsTold, Carries, HasRoot
    <3>4. CASE x \in Delta(p).rows["span"]
      BY <2>2, <3>2, <3>4, DeltaIs
    <3>. QED  BY <1>1, <3>2, <3>3, <3>4
  <2>. QED  BY <1>6, <2>1, <2>2
<1>. QED  BY <1>4, <1>5, <1>6

\* Whatever the end of a poll does to a tab, it forgets nothing and reads on no further
\* than the poll did.
Grows(c, p) ==
    /\ client'[c].root \in BOOLEAN /\ (client[c].root => client'[c].root)
    /\ \A k \in Kinds :
           /\ client'[c].resume[k] <= client'[c].cursor[k]
           /\ \/ client'[c].cursor[k] = client[c].cursor[k]
              \/ client'[c].cursor[k] = poller[p].result.cursor[k]
           /\ \A i \in Items[k] :
                  /\ client'[c].view[k][i] \in 0 .. MaxVer[k]
                  /\ \A v \in Nat : Has(c, k, i, v) => Has(c, k, i, v)'
                  /\ \A v \in Nat : Has(c, k, i, v)' =>
                         \/ Has(c, k, i, v)
                         \/ Carries(Delta(p), k, i, v) /\ (Delta(p).root => client'[c].root)

LEMMA UntoldGrows ==
    ASSUME GInv, NEW c \in Clients, NEW p, Untold(client[c], client'[c]),
           client'[c].resume = client[c].resume
    PROVE  Grows(c, p)
<1>1. client'[c].root \in BOOLEAN /\ (client[c].root => client'[c].root)
  BY DEF GInv, Marks, ViewsTyped, Untold
<1>2. \A k \in Kinds : client'[c].resume[k] <= client'[c].cursor[k]
                       /\ client'[c].cursor[k] = client[c].cursor[k]
  BY DEF GInv, Marks, Clocked, Untold
<1>3. \A k \in Kinds : \A i \in Items[k] :
          /\ client'[c].view[k][i] \in 0 .. MaxVer[k]
          /\ \A v : Has(c, k, i, v)' <=> Has(c, k, i, v)
  BY DEF GInv, Marks, ViewsTyped, Untold, Has
<1>. QED  BY <1>1, <1>2, <1>3 DEF Grows

\* An attached tab that is not dropped gets what the poll is about to send.
LEMMA UpdatedGrows ==
    ASSUME IInv, GInv, NEW p \in Pollers, NEW c \in Clients, Updated(c, p)
    PROVE  /\ Grows(c, p)
           /\ Fresh(p) /\ Delta(p).root => client'[c].root
           /\ \A k \in Kinds : \A i \in Items[k] : \A v \in Nat :
                  Has(c, k, i, v) \/ Carries(Delta(p), k, i, v) => Has(c, k, i, v)'
<1>1. CASE Fresh(p) /\ Learns(c, Delta(p))
  <2>1. Delta(p).cursor = poller[p].result.cursor
    BY DeltaIs
  <2>. QED  BY <1>1, <2>1 DEF Learns, Grows
<1>2. CASE ~ Fresh(p) /\ Untold(client[c], client'[c]) /\ client'[c].resume = client[c].resume
  <2>1. \A k \in Kinds : \A i, v : ~ Carries(Delta(p), k, i, v)
    BY <1>2, DeltaIs DEF Carries
  <2>2. \A k \in Kinds : \A i, v : Has(c, k, i, v)' <=> Has(c, k, i, v)
    BY <1>2 DEF Untold, Has
  <2>. QED  BY <1>2, <2>1, <2>2, UntoldGrows
<1>. QED  BY <1>1, <1>2 DEF Updated

\* A tab that is told the trace is complete, and was not catching up, has the root.
LEMMA TickDoneRoot ==
    ASSUME IInv, Ahead, GInv, NEW p \in Pollers, TickDone(p), NEW c \in Clients,
           client'[c].reason = "complete", client[c].reason # "complete", ~ CatchingUp(c)
    PROVE  client'[c].root
<1>. USE DEF GInv, Marks, Reads, Holds
<1>. DEFINE q == poller[p]
<1>1. q.phase = "polling" /\ q.subs \subseteq Conns /\ \A n \in q.subs : conn[n].poller = p
  BY SubsOf DEF TickDone
<1>2. PICK n \in q.subs : conn[n].state = "open" /\ conn[n].client = c
  BY TickDoneTabs
<1>3. ToldEnd(n, c, p)
  BY <1>2, TickDoneTabs DEF Dropped, Stayed
<1>4. conn[n].catchUp = "none" /\ ~ conn[n].result.root
  BY <1>1, <1>2 DEF Calmly, CatchingUp, NoDelta
<1>5. ~ q.stopped /\ q.trace = Watches[c]
  BY <1>1, <1>2, ConnsRun DEF Runs, Paired
<1>6. client[c].root \/ (Fresh(p) /\ Delta(p).root)
  BY <1>1, <1>2, <1>3, <1>4, <1>5, PollServes DEF ToldEnd, OnHas
<1>. QED  BY <1>3, <1>6, UpdatedGrows DEF ToldEnd, Grows

LEMMA BoundaryKept ==
    ASSUME GInv, NEW p \in Pollers, ~ poller[p].stopped, NEW k \in Kinds,
           NEW b \in NextBoundary(poller[p])[k]
    PROVE  Kept(k, poller[p].trace, b[1], b[2])
<1>1. b \in poller[p].boundary[k] \/ \E x \in poller[p].result.rows[k] : b = <<x.item, x.ver>>
  BY DEF NextBoundary, RowKey
<1>2. ASSUME NEW x \in poller[p].result.rows[k], b = <<x.item, x.ver>>
      PROVE  Kept(k, poller[p].trace, b[1], b[2])
  <2>1. Kept(k, poller[p].trace, x.item, x.ver) /\ b[1] = x.item /\ b[2] = x.ver
    BY <1>2 DEF GInv, Reads, StillThere
  <2>. QED  BY <2>1
<1>3. CASE b \in poller[p].boundary[k]
  BY <1>3 DEF GInv, Reads, StillThere
<1>. QED  BY <1>1, <1>2, <1>3

LEMMA TickDoneG == ASSUME IInv, IInv', Ahead, GInv, NEW p \in Pollers, TickDone(p) PROVE GInv'
<1>. USE DEF GInv, Marks, Reads, Holds
<1>. DEFINE q == poller[p]
<1>1. /\ PollDone(p) /\ q.phase = "polling" /\ UNCHANGED <<table, clock>>
      /\ \A n \in Conns : n \in q.subs <=> conn[n].poller = p
      /\ q.subs \subseteq Conns
  <2>1. q.phase = "polling" /\ UNCHANGED <<table, clock>>
    BY DEF TickDone
  <2>. QED  BY <2>1, TickDonePoller, SubsOf
<1>2. /\ \A n \in Conns : n \notin q.subs => conn'[n] = conn[n]
      /\ \A n \in Conns : conn'[n] = FreeConn \/ (SameConn(n) /\ conn'[n].state = conn[n].state)
  BY TickDoneTabs DEF SameConn
<1>3. \A n \in q.subs : conn[n].state = "open" =>
          \/ Dropped(n, conn[n].client) \/ Stayed(n, conn[n].client, p)
          \/ ToldEnd(n, conn[n].client, p)
  BY TickDoneTabs
<1>4. \A c \in Clients :
          \/ client'[c] = client[c] /\ \A n \in q.subs : conn[n].state = "open" => conn[n].client # c
          \/ \E n \in q.subs : conn[n].state = "open" /\ conn[n].client = c
  BY TickDoneTabs
<1>5. /\ NoDelta.rows = NoRows /\ NoDelta.cursor = Zero /\ ~ NoDelta.root
      /\ \A k \in Kinds : NoRows[k] = {} /\ Zero[k] = 0
      /\ FreeConn.state = "free" /\ FreeConn.client = None /\ FreeConn.catchUp = "none"
      /\ FreeConn.from = Zero /\ FreeConn.result = NoDelta
  BY DEF NoDelta, NoRows, Zero, FreeConn
<1>6. \A c \in Clients : Grows(c, p)
  <2>. SUFFICES ASSUME NEW c \in Clients PROVE Grows(c, p)
    OBVIOUS
  <2>1. CASE client'[c] = client[c]
    BY <2>1, UntoldGrows DEF Untold
  <2>2. ASSUME NEW n \in q.subs, conn[n].state = "open", conn[n].client = c PROVE Grows(c, p)
    BY <1>3, <2>2, UntoldGrows, UpdatedGrows DEF Dropped, Stayed, ToldEnd
  <2>. QED  BY <1>4, <2>1, <2>2
<1>7. \A n \in Conns : conn'[n].state # "free" =>
          /\ SameConn(n) /\ conn'[n].state = conn[n].state /\ conn[n].client \in Clients
          /\ conn[n].poller \in Pollers /\ ~ poller'[conn[n].poller].stopped
  BY <1>2, <1>5, ConnsStillRun DEF Runs, SameConn, Paired
<1>8. \A n \in q.subs : conn'[n].state = "open" => Stayed(n, conn[n].client, p)
  BY <1>1, <1>3, <1>5, <1>7 DEF Dropped, ToldEnd
<1>9. \A n \in Conns : n \notin q.subs /\ conn[n].state = "open" =>
          client'[conn[n].client] = client[conn[n].client]
  BY <1>1, <1>4 DEF Paired
<1>10. Clocked'
  <2>1. \A c \in Clients, k \in Kinds :
            client'[c].resume[k] <= client'[c].cursor[k] /\ client'[c].cursor[k] <= clock[k]
    BY <1>6 DEF Grows, Clocked
  <2>2. \A x \in Pollers, k \in Kinds :
            /\ poller'[x].head[k] <= clock[k] /\ poller'[x].result.cursor[k] <= clock[k]
            /\ \A r \in poller'[x].result.rows[k] : r.ms <= poller'[x].result.cursor[k]
    BY <1>1, <1>5, Numbers DEF PollDone, Clocked
  <2>3. \A n \in Conns, k \in Kinds :
            conn'[n].from[k] <= clock[k] /\ conn'[n].result.cursor[k] <= clock[k]
    BY <1>2, <1>5, Numbers DEF Clocked, SameConn
  <2>. QED  BY <1>1, <2>1, <2>2, <2>3 DEF Clocked
<1>11. Stored' /\ ViewsTyped'
  BY <1>1, <1>6 DEF Stored, ViewsTyped, Grows
<1>12. Paired'
  <2>. SUFFICES ASSUME NEW n \in Conns
                PROVE  IF conn'[n].state = "free" THEN conn'[n].client = None
                       ELSE /\ conn'[n].client \in Clients
                            /\ poller'[conn'[n].poller].trace = Watches[conn'[n].client]
                            /\ conn'[n].state = "open" => client'[conn'[n].client].status = "live"
                            /\ \A m \in Conns : conn'[m].client = conn'[n].client => m = n
    BY DEF Paired
  <2>1. CASE conn'[n].state = "free"
    BY <1>2, <1>5, <2>1 DEF SameConn, Paired
  <2>2. CASE conn'[n].state # "free"
    <3>1. poller'[conn[n].poller].trace = poller[conn[n].poller].trace
      BY <1>1, <1>7, <2>2 DEF PollDone
    <3>2. conn'[n].state = "open" => client'[conn[n].client].status = "live"
      BY <1>7, <1>8, <1>9, <2>2 DEF Stayed, Paired
    <3>3. \A m \in Conns : conn'[m].client = conn'[n].client => m = n
      <4>1. None \notin Clients
        BY SizeAssumption
      <4>. QED  BY <1>2, <1>5, <1>7, <2>2, <4>1 DEF Paired, SameConn
    <3>. QED  BY <1>7, <2>2, <3>1, <3>2, <3>3 DEF Paired, SameConn
  <2>. QED  BY <2>1, <2>2
<1>13. Calmly'
  BY <1>2, <1>5 DEF Calmly, SameConn
<1>14. RootsTold'
  <2>1. \A x \in Pollers : poller'[x].result.root <=> HasRoot(poller'[x].result.rows["span"])
    BY <1>1, <1>5 DEF RootsTold, PollDone, HasRoot, Kinds
  <2>2. \A n \in Conns : conn'[n].result.root <=> HasRoot(conn'[n].result.rows["span"])
    BY <1>2, <1>5 DEF RootsTold, SameConn, HasRoot, Kinds
  <2>3. ASSUME NEW c \in Clients, NEW i \in Items["span"] \cap Roots, Has(c, "span", i, 1)'
        PROVE  client'[c].root
    <3>1. Has(c, "span", i, 1) \/ (Carries(Delta(p), "span", i, 1) /\ (Delta(p).root => client'[c].root))
      BY <1>6, <2>3 DEF Grows, Kinds
    <3>2. CASE Has(c, "span", i, 1)
      BY <1>6, <3>2 DEF RootsTold, Grows
    <3>3. CASE Carries(Delta(p), "span", i, 1) /\ (Delta(p).root => client'[c].root)
      <4>1. HasRoot(q.result.rows["span"])
        BY <3>3, DeltaIs DEF Carries, HasRoot, Kinds
      <4>. QED  BY <3>3, <4>1, DeltaIs DEF RootsTold
    <3>. QED  BY <3>1, <3>2, <3>3
  <2>. QED  BY <2>1, <2>2, <2>3 DEF RootsTold
<1>15. StillThere'
  <2>. SUFFICES ASSUME NEW x \in Pollers, ~ poller'[x].stopped
                PROVE  /\ \A k \in Kinds :
                              /\ \A r \in poller'[x].result.rows[k] :
                                     Kept(k, poller'[x].trace, r.item, r.ver)
                              /\ \A b \in poller'[x].boundary[k] :
                                     Kept(k, poller'[x].trace, b[1], b[2])
                       /\ poller'[x].result.rows["span"] \subseteq RowsOf("span", poller'[x].trace)
                       /\ poller'[x].root =>
                              HasRoot({r \in RowsOf("span", poller'[x].trace) :
                                          r.ms <= poller'[x].head["span"]})
    BY <1>1 DEF StillThere, Kept, RowsOf, HasRoot
  <2>1. CASE x # p
    BY <1>1, <2>1 DEF StillThere, PollDone
  <2>2. CASE x = p
    <3>1. /\ ~ q.stopped /\ poller'[p].trace = q.trace /\ poller'[p].head = q.result.cursor
          /\ poller'[p].boundary = NextBoundary(q) /\ poller'[p].result = NoDelta
          /\ poller'[p].root = (q.root \/ q.result.root)
      BY <1>1, <2>2 DEF PollDone
    <3>2. \A k \in Kinds : \A b \in NextBoundary(q)[k] : Kept(k, q.trace, b[1], b[2])
      BY <3>1, BoundaryKept
    <3>3. q.root \/ q.result.root =>
              HasRoot({r \in RowsOf("span", q.trace) : r.ms <= q.result.cursor["span"]})
      <4>1. "span" \in Kinds
        BY DEF Kinds
      <4>2. \A r \in RowsOf("span", q.trace) :
                /\ r.ms \in Nat /\ q.head["span"] \in Nat /\ q.result.cursor["span"] \in Nat
                /\ q.head["span"] <= q.result.cursor["span"]
        BY <1>1, <4>1, Numbers DEF RowsOf, Ahead, NotBefore
      <4>3. CASE q.root
        BY <3>1, <4>2, <4>3 DEF StillThere, HasRoot
      <4>4. CASE q.result.root
        BY <3>1, <4>1, <4>4 DEF StillThere, RootsTold, HasRoot, Clocked
      <4>. QED  BY <4>3, <4>4
    <3>. QED  BY <1>5, <2>2, <3>1, <3>2, <3>3 DEF Kinds
  <2>. QED  BY <2>1, <2>2
<1>16. Fetched'
  <2>1. \A x \in Pollers : poller'[x].phase = "polling" => poller'[x] = poller[x]
    BY <1>1 DEF PollDone
  <2>. QED  BY <1>1, <2>1 DEF Fetched, RowsOf, Seen, Carries
<1>17. \A n \in q.subs : conn[n].state # "free" =>
           ~ q.stopped /\ q.trace = Watches[conn[n].client] /\ conn[n].client \in Clients
  BY <1>1, ConnsRun DEF Runs, Paired
<1>18. TabHas'
  <2>. SUFFICES ASSUME NEW c \in Clients, Reading(c)', ~ CatchingUp(c)', NEW k \in Kinds,
                       NEW r \in RowsOf(k, Watches[c]), Seen(r.ms, client'[c].cursor[k])
                PROVE  Has(c, k, r.item, r.ver)'
    BY <1>1 DEF TabHas, RowsOf, Seen
  <2>1. r.item \in Items[k] /\ r.ver \in Nat
    BY Numbers DEF RowsOf
  <2>2. CASE client'[c] = client[c] /\ \A n \in q.subs : conn[n].state = "open" => conn[n].client # c
    <3>1. ~ CatchingUp(c)
      <4>. SUFFICES ASSUME NEW n \in Conns, conn[n].client = c, conn[n].state = "open",
                           conn[n].catchUp # "none"
                    PROVE  FALSE
        BY DEF CatchingUp
      <4>1. conn'[n] = conn[n]
        BY <1>2, <2>2
      <4>. QED  BY <4>1 DEF CatchingUp
    <3>. QED  BY <2>2, <3>1 DEF TabHas, Has, Reading
  <2>3. ASSUME NEW n \in q.subs, conn[n].state = "open", conn[n].client = c
        PROVE  Has(c, k, r.item, r.ver)'
    <3>1. n \in Conns /\ client[c].status = "live"
      BY <1>1, <2>3 DEF Paired
    <3>2. CASE Dropped(n, c)
      <4>1. ~ CatchingUp(c) /\ Reading(c)
        BY <3>1, <3>2 DEF Dropped, CatchingUp, Calmly, Reading
      <4>. QED  BY <3>2, <4>1 DEF Dropped, Untold, TabHas, Has
    <3>3. CASE Stayed(n, c, p)
      <4>1. conn[n].catchUp = "none" /\ Served(n)
        BY <2>3, <3>1, <3>3 DEF Stayed, SameConn, CatchingUp, OnHas
      <4>2. \A i, v : ~ Carries(conn[n].result, k, i, v)
        BY <1>5, <3>1, <4>1 DEF Calmly, Carries
      <4>3. Has(c, k, r.item, r.ver) \/ Carries(Delta(p), k, r.item, r.ver)
        <5>1. CASE client'[c].cursor[k] = client[c].cursor[k]
          <6>1. Due(n, k, r.ms)
            BY <2>3, <5>1 DEF Due
          <6>. QED  BY <2>3, <4>1, <4>2, <6>1 DEF Served, Known
        <5>2. CASE client'[c].cursor[k] = q.result.cursor[k]
          BY <1>1, <1>17, <2>3, <3>1, <4>1, <4>2, <5>2, PollServes DEF Known
        <5>. QED  BY <1>6, <5>1, <5>2 DEF Grows
      <4>. QED  BY <2>1, <3>3, <4>3, UpdatedGrows DEF Stayed
    <3>4. CASE ToldEnd(n, c, p)
      BY <3>4 DEF ToldEnd, Reading
    <3>. QED  BY <1>3, <2>3, <3>2, <3>3, <3>4
  <2>. QED  BY <1>4, <2>2, <2>3
<1>19. OffHas'
  <2>. SUFFICES ASSUME Calm, NEW c \in Clients, Reading(c)', Unattached(c)',
                       NEW x \in Pollers, ~ poller'[x].stopped, poller'[x].trace = Watches[c],
                       NEW k \in Kinds
                PROVE  /\ \A r \in poller'[x].result.rows[k] :
                              r.ms <= client'[c].cursor[k] => Has(c, k, r.item, r.ver)'
                       /\ poller'[x].head[k] <= client'[c].cursor[k] =>
                              \A b \in poller'[x].boundary[k] : Has(c, k, b[1], b[2])'
    BY DEF OffHas
  <2>1. Unattached(c)
    <3>. SUFFICES ASSUME NEW n \in Conns, conn[n].client = c PROVE FALSE
      BY DEF Unattached
    <3>1. conn'[n] = FreeConn /\ n \in q.subs
      BY <1>2 DEF Unattached, SameConn
    <3>2. conn[n].state = "open"
      <4>1. conn[n].state \in {"free", "open", "dead"} /\ None \notin Clients
        BY SizeAssumption DEF IInv, Typed, ConnRecs
      <4>. QED  BY <4>1 DEF Paired, Calmly
    <3>3. ToldEnd(n, c, p)
      BY <1>3, <1>5, <3>1, <3>2 DEF Dropped, Stayed
    <3>. QED  BY <3>3 DEF ToldEnd, Reading
  <2>2. client'[c] = client[c] /\ Reading(c)
    BY <1>1, <1>4, <2>1 DEF Unattached, Reading
  <2>3. CASE x # p
    <3>1. poller'[x] = poller[x]
      BY <1>1, <2>3 DEF PollDone
    <3>. QED  BY <2>1, <2>2, <3>1 DEF OffHas, Has
  <2>4. CASE x = p
    <3>1. /\ ~ q.stopped /\ poller'[p].trace = q.trace /\ poller'[p].head = q.result.cursor
          /\ poller'[p].boundary = NextBoundary(q) /\ poller'[p].result = NoDelta
      BY <1>1, <2>4 DEF PollDone
    <3>2. /\ \A r \in q.result.rows[k] : r.ms <= client[c].cursor[k] => Has(c, k, r.item, r.ver)
          /\ q.head[k] <= client[c].cursor[k] => \A b \in q.boundary[k] : Has(c, k, b[1], b[2])
      BY <2>1, <2>2, <2>4, <3>1 DEF OffHas
    <3>3. q.result.cursor[k] <= client[c].cursor[k] =>
              \A b \in NextBoundary(q)[k] : Has(c, k, b[1], b[2])
      BY <3>2 DEF NextBoundary, RowKey
    <3>. QED  BY <1>5, <2>2, <2>4, <3>1, <3>3 DEF Has
  <2>. QED  BY <2>3, <2>4
<1>20. OnHas'
  <2>. SUFFICES ASSUME NEW n \in Conns, conn'[n].state = "open", conn'[n].catchUp # "asked"
                PROVE  Served(n)'
    BY DEF OnHas
  <2>0. PICK c : c = conn[n].client
    OBVIOUS
  <2>1. /\ SameConn(n) /\ conn[n].state = "open" /\ c \in Clients /\ conn[n].poller \in Pollers
        /\ ~ poller'[conn[n].poller].stopped /\ Served(n)
    BY <1>7, <2>0 DEF SameConn, OnHas
  <2>2. CASE n \notin q.subs
    <3>1. conn'[n] = conn[n] /\ client'[c] = client[c] /\ conn[n].poller # p
      BY <1>1, <1>2, <1>9, <2>0, <2>1, <2>2
    <3>2. poller'[conn[n].poller] = poller[conn[n].poller]
      BY <1>1, <2>1, <3>1 DEF PollDone
    <3>. QED  BY <1>1, <2>1, <3>1, <3>2, <2>0, ServedKept
  <2>3. CASE n \in q.subs
    <3>1. Updated(c, p) /\ conn[n].poller = p
      BY <1>1, <1>8, <2>0, <2>3 DEF Stayed
    <3>2. /\ ~ q.stopped /\ poller'[p].head = q.result.cursor
          /\ poller'[p].boundary = NextBoundary(q) /\ q.trace = Watches[c]
          /\ poller'[p].root = (q.root \/ q.result.root)
      BY <1>1, <1>17, <2>0, <2>1, <2>3, <3>1 DEF PollDone
    <3>3. /\ \A k \in Kinds :
                 /\ \A r \in RowsOf(k, q.trace) : Seen(r.ms, q.result.cursor[k]) =>
                        Known(n, k, r.item, r.ver) \/ Carries(Delta(p), k, r.item, r.ver)
                 /\ \A b \in NextBoundary(q)[k] :
                        Known(n, k, b[1], b[2]) \/ Carries(Delta(p), k, b[1], b[2])
          /\ q.root \/ q.result.root =>
                 client[c].root \/ conn[n].result.root \/ (Fresh(p) /\ Delta(p).root)
      BY <1>1, <2>0, <2>1, <3>1, <3>2, PollServes
    <3>4. /\ conn'[n].client = c /\ conn'[n].poller = p /\ conn'[n].catchUp = conn[n].catchUp
          /\ conn'[n].result = conn[n].result
      BY <2>0, <2>1, <3>1 DEF SameConn
    <3>5. \A k \in Kinds : \A i \in Items[k] : \A v \in Nat :
              Known(n, k, i, v) \/ Carries(Delta(p), k, i, v) => Known(n, k, i, v)'
      <4>1. \A k \in Kinds : \A i \in Items[k] : \A v \in Nat :
                Has(c, k, i, v) \/ Carries(Delta(p), k, i, v) => Has(c, k, i, v)'
        BY <2>1, <3>1, UpdatedGrows
      <4>2. \A k \in Kinds : \A i, v :
                Carries(conn[n].result, k, i, v) => Carries(conn[n].result, k, i, v)'
        BY <3>4 DEF Carries
      <4>3. \A k \in Kinds : \A i, v : Has(c, k, i, v)' => Has(conn[n].client, k, i, v)'
        BY <3>4 DEF Has
      <4>. QED  BY <2>0, <4>1, <4>2, <4>3 DEF Known
    <3>6. \A k \in Kinds : \A r \in RowsOf(k, Watches[c]) : Due(n, k, r.ms)' => Known(n, k, r.item, r.ver)'
      <4>. SUFFICES ASSUME NEW k \in Kinds, NEW r \in RowsOf(k, Watches[c]), Due(n, k, r.ms)'
                    PROVE  Known(n, k, r.item, r.ver)'
        OBVIOUS
      <4>1. r.item \in Items[k] /\ r.ver \in Nat
        BY Numbers DEF RowsOf
      <4>2. \/ Seen(r.ms, q.result.cursor[k]) \/ Seen(r.ms, client'[c].cursor[k])
            \/ conn[n].catchUp = "read" /\ Seen(r.ms, conn[n].result.cursor[k])
        BY <2>0, <3>2, <3>4 DEF Due, Seen
      <4>3. Seen(r.ms, q.result.cursor[k]) \/ Due(n, k, r.ms)
        BY <1>6, <2>0, <2>1, <3>1, <4>2 DEF Grows, Due
      <4>4. Known(n, k, r.item, r.ver) \/ Carries(Delta(p), k, r.item, r.ver)
        BY <2>0, <2>1, <3>2, <3>3, <4>3 DEF Served
      <4>. QED  BY <3>5, <4>1, <4>4
    <3>7. \A k \in Kinds : \A b \in poller'[p].boundary[k] : Known(n, k, b[1], b[2])'
      <4>. SUFFICES ASSUME NEW k \in Kinds, NEW b \in NextBoundary(q)[k]
                    PROVE  Known(n, k, b[1], b[2])'
        BY <3>2
      <4>1. Kept(k, q.trace, b[1], b[2])
        BY <3>2, BoundaryKept
      <4>2. b[1] \in Items[k] /\ b[2] \in Nat
        BY <4>1, Numbers DEF Kept, RowsOf
      <4>. QED  BY <3>3, <3>5, <4>2
    <3>8. poller'[p].root => client'[c].root \/ conn'[n].result.root
      BY <1>6, <2>1, <3>1, <3>2, <3>3, <3>4, UpdatedGrows DEF Grows
    <3>9. \A k \in Kinds : \A r \in RowsOf(k, Watches[c])' : Due(n, k, r.ms)' => Known(n, k, r.item, r.ver)'
      BY <1>1, <3>6 DEF RowsOf
    <3>. QED  BY <3>4, <3>7, <3>8, <3>9 DEF Served, RowsOf
  <2>. QED  BY <2>2, <2>3
<1>21. AskedHas'
  <2>. SUFFICES ASSUME NEW n \in Conns, conn'[n].catchUp = "asked", NEW k \in Kinds,
                       NEW r \in RowsOf(k, Watches[conn'[n].client]), r.ms <= conn'[n].from[k]
                PROVE  client'[conn'[n].client].view[k][r.item] >= r.ver
    BY <1>1 DEF AskedHas, Has, RowsOf
  <2>. DEFINE c == conn[n].client
  <2>1. /\ conn'[n].client = c /\ conn'[n].from = conn[n].from /\ conn[n].catchUp = "asked"
        /\ c \in Clients
    BY <1>2, <1>5, PollerOf DEF SameConn, Paired
  <2>2. Has(c, k, r.item, r.ver) /\ r.item \in Items[k] /\ r.ver \in Nat
    BY <2>1, Numbers DEF AskedHas, RowsOf
  <2>3. Has(c, k, r.item, r.ver)'
    BY <1>6, <2>1, <2>2 DEF Grows
  <2>. QED  BY <2>1, <2>3 DEF Has
<1>22. Settled'
  BY <1>6, TickDoneRoot DEF Settled, CompleteMeansRoot, Grows, CatchingUp, Calmly
<1>. QED  BY <1>10, <1>11, <1>12, <1>13, <1>14, <1>15, <1>16, <1>18, <1>19, <1>20, <1>21, <1>22


--------------------------------------------------------------------------------
LEMMA NextG == ASSUME IInv, IInv', Ahead, GInv, Alone \/ Calm, [Next]_vars PROVE GInv'
<1>1. CASE UNCHANGED vars
  BY <1>1, StutterG
<1>2. ASSUME NEW k \in Kinds, Insert(k) PROVE GInv'
  BY <1>2, InsertG
<1>3. ASSUME NEW c \in Clients,
             Load(c) \/ Subscribe(c) \/ Rejected(c) \/ Drop(c) \/ Hide(c) \/ Show(c)
      PROVE  GInv'
  BY <1>3, LoadG, SubscribeG, TabGoesG
<1>4. ASSUME NEW n \in Conns, Notice(n) \/ CatchUpRead(n) \/ CatchUpDone(n) \/ CatchUpFail(n)
      PROVE  GInv'
  BY <1>4, NoticeG, CatchUpReadG, CatchUpDoneG, CatchUpFailG
<1>5. ASSUME NEW p \in Pollers, TickRead(p) \/ TickDone(p) \/ TickFail(p) \/ Quieten(p)
      PROVE  GInv'
  BY <1>5, TickReadG, TickDoneG, TickFailG, QuietenG
<1>. QED  BY <1>1, <1>2, <1>3, <1>4, <1>5 DEF Next

\* What the two regimes have in common.
LEMMA GapInvariant == ASSUME Alone \/ Calm PROVE Spec => [](IInv /\ Ahead /\ GInv)
<1>1. Init => IInv /\ Ahead /\ GInv
  BY InitInv, AheadInit, InitG
<1>2. IInv /\ Ahead /\ GInv /\ [Next]_vars => IInv' /\ Ahead' /\ GInv'
  BY NextInv, AdvanceInv, NextG
<1>. QED  BY <1>1, <1>2, PTL DEF Spec

\* A tab's resume position never passes a row the tab misses: across any drops, pauses,
\* failing polls, stalled consumers, capped pages and shared milliseconds if each trace
\* has one tab, and for any number of tabs while nothing fails.  (A watermark that skips
\* a page's last millisecond, or a join without a catch-up, breaks it.)
THEOREM NoGaps == ASSUME Alone \/ Calm PROVE Spec => []NoGap
<1>1. IInv /\ Ahead /\ GInv => NoGap
  <2>. SUFFICES ASSUME IInv, GInv, NEW c \in Clients, NEW k \in Kinds, Reading(c),
                       ~ CatchingUp(c), NEW r \in RowsOf(k, Watches[c]), r.ms < client[c].resume[k]
                PROVE  Received(c, k, r)
    BY DEF NoGap, Reading
  <2>1. r.ms \in Nat /\ client[c].resume[k] \in Nat /\ client[c].cursor[k] \in Nat
    BY Numbers DEF RowsOf
  <2>2. Seen(r.ms, client[c].cursor[k])
    BY <2>1 DEF GInv, Marks, Clocked, Seen
  <2>. QED  BY <2>2 DEF GInv, Holds, TabHas, Has, Received
<1>. QED  BY <1>1, GapInvariant, PTL

\* What a poller remembers at its watermark, and trims when it reads it again, every tab
\* attached to it has, catch-ups and joins between two reads included.
THEOREM TrimmedWasDelivered == ASSUME Alone \/ Calm PROVE Spec => []BoundaryDelivered
<1>1. IInv /\ Ahead /\ GInv => BoundaryDelivered
  <2>. SUFFICES ASSUME IInv, GInv, NEW n \in Conns, NEW k \in Kinds, conn[n].state = "open",
                       conn[n].catchUp = "none", NEW r \in RowsOf(k, Watches[conn[n].client]),
                       RowKey(r) \in poller[conn[n].poller].boundary[k]
                PROVE  Received(conn[n].client, k, r)
    BY DEF BoundaryDelivered
  <2>1. Known(n, k, r.item, r.ver)
    BY DEF GInv, Holds, OnHas, Served, RowKey
  <2>2. ~ Carries(conn[n].result, k, r.item, r.ver)
    BY DEF GInv, Marks, Calmly, Carries, NoDelta, NoRows
  <2>. QED  BY <2>1, <2>2 DEF Known, Has, Received
<1>. QED  BY <1>1, GapInvariant, PTL

\* With one tab to a trace, whatever was lost, stalled or capped on the way, nothing
\* before its resume position is missing, and a stream that ends 'complete' has shown
\* the trace's root.
THEOREM AloneMissesNothing == ASSUME Alone PROVE Spec => []NothingMissed
<1>1. GInv => CompleteMeansRoot
  BY DEF GInv, Holds, Settled
<1>2. NoGap /\ CompleteMeansRoot => NothingMissed
  BY DEF NothingMissed
<1>. QED  BY <1>1, <1>2, GapInvariant, NoGaps, PTL

\* Only a poller that ends tells a tab why.
LEMMA OthersKeepReason ==
    ASSUME IInv, NEW c \in Clients,
           \/ UNCHANGED vars
           \/ \E k \in Kinds : Insert(k)
           \/ \E x \in Clients : Load(x) \/ Subscribe(x) \/ Rejected(x) \/ Drop(x) \/ Hide(x) \/ Show(x)
           \/ \E n \in Conns : Notice(n) \/ CatchUpRead(n) \/ CatchUpDone(n) \/ CatchUpFail(n)
           \/ \E p \in Pollers : TickRead(p) \/ Quieten(p)
    PROVE  client'[c].reason = client[c].reason
<1>1. DOMAIN client = Clients /\ \A x \in Clients : TabOK(client[x])
  BY DEF IInv, Typed, TabsOK
<1>2. CASE client' = client
  BY <1>2
<1>3. ASSUME NEW x \in Clients, Load(x) PROVE client'[c].reason = client[c].reason
  <2>1. \E cur, view : client' = [client EXCEPT ![x] = [client[x] EXCEPT
            !.status = "connecting", !.cursor = cur, !.resume = cur, !.view = view]]
    BY <1>3 DEF Load
  <2>. QED  BY <1>1, <2>1 DEF TabOK
<1>4. ASSUME NEW x \in Clients, Subscribe(x) \/ Rejected(x) \/ Drop(x) \/ Hide(x) \/ Show(x)
      PROVE  client'[c].reason = client[c].reason
  <2>1. \E status : client' \in {[client EXCEPT ![x].status = status],
                                 [client EXCEPT ![x].status = status, ![x].resume = client[x].cursor]}
    BY <1>4 DEF Subscribe, Rejected, Drop, Hide, Show
  <2>. QED  BY <1>1, <2>1 DEF TabOK
<1>5. ASSUME NEW n \in Conns, CatchUpDone(n) \/ CatchUpFail(n)
      PROVE  client'[c].reason = client[c].reason
  <2>1. client' = client \/ client' = Cut(client, {n}) \/ client' = Deliver({n}, conn[n].result)
    BY <1>5 DEF CatchUpDone, CatchUpFail
  <2>2. client'[c] \in {client[c], [client[c] EXCEPT !.status = "reconnecting"],
                        ApplyDelta(client[c], conn[n].result)}
    BY <2>1 DEF Cut, Deliver
  <2>. QED  BY <1>1, <2>2 DEF TabOK, ApplyDelta
<1>. QED  BY <1>2, <1>3, <1>4, <1>5 DEF vars, Insert, Notice, CatchUpRead, TickRead, Quieten

\* In either regime a tab that is not catching up when its stream ends 'complete' has the
\* root by then; one that is may have its stream closed before its catch-up is sent.
THEOREM SettledHasRoot == ASSUME Alone \/ Calm PROVE Spec => SettledTabsHaveRoot
<1>1. IInv /\ Ahead /\ GInv /\ [Next]_vars =>
          [\A c \in Clients :
              client'[c].reason = "complete" /\ client[c].reason = None /\ ~ CatchingUp(c)
                  => client'[c].root]_vars
  <2>. SUFFICES ASSUME IInv, Ahead, GInv, [Next]_vars, NEW c \in Clients,
                       client'[c].reason = "complete", client[c].reason = None, ~ CatchingUp(c)
                PROVE  client'[c].root
    OBVIOUS
  <2>1. client[c].reason # "complete"
    BY DEF None
  <2>2. ASSUME NEW p \in Pollers, TickDone(p) PROVE client'[c].root
    BY <2>1, <2>2, TickDoneRoot
  <2>3. ASSUME NEW p \in Pollers, TickFail(p) PROVE client'[c].root
    <3>1. QuietTab(c)
      BY <2>3, TickFailQuiet
    <3>. QED  BY <2>1, <3>1 DEF QuietTab, Untold
  <2>. QED  BY <2>1, <2>2, <2>3, OthersKeepReason DEF Next
<1>. QED  BY <1>1, GapInvariant, PTL DEF Spec, SettledTabsHaveRoot

================================================================================
