---------------------------------- MODULE SpanTree -----------------------------------
(***************************************************************************)
(* The waterfall of one trace: buildSpanTree and flattenVisible            *)
(* (apps/dashboard/lib/trace-tree.ts) over the spans that have arrived     *)
(* (deriveTraceView, lib/live.ts), in the order they arrived.  Spans may   *)
(* name a parent that is late, lost, themselves or their own descendant.   *)
(* Span i starts before span i + 1 does.                                   *)
(***************************************************************************)
EXTENDS Integers, FiniteSets, Sequences, SequencesExt

CONSTANTS
    TreeSize,   \* the trace has spans 1 .. TreeSize
    Lost,       \* ids that are named as parents and never arrive
    Tokens      \* Tokens[i]: the tokens span i used

TreeSpans == 1 .. TreeSize
NoParent  == 0
ParentIds == TreeSpans \cup Lost

ASSUME TreeAssumption ==
    TreeSize \in Nat /\ Lost \subseteq Nat \ 0 .. TreeSize /\ Tokens \in [TreeSpans -> Nat]

VARIABLES
    names,      \* names[i]: parentSpanId of span i, or NoParent
    arrived,    \* the spans' order in LiveTraceState.spans
    running,    \* no root span has arrived: placeholders are shown (pendingParents)
    collapsed   \* rows the reader has collapsed

treeVars == <<names, arrived, running, collapsed>>

TreeInit ==
    /\ names = [i \in TreeSpans |-> NoParent]
    /\ arrived = <<>>
    /\ running = TRUE
    /\ collapsed = {}

\* A delta brings span i; a span already there is passed over (applyDelta).
Arrive(i, p) ==
    /\ ~Contains(arrived, i)
    /\ names' = [names EXCEPT ![i] = p]
    /\ arrived' = Append(arrived, i)
    /\ running' = (running /\ p # NoParent)
    /\ UNCHANGED collapsed

ToggleRow(i) ==
    /\ Contains(arrived, i)
    /\ collapsed' = IF i \in collapsed THEN collapsed \ {i} ELSE collapsed \cup {i}
    /\ UNCHANGED <<names, arrived, running>>

TreeNext == \E i \in TreeSpans : ToggleRow(i) \/ \E p \in ParentIds \cup {NoParent} : Arrive(i, p)
TreeSpec == TreeInit /\ [][TreeNext]_treeVars

(***************************************************************************)
(* buildSpanTree over rows, a sequence of spans.                           *)
(***************************************************************************)
Missing(rows, i) == names[i] # NoParent /\ names[i] # i /\ ~Contains(rows, names[i])

\* byId in its order: the rows and, while the trace runs, a placeholder for each
\* parent that has not arrived.
ById(rows) ==
    FoldLeft(LAMBDA seq, i :
                 IF running /\ Missing(rows, i) /\ ~Contains(seq, names[i])
                 THEN Append(seq, names[i]) ELSE seq,
             rows, rows)

\* A placeholder starts with its earliest child.
StartOf(rows, i) ==
    IF Contains(rows, i) THEN i ELSE Min({j \in ToSet(rows) : names[j] = i})

\* byStartThenId
Before(rows) ==
    LET nodes == ToSet(ById(rows))
        start == [i \in nodes |-> StartOf(rows, i)] IN
    {pair \in nodes \X nodes :
        \/ start[pair[1]] < start[pair[2]]
        \/ start[pair[1]] = start[pair[2]] /\ pair[1] < pair[2]}

\* The one of S that is before all others.
FirstOf(S, before) == CHOOSE i \in S : \A j \in S \ {i} : <<i, j>> \in before

\* S from first to last: in each turn, the first of those that remain.
Sorted(S, before) ==
    LET sorted[k \in 0 .. Cardinality(S)] ==
            IF k = 0 THEN <<>>
            ELSE Append(sorted[k - 1], FirstOf(S \ ToSet(sorted[k - 1]), before))
    IN sorted[Cardinality(S)]

\* The parent a node asks for, if it is there and another.
Named(rows) ==
    [i \in ToSet(ById(rows)) |->
        IF Contains(rows, i) /\ names[i] \in ToSet(ById(rows)) \ {i} THEN names[i] ELSE NoParent]

\* The walk from start to the first safe node, to a root, or once around a cycle.
Walk(parent, safe, start) ==
    LET step[k \in Nat] ==
            IF k = 0 THEN start
            ELSE IF step[k - 1] \in safe \cup {NoParent} THEN NoParent ELSE parent[step[k - 1]]
        length == CHOOSE k \in 0 .. Cardinality(DOMAIN parent) :
            /\ step[k] \in safe \cup {NoParent} \cup {step[j] : j \in 0 .. k - 1}
            /\ \A j \in 0 .. k - 1 : step[j] \notin safe \cup {NoParent} \cup {step[h] : h \in 0 .. j - 1}
    IN [path |-> {step[k] : k \in 0 .. length - 1}, at |-> step[length]]

\* Faulty variant: the start of the walk is cut off, on the cycle or not.
ParentsCutEarly(rows) ==
    FoldLeft(LAMBDA acc, start :
                 LET walk == Walk(acc.parent, acc.safe, start) IN
                 [parent |-> IF walk.at \in walk.path THEN [acc.parent EXCEPT ![start] = NoParent]
                             ELSE acc.parent,
                  safe |-> acc.safe \cup walk.path],
             [parent |-> Named(rows), safe |-> {}], ById(rows)).parent

\* parentOf when every cycle has been cut at the member where a walk closed it.
Parents(rows) ==
    FoldLeft(LAMBDA acc, start :
                 LET walk == Walk(acc.parent, acc.safe, start) IN
                 [parent |-> IF walk.at \in walk.path THEN [acc.parent EXCEPT ![walk.at] = NoParent]
                             ELSE acc.parent,
                  safe |-> acc.safe \cup walk.path],
             [parent |-> Named(rows), safe |-> {}], ById(rows)).parent

\* buildSpanTree: each node's parent, and the order of siblings.
Tree(rows) == [parent |-> Parents(rows), order |-> Sorted(ToSet(ById(rows)), Before(rows))]

\* What seq keeps of S, in its order.
Kept(seq, S) ==
    LET kept[k \in 0 .. Len(seq)] ==
            IF k = 0 THEN <<>>
            ELSE IF seq[k] \in S THEN Append(kept[k - 1], seq[k]) ELSE kept[k - 1]
    IN kept[Len(seq)]

\* The roots (p = NoParent), or p's children.
Children(tree, p) == Kept(tree.order, {i \in DOMAIN tree.parent : tree.parent[i] = p})

\* Each of ids, followed by its rows.
Laid(ids, rowsOf) ==
    LET laid[k \in 0 .. Len(ids)] ==
            IF k = 0 THEN <<>> ELSE laid[k - 1] \o <<ids[k]>> \o rowsOf[ids[k]]
    IN laid[Len(ids)]

\* Depth-first, parents before children, leaving out what is below "closed".
TreeRows(tree, closed) ==
    LET below[d \in Nat] ==
            [p \in DOMAIN tree.parent \cup {NoParent} |->
                IF d = 0 \/ p \in closed THEN <<>>
                ELSE Laid(Children(tree, p), below[d - 1])]
    IN below[Len(tree.order)][NoParent]

Weight(rows, i) == IF Contains(rows, i) THEN Tokens[i] ELSE 0

AddedUp(seq, weight) ==
    LET sum[k \in 0 .. Len(seq)] == IF k = 0 THEN 0 ELSE sum[k - 1] + weight[seq[k]]
    IN sum[Len(seq)]

\* A parent's roll-up takes in its children's.
FoldInto(tree, roll, i) == [roll EXCEPT ![i] = @ + AddedUp(Children(tree, i), roll)]

\* One pass over the pre-order backwards.
Rollups(rows, tree) ==
    LET preOrder == TreeRows(tree, {})
        n == Len(preOrder)
        roll[k \in 0 .. n] ==
            IF k = 0 THEN [i \in DOMAIN tree.parent |-> Weight(rows, i)]
            ELSE FoldInto(tree, roll[k - 1], preOrder[n + 1 - k])
    IN roll[n]

Orphaned(rows, tree) == {i \in ToSet(rows) : names[i] # NoParent /\ tree.parent[i] = NoParent}

\* flattenVisible.
Visible(tree) == TreeRows(tree, collapsed)

\* The header's total (deriveTraceView, getTraceDetail).
TokenTotal(rows) == AddedUp(rows, Tokens)

(***************************************************************************)
(* Properties.                                                             *)
(***************************************************************************)

\* Type invariant.
TreeTypeOK ==
    /\ names \in [TreeSpans -> ParentIds \cup {NoParent}]
    /\ arrived \in Seq(TreeSpans) /\ IsInjective(arrived)
    /\ running \in BOOLEAN
    /\ collapsed \subseteq ToSet(arrived)

\* The rows above i in the tree.
Above(tree, i) ==
    LET up[d \in Nat] ==
            IF d = 0 THEN {}
            ELSE LET shorter == up[d - 1] IN
                 (shorter \cup {tree.parent[j] : j \in {i} \cup shorter}) \ {NoParent}
    IN up[Len(tree.order)]

\* Whatever parents the spans name, the waterfall shows every span, and every
\* placeholder, exactly once, and a row only below its parent's.
EverySpanOnce ==
    LET tree == Tree(arrived)
        rows == TreeRows(tree, {}) IN
    /\ Len(rows) = Cardinality(ToSet(rows)) /\ ToSet(rows) = ToSet(ById(arrived))
    /\ ToSet(arrived) \subseteq ToSet(rows)
    /\ \A k \in DOMAIN rows :
           tree.parent[rows[k]] \in {NoParent} \cup {rows[j] : j \in 1 .. k - 1}

\* A row's roll-up adds up exactly the spans at and below it, each once, and
\* the roots' roll-ups come to the total in the header.
RollupsExact ==
    LET tree == Tree(arrived)
        roll == Rollups(arrived, tree) IN
    /\ \A i \in DOMAIN roll :
           roll[i] = TokenTotal(Kept(arrived, {j \in DOMAIN roll : j = i \/ i \in Above(tree, j)}))
    /\ TokenTotal(arrived) = AddedUp(Children(tree, NoParent), roll)

\* What i's ancestor chain meets, following the ids as the spans name them.
Chain(i) ==
    LET up[d \in Nat] ==
            IF d = 0 THEN {}
            ELSE LET shorter == up[d - 1] IN
                 shorter \cup {names[j] : j \in ({i} \cup shorter) \cap ToSet(arrived)}
    IN up[Len(arrived)]

\* A span loses the parent it names only if that parent is itself, or is not
\* there, or is on a cycle with it, and a cycle loses one link: the rest of it,
\* and what hangs from it, stays together.
OneCutPerCycle ==
    LET tree == Tree(arrived)
        cut  == {i \in Orphaned(arrived, tree) : names[i] # i /\ ~Missing(arrived, i)} IN
    /\ \A i \in cut : i \in Chain(i)
    /\ \A i \in ToSet(arrived) : i \in Chain(i) /\ names[i] # i
           => Cardinality(cut \cap Chain(i)) = 1

\* The waterfall built up live is the one a reload shows, whose rows come
\* sorted by start, unless the named parents form a cycle.
ReloadShowsSame ==
    LET reloaded == Sorted(ToSet(arrived), {pair \in TreeSpans \X TreeSpans : pair[1] < pair[2]})
        live     == Tree(arrived)
        again    == Tree(reloaded) IN
    (\A i \in ToSet(arrived) : i \in Chain(i) => names[i] = i) => Visible(live) = Visible(again)

\* Collapsing a row hides the whole subtree below it, and nothing else.
CollapseHidesSubtree ==
    LET tree == Tree(arrived) IN
    Visible(tree) =
        Kept(TreeRows(tree, {}), {i \in DOMAIN tree.parent : Above(tree, i) \cap collapsed = {}})

\* The waterfall is a faithful picture of the spans, live and reloaded, expanded
\* and collapsed.
TreeIsSound ==
    /\ TreeTypeOK /\ EverySpanOnce /\ RollupsExact
    /\ OneCutPerCycle /\ ReloadShowsSame /\ CollapseHidesSubtree

================================================================================
