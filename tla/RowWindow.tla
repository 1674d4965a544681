---------------------------------- MODULE RowWindow ----------------------------------
(***************************************************************************)
(* The windowed span rows of the trace page (useRowWindow and the rows     *)
(* TraceViewer renders, app/traces/[traceId]/TraceViewer.tsx): every row   *)
(* is RowHeight tall and only those near the viewport are mounted.  The    *)
(* browser owns el.scrollTop, tells of its changes by scroll events, and   *)
(* pulls it back when the content gets shorter; React's copy follows by    *)
(* way of an animation frame.                                              *)
(***************************************************************************)
EXTENDS Integers, FiniteSets

CONSTANTS
    RowHeight,      \* ROW_HEIGHT, in pixels
    Overscan,       \* OVERSCAN_ROWS
    Fallback,       \* FALLBACK_VIEWPORT_PX
    Boxes,          \* heights 70vh may come to, one for each size of the window
    MostRows        \* bound: rows

ASSUME WindowAssumption ==
    /\ RowHeight \in Nat \ {0} /\ Overscan \in Nat /\ Fallback \in Nat
    /\ Boxes \subseteq Nat \ {0} /\ MostRows \in Nat \ {0}

VARIABLES
    rowCount,       \* rows.length: the rows not under a collapsed span
    box,            \* max-h-[70vh]
    elTop,          \* el.scrollTop
    scrolled,       \* a scroll event is due
    frame,          \* frame.current: an animation frame is asked for
    scrollTop,      \* state: where the rows are rendered for
    viewportH       \* state: the height they are rendered for

rowVars == <<rowCount, box, elTop, scrolled, frame, scrollTop, viewportH>>

Lesser(a, b)  == IF a < b THEN a ELSE b
Greater(a, b) == IF a > b THEN a ELSE b

\* The region is as tall as its content up to its maximum, and scrolls the rest.
ClientHeight(n, b) == Lesser(n * RowHeight, b)
LastTop(n, b)      == n * RowHeight - ClientHeight(n, b)

\* measure(): on mount and when the window is resized.
Measured(n, b) == IF ClientHeight(n, b) = 0 THEN Fallback ELSE ClientHeight(n, b)

\* scrollToIndex(): the row goes to the middle of the viewport.
Middle(i, n, b) == Greater(0, i * RowHeight - Measured(n, b) \div 2 + RowHeight \div 2)

\* The page opens, at the row of the span in its URL if there is one to show.
RowInit ==
    /\ rowCount \in 1 .. MostRows
    /\ box \in Boxes
    /\ elTop \in {0} \cup {Lesser(Middle(i, rowCount, box), LastTop(rowCount, box)) :
                               i \in 0 .. rowCount - 1}
    /\ scrolled = (elTop # 0)
    /\ frame = FALSE
    /\ scrollTop = elTop
    /\ viewportH = Measured(rowCount, box)

\* The browser: content of n rows in a region of at most b pixels.
Reflow(n, b) ==
    /\ elTop' = Lesser(elTop, LastTop(n, b))
    /\ scrolled' = (scrolled \/ elTop' # elTop)

Scroll ==
    /\ elTop' \in 0 .. LastTop(rowCount, box)
    /\ scrolled' = TRUE
    /\ UNCHANGED <<rowCount, box, frame, scrollTop, viewportH>>

\* onScroll: at most one frame is asked for at a time.
OnScroll ==
    /\ scrolled /\ scrolled' = FALSE
    /\ frame' = TRUE
    /\ UNCHANGED <<rowCount, box, elTop, scrollTop, viewportH>>

\* The frame reads where the region is by then.
Frame ==
    /\ frame /\ frame' = FALSE
    /\ scrollTop' = elTop
    /\ UNCHANGED <<rowCount, box, elTop, scrolled, viewportH>>

\* The rows change: a span is expanded or collapsed, or all are; a delta brings
\* spans; a replay starts or shows its next span.
Rerender(n) ==
    /\ rowCount' = n
    /\ Reflow(n, box)
    /\ UNCHANGED <<box, frame, scrollTop, viewportH>>

Resize(b) ==
    /\ box' = b
    /\ viewportH' = Measured(rowCount, b)
    /\ Reflow(rowCount, b)
    /\ UNCHANGED <<rowCount, frame, scrollTop>>

RowNext ==
    \/ Scroll \/ OnScroll \/ Frame
    \/ \E n \in 1 .. MostRows : Rerender(n)
    \/ \E b \in Boxes : Resize(b)

RowSpec == RowInit /\ [][RowNext]_rowVars

(***************************************************************************)
(* What is rendered, and what the reader sees.                             *)
(***************************************************************************)
StartIndex == Greater(0, scrollTop \div RowHeight - Overscan)

\* Faulty variant: a row cut by the lower edge is left out.
EndIndexFloor == Lesser(rowCount, (scrollTop + viewportH) \div RowHeight + Overscan)

EndIndex == Lesser(rowCount,
                   (scrollTop + viewportH + RowHeight - 1) \div RowHeight + Overscan)

Mounted == StartIndex .. EndIndex - 1

InView == {i \in 0 .. rowCount - 1 :
              /\ (i + 1) * RowHeight > elTop
              /\ i * RowHeight < elTop + ClientHeight(rowCount, box)}

Apart == Greater(elTop - scrollTop, scrollTop - elTop)

\* No blank rows: React's scroll position is the region's own unless a scroll
\* event or a frame is under way, and as long as the two are within the overscan
\* every row in view is mounted, whatever is collapsed, resized or scrolled in the
\* meantime.  (Given that the height last measured is not less than the region's:
\* measure() runs on mount and on resize only, and a region opened with few rows
\* grows with them.)  Only a window's worth of rows is mounted, however many there
\* are.
RowsMounted ==
    /\ elTop # scrollTop => scrolled \/ frame
    /\ viewportH >= ClientHeight(rowCount, box) /\ Apart <= Overscan * RowHeight
           => InView \subseteq Mounted
    /\ EndIndex - StartIndex <= viewportH \div RowHeight + 2 * Overscan + 2

================================================================================
