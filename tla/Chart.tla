------------------------------- MODULE Chart -------------------------------
(***************************************************************************)
(* One chart of a node's tab                                               *)
(* (src/public/frontend/jsm/nebula/polaris/simple_graph.js, class Graph):  *)
(* the numbers it plots, the interval its vertical axis shows, and the     *)
(* window of points that the wheel selects.                                *)
(*                                                                         *)
(* The plotted array only grows, so it is kept as its length and the       *)
(* results of the loops min() and max() over it.  A tenth of an interval   *)
(* is rounded to the unit values are counted in.  The vertical zoom only   *)
(* scales the drawing and is left out.                                     *)
(***************************************************************************)
EXTENDS Integers

CONSTANTS
    Placeholders,   \* points of a new chart: linesY - yAxis, 11 when 300 wide
    Unit,           \* the length of the first interval, 0 to 1, in units
    LeastMax,       \* where the loop of max() starts: -999
    MostMin,        \* where the loop of min() starts: 9999999999
    MaxZoom         \* bound: notches of the wheel

ASSUME ChartAssumption ==
    /\ Placeholders \in Nat
    /\ Unit \in Nat
    /\ LeastMax \in Int /\ MostMin \in Int
    /\ MaxZoom \in Nat

VARIABLES
    length,         \* points.length
    aggregated,     \* the length of the array that append is given
    hi, lo,         \* max and min over that array
    yRangeStart,
    yRangeEnd,
    labels,         \* _autoLabels.length
    zoomX,
    xBegin,         \* the first point that is drawn
    xEnd            \* the first that is not drawn any more

data   == <<length, aggregated, hi, lo, yRangeStart, yRangeEnd, labels>>
window == <<zoomX, xBegin, xEnd>>
chartVars == <<data, window>>

\* The constructor, init() and the first frame.
InitChart ==
    /\ length = Placeholders
    /\ aggregated = 0
    /\ hi = LeastMax /\ lo = MostMin
    /\ yRangeStart = 0 /\ yRangeEnd = Unit
    /\ labels = 0
    /\ zoomX = 0 /\ xBegin = 0 /\ xEnd = Placeholders

\* A new Graph takes the place of the old one.
NewChart ==
    /\ length' = Placeholders
    /\ aggregated' = 0
    /\ hi' = LeastMax /\ lo' = MostMin
    /\ yRangeStart' = 0 /\ yRangeEnd' = Unit
    /\ labels' = 0
    /\ zoomX' = 0 /\ xBegin' = 0 /\ xEnd' = Placeholders

-----------------------------------------------------------------------------

Higher(a, b) == IF a > b THEN a ELSE b
Lower(a, b)  == IF a < b THEN a ELSE b

Span == yRangeEnd - yRangeStart
Tenth(x) == x \div 10

\* The axis is fitted again when the values spread over more than 1.2 of it;
\* the slip is to compare with the interval that is fitted next.
FitsTwice(range) == range > 2 * Span
Outgrown(range)  == 5 * range > 6 * Span

\* Each append makes the next label; the slip is to label the new point only
\* when there is a label already.
LabelAfterFirst == IF labels = 0 THEN 0 ELSE labels + 1
NextLabel == labels + 1

\* The editor pushes y on the array of the chart and calls append with it: the
\* placeholders are gone with the first call.
AppendValue(y) ==
    /\ aggregated' = aggregated + 1
    /\ length' = aggregated + 1
    /\ hi' = Higher(hi, y)
    /\ lo' = Lower(lo, y)
    /\ IF Outgrown(hi' - lo')
       THEN /\ yRangeEnd' = hi' + Tenth(Span)
            /\ yRangeStart' = lo' - Tenth(Span)
       ELSE UNCHANGED <<yRangeStart, yRangeEnd>>
    /\ labels' = NextLabel
    /\ UNCHANGED window

\* The wheel moves the window while zoomX is positive, so the window is not
\* reset when the wheel is back where it was; the slip is to look at zoomX
\* before it is counted.
BeginBefore(z) == IF zoomX > 0 THEN zoomX ELSE xBegin
Begin(z)       == IF z > 0 THEN z ELSE xBegin

Wheel(z) ==
    /\ zoomX' = z
    /\ xBegin' = Begin(z)
    /\ xEnd' = IF z > 0 THEN length - z ELSE xEnd
    /\ UNCHANGED data

\* zoomX is counted down to zero; the slip is to count on, as zoomY is and is
\* then put back to zero.
AnyNotch == TRUE
Notched  == zoomX > 0

ZoomIn  == zoomX < MaxZoom /\ Wheel(zoomX + 1)
ZoomOut == Notched /\ Wheel(zoomX - 1)

\* computeDims; the slip is to trust the window the wheel left.
OldEnd == xEnd
NewEnd == length - zoomX

\* A frame computes the dimensions first and then draws xBegin .. xEnd - 1.
DrawChart ==
    /\ xEnd' = NewEnd
    /\ UNCHANGED <<data, zoomX, xBegin>>

-----------------------------------------------------------------------------
(***************************************************************************)
(* Properties of a chart.                                                  *)
(***************************************************************************)

ChartTypeOK ==
    /\ length \in Nat
    /\ aggregated \in Nat
    /\ hi \in Int /\ lo \in Int
    /\ yRangeStart \in Int /\ yRangeEnd \in Int
    /\ labels \in Nat
    /\ zoomX \in Nat /\ xBegin \in Nat /\ xEnd \in Int

\* The axis always shows nearly all of the spread of the values, 5/6 of it,
\* and has not shrunk below nothing, however values arrive.
SpanCovers ==
    /\ aggregated > 0 => 5 * (hi - lo) <= 6 * Span
    /\ Span >= 0

\* The tooltip pairs the label and the value of a point: there are as many of
\* one as of the other once a value arrived.
LabelPerPoint == aggregated > 0 => labels = length /\ length = aggregated

\* Zooming out all the way hides one point, the first, and no more: the window
\* starts where the wheel says, or at 1 when the wheel is back at 0.
AtMostFirstHidden == xBegin = zoomX \/ (zoomX = 0 /\ xBegin = 1)

\* A frame draws points that are there, also when the first value replaced the
\* placeholders while the chart was zoomed, or the chart was replaced.
FramesDrawPoints == xBegin .. NewEnd - 1 \subseteq 0 .. length - 1

\* However values, the wheel, frames and loads alternate, what append, the
\* wheel and computeDims leave behind fits together.
ChartSound == SpanCovers /\ LabelPerPoint /\ AtMostFirstHidden /\ FramesDrawPoints

=============================================================================
