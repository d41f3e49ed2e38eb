-------------------------------- MODULE Planner --------------------------------
(***************************************************************************)
(* What the planner page shows: internal/httpx/handlers_planner.go.        *)
(*                                                                         *)
(* Days are integers and instants are hours.  Day hours lie between one    *)
(* midnight and the next, but for the day on which the clocks change: a    *)
(* zone says which day that is and by how much it is longer or shorter.    *)
(* Months follow one another from month 1 on, and firsts[m] is the first   *)
(* day of month m; day d is weekday d % 7.                                 *)
(***************************************************************************)
EXTENDS Hours
LOCAL INSTANCE SequencesExt
LOCAL INSTANCE FiniteSetsExt

Midnight(zone, d) == d * Day + (IF d > zone.day THEN zone.by ELSE 0)

MonthOf(firsts, d) == CHOOSE m \in DOMAIN firsts :
                          firsts[m] <= d /\ (m + 1 \in DOMAIN firsts => d < firsts[m + 1])

(* The hours of the day that the page may be set to show.                  *)
DayWindows == {w \in [from : 0..Day, to : 0..Day] : w.to - w.from >= 1}
-------------------------------------------------------------------------------
(* The days from start to before end that a view shows around an anchor    *)
(* day, and the anchors of the buttons that lead on and back.              *)
Page(start, length, back, on) == [start |-> start, end |-> start + length, prev |-> back, next |-> on]

BackTo(d, weekStart) == d - ((d - weekStart + 7) % 7)

View(view, firsts, anchor, weekStart) ==
    LET month == MonthOf(firsts, anchor)
        first == BackTo(anchor, weekStart)
    IN CASE view = "day"   -> Page(anchor, 1, anchor - 1, anchor + 1)
         [] view = "3day"  -> Page(anchor, 3, anchor - 3, anchor + 3)
         [] view = "month" -> Page(BackTo(firsts[month], weekStart), 42,
                                   firsts[month - 1], firsts[month + 1])
         [] view = "week"  -> Page(first, 7, first - 7, first + 7)

(* The month a page is of: that of its middle, if it is long.  The middle  *)
(* of 42 days of which one is an hour longer falls before midnight.        *)
(* (MonthOfStart: as if all pages were of the month they begin in.)        *)
MonthOfStart(zone, firsts, page) == MonthOf(firsts, page.start)
AnchorMonth(zone, firsts, page) ==
    LET from == Midnight(zone, page.start)
        middle == from + (Midnight(zone, page.end) - from) \div 2
    IN IF page.end - page.start <= 8 THEN MonthOf(firsts, page.start)
       ELSE MonthOf(firsts, CHOOSE d \in page.start..(page.end - 1) :
                       Midnight(zone, d) <= middle /\ middle < Midnight(zone, d + 1))

InMonth(zone, firsts, page, d) == MonthOf(firsts, d) = AnchorMonth(zone, firsts, page)
-------------------------------------------------------------------------------
(* An event on the days of a page, each of which shows the hours of win    *)
(* counted from its midnight: what is clipped to the day decides the lane  *)
(* and the label, what is clipped to the hours is drawn.                   *)
OnPage(zone, page, e) == Overlap(e, Window(Midnight(zone, page.start), Midnight(zone, page.end)))

Shown(zone, d, win) == Window(Midnight(zone, d) + win.from, Midnight(zone, d) + win.to)

Piece(zone, d, e) == Clip(e, Midnight(zone, d), Midnight(zone, d + 1))

Timed(zone, page, win, e) ==
    {d \in page.start..(page.end - 1) :
        /\ Overlap(e, Window(Midnight(zone, d), Midnight(zone, d + 1)))
        /\ Overlap(Piece(zone, d, e), Shown(zone, d, win))}

Drawn(zone, d, win, e) == Clip(Piece(zone, d, e), Shown(zone, d, win).start, Shown(zone, d, win).end)

(* The hours an event adds to the total of its category.                   *)
Counted(zone, page, e) ==
    IF OnPage(zone, page, e)
    THEN Length(Clip(e, Midnight(zone, page.start), Midnight(zone, page.end))) ELSE 0

(* An all-day event fills the days from its first to before its end.       *)
AllDay(page, first, end) == {d \in page.start..(page.end - 1) : first <= d /\ d < end}
-------------------------------------------------------------------------------
(* The events of a day side by side: in the order of their starts they     *)
(* form clusters, one ending where an event begins that overlaps none      *)
(* before it; within a cluster each event takes the first lane that is     *)
(* free, and all are as wide as the lanes require.  (LastEnds: as if the   *)
(* latest event, not the longest, ended a cluster.)                        *)
LastEnds(end, e) == e.end
Stretched(end, e) == Later(end, e.end)

Gather(acc, e) ==
    IF acc.cluster # <<>> /\ e.start < acc.end
    THEN [acc EXCEPT !.cluster = Append(@, e), !.end = Stretched(@, e)]
    ELSE [done |-> Append(acc.done, acc.cluster), cluster |-> <<e>>, end |-> e.end]

Clusters(events) ==
    LET acc == FoldLeft(Gather, [done |-> <<>>, cluster |-> <<>>, end |-> 0], events)
    IN Append(acc.done, acc.cluster)

LayOut(acc, e) ==
    LET free == {l \in DOMAIN acc.ends : acc.ends[l] <= e.start}
        lane == IF free = {} THEN Len(acc.ends) + 1 ELSE Min(free)
    IN [ends |-> IF free = {} THEN Append(acc.ends, e.end) ELSE [acc.ends EXCEPT ![lane] = e.end],
        lanes |-> Append(acc.lanes, lane)]

Flush(cluster) ==
    LET acc == FoldLeft(LayOut, [ends |-> <<>>, lanes |-> <<>>], cluster)
    IN [i \in DOMAIN cluster |->
          [event |-> cluster[i], lane |-> acc.lanes[i], lanes |-> Len(acc.ends)]]

EventLanes(events) == FlattenSeq([i \in DOMAIN Clusters(events) |-> Flush(Clusters(events)[i])])
===============================================================================
