-------------------------------- MODULE MCHours --------------------------------
(***************************************************************************)
(* The functions of Hours and Planner against their meaning, point by      *)
(* point, on all small inputs.  The inputs grow by one window at a time;   *)
(* they come in any order, and available windows may overlap or be empty,  *)
(* as the ranges a user types and a clipped day leave them.                *)
(***************************************************************************)
EXTENDS Planner, FiniteSets
LOCAL INSTANCE FiniteSetsExt

CONSTANTS MaxTime, MaxAvail, MaxBusy

VARIABLES avail, busy

Windows == {w \in [start : 0..MaxTime, end : 0..MaxTime] : w.start <= w.end}

Init == avail = <<>> /\ busy = <<>>

AddAvail(w) == Len(avail) < MaxAvail /\ avail' = Append(avail, w) /\ UNCHANGED busy
AddBusy(w) ==
    /\ w.start < w.end /\ Len(busy) < MaxBusy
    /\ busy' = Append(busy, w)
    /\ UNCHANGED avail

Next == \E w \in Windows : AddAvail(w) \/ AddBusy(w)

Spec == Init /\ [][Next]_<<avail, busy>>
-------------------------------------------------------------------------------
Covers(w, t) == w.start <= t /\ t < w.end
Covered(ws) == {t \in 0..(3 * Day) : \E i \in DOMAIN ws : Covers(ws[i], t)}
Apart(ws) == \A i, j \in DOMAIN ws : i < j => ws[i].end <= ws[j].start

Free == SubtractBusy(avail, busy)

(* Merging keeps what was covered, bridges the gaps up to the given width  *)
(* and no others, and leaves windows that are further apart than that.     *)
Bridged(ws, gap) ==
    {t \in 0..MaxTime :
        LET before == {i \in DOMAIN ws : ws[i].start <= t}
            after == DOMAIN ws \ before
        IN /\ before # {} /\ after # {}
           /\ Min({ws[i].start : i \in after}) - Max({ws[i].end : i \in before}) <= gap}

MergeRight ==
    LET ws == avail \o busy
    IN \A gap \in 0..2 :
        LET merged == MergeWithGap(ws, gap)
        IN /\ Covered(merged) = Covered(ws) \cup Bridged(ws, gap)
           /\ \A i, j \in DOMAIN merged : i < j => merged[j].start - merged[i].end > gap

(* What is free is what is available and not busy, whatever the order and  *)
(* the overlaps of the windows, and each free window lies in one available *)
(* window.                                                                 *)
SubtractRight ==
    /\ Covered(Free) = Covered(avail) \ Covered(busy)
    /\ \A i \in DOMAIN Free : \E j \in DOMAIN avail :
          avail[j].start <= Free[i].start /\ Free[i].end <= avail[j].end

(* Both at once: the windows the engines reckon with are right.            *)
WindowsRight == MergeRight /\ SubtractRight

(* A habit is placed within its flexibility and as near to its ideal time  *)
(* as there is room, the earlier of two equally near starts (when the      *)
(* ranges of the day come in order), or not at all if there is no room.    *)
Starts(free, duration) ==
    {s \in 0..MaxTime : \E i \in DOMAIN free : free[i].start <= s /\ s + duration <= free[i].end}

NearestRight ==
    LET free == Free
    IN \A duration \in 1..2, flex \in 0..2, ideal \in 0..MaxTime :
        LET best == NearestFit(free, duration, flex, ideal)
            starts == {s \in Starts(free, duration) : Distance(s, ideal) <= flex}
        IN /\ best.found <=> starts # {}
           /\ best.found =>
                /\ best.slot.start \in starts /\ Length(best.slot) = duration
                /\ \A s \in starts :
                      \/ Distance(best.slot.start, ideal) < Distance(s, ideal)
                      \/ Distance(best.slot.start, ideal) = Distance(s, ideal)
                         /\ (Apart(avail) => best.slot.start <= s)

(* A task's pieces lie in free time from notBefore on, are as many and as  *)
(* long as allowed, add up to what the plan says, are one piece whenever   *)
(* one suffices, are in order when the ranges are; and a plan that does    *)
(* not fit has used its pieces or all the room there is.                   *)
Room(f, notBefore) == f.end - Later(f.start, notBefore)

ChunksRight ==
    LET free == Free
    IN \A total \in 1..3, minChunk \in 0..2, notBefore \in 0..1, maxChunks \in 1..2 :
        LET plan == Chunks(free, total, minChunk, notBefore, maxChunks)
            least == IF minChunk = 0 THEN total ELSE Earlier(minChunk, total)
            slots == plan.slots
        IN /\ plan.placeable = MapThenSumSet(LAMBDA i : Length(slots[i]), DOMAIN slots)
           /\ plan.fits <=> plan.placeable = total
           /\ Len(slots) <= maxChunks
           /\ \A i \in DOMAIN slots :
                /\ notBefore <= slots[i].start /\ slots[i].start < slots[i].end
                /\ Length(slots[i]) >= least \/ (i = Len(slots) /\ plan.fits)
                /\ \E j \in DOMAIN free :
                      free[j].start <= slots[i].start /\ slots[i].end <= free[j].end
           /\ Len(slots) > 1 => \A i \in DOMAIN free : Room(free[i], notBefore) < total
           /\ Apart(avail) => Apart(slots)
           /\ ~plan.fits =>
                \/ Len(slots) = maxChunks
                \/ plan.placeable = MapThenSumSet(LAMBDA i : Room(free[i], notBefore),
                                        {i \in DOMAIN free : Room(free[i], notBefore) >= least})

(* What the assistant is told is free are the longest windows of the span  *)
(* that nobody is busy in, all that are long enough, in their order, each  *)
(* once, whichever calendars the busy windows come from.                   *)
Quiet(w) == \A i \in DOMAIN busy : ~Overlap(w, busy[i])
Longest(w, span) ==
    /\ w.start = span.start \/ ~Quiet(Window(w.start - 1, w.start))
    /\ w.end = span.end \/ ~Quiet(Window(w.end, w.end + 1))

FreeTimeRight ==
    \A span \in {w \in Windows : w.start < w.end}, least \in 1..2 :
        LET told == FreeTime(span, busy, least)
        IN /\ \A i, j \in DOMAIN told : i < j => told[i].end < told[j].start
           /\ {told[i] : i \in DOMAIN told}
                = {w \in Windows : /\ span.start <= w.start /\ w.end <= span.end
                                   /\ Length(w) >= least /\ Quiet(w) /\ Longest(w, span)}

(* All at once: the slots of habits and of tasks, and those the assistant  *)
(* is told of, are right.                                                  *)
SlotsRight == NearestRight /\ ChunksRight /\ (avail = <<>> => FreeTimeRight)

(* Working hours that change from one day to the next: the windows cover   *)
(* no time but the working times of the span, and all of those if the span *)
(* begins at midnight (as the days of the rule engine and of habits do) or *)
(* ends later in the day than it began.                                    *)
WeekOf(even, odd) == [d \in 0..6 |-> SelectSeq(IF d % 2 = 0 THEN even ELSE odd,
                                               LAMBDA r : r.start < r.end)]
WorkingTimes(week, from, to) ==
    {t \in from..(to - 1) : \E i \in DOMAIN week[(t \div Day) % 7] :
        Covers(week[(t \div Day) % 7][i], t % Day)}

Spans == {w \in [start : 0..(Day - 1), end : 0..(2 * Day)] : w.start < w.end}

Got(s) == Covered(Expand(WeekOf(avail, busy), s.start, s.end))
DueIn(s) == WorkingTimes(WeekOf(avail, busy), s.start, s.end)

ExpandRight ==
    \A s \in Spans :
        /\ Got(s) \subseteq DueIn(s)
        /\ s.start % Day = 0 \/ s.end % Day > s.start % Day => Got(s) = DueIn(s)

(* The comment on Expand: the weekday hours rendered across [from, to),    *)
(* whatever the span.  The loop goes in whole days from the time of day of *)
(* "from", and never comes to the last day of a span that ends no later in *)
(* the day than it began: the engines' "now, and so many days on".         *)
ExpandCovers == \A s \in Spans : Got(s) = DueIn(s)
-------------------------------------------------------------------------------
(* Events of a day, side by side: none lies on another of its lane, those  *)
(* that overlap are equally wide, and no wider than the most events under  *)
(* way at once in their cluster require.  Events that start together come  *)
(* in any order (sort.Slice is not stable).                                *)
Events == Sorted(avail \o busy)

Width(i) == Cardinality({j \in 1..i : j = i \/ Events[j].end > Events[i].start})
Together(i, j) == \A k \in (i + 1)..j : \E h \in 1..(k - 1) : Events[h].end > Events[k].start
Cluster(i) == {j \in DOMAIN Events : IF i <= j THEN Together(i, j) ELSE Together(j, i)}

LanesRight ==
    Events # <<>> =>
        LET laid == EventLanes(Events)
        IN /\ [i \in DOMAIN laid |-> laid[i].event] = Events
           /\ \A i \in DOMAIN laid :
                /\ laid[i].lane \in 1..laid[i].lanes
                /\ laid[i].lanes = Max({Width(j) : j \in Cluster(i)})
                /\ \A j \in 1..(i - 1) :
                      Events[j].end > Events[i].start =>
                          laid[j].lane # laid[i].lane /\ laid[j].lanes = laid[i].lanes

(* The pages of the planner: the anchor is on its page, weeks and months   *)
(* begin on the chosen weekday, the month's grid holds the month and tells *)
(* its days from the others even if the clocks change in it, and the two   *)
(* buttons lead to the adjoining page and undo each other; an event of     *)
(* whole days is on a page just where it is on the pages of single days.   *)
Firsts(m, n) == <<0, 31, 31 + m, 31 + m + n, 61 + m + n>>

PagesRight ==
    \A m, n \in 28..31, weekStart \in 0..6 :
        LET firsts == Firsts(m, n)
            days == firsts[3]..(firsts[4] - 1)
            page(view, anchor) == View(view, firsts, anchor, weekStart)
            grid == page("month", firsts[3])
        IN /\ \A view \in {"day", "3day", "week", "month"}, anchor \in days :
                LET p == page(view, anchor)
                    next == page(view, p.next)
                    prev == page(view, p.prev)
                IN /\ p.start <= anchor /\ anchor < p.end
                   /\ view \in {"week", "month"} => p.start % 7 = weekStart
                   /\ IF view = "month" THEN p = grid ELSE next.start = p.end /\ prev.end = p.start
                   /\ page(view, next.prev) = p /\ page(view, prev.next) = p
           /\ days \subseteq grid.start..(grid.end - 1)
           /\ \A by \in {-1, 0, 1}, change \in {0, 10, 20, 21, 30} :
                LET zone == [day |-> grid.start + change, by |-> by]
                    month == AnchorMonth(zone, firsts, grid)
                IN {d \in grid.start..(grid.end - 1) : MonthOf(firsts, d) = month} = days
           /\ \A first \in (grid.start - 1)..(grid.start + 1), length \in {1, 2, 7, 50} :
                AllDay(grid, first, first + length) \cap days
                    = UNION {AllDay(page("day", d), first, first + length) : d \in days}

(* What is drawn of an event is what of it falls into the hours shown of   *)
(* each day, counted from midnight (so the last hour of a day of 25 is     *)
(* never drawn); it stays inside its column; the hours counted are those   *)
(* on the page.                                                            *)
DrawnRight ==
    \A by \in {-1, 0, 1}, change \in 0..2, win \in DayWindows :
        LET zone == [day |-> change, by |-> by]
            page == View("3day", <<0>>, 0, 0)
            last == Midnight(zone, page.end)
            hoursOf(d) == Midnight(zone, d)..(Midnight(zone, d + 1) - 1)
        IN \A start \in -2..last, end \in 0..(last + 2) :
              LET e == Window(start, end)
                  covered == {t \in 0..(last - 1) : Covers(e, t)}
              IN start <= end =>
                   /\ Counted(zone, page, e) = Cardinality(covered)
                   /\ \A d \in 0..2 :
                        LET shown == {t \in hoursOf(d) : t - Midnight(zone, d) \in win.from..(win.to - 1)}
                            drawn == Drawn(zone, d, win, e)
                        IN IF d \in Timed(zone, page, win, e)
                           THEN /\ {t \in hoursOf(d) : Covers(drawn, t)} = covered \cap shown
                                /\ Shown(zone, d, win).start <= drawn.start
                                /\ drawn.start <= drawn.end /\ drawn.end <= Shown(zone, d, win).end
                           ELSE covered \cap shown = {}

PageRight == avail = <<>> /\ busy = <<>> => PagesRight /\ DrawnRight
===============================================================================
