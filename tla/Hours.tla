--------------------------------- MODULE Hours ---------------------------------
(***************************************************************************)
(* The window arithmetic of skulid: internal/hours/hours.go.               *)
(*                                                                         *)
(* A window is a half-open interval [start, end) of integer times.  The    *)
(* engines take a week's working hours, turn them into windows (Expand),   *)
(* take busy windows away (SubtractBusy) and look for room in what is left. *)
(* All the functions work on sequences, in whatever order these come: the  *)
(* ranges of a day are kept as the user typed them.                        *)
(***************************************************************************)
EXTENDS Integers, Sequences, TLC
LOCAL INSTANCE SequencesExt

CONSTANT Day   \* the length of a day

ASSUME DayAssumption == Day \in Nat \ {0}

Window(start, end) == [start |-> start, end |-> end]
Length(w) == w.end - w.start

Later(s, t) == IF s < t THEN t ELSE s
Earlier(s, t) == IF s < t THEN s ELSE t

(* Windows that only touch do not overlap.                                 *)
Overlap(a, b) == a.start < b.end /\ b.start < a.end

Sorted(ws) == SortSeq(ws, LAMBDA v, w : v.start < w.start)
-------------------------------------------------------------------------------
(* Merge: windows that overlap or touch become one; with a gap, also those *)
(* no further apart.  (JoinTo: as if a window inside the last one ended it.) *)
JoinTo(out, w, gap) ==
    IF out # <<>> /\ w.start - Last(out).end <= gap
    THEN [out EXCEPT ![Len(out)].end = w.end]
    ELSE Append(out, w)
Join(out, w, gap) ==
    IF out # <<>> /\ w.start - Last(out).end <= gap
    THEN [out EXCEPT ![Len(out)].end = Later(@, w.end)]
    ELSE Append(out, w)

MergeWithGap(ws, gap) == FoldLeft(LAMBDA out, w : Join(out, w, gap), <<>>, Sorted(ws))
Merge(ws) == MergeWithGap(ws, 0)

(* What is left of window s without b.  (CutHead: as if only the part      *)
(* before b were.)                                                         *)
CutHead(s, b) ==
    IF ~Overlap(s, b) THEN <<s>>
    ELSE IF s.start < b.start THEN <<Window(s.start, b.start)>> ELSE <<>>
Cut(s, b) ==
    IF ~Overlap(s, b) THEN <<s>>
    ELSE (IF s.start < b.start THEN <<Window(s.start, b.start)>> ELSE <<>>)
         \o (IF s.end > b.end THEN <<Window(b.end, s.end)>> ELSE <<>>)

CutAll(segs, b) == FlattenSeq([i \in DOMAIN segs |-> Cut(segs[i], b)])
SubtractBusy(avail, busy) ==
    FlattenSeq([i \in DOMAIN avail |-> FoldLeft(CutAll, <<avail[i]>>, busy)])
-------------------------------------------------------------------------------
(* Expand: the working hours of each day from "from" on, in steps of a day *)
(* until "to" is reached, clipped to both.  Hours is a function from       *)
(* weekdays 0..6 to sequences of ranges within a day.                      *)
OnDay(day, r) == Window(day * Day + r.start, day * Day + r.end)
Outside(w, from, to) == w.end < from \/ w.start > to
ClipEnd(w, from, to) == Window(w.start, Earlier(w.end, to))
Clip(w, from, to) == Window(Later(w.start, from), Earlier(w.end, to))

DaysFrom(from, to) == [n \in 1..((to - from + Day - 1) \div Day) |-> from \div Day + n - 1]
Expand(hours, from, to) ==
    FlattenSeq([n \in DOMAIN DaysFrom(from, to) |->
        LET day == DaysFrom(from, to)[n]
            ranges == hours[day % 7]
            windows == SelectSeq([i \in DOMAIN ranges |-> OnDay(day, ranges[i])],
                                 LAMBDA w : ~Outside(w, from, to))
        IN [i \in DOMAIN windows |-> Clip(windows[i], from, to)]])
-------------------------------------------------------------------------------
(* Looking for room in free time, the windows that SubtractBusy leaves.    *)
(* "None" says that there is none.                                         *)
None == [found |-> FALSE, slot |-> Window(0, 0)]
Slot(start, duration) == [found |-> TRUE, slot |-> Window(start, start + duration)]

(* The first free window that takes the whole duration, in the order in    *)
(* which the windows come.                                                 *)
FirstFit(free, duration, notBefore) ==
    LET start(i) == Later(free[i].start, notBefore)
        fits == {i \in DOMAIN free : start(i) + duration <= free[i].end}
    IN IF fits = {} THEN None
       ELSE Slot(start(CHOOSE i \in fits : \A j \in fits : i <= j), duration)
FirstFitSlot(avail, busy, duration, notBefore) ==
    FirstFit(SubtractBusy(avail, busy), duration, notBefore)

(* The start nearest to the ideal one, no further from it than flex; the   *)
(* first free window wins a tie.  (NearerOrEqual: as if the last did.)     *)
Distance(s, t) == Later(s - t, t - s)
NearerOrEqual(start, best, ideal) ==
    ~best.found \/ Distance(start, ideal) <= Distance(best.slot.start, ideal)
Nearer(start, best, ideal) ==
    ~best.found \/ Distance(start, ideal) < Distance(best.slot.start, ideal)

NearestFit(free, duration, flex, ideal) ==
    LET Better(best, f) ==
            LET lo == Later(f.start, ideal - flex)
                hi == Earlier(f.end - duration, ideal + flex)
                start == Earlier(Later(ideal, lo), hi)
            IN IF lo <= hi /\ Nearer(start, best, ideal) THEN Slot(start, duration) ELSE best
    IN FoldLeft(Better, None, free)
NearestFitSlot(avail, busy, duration, flex, ideal) ==
    NearestFit(SubtractBusy(avail, busy), duration, flex, ideal)

(* ChunkedSlots: the whole total in one window if there is such a window;  *)
(* otherwise pieces of at least minChunk, except for the last, in the order *)
(* of the windows, at most maxChunks of them.  (TooSmallNever: as if any  *)
(* piece would do.)                                                        *)
TooSmallNever(take, left, least) == FALSE
TooSmall(take, left, least) == take < least /\ take < left

Take(acc, f, least, notBefore, maxChunks) ==
    LET start == Later(f.start, notBefore)
        take == Earlier(f.end - start, acc.left)
    IN IF acc.left <= 0 \/ Len(acc.slots) >= maxChunks \/ f.end <= start
          \/ TooSmall(take, acc.left, least)
       THEN acc
       ELSE [slots |-> Append(acc.slots, Window(start, start + take)), left |-> acc.left - take]

Chunks(free, total, minChunk, notBefore, maxChunks) ==
    LET least == IF minChunk <= 0 THEN total ELSE Earlier(minChunk, total)
        whole == FirstFit(free, total, notBefore)
        acc == FoldLeft(LAMBDA a, f : Take(a, f, least, notBefore, maxChunks),
                        [slots |-> <<>>, left |-> total], free)
    IN IF total <= 0 \/ maxChunks <= 0
       THEN [slots |-> <<>>, placeable |-> 0, fits |-> total <= 0]
       ELSE IF whole.found
       THEN [slots |-> <<whole.slot>>, placeable |-> total, fits |-> TRUE]
       ELSE [slots |-> acc.slots, placeable |-> total - acc.left, fits |-> acc.left <= 0]
ChunkedSlots(avail, busy, total, minChunk, notBefore, maxChunks) ==
    Chunks(SubtractBusy(avail, busy), total, minChunk, notBefore, maxChunks)
-------------------------------------------------------------------------------
(* The assistant's find_free_time (internal/ai/tools.go) has arithmetic of  *)
(* its own: what is left of a span without the busy windows of all the     *)
(* calendars asked for, in pieces that are long enough.                    *)
Reaches(acc, w) == acc # <<>> /\ w.start <= Last(acc).end
MergeBusy(busy) ==
    FoldLeft(LAMBDA acc, w : IF Reaches(acc, w) THEN [acc EXCEPT ![Len(acc)].end = Later(@, w.end)]
                             ELSE Append(acc, w),
             <<>>, Sorted(busy))

(* A window that only touches is taken away too, to no effect.             *)
Rest(w, b) ==
    IF b.end < w.start \/ b.start > w.end THEN <<w>>
    ELSE (IF w.start < b.start THEN <<Window(w.start, b.start)>> ELSE <<>>)
         \o (IF w.end > b.end THEN <<Window(b.end, w.end)>> ELSE <<>>)

FreeTime(span, busy, least) ==
    SelectSeq(FoldLeft(LAMBDA ws, b : FlattenSeq([i \in DOMAIN ws |-> Rest(ws[i], b)]),
                       <<span>>, MergeBusy(busy)),
              LAMBDA w : Length(w) >= least)
===============================================================================
