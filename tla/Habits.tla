------------------------------- MODULE Habits -------------------------------
(***************************************************************************)
(* The life of one habit of skulid: Scheduler.PlaceHabit of                *)
(* internal/sync/scheduler.go, the rows of internal/db/habits.go, and what *)
(* the pages (internal/httpx/handlers_habits.go), the assistant            *)
(* (internal/ai/tools_tasks_habits.go) and the maintenance pass of         *)
(* internal/worker/worker.go do to them.                                   *)
(*                                                                         *)
(* A placement reads the habit and all its occurrences once, and then goes *)
(* through the days of the horizon: for each it asks Google for the busy   *)
(* time, picks the free slot nearest to the ideal time, moves or inserts   *)
(* the event, and writes the occurrence's row.  Nothing keeps two          *)
(* placements, or a placement and an edit, apart.                          *)
(*                                                                         *)
(* A day is a row of slots, each as long as an occurrence.                 *)
(***************************************************************************)
EXTENDS Naturals, FiniteSets

CONSTANTS
    Cals,       \* target calendars
    BlockIds,   \* ids Google may give to the habit's events
    NoBlock,    \* no event
    Handlers,   \* goroutines the pages and the assistant work in
    Ticker,     \* the goroutine of the maintenance pass
    LastDay,    \* the days are 1..LastDay
    Ahead,      \* the horizon: how many days from today on are placed
    LastSlot,   \* the slots of a day are 1..LastSlot
    Flex,       \* how many slots an occurrence may be off the ideal one
    MaxAsks,    \* bound on what users do and on other people's meetings
    MaxUpsets   \* bound on failures, timeouts and crashes

ASSUME HabitAssumption ==
    /\ Cals # {} /\ NoBlock \notin BlockIds /\ Ticker \notin Handlers
    /\ LastDay \in Nat \ {0} /\ Ahead \in Nat \ {0} /\ LastSlot \in Nat \ {0} /\ Flex \in Nat
    /\ MaxAsks \in Nat /\ MaxUpsets \in Nat

VARIABLES
    habit,    \* the habit's row
    occ,      \* occ[d]: the habit_occurrence row of day d
    born,     \* how many occurrence rows there have been
    event,    \* event[b]: the event Google holds under id b
    busy,     \* the <<day, slot>>s other events of the user take
    hours,    \* the slots of a day within the account's hours
    today,
    proc,     \* proc[p]: what goroutine p does and knows
    asks,     \* how much was asked so far
    lost,     \* history: events lost sight of, or whose row misstates them
    alone,    \* history: placements that nothing has disturbed
    inStep,   \* history: nothing has changed since an undisturbed placement
    orderly,  \* history: no two goroutines were at work at once
    upsets    \* history: failures so far

stored == <<habit, occ, born>>
given  == <<busy, hours, today, asks>>
seen   == <<alone, inStep, orderly>>
vars   == <<stored, event, given, proc, lost, seen, upsets>>

Placers == Handlers \cup {Ticker}
Days == 1..LastDay
Slots == 1..LastSlot
AnyCal == CHOOSE c \in Cals : TRUE

NoRow  == [id |-> 0, event |-> NoBlock, slot |-> 0]
NoRows == [d \in Days |-> NoRow]
Unused == [state |-> "unborn", cal |-> AnyCal, day |-> 0, slot |-> 0]
NewHabit == [kept |-> TRUE, on |-> TRUE, cal |-> AnyCal, days |-> Days, ideal |-> 1]
NoProc == [at |-> "idle", row |-> NewHabit, occ |-> NoRows, day |-> 0, from |-> 0,
           slot |-> 0, hand |-> NoBlock]

Habit == [kept : BOOLEAN, on : BOOLEAN, cal : Cals, days : SUBSET Days, ideal : Slots]
OccRow == [id : Nat \ {0}, event : BlockIds, slot : Slots] \cup {NoRow}
Events == [state : {"unborn", "live", "gone"}, cal : Cals, day : 0..LastDay, slot : 0..LastSlot]
Places == {"idle", "wipe", "update", "read", "list", "look", "put", "note",
           "drop", "dropped", "erase", "erased"}
ProcStates == [at : Places, row : Habit, occ : [Days -> OccRow], day : 0..LastDay,
               from : 0..LastDay, slot : 0..LastSlot, hand : BlockIds \cup {NoBlock}]

TypeOK ==
    /\ habit \in Habit
    /\ born \in Nat /\ occ \in [Days -> OccRow]
    /\ event \in [BlockIds -> Events]
    /\ busy \subseteq Days \X Slots /\ hours \subseteq Slots /\ today \in Days /\ asks \in 0..MaxAsks
    /\ proc \in [Placers -> ProcStates]
    /\ lost \subseteq BlockIds /\ alone \subseteq Placers /\ inStep \in BOOLEAN
    /\ orderly \in BOOLEAN
    /\ upsets \in 0..MaxUpsets

Init ==
    /\ habit = NewHabit
    /\ occ = NoRows /\ born = 0
    /\ event = [b \in BlockIds |-> Unused]
    /\ busy = {} /\ hours \in SUBSET Slots /\ today = 1 /\ asks = 0
    /\ proc = [p \in Placers |-> NoProc]
    /\ lost = {} /\ alone = {} /\ inStep = FALSE /\ orderly = TRUE /\ upsets = 0
-------------------------------------------------------------------------------
Live == {b \in BlockIds : event[b].state = "live"}
Unborn == {b \in BlockIds : event[b].state = "unborn"}
Placed == {d \in Days : occ[d].id # 0}
There(b, c) == b \in Live /\ event[b].cal = c

Horizon(from) == {d \in Days : from <= d /\ d < from + Ahead}

(* busyEverywhere for a day: what Google reports as taken, the habit's own *)
(* events included, less the windows skulid has rows for.  Of that, a      *)
(* placement takes out a window that is exactly its own occurrence's.      *)
Taken(d) ==
    ({s \in Slots : <<d, s>> \in busy} \cup {event[b].slot : b \in {x \in Live : event[x].day = d}})
        \ {occ[e].slot : e \in {d} \cap Placed}
Single(d, s) == {s - 1, s + 1} \cap Taken(d) = {}
OpenTo(d, own) == {s \in hours : s \in Taken(d) => s = own /\ Single(d, s)}

(* hours.NearestFitSlot: the free slot nearest to the ideal, the earlier   *)
(* of two, if it is not off by more than the flex.                         *)
Off(s, ideal) == IF s < ideal THEN ideal - s ELSE s - ideal
Fitting(free, ideal) == {s \in free : Off(s, ideal) <= Flex}
Nearest(free, ideal) ==
    CHOOSE s \in Fitting(free, ideal) : \A t \in Fitting(free, ideal) :
        \/ Off(s, ideal) < Off(t, ideal)
        \/ Off(s, ideal) = Off(t, ideal) /\ s <= t

Idle(p) == proc[p].at = "idle"
Ends(p) == proc' = [proc EXCEPT ![p] = NoProc]
Upset == upsets < MaxUpsets /\ upsets' = upsets + 1
Ask == asks < MaxAsks /\ asks' = asks + 1
Alone == \A q \in Placers : Idle(q)
Disturb == alone' = {} /\ inStep' = FALSE /\ UNCHANGED orderly
Enters == alone' = {} /\ inStep' = FALSE /\ orderly' = (orderly /\ Alone)
-------------------------------------------------------------------------------
(* Users, other people, and time.                                          *)
Meet ==
    /\ Ask
    /\ \E m \in Days \X Slots : busy' = (busy \ {m}) \cup ({m} \ busy)
    /\ Disturb
    /\ UNCHANGED <<stored, event, hours, today, proc, lost, upsets>>

EditHours ==
    /\ Ask
    /\ \E s \in Slots : hours' = (hours \ {s}) \cup ({s} \ hours)
    /\ Disturb
    /\ UNCHANGED <<stored, event, busy, today, proc, lost, upsets>>

(* The user deletes an occurrence's event in Google Calendar.              *)
RemoveByHand ==
    /\ Ask
    /\ \E b \in Live :
          /\ event' = [event EXCEPT ![b].state = "gone"]
          /\ lost' = lost \cup {b}
    /\ Disturb
    /\ UNCHANGED <<stored, busy, hours, today, proc, upsets>>

NextDay ==
    /\ today < LastDay
    /\ today' = today + 1
    /\ Disturb
    /\ UNCHANGED <<stored, event, busy, hours, asks, proc, lost, upsets>>

(* handleHabitSave of a habit there is, and update_habit: they read the row, *)
(* and first delete the occurrences from today on, then write the habit.   *)
(* The events stay on the calendar, and nothing names them any more.       *)
SaveHabit(h) ==
    /\ habit.kept /\ Ask /\ Idle(h)
    /\ \E c \in Cals, on \in BOOLEAN, ds \in SUBSET Days, i \in Slots :
          proc' = [proc EXCEPT ![h].at = "wipe",
                               ![h].row = [kept |-> TRUE, on |-> on, cal |-> c, days |-> ds, ideal |-> i]]
    /\ Enters
    /\ UNCHANGED <<stored, event, busy, hours, today, lost, upsets>>

WipeDays == {d \in Placed : d >= today}
Wipe(p) ==
    /\ proc[p].at = "wipe"
    /\ occ' = [d \in Days |-> IF d \in WipeDays THEN NoRow ELSE occ[d]]
    /\ lost' = lost \cup {occ[d].event : d \in WipeDays}
    /\ proc' = [proc EXCEPT ![p].at = "update"]
    /\ UNCHANGED <<habit, born, event, given, seen, upsets>>

(* A placement begins: alone, or with others at work.                      *)
Begins(p) ==
    LET by == \A q \in Placers \ {p} : Idle(q)
    IN /\ alone' = IF by THEN {p} ELSE {}
       /\ inStep' = FALSE /\ orderly' = (orderly /\ by)

(* The page has a habit that was switched off placed too; the placement    *)
(* looks at that itself.                                                   *)
Update(p) ==
    /\ proc[p].at = "update"
    /\ habit' = IF habit.kept THEN proc[p].row ELSE habit
    /\ proc' = [proc EXCEPT ![p] = [NoProc EXCEPT !.at = "read"]]
    /\ Begins(p)
    /\ UNCHANGED <<occ, born, event, given, lost, upsets>>

Starts(p) ==
    /\ Idle(p)
    /\ proc' = [proc EXCEPT ![p].at = "read"]
    /\ Begins(p)

(* The page's Recompute, or a new habit.                                   *)
PlaceNow(h) ==
    /\ habit.kept /\ Ask
    /\ Starts(h)
    /\ UNCHANGED <<stored, event, busy, hours, today, lost, upsets>>

(* runMaintenance: every habit that is on, every six hours.                *)
(* (ListNew: as if only those without an occurrence were listed.)          *)
ListNew == habit.kept /\ habit.on /\ Placed = {}
ListEnabled == habit.kept /\ habit.on

Maintain ==
    /\ ListEnabled
    /\ Starts(Ticker)
    /\ UNCHANGED <<stored, event, given, lost, upsets>>
-------------------------------------------------------------------------------
(* Scheduler.PlaceHabit.                                                   *)

(* A habit that is gone, off, or without a day is left alone; so is one    *)
(* whose calendar is off or whose account cannot be reached, then or at    *)
(* any later day, which is Fails.                                          *)
Read(p) ==
    /\ proc[p].at = "read"
    /\ IF habit.kept /\ habit.on /\ habit.days # {}
       THEN proc' = [proc EXCEPT ![p].at = "list", ![p].row = habit, ![p].from = today]
       ELSE Ends(p)
    /\ UNCHANGED <<stored, event, given, lost, seen, upsets>>

(* Go on to the first day of the horizon from d on that the habit is for.  *)
(* (RestAfter: as if today were left out.)                                 *)
RestAfter(p, d) == {e \in Horizon(proc[p].from) \cap proc[p].row.days : e >= d /\ e > proc[p].from}
Rest(p, d) == {e \in Horizon(proc[p].from) \cap proc[p].row.days : e >= d}
First(s) == CHOOSE d \in s : \A e \in s : d <= e
GoOn(p, q, d) ==
    LET rest == Rest(p, d)
    IN IF rest = {}
       THEN /\ Ends(p)
            /\ inStep' = (p \in alone) /\ alone' = alone \ {p}
            /\ UNCHANGED orderly
       ELSE /\ proc' = [proc EXCEPT ![p] = [q EXCEPT !.at = "look", !.day = First(rest),
                                                     !.slot = 0, !.hand = NoBlock]]
            /\ UNCHANGED seen

List(p) ==
    /\ proc[p].at = "list"
    /\ GoOn(p, [proc[p] EXCEPT !.occ = occ], proc[p].from)
    /\ UNCHANGED <<stored, event, given, lost, upsets>>

(* What a placement knows of the occurrence of the day it is at.           *)
Prev(p) == proc[p].occ[proc[p].day]
HasPrev(p) == Prev(p).id # 0

(* Nothing fits: the occurrence goes, if there is one.  One that is in the *)
(* slot already stays.                                                     *)
Same(p, s) == HasPrev(p) /\ Prev(p).slot = s

Look(p) ==
    /\ proc[p].at = "look"
    /\ LET fits == Fitting(OpenTo(proc[p].day, Prev(p).slot), proc[p].row.ideal)
           slot == Nearest(OpenTo(proc[p].day, Prev(p).slot), proc[p].row.ideal)
       IN CASE fits = {} /\ HasPrev(p) ->
                  /\ proc' = [proc EXCEPT ![p].at = "drop"]
                  /\ UNCHANGED seen
            [] fits # {} /\ ~Same(p, slot) ->
                  /\ proc' = [proc EXCEPT ![p].at = "put", ![p].slot = slot]
                  /\ UNCHANGED seen
            [] OTHER -> GoOn(p, proc[p], proc[p].day + 1)
    /\ UNCHANGED <<stored, event, given, lost, upsets>>

(* An event that is not where its row says was in its own way: acting on   *)
(* it opens a slot the placement took for taken.                           *)
ActsOn(p) ==
    /\ alone' = IF event[Prev(p).event].slot # Prev(p).slot THEN alone \ {p} ELSE alone
    /\ UNCHANGED <<inStep, orderly>>

(* Delete the event and then, whatever came of it, the row that was read.  *)
(* (DropKeeping: as if the event were kept.)                               *)
DropKeeping(b, c) == event
Dropped(b, c) == IF There(b, c) THEN [event EXCEPT ![b].state = "gone"] ELSE event

DropEvent(p) ==
    /\ proc[p].at = "drop"
    /\ LET b == Prev(p).event
           c == proc[p].row.cal
       IN \/ /\ event' = Dropped(b, c)
             /\ lost' = IF b \in Live /\ event[b].cal # c THEN lost \cup {b} ELSE lost
             /\ UNCHANGED upsets
          \/ /\ Upset
             /\ lost' = lost \cup {b}
             /\ UNCHANGED event
    /\ proc' = [proc EXCEPT ![p].at = "dropped", ![p].hand = Prev(p).event]
    /\ ActsOn(p)
    /\ UNCHANGED <<stored, given>>

DropRow(p) ==
    /\ proc[p].at = "dropped"
    /\ LET d == proc[p].day
           there == occ[d].id = Prev(p).id
       IN /\ occ' = IF there THEN [occ EXCEPT ![d] = NoRow] ELSE occ
          /\ lost' = IF there /\ occ[d].event # proc[p].hand THEN lost \cup {occ[d].event} ELSE lost
    /\ GoOn(p, proc[p], proc[p].day + 1)
    /\ UNCHANGED <<habit, born, event, given, upsets>>

(* Move the event the occurrence had, or insert one.                       *)
MoveEvent(p) ==
    /\ proc[p].at = "put" /\ HasPrev(p) /\ There(Prev(p).event, proc[p].row.cal)
    /\ event' = [event EXCEPT ![Prev(p).event].slot = proc[p].slot]
    /\ proc' = [proc EXCEPT ![p].at = "note", ![p].hand = Prev(p).event]
    /\ ActsOn(p)
    /\ UNCHANGED <<stored, given, lost, upsets>>

Inserted(p, b) ==
    [event EXCEPT ![b] = [state |-> "live", cal |-> proc[p].row.cal,
                          day |-> proc[p].day, slot |-> proc[p].slot]]
Fresh == CHOOSE b \in Unborn : TRUE

InsertEvent(p) ==
    /\ proc[p].at = "put" /\ ~HasPrev(p) /\ Unborn # {}
    /\ event' = Inserted(p, Fresh)
    /\ proc' = [proc EXCEPT ![p].at = "note", ![p].hand = Fresh]
    /\ UNCHANGED <<stored, given, lost, seen, upsets>>

(* HabitOccurrenceRepo.Upsert: the day's row is made, or names this event  *)
(* from now on; one it named before is forgotten.  It is refused once the  *)
(* habit is gone.                                                          *)
Upserted(d, b, s) ==
    [occ EXCEPT ![d] = [id |-> IF d \in Placed THEN occ[d].id ELSE born + 1, event |-> b, slot |-> s]]

Note(p) ==
    /\ proc[p].at = "note"
    /\ LET d == proc[p].day
           b == proc[p].hand
           s == proc[p].slot
       IN IF habit.kept
          THEN /\ occ' = Upserted(d, b, s)
               /\ born' = IF d \in Placed THEN born ELSE born + 1
               /\ lost' = lost \cup ({occ[e].event : e \in {d} \cap Placed} \ {b})
                               \cup {e \in {b} : e \notin Live \/ event[e].slot # s}
          ELSE /\ lost' = lost \cup {b}
               /\ UNCHANGED <<occ, born>>
    /\ GoOn(p, proc[p], proc[p].day + 1)
    /\ UNCHANGED <<habit, event, given, upsets>>

(* A day fails - Google cannot be asked, the event cannot be moved, a      *)
(* call's answer is lost, the row cannot be written or deleted - and the   *)
(* placement goes on with the next day.                                    *)
DayFails(p) ==
    /\ \/ /\ proc[p].at = "look" /\ Upset
          /\ UNCHANGED <<event, lost>>
       \/ /\ proc[p].at = "put" /\ HasPrev(p) /\ ~There(Prev(p).event, proc[p].row.cal)
          /\ UNCHANGED <<event, lost, upsets>>
       \/ /\ proc[p].at = "put" /\ HasPrev(p) /\ There(Prev(p).event, proc[p].row.cal) /\ Upset
          /\ event' = [event EXCEPT ![Prev(p).event].slot = proc[p].slot]
          /\ lost' = lost \cup {Prev(p).event}
       \/ /\ proc[p].at = "put" /\ ~HasPrev(p) /\ Unborn # {} /\ Upset
          /\ event' = Inserted(p, Fresh)
          /\ lost' = lost \cup {Fresh}
       \/ /\ proc[p].at \in {"note", "dropped"} /\ Upset
          /\ lost' = lost \cup {proc[p].hand}
          /\ UNCHANGED event
    /\ LET rest == Rest(p, proc[p].day + 1)
       IN IF rest = {} THEN Ends(p)
          ELSE proc' = [proc EXCEPT ![p].at = "look", ![p].day = First(rest),
                                    ![p].slot = 0, ![p].hand = NoBlock]
    /\ Disturb
    /\ UNCHANGED <<stored, given>>
-------------------------------------------------------------------------------
(* handleHabitDelete and delete_habit: read the habit and its occurrences,  *)
(* ask the target calendar to delete the event of each, then delete the    *)
(* habit; the rows go with it.                                             *)
DeleteHabit(h) ==
    /\ habit.kept /\ Ask /\ Idle(h)
    /\ proc' = [proc EXCEPT ![h].at = "erase", ![h].row = habit, ![h].occ = occ]
    /\ Enters
    /\ UNCHANGED <<stored, event, busy, hours, today, lost, upsets>>

Known(q) == {q.occ[d].event : d \in Days} \ {NoBlock}
Erased(some, c) ==
    [b \in BlockIds |-> IF b \in some THEN Dropped(b, c)[b] ELSE event[b]]

Erase(p) ==
    /\ proc[p].at = "erase"
    /\ LET q == proc[p]
           known == Known(q)
       IN \/ /\ event' = Erased(known, q.row.cal)
             /\ lost' = lost \cup {b \in known \cap Live : event[b].cal # q.row.cal}
             /\ UNCHANGED upsets
          \/ /\ Upset
             /\ \E some \in SUBSET known : event' = Erased(some, q.row.cal)
             /\ lost' = lost \cup known
    /\ proc' = [proc EXCEPT ![p].at = "erased"]
    /\ UNCHANGED <<stored, given, seen>>

EraseRow(p) ==
    /\ proc[p].at = "erased"
    /\ habit' = [habit EXCEPT !.kept = FALSE]
    /\ occ' = NoRows
    /\ lost' = lost \cup ({occ[d].event : d \in Placed} \ Known(proc[p]))
    /\ Ends(p)
    /\ UNCHANGED <<born, event, given, seen, upsets>>

(* Goroutines end where they are: one when its time is over or a read      *)
(* fails, all when the program is killed.                                  *)
InHand(q) == ({q.hand} \ {NoBlock}) \cup IF q.at = "erased" THEN Known(q) ELSE {}

Stop(gone) ==
    /\ \E p \in gone : ~Idle(p)
    /\ Upset
    /\ lost' = lost \cup UNION {InHand(proc[p]) : p \in gone}
    /\ proc' = [p \in Placers |-> IF p \in gone THEN NoProc ELSE proc[p]]
    /\ Disturb
    /\ UNCHANGED <<stored, event, given>>

Step(p) ==
    \/ Wipe(p) \/ Update(p) \/ Read(p) \/ List(p) \/ Look(p) \/ DropEvent(p) \/ DropRow(p)
    \/ MoveEvent(p) \/ InsertEvent(p) \/ Note(p) \/ DayFails(p) \/ Erase(p) \/ EraseRow(p)

Next ==
    \/ Meet \/ EditHours \/ RemoveByHand \/ NextDay \/ Maintain
    \/ \E h \in Handlers : SaveHabit(h) \/ PlaceNow(h) \/ DeleteHabit(h)
    \/ \E p \in Placers : Step(p) \/ Stop({p})
    \/ Stop(Placers)

Spec == Init /\ [][Next]_vars

(* Goroutines run, and the maintenance pass comes back every six hours.    *)
Fairness ==
    /\ \A p \in Placers : WF_vars(Step(p))
    /\ WF_vars(Maintain)

FairSpec == Spec /\ Fairness
-------------------------------------------------------------------------------
(* Properties.                                                             *)

(* Every occurrence's event has its row and every row its event, or a      *)
(* goroutine is about to see to it: no order of placements, edits and      *)
(* deletions loses one but those "lost" records - the rows an edit wipes,  *)
(* a row a second placement overwrites or makes for an event the first has *)
(* dropped, a call that failed, an event the user deleted by hand.         *)
EveryEventKnown ==
    \A b \in BlockIds \ lost :
        \/ (b \in Live) <=> (\E d \in Placed : occ[d].event = b)
        \/ \E p \in Placers : b \in InHand(proc[p])

(* Rows of the horizon name events that are there; one whose event the     *)
(* user deleted, or which a placement wrote for the calendar before, can   *)
(* never be moved.                                                         *)
Due == Horizon(today) \cap habit.days
Sound == \A d \in Due \cap Placed : There(occ[d].event, habit.cal)

(* Each day of the horizon has its occurrence in the free slot nearest to  *)
(* the ideal time, or none fits within the flex and there is none.         *)
Kept(d) ==
    LET free == OpenTo(d, occ[d].slot)
    IN IF Fitting(free, habit.ideal) = {} THEN d \notin Placed
       ELSE d \in Placed /\ occ[d].slot = Nearest(free, habit.ideal)
InTune == \A d \in Due : Kept(d)

(* A placement nothing disturbed keeps the habit on every day, and each    *)
(* event is where its row says, unless it was lost sight of before.        *)
HabitKept ==
    inStep /\ habit.kept /\ habit.on =>
        /\ InTune
        /\ Sound => \A d \in Due \cap Placed : occ[d].event \notin lost =>
              event[occ[d].event].day = d /\ event[occ[d].event].slot = occ[d].slot

(* "The scheduler is idempotent": a placement whose picture is up to date  *)
(* touches nothing while the habit is in tune.                             *)
NoChurn ==
    [][\A p \in Placers :
         (/\ InTune /\ proc[p].at = "look"
          /\ proc[p].row = habit /\ proc[p].occ[proc[p].day] = occ[proc[p].day]
          /\ proc[p].day \in Due)
         => proc'[p].at \notin {"put", "drop"}]_vars

(* Whatever failed, raced or was edited, a habit that is on comes to be    *)
(* kept on every day, as long as its rows are sound and ids do not run out. *)
ComesInTune == ~<>[](habit.kept /\ habit.on /\ Sound /\ Unborn # {} /\ ~InTune)

===============================================================================
