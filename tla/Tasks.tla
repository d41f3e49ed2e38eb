-------------------------------- MODULE Tasks --------------------------------
(***************************************************************************)
(* The life of one task of skulid: its placement on a calendar by          *)
(* internal/sync/scheduler.go, its row in internal/db/tasks.go and         *)
(* taskchunks.go, and what the pages (internal/httpx/handlers_tasks.go),   *)
(* the assistant (internal/ai/tools_tasks_habits.go) and the maintenance   *)
(* pass of internal/worker/worker.go do to it.                             *)
(*                                                                         *)
(* A placement reads the row, asks Google for the busy time, lists the     *)
(* blocks the task has, and moves, inserts and deletes events one by one,  *)
(* each followed by its own row.  Nothing keeps two placements of a task,  *)
(* or a placement and a deletion, apart.                                   *)
(*                                                                         *)
(* Time is a row of slots, each as long as a block; module Hours has the   *)
(* arithmetic of windows of any length.                                    *)
(***************************************************************************)
EXTENDS Naturals, Sequences, FiniteSets

CONSTANTS
    Cals,       \* target calendars
    BlockIds,   \* ids Google may give to the task's events
    NoBlock,    \* no event
    Handlers,   \* goroutines the pages and the assistant place or delete the task in
    Ticker,     \* the goroutine of the maintenance pass
    Last,       \* the slots are 1..Last; the task is due at the end of the last
    MaxSize,    \* bound on the blocks a task needs (8)
    MaxAsks,    \* bound on what the user does and on other people's meetings
    MaxUpsets   \* bound on failures, timeouts and crashes

ASSUME TaskAssumption ==
    /\ Cals # {} /\ NoBlock \notin BlockIds /\ Ticker \notin Handlers
    /\ Last \in Nat \ {0} /\ MaxSize \in Nat \ {0}
    /\ MaxAsks \in Nat /\ MaxUpsets \in Nat

VARIABLES
    task,     \* the task's row
    chunk,    \* chunk[b]: the task_chunk row of event b
    block,    \* block[b]: the event Google holds under id b
    busy,     \* the slots other events of the user take
    hours,    \* the slots within working hours
    now,      \* how many slots are over
    proc,     \* proc[p]: what goroutine p does and knows
    asks,     \* how much was asked so far
    lost,     \* history: events lost sight of, or whose row misstates them
    alone,    \* history: placements that nothing has disturbed
    inStep,   \* history: nothing has changed since an undisturbed placement
    orderly,  \* history: no two goroutines were at work at once, and none was cut off
    upsets    \* history: failures so far

given == <<busy, hours, now, asks>>
seen  == <<alone, inStep, orderly>>
vars  == <<task, chunk, block, given, proc, lost, seen, upsets>>

Placers == Handlers \cup {Ticker}
Slots == 1..Last
Statuses == {"pending", "scheduled", "completed", "cancelled"}
Ended == {"completed", "cancelled"}
AnyCal == CHOOSE c \in Cals : TRUE

NoChunk  == [seq |-> 0, slot |-> 0]
Unused   == [state |-> "unborn", cal |-> AnyCal, slot |-> 0]
NewTask(c, n) == [kept |-> TRUE, cal |-> c, size |-> n, status |-> "pending",
                  first |-> NoBlock, ends |-> 0, note |-> FALSE]
NoProc == [at |-> "idle", row |-> NewTask(AnyCal, 1), from |-> 0, hours |-> {},
           taken |-> {}, held |-> <<>>, plan |-> <<>>, done |-> 0, hand |-> NoBlock]

Rows == [kept : BOOLEAN, cal : Cals, size : 1..MaxSize, status : Statuses,
         first : BlockIds \cup {NoBlock}, ends : 0..Last, note : BOOLEAN]
ProcStates ==
    [at : {"idle", "read", "look", "list", "put", "noting", "drop", "dropped",
           "save", "erase", "erased"},
     row : Rows, from : 0..Last, hours : SUBSET Slots, taken : SUBSET (0..Last),
     held : Seq(BlockIds), plan : Seq(Slots), done : 0..(MaxSize + 1),
     hand : BlockIds \cup {NoBlock}]

TypeOK ==
    /\ task \in Rows
    /\ chunk \in [BlockIds -> [seq : 0..MaxSize, slot : 0..Last]]
    /\ block \in [BlockIds -> [state : {"unborn", "live", "gone"}, cal : Cals, slot : 0..Last]]
    /\ busy \subseteq Slots /\ hours \subseteq Slots /\ now \in 0..Last /\ asks \in 0..MaxAsks
    /\ proc \in [Placers -> ProcStates]
    /\ \A p \in Placers : Len(proc[p].held) <= MaxSize /\ Len(proc[p].plan) <= MaxSize
    /\ lost \subseteq BlockIds /\ alone \subseteq Placers
    /\ inStep \in BOOLEAN /\ orderly \in BOOLEAN
    /\ upsets \in 0..MaxUpsets

Init ==
    /\ \E n \in 1..MaxSize : task = NewTask(AnyCal, n)
    /\ chunk = [b \in BlockIds |-> NoChunk]
    /\ block = [b \in BlockIds |-> Unused]
    /\ busy = {} /\ hours = Slots /\ now = 0 /\ asks = 0
    /\ proc = [p \in Placers |-> NoProc]
    /\ lost = {} /\ alone = {} /\ inStep = FALSE /\ orderly = TRUE /\ upsets = 0
-------------------------------------------------------------------------------
Live == {b \in BlockIds : block[b].state = "live"}
Unborn == {b \in BlockIds : block[b].state = "unborn"}
Noted == {b \in BlockIds : chunk[b].seq # 0}
SlotsOf(s) == {chunk[b].slot : b \in s}

(* The i-th smallest of a set of numbers, and the n smallest in order.     *)
Nth(s, i) == CHOOSE x \in s : Cardinality({y \in s : y <= x}) = i
Firsts(s, n) == [i \in 1..n |-> Nth(s, i)]

(* TaskChunkRepo.ListByTask: the rows in the order of their numbers.       *)
Listed ==
    [i \in 1..Cardinality(Noted) |->
        CHOOSE b \in Noted : chunk[b].seq = Nth({chunk[x].seq : x \in Noted}, i)]

(* busyEverywhere: what Google reports as taken, the task's own events     *)
(* included, less every window skulid has a row for; what is free of it.   *)
Taken == (busy \cup {block[b].slot : b \in Live}) \ SlotsOf(Noted)
Open == {s \in hours : s > now /\ s \notin Taken}

Idle(p) == proc[p].at = "idle"
Ends(p) == proc' = [proc EXCEPT ![p] = NoProc]
Upset == upsets < MaxUpsets /\ upsets' = upsets + 1
Alone == \A q \in Placers : Idle(q)
Disturb == alone' = {} /\ inStep' = FALSE /\ UNCHANGED orderly
CutOff  == alone' = {} /\ inStep' = FALSE /\ orderly' = FALSE
-------------------------------------------------------------------------------
(* Users, other people, and time.                                          *)
Ask == asks < MaxAsks /\ asks' = asks + 1

Meet ==
    /\ Ask
    /\ \E s \in Slots : busy' = (busy \ {s}) \cup ({s} \ busy)
    /\ Disturb
    /\ UNCHANGED <<task, chunk, block, hours, now, proc, lost, upsets>>

EditHours ==
    /\ Ask
    /\ \E s \in Slots : hours' = (hours \ {s}) \cup ({s} \ hours)
    /\ Disturb
    /\ UNCHANGED <<task, chunk, block, busy, now, proc, lost, upsets>>

Pass ==
    /\ now < Last
    /\ now' = now + 1
    /\ Disturb
    /\ UNCHANGED <<task, chunk, block, busy, hours, asks, proc, lost, upsets>>

Starts(p) ==
    /\ Idle(p)
    /\ proc' = [proc EXCEPT ![p].at = "read"]
    /\ alone' = IF Alone THEN {p} ELSE {}
    /\ orderly' = (orderly /\ Alone)
    /\ inStep' = FALSE

(* handleTaskSave and update_task rewrite the user's columns, the status    *)
(* among them, and have the task placed.  Blocks on the calendar the task  *)
(* had before stay there, and their rows with the task.                    *)
SaveTask(p) ==
    /\ task.kept /\ Ask
    /\ \E c \in Cals, n \in 1..MaxSize, st \in Statuses :
          task' = [task EXCEPT !.cal = c, !.size = n, !.status = st]
    /\ Starts(p)
    /\ UNCHANGED <<chunk, block, busy, hours, now, lost, upsets>>

(* handleTaskComplete, complete_task: the event stays.                     *)
Complete ==
    /\ task.kept /\ Ask
    /\ task' = [task EXCEPT !.status = "completed"]
    /\ Disturb
    /\ UNCHANGED <<chunk, block, busy, hours, now, proc, lost, upsets>>

(* The page's button, or create_task.                                      *)
PlaceNow(p) ==
    /\ task.kept /\ Ask
    /\ Starts(p)
    /\ UNCHANGED <<task, chunk, block, busy, hours, now, lost, upsets>>

(* runMaintenance: what is pending, or was scheduled and is over.          *)
(* (DueIfOver: as if a pending task were left to the user.)                *)
DueIfOver == task.kept /\ task.status = "scheduled" /\ task.ends \in 1..now
Due == task.kept /\ (task.status = "pending" \/ (task.status = "scheduled" /\ task.ends \in 1..now))

Maintain ==
    /\ Due
    /\ Starts(Ticker)
    /\ UNCHANGED <<task, chunk, block, given, lost, upsets>>
-------------------------------------------------------------------------------
(* Scheduler.PlaceTask.                                                    *)

(* Read the row: a task that has ended, or is gone, is left alone.  So is  *)
(* one whose calendar is switched off or whose account cannot be reached,  *)
(* here or at any later call; that is Fails.  (ReadAny: as if the status   *)
(* were not looked at.)                                                    *)
ReadAny(p) ==
    /\ proc[p].at = "read"
    /\ IF task.kept THEN proc' = [proc EXCEPT ![p].at = "look", ![p].row = task] ELSE Ends(p)
    /\ UNCHANGED <<task, chunk, block, given, lost, seen, upsets>>
Read(p) ==
    /\ proc[p].at = "read"
    /\ IF task.kept /\ task.status \notin Ended
       THEN proc' = [proc EXCEPT ![p].at = "look", ![p].row = task]
       ELSE Ends(p)
    /\ UNCHANGED <<task, chunk, block, given, lost, seen, upsets>>

(* What is taken up to the due date; past it nothing is done.              *)
Look(p) ==
    /\ proc[p].at = "look"
    /\ IF now < Last
       THEN proc' = [proc EXCEPT ![p].at = "list", ![p].from = now, ![p].hours = hours,
                                    ![p].taken = Taken]
       ELSE Ends(p)
    /\ UNCHANGED <<task, chunk, block, given, lost, seen, upsets>>

(* placementHolds: the blocks are in order, within the hours, not yet all  *)
(* over, and as many as the task needs.  That they are clear of busy time  *)
(* is checked too, but their own windows have been taken out of it.        *)
Holds(p, held) ==
    /\ held # <<>> /\ Len(held) = proc[p].row.size
    /\ chunk[held[Len(held)]].slot > proc[p].from
    /\ \A i \in DOMAIN held : chunk[held[i]].slot \in proc[p].hours
    /\ \A i, j \in DOMAIN held : i < j => chunk[held[i]].slot < chunk[held[j]].slot

(* The row says that the task is placed.                                   *)
InPlace(p) == proc[p].row.status = "scheduled" /\ ~proc[p].row.note

(* What counts as free: a taken slot that is by itself exactly a block of  *)
(* the task's is.                                                          *)
Own(p, s) == s \in SlotsOf(Noted) /\ {s - 1, s + 1} \cap proc[p].taken = {}
FreeFor(p) ==
    {s \in proc[p].hours : s > proc[p].from /\ (s \in proc[p].taken => Own(p, s))}

(* List the blocks and plan anew: blocks that hold stay; a task that does  *)
(* not fit loses the ones it has; otherwise they are brought in line with  *)
(* the plan.                                                               *)
List(p) ==
    /\ proc[p].at = "list"
    /\ LET held == Listed
           free == FreeFor(p)
           size == proc[p].row.size
           fits == Cardinality(free) >= size
           plan == IF fits THEN Firsts(free, size) ELSE <<>>
           inLine == [i \in DOMAIN held |-> chunk[held[i]].slot] = plan
           quiet == ~fits /\ held = <<>> /\ proc[p].row.first = NoBlock /\ proc[p].row.note
           stays == (Holds(p, held) \/ (fits /\ inLine)) /\ InPlace(p)
       IN /\ IF stays \/ quiet
             THEN Ends(p)
             ELSE proc' = [proc EXCEPT ![p] = [NoProc EXCEPT
                      !.row = NewTask(proc[p].row.cal, 1), !.held = held, !.plan = plan,
                      !.at = IF fits THEN "put" ELSE IF held = <<>> THEN "save" ELSE "drop"]]
          /\ inStep' = (p \in alone /\ (stays \/ quiet))
          /\ alone' = IF stays \/ quiet THEN alone \ {p} ELSE alone
    /\ UNCHANGED <<task, chunk, block, given, lost, orderly, upsets>>

(* The block the placement is at, and whether it has an event already.     *)
Turn(p) == proc[p].done + 1
Moves(p) == Turn(p) <= Len(proc[p].held)
Mine(p) == proc[p].held[Turn(p)]
There(b, c) == b \in Live /\ block[b].cal = c

(* Move the block's event, or insert one.                                  *)
MoveEvent(p) ==
    /\ proc[p].at = "put" /\ Moves(p) /\ There(Mine(p), proc[p].row.cal)
    /\ block' = [block EXCEPT ![Mine(p)].slot = proc[p].plan[Turn(p)]]
    /\ proc' = [proc EXCEPT ![p].at = "noting", ![p].hand = Mine(p)]
    /\ UNCHANGED <<task, chunk, given, lost, seen, upsets>>

Inserted(p, b) ==
    [block EXCEPT ![b] = [state |-> "live", cal |-> proc[p].row.cal, slot |-> proc[p].plan[Turn(p)]]]
Fresh == CHOOSE b \in Unborn : TRUE

InsertEvent(p) ==
    /\ proc[p].at = "put" /\ ~Moves(p) /\ Unborn # {}
    /\ block' = Inserted(p, Fresh)
    /\ proc' = [proc EXCEPT ![p].at = "noting", ![p].hand = Fresh]
    /\ UNCHANGED <<task, chunk, given, lost, seen, upsets>>

(* On to the next block; after the last, the blocks too many; then the row. *)
After(q) ==
    IF q.done + 1 < Len(q.plan) THEN "put"
    ELSE IF q.done + 1 < Len(q.held) THEN "drop" ELSE "save"
Advanced(p) ==
    [proc EXCEPT ![p].done = @ + 1, ![p].at = After(proc[p]), ![p].hand = NoBlock,
                 ![p].row.first = IF proc[p].done = 0 /\ proc[p].plan # <<>> THEN proc[p].hand ELSE @]

(* The row of a block that was moved, if it is still there; (NoteStale: as *)
(* if it were left as it was).                                             *)
NoteStale(b, s) == chunk
NoteSlot(b, s) == IF b \in Noted THEN [chunk EXCEPT ![b].slot = s] ELSE chunk

NoteMoved(p) ==
    /\ proc[p].at = "noting" /\ Moves(p)
    /\ LET b == proc[p].hand
           s == proc[p].plan[Turn(p)]
       IN /\ chunk' = NoteSlot(b, s)
          /\ lost' = IF b \in Live /\ block[b].slot # s THEN lost \cup {b} ELSE lost
    /\ proc' = Advanced(p)
    /\ UNCHANGED <<task, block, given, seen, upsets>>

(* The row of a new block is refused if its number is taken or the task is *)
(* gone; the placement ends there.                                         *)
Numbered(n) == \E b \in Noted : chunk[b].seq = n
NoteNew(p) ==
    /\ proc[p].at = "noting" /\ ~Moves(p)
    /\ IF task.kept /\ ~Numbered(Turn(p))
       THEN /\ chunk' = [chunk EXCEPT ![proc[p].hand] =
                            [seq |-> Turn(p), slot |-> proc[p].plan[Turn(p)]]]
            /\ proc' = Advanced(p)
            /\ UNCHANGED <<lost, seen>>
       ELSE /\ lost' = lost \cup {proc[p].hand}
            /\ Ends(p) /\ CutOff
            /\ UNCHANGED chunk
    /\ UNCHANGED <<task, block, given, upsets>>

(* Delete the event of a block too many, then, whatever came of it, its    *)
(* row.  (DropKeeping: as if the event were kept.)                         *)
DropKeeping(b, c) == block
Dropped(b, c) == IF There(b, c) THEN [block EXCEPT ![b].state = "gone"] ELSE block

DropEvent(p) ==
    /\ proc[p].at = "drop"
    /\ LET b == Mine(p)
           c == proc[p].row.cal
       IN \/ /\ block' = Dropped(b, c)
             /\ lost' = IF b \in Live /\ block[b].cal # c THEN lost \cup {b} ELSE lost
             /\ UNCHANGED upsets
          \/ /\ Upset
             /\ lost' = lost \cup {b}
             /\ UNCHANGED block
    /\ proc' = [proc EXCEPT ![p].at = "dropped", ![p].hand = Mine(p)]
    /\ UNCHANGED <<task, chunk, given, seen>>

DropRow(p) ==
    /\ proc[p].at = "dropped"
    /\ \/ /\ chunk' = [chunk EXCEPT ![proc[p].hand] = NoChunk]
          /\ UNCHANGED <<lost, upsets>>
       \/ /\ Upset
          /\ lost' = lost \cup {proc[p].hand}
          /\ UNCHANGED chunk
    /\ proc' = [proc EXCEPT ![p].done = @ + 1, ![p].hand = NoBlock,
                            ![p].at = IF Turn(p) < Len(proc[p].held) THEN "drop" ELSE "save"]
    /\ UNCHANGED <<task, block, given, seen>>

(* TaskRepo.UpdateScheduled: the summary of the first block, or the note.  *)
(* It is written over whatever the row says by then.                       *)
SaveRow(p) ==
    /\ proc[p].at = "save"
    /\ LET q == proc[p]
           fits == q.plan # <<>>
       IN task' = IF ~task.kept THEN task
                  ELSE [task EXCEPT !.status = IF fits THEN "scheduled" ELSE "pending",
                                    !.first = IF fits THEN q.row.first ELSE NoBlock,
                                    !.ends = IF fits THEN q.plan[1] ELSE 0,
                                    !.note = ~fits]
    /\ Ends(p)
    /\ inStep' = (p \in alone) /\ alone' = alone \ {p}
    /\ UNCHANGED <<chunk, block, given, lost, orderly, upsets>>

(* A call that cannot be carried out, or whose answer is lost, ends the    *)
(* placement there.                                                        *)
Fails(p) ==
    /\ proc[p].at = "put"
    /\ \/ /\ Moves(p) /\ ~There(Mine(p), proc[p].row.cal)
          /\ UNCHANGED <<block, lost, upsets>>
       \/ /\ Moves(p) /\ There(Mine(p), proc[p].row.cal) /\ Upset
          /\ block' = [block EXCEPT ![Mine(p)].slot = proc[p].plan[Turn(p)]]
          /\ lost' = lost \cup {Mine(p)}
       \/ /\ ~Moves(p) /\ Unborn # {} /\ Upset
          /\ block' = Inserted(p, Fresh)
          /\ lost' = lost \cup {Fresh}
    /\ Ends(p)
    /\ CutOff
    /\ UNCHANGED <<task, chunk, given>>
-------------------------------------------------------------------------------
(* handleTaskDelete and delete_task: read the row and list the blocks, ask  *)
(* the target calendar to delete each, then delete the row.                *)
DeleteTask(p) ==
    /\ task.kept /\ Ask /\ Idle(p)
    /\ proc' = [proc EXCEPT ![p].at = "erase", ![p].row = task, ![p].held = Listed]
    /\ alone' = {} /\ inStep' = FALSE /\ orderly' = (orderly /\ Alone)
    /\ UNCHANGED <<task, chunk, block, busy, hours, now, lost, upsets>>

(* The events of the rows, and that of the summary if no row has it.       *)
(* (SummaryOnly: as if a task had but the one.)                            *)
SummaryOnly(q) == {q.row.first} \ {NoBlock}
Known(q) == {q.held[i] : i \in DOMAIN q.held} \cup ({q.row.first} \ {NoBlock})

Erase(p) ==
    /\ proc[p].at = "erase"
    /\ LET q == proc[p]
           known == Known(q)
       IN \/ /\ block' = [b \in BlockIds |-> IF b \in known THEN Dropped(b, q.row.cal)[b] ELSE block[b]]
             /\ lost' = lost \cup {b \in known \cap Live : block[b].cal # q.row.cal}
             /\ UNCHANGED upsets
          \/ /\ Upset
             /\ \E some \in SUBSET known :
                   block' = [b \in BlockIds |-> IF b \in some THEN Dropped(b, q.row.cal)[b] ELSE block[b]]
             /\ lost' = lost \cup known
    /\ proc' = [proc EXCEPT ![p].at = "erased"]
    /\ UNCHANGED <<task, chunk, given, seen>>

(* The rows of the blocks go with the task's.  Blocks that a placement has *)
(* added meanwhile are no longer known.                                    *)
EraseRow(p) ==
    /\ proc[p].at = "erased"
    /\ task' = [task EXCEPT !.kept = FALSE]
    /\ chunk' = [b \in BlockIds |-> NoChunk]
    /\ lost' = lost \cup {b \in Noted : \A i \in DOMAIN proc[p].held : proc[p].held[i] # b}
    /\ Ends(p)
    /\ UNCHANGED <<block, given, seen, upsets>>

(* Goroutines end where they are: one when its time is over or a call      *)
(* fails, all when the program is killed.                                  *)
InHand(q) ==
    ({q.hand} \ {NoBlock}) \cup IF q.at = "erased" THEN {q.held[i] : i \in DOMAIN q.held} ELSE {}

Stop(gone) ==
    /\ \E p \in gone : ~Idle(p)
    /\ Upset
    /\ lost' = lost \cup UNION {InHand(proc[p]) : p \in gone}
    /\ proc' = [p \in Placers |-> IF p \in gone THEN NoProc ELSE proc[p]]
    /\ CutOff
    /\ UNCHANGED <<task, chunk, block, given>>

Step(p) ==
    \/ Read(p) \/ Look(p) \/ List(p) \/ MoveEvent(p) \/ InsertEvent(p) \/ NoteMoved(p) \/ NoteNew(p)
    \/ DropEvent(p) \/ DropRow(p) \/ SaveRow(p) \/ Fails(p) \/ Erase(p) \/ EraseRow(p)

Next ==
    \/ Meet \/ EditHours \/ Pass \/ Complete \/ Maintain
    \/ \E h \in Handlers : SaveTask(h) \/ PlaceNow(h) \/ DeleteTask(h)
    \/ \E p \in Placers : Step(p) \/ Stop({p})
    \/ Stop(Placers)

Spec == Init /\ [][Next]_vars

(* Goroutines run, and the maintenance pass comes back every six hours.    *)
Fairness ==
    /\ \A p \in Placers : WF_vars(Step(p))
    /\ WF_vars(Maintain)

FairSpec == Spec /\ Fairness
-------------------------------------------------------------------------------
(* Properties.                                                             *)

(* Every block on a calendar has its row and every row its block, or a     *)
(* goroutine is about to see to it: no order of placements and deletions   *)
(* loses one but those "lost" records - a call that failed, an insert      *)
(* whose row was refused, blocks on the calendar the task had before.      *)
EveryBlockKnown ==
    \A b \in BlockIds \ lost :
        (b \in Live <=> b \in Noted) \/ \E p \in Placers : b \in InHand(proc[p])

(* A row that names an event which is gone, or on a calendar the task had  *)
(* before, and numbers with a gap are left when a deletion of blocks is    *)
(* cut off or overlaps a placement, and when the target changes.  Moving   *)
(* such a block, and inserting into such a gap, fails for ever.            *)
Sound ==
    /\ \A b \in Noted : There(b, task.cal)
    /\ {chunk[b].seq : b \in Noted} = 1..Cardinality(Noted)

(* Booking 6 of 8 hours and calling the task scheduled would be a lie: a   *)
(* placement that nothing disturbed leaves a scheduled task with as many   *)
(* blocks as it needs, each at Google where its row says, the first summed *)
(* up in the task's row; and one there is no room for pending, without a   *)
(* block and with a reason.  Only the status "scheduled" that a user put   *)
(* there by hand may stay, without a summary.                              *)
ByHand == task.status = "scheduled" /\ task.first = NoBlock
AllOrNothing ==
    inStep /\ Sound /\ lost = {} =>
        \/ task.status \in Ended \/ ~task.kept
        \/ /\ task.status = "scheduled" /\ ~task.note
           /\ {chunk[b].seq : b \in Noted} = 1..task.size
           /\ \A b \in Noted : block[b].slot = chunk[b].slot /\ chunk[b].slot \in hours
           /\ \A a, b \in Noted : chunk[a].seq < chunk[b].seq => chunk[a].slot < chunk[b].slot
           /\ orderly =>
                task.first \in Noted /\ chunk[task.first] = [seq |-> 1, slot |-> task.ends]
        \/ /\ task.status = "pending" \/ ByHand
           /\ task.note /\ Noted = {} /\ Cardinality(Open) < task.size

(* "Completed and cancelled are excluded": only the user, or a placement   *)
(* the user did not wait for, makes an ended task active again.            *)
EndedStays ==
    [][task.status \in Ended /\ task'.status \notin Ended =>
          \/ asks' # asks
          \/ \E p \in Placers : proc[p].at = "save" /\ p \notin alone]_vars

(* A task is not left pending for ever while there is room for it, whatever *)
(* was cut off, raced or failed before, unless its rows are unsound.       *)
PendingIsPlaced ==
    ~<>[](task.kept /\ task.status = "pending" /\ Cardinality(Open) >= task.size /\ Sound)

===============================================================================
