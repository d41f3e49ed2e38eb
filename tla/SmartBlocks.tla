------------------------------ MODULE SmartBlocks ------------------------------
(***************************************************************************)
(* The smart-block engine of skulid: internal/sync/smart_block.go over the *)
(* managed_block rows of internal/db/smart_blocks.go, for one smart block. *)
(*                                                                         *)
(* A smart block keeps the free time of the working hours visible as       *)
(* events of a target calendar.  A recomputation asks Google for the busy  *)
(* time of the source calendar, works out the free windows (module Hours), *)
(* matches them with the rows of the coming days, moves or makes one event *)
(* after the other, and removes what is left over.  Unlike the buffer      *)
(* engine it gives up at the first call that fails.  Timers and the page's *)
(* button start recomputations; two may run at once.                       *)
(***************************************************************************)
EXTENDS Hours, FiniteSets
LOCAL INSTANCE SequencesExt

CONSTANTS
    BlockIds,      \* ids Google may give to the engine's events
    Recomputers,   \* goroutines that run SmartBlockEngine.Recompute
    Week,          \* the working hours, as in Hours
    Horizon,       \* how many days ahead the engine looks (30)
    OwnSource,     \* the target calendar is the source calendar
    Meetings,      \* the windows in which the source calendar may have a meeting
    Settings,      \* the values of min block and merge gap
    Targets,       \* the calendars that may be the target
    LastDay,       \* bound on the days that pass
    MaxEdits,      \* bound on changes of meetings, settings and the switch
    MaxUpsets      \* bound on failures, timeouts and crashes

ASSUME BlockAssumption ==
    /\ OwnSource \in BOOLEAN
    /\ Settings \subseteq [min : Nat \ {0}, gap : Nat] /\ Settings # {}
    /\ Targets # {}
    /\ Horizon \in Nat \ {0} /\ LastDay \in Nat
    /\ MaxEdits \in Nat /\ MaxUpsets \in Nat

VARIABLES
    today,     \* the day
    meetings,  \* the windows in which the source calendar has a meeting
    settings,  \* the smart block's min block and merge gap
    target,    \* the smart block's target calendar
    exists,    \* the smart block has not been deleted
    enabled,   \* it and its target calendar are switched on
    block,     \* block[b]: the event the engine inserted under id b
    row,       \* row[b]: the managed_block row of event b
    proc,      \* proc[p]: what recomputation p knows and does
    edits,     \* how many edits were made
    lost,      \* history: events without a row, or whose row misstates them
    alone,     \* history: recomputations that nothing has disturbed
    inStep,    \* history: nothing has changed since an undisturbed recomputation
    upsets     \* history: failures so far

saved == <<settings, target, exists, enabled>>
given == <<today, meetings, saved, edits>>
vars  == <<given, block, row, proc, lost, alone, inStep, upsets>>

NoRow  == [kept |-> FALSE, start |-> 0, end |-> 0]
AnySettings == CHOOSE s \in Settings : TRUE
AnyTarget == CHOOSE c \in Targets : TRUE
NoProc == [pc |-> "idle", day |-> 0, using |-> AnySettings, cal |-> AnyTarget, wants |-> <<>>,
           rows |-> [b \in BlockIds |-> NoRow], matched |-> {}, target |-> {}, settled |-> FALSE]

Times == 0..((LastDay + Horizon) * Day)
Windows == {w \in [start : Times, end : Times] : w.start < w.end}
Rows == {NoRow} \cup {r \in [kept : {TRUE}, start : Times, end : Times] : r.start < r.end}

TypeOK ==
    /\ today \in 0..LastDay
    /\ meetings \subseteq Meetings
    /\ settings \in Settings
    /\ target \in Targets /\ exists \in BOOLEAN /\ enabled \in BOOLEAN
    /\ block \in [BlockIds -> [state : {"unborn", "live", "deleted"},
                               window : {NoRow} \cup Windows, cal : Targets]]
    /\ row \in [BlockIds -> Rows]
    /\ \A p \in Recomputers :
          /\ proc[p].pc \in {"idle", "begun", "asked", "applying", "saving", "moving", "forgetting"}
          /\ proc[p].pc = "idle" => proc[p] = NoProc
          /\ proc[p].day \in 0..LastDay /\ proc[p].using \in Settings /\ proc[p].cal \in Targets
          /\ proc[p].wants \in Seq(Windows)
          /\ proc[p].rows \in [BlockIds -> Rows]
          /\ proc[p].matched \subseteq BlockIds /\ proc[p].target \subseteq BlockIds
    /\ lost \subseteq BlockIds
    /\ alone \subseteq Recomputers
    /\ inStep \in BOOLEAN
    /\ edits \in 0..MaxEdits /\ upsets \in 0..MaxUpsets

Init ==
    /\ today = 0
    /\ meetings \in SUBSET Meetings
    /\ settings \in Settings
    /\ target = AnyTarget /\ exists = TRUE /\ enabled = TRUE
    /\ block = [b \in BlockIds |-> [state |-> "unborn", window |-> NoRow, cal |-> AnyTarget]]
    /\ row = [b \in BlockIds |-> NoRow]
    /\ proc = [p \in Recomputers |-> NoProc]
    /\ edits = 0
    /\ lost = {} /\ alone = {} /\ inStep = FALSE /\ upsets = 0
-------------------------------------------------------------------------------
(* The free windows of the days from "day" on that are worth a block.      *)
From(day) == day * Day
Until(day) == (day + Horizon) * Day

Desired(busy, s, day) ==
    LET avail == Expand(Week, From(day), Until(day))
        free == MergeWithGap(SubtractBusy(avail, Merge(busy)), s.gap)
    IN SelectSeq(free, LAMBDA w : Length(w) >= s.min)

Live == {b \in BlockIds : block[b].state = "live"}

(* Google's free/busy answer; skulid's blocks are opaque events.  (That a  *)
(* source calendar is switched off looks like its meetings gone.)          *)
BusyTime == SetToSeq(meetings \cup IF OwnSource THEN {block[b].window : b \in Live} ELSE {})

InRange(w, day) == w.end > From(day) /\ w.start < Until(day)
-------------------------------------------------------------------------------
Upset == upsets < MaxUpsets /\ upsets' = upsets + 1

(* Whatever changes under a recomputation disturbs it.                     *)
Disturb == alone' = {} /\ inStep' = FALSE

Edit ==
    /\ edits < MaxEdits
    /\ edits' = edits + 1
    /\ Disturb
    /\ UNCHANGED <<today, block, proc, upsets>>

EditMeetings ==
    /\ Edit
    /\ meetings' \in SUBSET Meetings \ {meetings}
    /\ UNCHANGED <<saved, row, lost>>

(* handleBlockSave: the events stay on the calendar they were written to.  *)
EditBlock ==
    /\ Edit /\ exists
    /\ settings' \in Settings /\ target' \in Targets
    /\ <<settings', target'>> # <<settings, target>>
    /\ UNCHANGED <<meetings, exists, enabled, row, lost>>

Toggle ==
    /\ Edit
    /\ enabled' = ~enabled
    /\ UNCHANGED <<meetings, settings, target, exists, row, lost>>

(* handleBlockDelete: the rows go with the smart block, the events stay.   *)
DeleteBlock ==
    /\ Edit /\ exists
    /\ exists' = FALSE
    /\ row' = [b \in BlockIds |-> NoRow]
    /\ lost' = lost \cup {b \in BlockIds : row[b].kept}
    /\ UNCHANGED <<meetings, settings, target, enabled>>

Midnight ==
    /\ today < LastDay
    /\ today' = today + 1
    /\ Disturb
    /\ UNCHANGED <<meetings, saved, edits, block, row, proc, lost, upsets>>
-------------------------------------------------------------------------------
(* SmartBlockEngine.Recompute.                                             *)

Idle(q) == proc[q].pc = "idle"
Goes(p, pc) == proc' = [proc EXCEPT ![p].pc = pc]

Ends(p) == proc' = [proc EXCEPT ![p] = NoProc]

(* Read the block and the target calendar; a disabled one is left alone.   *)
Begin(p) ==
    /\ Idle(p) /\ exists /\ enabled
    /\ proc' = [proc EXCEPT ![p] = [NoProc EXCEPT !.pc = "begun", !.day = today,
                                           !.using = settings, !.cal = target, !.settled = inStep]]
    /\ alone' = IF \A q \in Recomputers : Idle(q) THEN {p} ELSE {}
    /\ inStep' = FALSE
    /\ UNCHANGED <<given, block, row, lost, upsets>>

(* Ask Google for the busy time and work out the desired windows.          *)
AskBusy(p) ==
    /\ proc[p].pc = "begun"
    /\ proc' = [proc EXCEPT ![p].pc = "asked", ![p].using = AnySettings,
                            ![p].wants = Desired(BusyTime, proc[p].using, proc[p].day)]
    /\ UNCHANGED <<given, block, row, lost, alone, inStep, upsets>>

ListRows(p) ==
    /\ proc[p].pc = "asked"
    /\ proc' = [proc EXCEPT ![p].pc = "applying", ![p].day = 0,
           ![p].rows = [b \in BlockIds |->
               IF row[b].kept /\ InRange(row[b], proc[p].day) THEN row[b] ELSE NoRow]]
    /\ UNCHANGED <<given, block, row, lost, alone, inStep, upsets>>

(* The next window and the rows it may take over; the earliest is taken.   *)
(* (MatchesAgain: as if a row could be taken twice.  SameNever: as if every *)
(* event were written anew.)                                               *)
Wanted(p) == Head(proc[p].wants)
MatchesAgain(p) == {b \in BlockIds : proc[p].rows[b].kept /\ Overlap(Wanted(p), proc[p].rows[b])}
Matches(p) ==
    {b \in BlockIds \ proc[p].matched : proc[p].rows[b].kept /\ Overlap(Wanted(p), proc[p].rows[b])}
Match(p) == CHOOSE b \in Matches(p) : \A x \in Matches(p) : proc[p].rows[b].start <= proc[p].rows[x].start

Applies(p) == proc[p].pc = "applying" /\ proc[p].wants # <<>>
SameNever(r, w) == FALSE
Same(r, w) == r.start = w.start /\ r.end = w.end
Inserts(p) == Applies(p) /\ Matches(p) = {}
Updates(p) == Applies(p) /\ Matches(p) # {} /\ ~Same(proc[p].rows[Match(p)], Wanted(p))
Unchanging(p) == Applies(p) /\ Matches(p) # {} /\ Same(proc[p].rows[Match(p)], Wanted(p))

(* On to the next window; "matched" is the row this one took, if any.      *)
Done(p, matched) ==
    proc' = [proc EXCEPT ![p].pc = "applying", ![p].wants = Tail(@),
                         ![p].matched = @ \cup matched, ![p].target = {}]

Unchanged(p) ==
    /\ Unchanging(p)
    /\ Done(p, {Match(p)})
    /\ UNCHANGED <<given, block, row, lost, alone, inStep, upsets>>

Unborn == {b \in BlockIds : block[b].state = "unborn"}
FreshId == CHOOSE b \in Unborn : TRUE
Event(p) == [state |-> "live", window |-> Wanted(p), cal |-> proc[p].cal]

InsertEvent(p) ==
    /\ Inserts(p) /\ Unborn # {}
    /\ block' = [block EXCEPT ![FreshId] = Event(p)]
    /\ proc' = [proc EXCEPT ![p].pc = "saving", ![p].target = {FreshId}]
    /\ UNCHANGED <<given, row, lost, alone, inStep, upsets>>

RowOf(w) == [kept |-> TRUE, start |-> w.start, end |-> w.end]

InsertRow(p) ==
    /\ proc[p].pc = "saving" /\ exists
    /\ row' = [b \in BlockIds |-> IF b \in proc[p].target THEN RowOf(Wanted(p)) ELSE row[b]]
    /\ Done(p, {})
    /\ UNCHANGED <<given, block, lost, alone, inStep, upsets>>

(* Google moves the event, unless it is gone, or was never on the calendar *)
(* that is the target now.                                                 *)
Found(p, b) == b \in Live /\ block[b].cal = proc[p].cal

UpdateEvent(p) ==
    /\ Updates(p) /\ Found(p, Match(p))
    /\ block' = [block EXCEPT ![Match(p)] = Event(p)]
    /\ proc' = [proc EXCEPT ![p].pc = "moving", ![p].target = {Match(p)}]
    /\ UNCHANGED <<given, row, lost, alone, inStep, upsets>>

(* UpdateWindow finds the row by its id, if it is still there.  Meanwhile  *)
(* another recomputation may have moved the event elsewhere.               *)
UpdateRow(p) ==
    /\ proc[p].pc = "moving"
    /\ row' = [b \in BlockIds |->
                  IF b \in proc[p].target /\ row[b].kept THEN RowOf(Wanted(p)) ELSE row[b]]
    /\ lost' = lost \cup {b \in proc[p].target : block[b].window # Wanted(p)}
    /\ Done(p, proc[p].target)
    /\ UNCHANGED <<given, block, alone, inStep, upsets>>

(* A call fails, or is carried out and its answer lost, or the row is not  *)
(* written (never for a deleted smart block): the whole recomputation ends *)
(* there.                                                                  *)
Fails(p) ==
    /\ \/ /\ Upset
          /\ \/ /\ proc[p].pc \in {"begun", "asked"} \/ (Applies(p) /\ ~Unchanging(p))
                /\ UNCHANGED <<block, lost>>
             \/ /\ proc[p].pc \in {"saving", "moving"}
                /\ lost' = lost \cup proc[p].target
                /\ UNCHANGED block
             \/ /\ Inserts(p) /\ Unborn # {}
                /\ block' = [block EXCEPT ![FreshId] = Event(p)]
                /\ lost' = lost \cup {FreshId}
             \/ /\ Updates(p) /\ Found(p, Match(p))
                /\ block' = [block EXCEPT ![Match(p)] = Event(p)]
                /\ lost' = lost \cup {Match(p)}
       \/ /\ Updates(p) /\ ~Found(p, Match(p))
          /\ UNCHANGED <<block, lost, upsets>>
       \/ /\ proc[p].pc = "saving" /\ ~exists
          /\ lost' = lost \cup proc[p].target
          /\ UNCHANGED <<block, upsets>>
    /\ Ends(p)
    /\ alone' = {}
    /\ UNCHANGED <<given, row, inStep>>
-------------------------------------------------------------------------------
(* The rows of the coming days that no window took: delete the event, then, *)
(* even if that failed, the row; a failure of either is only logged.  An   *)
(* event that Google does not find on the target calendar counts as deleted. *)
Leftovers(p) == {b \in BlockIds \ proc[p].matched : proc[p].rows[b].kept}
Leftover(p) == CHOOSE b \in Leftovers(p) : TRUE
Removes(p) == proc[p].pc = "applying" /\ proc[p].wants = <<>> /\ Leftovers(p) # {}

NotRemoved(b) == block
Removed(b) == [block EXCEPT ![b].state = "deleted"]
Elsewhere(p, b) == b \in Live /\ ~Found(p, b)

DeleteEvent(p) ==
    /\ Removes(p)
    /\ \/ /\ ~Elsewhere(p, Leftover(p))
          /\ block' = Removed(Leftover(p))
          /\ UNCHANGED <<lost, alone, upsets>>
       \/ /\ Elsewhere(p, Leftover(p))
          /\ lost' = lost \cup {Leftover(p)}
          /\ UNCHANGED <<block, alone, upsets>>
       \/ /\ Upset
          /\ lost' = lost \cup {Leftover(p)}
          /\ alone' = {}
          /\ UNCHANGED block
    /\ Goes(p, "forgetting")
    /\ UNCHANGED <<given, row, inStep>>

DeleteRow(p) ==
    /\ proc[p].pc = "forgetting"
    /\ LET b == Leftover(p)
       IN /\ \/ /\ row' = [row EXCEPT ![b] = NoRow]
                /\ UNCHANGED <<lost, alone, upsets>>
             \/ /\ Upset
                /\ lost' = lost \cup {b}
                /\ alone' = {}
                /\ UNCHANGED row
          /\ proc' = [proc EXCEPT ![p].pc = "applying", ![p].rows[b] = NoRow]
    /\ UNCHANGED <<given, block, inStep>>

Finish(p) ==
    /\ proc[p].pc = "applying" /\ proc[p].wants = <<>> /\ Leftovers(p) = {}
    /\ Ends(p)
    /\ inStep' = (p \in alone)
    /\ alone' = alone \ {p}
    /\ UNCHANGED <<given, block, row, lost, upsets>>

(* Recomputations end where they are: one when its time is over, all when  *)
(* the program is killed.                                                  *)
Unsaved(gone) ==
    UNION {IF proc[p].pc = "forgetting" THEN {Leftover(p)} ELSE proc[p].target : p \in gone}

Stop(gone) ==
    /\ \E p \in gone : ~Idle(p)
    /\ Upset
    /\ proc' = [p \in Recomputers |-> IF p \in gone THEN NoProc ELSE proc[p]]
    /\ lost' = lost \cup Unsaved(gone)
    /\ Disturb
    /\ UNCHANGED <<given, block, row>>

Recompute(p) ==
    \/ AskBusy(p) \/ ListRows(p) \/ Unchanged(p) \/ InsertEvent(p) \/ InsertRow(p)
    \/ UpdateEvent(p) \/ UpdateRow(p) \/ Fails(p) \/ DeleteEvent(p) \/ DeleteRow(p) \/ Finish(p)

Next ==
    \/ EditMeetings \/ EditBlock \/ Toggle \/ DeleteBlock \/ Midnight
    \/ \E p \in Recomputers : Begin(p) \/ Recompute(p) \/ Stop({p})
    \/ Stop(Recomputers)

Spec == Init /\ [][Next]_vars
-------------------------------------------------------------------------------
(* Properties.                                                             *)

(* Every event of the engine has its row, or is about to get it: unlike    *)
(* the buffer engine, overlapping recomputations lose sight of none.       *)
EveryBlockKnown ==
    \A b \in Live \ lost : row[b].kept \/ \E p \in Recomputers : b \in proc[p].target

(* The wiki: "Focus" blocks show "during every empty slot in your working  *)
(* hours".  After a recomputation that nothing disturbed the coming days   *)
(* show just these, each once; whatever earlier ones that overlapped or    *)
(* broke off have left behind is cleared up.  Not so when the target is    *)
(* its own source: the blocks count as busy and are removed again; nor     *)
(* while rows of the coming days are of another target calendar: their     *)
(* events are never moved to this one.                                     *)
Slots == Desired(SetToSeq(meetings), settings, today)
Moved == \E b \in BlockIds : row[b].kept /\ InRange(row[b], today) /\ block[b].cal # target

FocusInEmptySlots ==
    inStep /\ lost = {} /\ ~Moved =>
        LET shown == {b \in Live : block[b].cal = target /\ InRange(block[b].window, today)}
        IN /\ {block[b].window : b \in shown} = {Slots[i] : i \in DOMAIN Slots}
           /\ \A b1, b2 \in shown : block[b1].window = block[b2].window => b1 = b2

(* A recomputation that finds everything in step makes no call that writes: *)
(* nobody is notified of blocks that stay where they are.                  *)
Writing == {p \in Recomputers : proc[p].pc \in {"saving", "moving", "forgetting"}}
NoChurn == [][(\E p \in alone : proc[p].settled) => Writing' = {}]_vars

(* What both rest on: whatever the meetings, the wanted windows are of the *)
(* coming days and apart.  It is a fact about Desired, not about states.   *)
PlansApart ==
    \A ms \in SUBSET Meetings, s \in Settings, day \in 0..LastDay :
        LET slots == Desired(SetToSeq(ms), s, day)
        IN /\ slots \in Seq(Windows)
           /\ \A i \in DOMAIN slots : InRange(slots[i], day)
           /\ \A i, j \in DOMAIN slots : Overlap(slots[i], slots[j]) => i = j
===============================================================================
