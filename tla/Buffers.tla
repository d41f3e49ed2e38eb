------------------------------- MODULE Buffers -------------------------------
(***************************************************************************)
(* The buffer engine of skulid: internal/sync/buffers.go over the          *)
(* buffer_event rows of internal/db/bufferevents.go, for one calendar.     *)
(*                                                                         *)
(* Around a meeting the engine keeps visible padding events: travel before *)
(* and after it when it has a location, decompression after it when other  *)
(* people take part.  A recomputation reads the rows of the coming days,   *)
(* lists the meetings of the same days, creates or moves one buffer after  *)
(* the other, and at last removes those no meeting earns any more.  Timers *)
(* and the settings page start recomputations; two may run at once.        *)
(***************************************************************************)
EXTENDS Integers, FiniteSets

CONSTANTS
    Meetings,     \* Google ids of the user's meetings
    BufferIds,    \* ids Google may give to the engine's events
    Recomputers,  \* goroutines that run BufferEngine.Recompute
    NoEvent,      \* "no event"
    Horizon,      \* how far ahead the engine looks (7 days)
    LastTime,     \* bound on the clock
    LastStart,    \* bound on the start of a meeting
    MaxEdits,     \* bound on changes of meetings, settings and the switch
    MaxUpsets     \* bound on failures, timeouts and crashes

ASSUME BufferAssumption ==
    /\ Meetings # {} /\ NoEvent \notin BufferIds
    /\ Horizon \in Nat \ {0} /\ LastTime \in Nat /\ LastStart \in Nat
    /\ MaxEdits \in Nat /\ MaxUpsets \in Nat

VARIABLES
    now,      \* the clock
    meeting,  \* meeting[e]: the user's meeting e
    minutes,  \* the lengths of travel and decompression buffers; 0 for none
    enabled,  \* the calendar is switched on
    buffer,   \* buffer[b]: the event the engine inserted under id b
    row,      \* row[k]: the buffer_event row of key k
    proc,     \* proc[p]: what recomputation p knows and does
    edits,    \* how many edits were made
    lost,     \* history: keys of which a buffer has no row, or whose row misstates it
    unseen,   \* history: keys of buffers wanted while their row was not read, being outside
              \* the span of the recomputation
    alone,    \* history: recomputations that nothing has disturbed
    inStep,   \* history: nothing has changed since an undisturbed recomputation
    upsets    \* history: failures so far

given  == <<now, meeting, minutes, enabled, edits>>
vars   == <<given, buffer, row, proc, lost, unseen, alone, inStep, upsets>>

Kinds == {"travel before", "decompress", "travel after"}
Keys  == [source : Meetings, kind : Kinds]
AnyKey == CHOOSE k \in Keys : TRUE

Times == -1..(LastStart + 4)
Rows == [target : BufferIds \cup {NoEvent}, start : Times, end : Times]
NoRow == [target |-> NoEvent, start |-> 0, end |-> 0]
Wants == [key : Keys, start : Times, end : Times]
MeetingStates == [on : BOOLEAN, start : 0..LastStart, end : 0..(LastStart + 2),
                  located : BOOLEAN, people : BOOLEAN]
BufferStates == [state : {"unborn", "live", "deleted"}, key : Keys, start : Times, end : Times]
Minutes == [travel : 0..1, decompress : 0..1]

NoMeeting == [on |-> FALSE, start |-> 0, end |-> 0, located |-> FALSE, people |-> FALSE]
NoProc == [pc |-> "idle", from |-> 0, minutes |-> [travel |-> 0, decompress |-> 0],
           rows |-> [k \in Keys |-> NoRow], wants |-> {}, seen |-> {}, target |-> NoEvent]

Steps == {"idle", "listing", "applying", "saving", "moving", "forgetting"}
ProcStates == [pc : Steps, from : 0..LastTime, minutes : Minutes, rows : [Keys -> Rows],
               wants : SUBSET Wants, seen : SUBSET Keys, target : BufferIds \cup {NoEvent}]

TypeOK ==
    /\ now \in 0..LastTime /\ edits \in 0..MaxEdits
    /\ meeting \in [Meetings -> MeetingStates]
    /\ minutes \in Minutes
    /\ enabled \in BOOLEAN
    /\ buffer \in [BufferIds -> BufferStates]
    /\ row \in [Keys -> Rows]
    /\ proc \in [Recomputers -> ProcStates]
    /\ lost \subseteq Keys /\ unseen \subseteq Keys
    /\ alone \subseteq Recomputers
    /\ inStep \in BOOLEAN
    /\ upsets \in 0..MaxUpsets

(* skulid is installed beside a calendar that has meetings already.        *)
AnyMeeting ==
    {NoMeeting} \cup [on : {TRUE}, start : {0}, end : {2}, located : BOOLEAN, people : BOOLEAN]

Init ==
    /\ now = 0
    /\ meeting \in [Meetings -> AnyMeeting]
    /\ minutes = [travel |-> 1, decompress |-> 1]
    /\ enabled = TRUE
    /\ buffer = [b \in BufferIds |-> [state |-> "unborn", key |-> AnyKey, start |-> 0, end |-> 0]]
    /\ row = [k \in Keys |-> NoRow]
    /\ proc = [p \in Recomputers |-> NoProc]
    /\ edits = 0
    /\ lost = {} /\ unseen = {} /\ alone = {} /\ inStep = FALSE /\ upsets = 0
-------------------------------------------------------------------------------
(* What a meeting earns (planBuffers): decompression follows the meeting,  *)
(* and the way back follows decompression.                                 *)
Travels(m) == m.on /\ m.located
Decompresses(m) == m.on /\ m.people

Want(e, kind, start, end) == [key |-> [source |-> e, kind |-> kind], start |-> start, end |-> end]

(* As if the way back started when the meeting ends.                       *)
PlanOverlapping(e, m, mins) ==
    {w \in {Want(e, "travel before", m.start - mins.travel, m.start),
            Want(e, "decompress", m.end, m.end + mins.decompress),
            Want(e, "travel after", m.end, m.end + mins.travel)} :
        IF w.key.kind = "decompress" THEN mins.decompress > 0 /\ Decompresses(m)
        ELSE mins.travel > 0 /\ Travels(m)}

Plan(e, m, mins) ==
    LET trailing == IF mins.decompress > 0 /\ Decompresses(m) THEN m.end + mins.decompress ELSE m.end
    IN {w \in {Want(e, "travel before", m.start - mins.travel, m.start),
               Want(e, "decompress", m.end, m.end + mins.decompress),
               Want(e, "travel after", trailing, trailing + mins.travel)} :
            IF w.key.kind = "decompress" THEN mins.decompress > 0 /\ Decompresses(m)
            ELSE mins.travel > 0 /\ Travels(m)}

(* The events Google lists for a span, and the rows the query returns.     *)
Listed(m, from) == m.on /\ m.end > from /\ m.start < from + Horizon
InRange(r, from) == r.target # NoEvent /\ r.end >= from /\ r.start < from + Horizon
-------------------------------------------------------------------------------
Upset == upsets < MaxUpsets /\ upsets' = upsets + 1

(* Whatever changes under a recomputation disturbs it.                     *)
Disturb == alone' = {} /\ inStep' = FALSE

Edit ==
    /\ edits < MaxEdits
    /\ edits' = edits + 1
    /\ Disturb
    /\ UNCHANGED <<now, buffer, row, proc, lost, unseen, upsets>>

(* The user makes, moves, changes or cancels a meeting.                    *)
EditMeeting(e) ==
    /\ Edit
    /\ \E on, located, people \in BOOLEAN, start \in 0..LastStart, length \in 1..2 :
          meeting' = [meeting EXCEPT ![e] =
              IF on THEN [on |-> TRUE, start |-> start, end |-> start + length,
                          located |-> located, people |-> people]
              ELSE NoMeeting]
    /\ UNCHANGED <<minutes, enabled>>

EditMinutes ==
    /\ Edit
    /\ minutes' \in Minutes
    /\ UNCHANGED <<meeting, enabled>>

Toggle ==
    /\ Edit
    /\ enabled' = ~enabled
    /\ UNCHANGED <<meeting, minutes>>

Tick ==
    /\ now < LastTime
    /\ now' = now + 1
    /\ Disturb
    /\ UNCHANGED <<meeting, minutes, enabled, edits, buffer, row, proc, lost, unseen, upsets>>
-------------------------------------------------------------------------------
(* BufferEngine.Recompute.                                                 *)

Goes(p, pc) == proc' = [proc EXCEPT ![p].pc = pc]
Idle(q) == proc[q].pc = "idle"

(* Read the settings and the rows in range.  A disabled calendar is left   *)
(* as it is.                                                               *)
Begin(p) ==
    /\ Idle(p) /\ enabled
    /\ proc' = [proc EXCEPT ![p] =
           [NoProc EXCEPT !.pc = "listing", !.from = now, !.minutes = minutes,
                          !.rows = [k \in Keys |-> IF InRange(row[k], now) THEN row[k] ELSE NoRow]]]
    /\ alone' = IF \A q \in Recomputers : Idle(q) THEN {p} ELSE {}
    /\ inStep' = FALSE
    /\ UNCHANGED <<given, buffer, row, lost, unseen, upsets>>

(* List the meetings in range.  A buffer may be out of it when its meeting *)
(* is in it: then its row was not read.                                    *)
Missing(k, from) == row[k].target # NoEvent /\ ~InRange(row[k], from)

ListMeetings(p) ==
    /\ proc[p].pc = "listing"
    /\ LET wants == UNION {Plan(e, meeting[e], proc[p].minutes) :
                              e \in {x \in Meetings : Listed(meeting[x], proc[p].from)}}
           keys == {w.key : w \in wants}
       IN /\ proc' = [proc EXCEPT ![p] =
                 [NoProc EXCEPT !.pc = "applying", !.rows = proc[p].rows, !.wants = wants, !.seen = keys]]
          /\ unseen' = unseen \cup {k \in keys : Missing(k, proc[p].from)}
    /\ UNCHANGED <<given, buffer, row, lost, alone, inStep, upsets>>

(* The next buffer to apply, while there is one.                           *)
Done(p, w) == proc' = [proc EXCEPT ![p].pc = "applying", ![p].wants = @ \ {w},
                                   ![p].target = NoEvent]

Chosen(p) == CHOOSE w \in proc[p].wants : TRUE

(* What was read of the next buffer.  (KnownNothing: as if the keys made   *)
(* from rows were not those made from meetings.)                           *)
KnownNothing(p) == NoRow
Known(p) == proc[p].rows[Chosen(p).key]

(* apply: nothing to do, move the buffer, or make it.                      *)
Applies(p) == proc[p].pc = "applying" /\ proc[p].wants # {}
Matches(p) == Known(p).start = Chosen(p).start /\ Known(p).end = Chosen(p).end
Updates(p) == Applies(p) /\ Known(p).target # NoEvent /\ ~Matches(p)
Inserts(p) == Applies(p) /\ Known(p).target = NoEvent

Unchanged(p) ==
    /\ Applies(p) /\ Known(p).target # NoEvent /\ Matches(p)
    /\ Done(p, Chosen(p))
    /\ UNCHANGED <<given, buffer, row, lost, unseen, alone, inStep, upsets>>

Event(w) == [state |-> "live", key |-> w.key, start |-> w.start, end |-> w.end]
Unborn == {b \in BufferIds : buffer[b].state = "unborn"}

InsertEvent(p) ==
    /\ Inserts(p) /\ Unborn # {}
    /\ LET b == CHOOSE x \in Unborn : TRUE
       IN /\ buffer' = [buffer EXCEPT ![b] = Event(Chosen(p))]
          /\ proc' = [proc EXCEPT ![p].pc = "saving", ![p].target = b]
    /\ UNCHANGED <<given, row, lost, unseen, alone, inStep, upsets>>

(* The new row is refused when the calendar has one of that key already.   *)
InsertRow(p) ==
    /\ proc[p].pc = "saving"
    /\ LET w == Chosen(p)
       IN \/ /\ row[w.key].target = NoEvent
             /\ row' = [row EXCEPT ![w.key] =
                            [target |-> proc[p].target, start |-> w.start, end |-> w.end]]
             /\ UNCHANGED <<lost, alone, upsets>>
          \/ /\ row[w.key].target # NoEvent
             /\ lost' = lost \cup ({w.key} \ unseen)
             /\ UNCHANGED <<row, alone, upsets>>
          \/ /\ Upset
             /\ lost' = lost \cup {w.key}
             /\ alone' = {}
             /\ UNCHANGED row
       /\ Done(p, w)
    /\ UNCHANGED <<given, buffer, unseen, inStep>>

(* Google moves the buffer, unless it is gone.                             *)
UpdateEvent(p) ==
    /\ Updates(p) /\ buffer[Known(p).target].state = "live"
    /\ buffer' = [buffer EXCEPT ![Known(p).target] = Event(Chosen(p))]
    /\ Goes(p, "moving")
    /\ UNCHANGED <<given, row, lost, unseen, alone, inStep, upsets>>

(* UpdateWindow finds the row by its id, if it is still there.  Meanwhile  *)
(* another recomputation may have moved the buffer elsewhere.              *)
UpdateRow(p) ==
    /\ proc[p].pc = "moving"
    /\ LET w == Chosen(p)
           b == Known(p).target
       IN /\ row' = [row EXCEPT ![w.key] =
                IF @.target = b THEN [@ EXCEPT !.start = w.start, !.end = w.end] ELSE @]
          /\ lost' = IF buffer[b].start = w.start /\ buffer[b].end = w.end THEN lost
                     ELSE lost \cup {w.key}
          /\ Done(p, w)
    /\ UNCHANGED <<given, buffer, unseen, alone, inStep, upsets>>

(* A call fails, or Google carries out an insert whose answer is lost, or  *)
(* the row is not updated: this buffer is given up, the rest goes on.      *)
ApplyFails(p) ==
    /\ \/ /\ Updates(p) /\ buffer[Known(p).target].state # "live"
          /\ UNCHANGED <<buffer, lost, upsets>>
       \/ /\ (Inserts(p) \/ Updates(p)) /\ Upset
          /\ UNCHANGED <<buffer, lost>>
       \/ /\ proc[p].pc = "moving" /\ Upset
          /\ lost' = lost \cup {Chosen(p).key}
          /\ UNCHANGED buffer
       \/ /\ Inserts(p) /\ Unborn # {} /\ Upset
          /\ buffer' = [buffer EXCEPT ![CHOOSE x \in Unborn : TRUE] = Event(Chosen(p))]
          /\ lost' = lost \cup {Chosen(p).key}
    /\ Done(p, Chosen(p))
    /\ alone' = {}
    /\ UNCHANGED <<given, row, unseen, inStep>>

(* The rows read that no meeting earns, one after the other: delete the    *)
(* event, then, even if that failed, the row.  (AllRead: as if the meetings *)
(* just listed were forgotten.)                                            *)
AllRead(p) == {k \in Keys : proc[p].rows[k].target # NoEvent}
Orphans(p) == {k \in Keys : proc[p].rows[k].target # NoEvent /\ k \notin proc[p].seen}
Orphan(p) == CHOOSE k \in Orphans(p) : TRUE

DeleteEvent(p) ==
    /\ proc[p].pc = "applying" /\ proc[p].wants = {} /\ Orphans(p) # {}
    /\ LET k == Orphan(p)
       IN \/ /\ buffer' = [buffer EXCEPT ![proc[p].rows[k].target].state = "deleted"]
             /\ UNCHANGED <<lost, alone, upsets>>
          \/ /\ Upset
             /\ lost' = lost \cup {k}
             /\ alone' = {}
             /\ UNCHANGED buffer
    /\ Goes(p, "forgetting")
    /\ UNCHANGED <<given, row, unseen, inStep>>

WithoutKey(rs, k, target) == [rs EXCEPT ![k] = NoRow]
Without(rs, k, target) == [rs EXCEPT ![k] = IF @.target = target THEN NoRow ELSE @]

DeleteRow(p) ==
    /\ proc[p].pc = "forgetting"
    /\ LET k == Orphan(p)
       IN /\ \/ /\ row' = Without(row, k, proc[p].rows[k].target)
                /\ UNCHANGED <<lost, alone, upsets>>
             \/ /\ Upset
                /\ lost' = lost \cup {k}
                /\ alone' = {}
                /\ UNCHANGED row
          /\ proc' = [proc EXCEPT ![p].pc = "applying", ![p].rows[k] = NoRow]
    /\ UNCHANGED <<given, buffer, unseen, inStep>>

Finish(p) ==
    /\ proc[p].pc = "applying" /\ proc[p].wants = {} /\ Orphans(p) = {}
    /\ proc' = [proc EXCEPT ![p] = NoProc]
    /\ inStep' = (p \in alone)
    /\ alone' = alone \ {p}
    /\ UNCHANGED <<given, buffer, row, lost, unseen, upsets>>

(* Recomputations end where they are: one at a failed listing or when its  *)
(* two minutes are over, all when the program is killed.                   *)
Unsaved(gone) ==
    {Chosen(p).key : p \in {q \in gone : proc[q].pc \in {"saving", "moving"}}}
    \cup {Orphan(p) : p \in {q \in gone : proc[q].pc = "forgetting"}}

Stop(gone) ==
    /\ \E p \in gone : ~Idle(p)
    /\ Upset
    /\ proc' = [p \in Recomputers |-> IF p \in gone THEN NoProc ELSE proc[p]]
    /\ lost' = lost \cup Unsaved(gone)
    /\ Disturb
    /\ UNCHANGED <<given, buffer, row, unseen>>

Recompute(p) ==
    \/ ListMeetings(p) \/ Unchanged(p) \/ InsertEvent(p) \/ InsertRow(p) \/ UpdateEvent(p)
    \/ UpdateRow(p) \/ ApplyFails(p) \/ DeleteEvent(p) \/ DeleteRow(p) \/ Finish(p)

Next ==
    \/ EditMinutes \/ Toggle \/ Tick \/ \E e \in Meetings : EditMeeting(e)
    \/ \E p \in Recomputers : Begin(p) \/ Recompute(p) \/ Stop({p})
    \/ Stop(Recomputers)

Spec == Init /\ [][Next]_vars
-------------------------------------------------------------------------------
(* Properties.                                                             *)

Live(k) == {b \in BufferIds : buffer[b].state = "live" /\ buffer[b].key = k}

(* The engine loses sight of a buffer only in the ways "lost" records (a   *)
(* row refused, not written or not removed, an answer lost, a failed       *)
(* delete, two moves that crossed) and when its row was outside the span   *)
(* read.  Otherwise it is the row's, or a recomputation is about to write  *)
(* the row.                                                                *)
EveryBufferKnown ==
    \A k \in Keys \ (lost \cup unseen) : \A b \in Live(k) :
        \/ row[k].target = b
        \/ \E p \in Recomputers : proc[p].pc = "saving" /\ proc[p].target = b

(* After a recomputation that nothing disturbed, whatever happened before, *)
(* each buffer that a meeting earns is on the calendar and in its place,   *)
(* even one whose row was not read; the others are there once only; and    *)
(* in the coming days there is none that no meeting earns.  (The buffers   *)
(* excepted as lost were lost before: see UndisturbedLosesNothing.)        *)
Earned == UNION {Plan(e, meeting[e], minutes) : e \in {x \in Meetings : Listed(meeting[x], now)}}

CalendarInStep ==
    inStep =>
        /\ \A w \in Earned : w.key \notin lost => \E b \in Live(w.key) :
              /\ buffer[b] = Event(w)
              /\ w.key \notin unseen => Live(w.key) = {b}
        /\ \A k \in Keys \ (lost \cup unseen \cup {w.key : w \in Earned}) : \A b \in Live(k) :
              buffer[b].end < now \/ buffer[b].start >= now + Horizon

(* A recomputation that nothing disturbs loses no buffer, whatever was     *)
(* lost before it: it refuses no row but those outside the span read, and  *)
(* moves each buffer to where it writes it down.                           *)
UndisturbedLosesNothing ==
    [][\A p \in alone : p \in alone' \/ inStep' => lost' = lost]_vars

(* After such a recomputation the buffers of a meeting overlap neither     *)
(* each other nor the meeting: decompression comes first, then the way     *)
(* back (the comment of planBuffers).                                      *)
Apart(x, y) == x.end <= y.start \/ y.end <= x.start

NoOverlap ==
    inStep =>
        \A w1, w2 \in {w \in Earned : w.key \notin lost \cup unseen} :
            \A b1 \in Live(w1.key), b2 \in Live(w2.key) :
                w1.key.source = w2.key.source =>
                    /\ b1 # b2 => Apart(buffer[b1], buffer[b2])
                    /\ Apart(buffer[b1], meeting[w1.key.source])

(* Recompute, by its comment, brings the buffers "into sync with the       *)
(* user's upcoming meetings".  But rows are read by the buffer's own span  *)
(* and meetings by theirs: where a meeting is under way its way there is   *)
(* over, and where it runs past the last day what follows it begins later. *)
(* That row is not read, and each recomputation makes the buffer again.    *)
MadeOnce == inStep => \A w \in Earned : w.key \notin lost => Cardinality(Live(w.key)) = 1

(* The comment on reaping: rows whose meeting moved out of the horizon,    *)
(* lost its location, was cancelled, or whose minutes were set to zero.    *)
(* But a meeting that is over is not listed either: its decompression and  *)
(* the way back are removed as soon as they begin.                         *)
Within(w) == w.end > now /\ w.start < now + Horizon
ReapedForCause ==
    [][\A b \in BufferIds : buffer[b].state = "live" /\ buffer'[b].state = "deleted" =>
          ~\E w \in Plan(buffer[b].key.source, meeting[buffer[b].key.source], minutes) :
              Event(w) = buffer[b] /\ Within(w)]_vars

===============================================================================
