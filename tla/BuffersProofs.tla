---------------------------- MODULE BuffersProofs ----------------------------
(***************************************************************************)
(* Proofs about module Buffers, for all calendars, horizons and bounds.    *)
(*                                                                         *)
(* That no buffer is lost sight of rests on what rows say: a row, stored   *)
(* or read, names an event inserted for its key (Ours), an event no row    *)
(* names yet is in the hands of one recomputation (Saved), and a row whose *)
(* event is gone is about to go (Alive).                                   *)
(*                                                                         *)
(* That the calendar is in step is a matter of one recomputation that runs *)
(* alone (Alone): what it read is still so for every key it has not come   *)
(* to, and what it is done with is as the plan says (OnCourse).  Rows say  *)
(* where the events are (Alive, InPlace), so this holds of the calendar.   *)
(***************************************************************************)
EXTENDS Buffers, TLAPS

(* A meeting takes time.                                                   *)
Sized == \A e \in Meetings : meeting[e].on => meeting[e].start < meeting[e].end

(* Event b was inserted for key k.                                         *)
Bears(b, k) == buffer[b].state # "unborn" /\ buffer[b].key = k

Ours ==
    \A k \in Keys :
        /\ row[k].target # NoEvent => Bears(row[k].target, k)
        /\ \A p \in Recomputers :
              proc[p].rows[k].target # NoEvent => Bears(proc[p].rows[k].target, k)

(* A recomputation has in hand what its place requires.                    *)
AtHand ==
    \A p \in Recomputers :
        /\ proc[p].pc \in {"saving", "moving"} => proc[p].wants # {}
        /\ proc[p].pc = "moving" => Known(p).target # NoEvent
        /\ proc[p].pc = "forgetting" => proc[p].wants = {} /\ Orphans(p) # {}

(* An event whose row is to be written is just as planned, and nobody else *)
(* knows of it.                                                            *)
Saves(p, b) == proc[p].pc = "saving" /\ proc[p].target = b

Saved ==
    \A p \in Recomputers : \A b \in BufferIds \cup {NoEvent} : Saves(p, b) =>
        /\ b # NoEvent /\ buffer[b] = Event(Chosen(p))
        /\ \A k \in Keys :
              row[k].target # b /\ \A q \in Recomputers : proc[q].rows[k].target # b
        /\ \A q \in Recomputers : Saves(q, b) => q = p

(* What p moves, and what it has deleted the event of.                     *)
Moving(p, b)  == proc[p].pc = "moving" /\ Known(p).target = b
Forgets(p, b) == proc[p].pc = "forgetting" /\ proc[p].rows[Orphan(p)].target = b

Forgotten ==
    \A p \in Recomputers : proc[p].pc = "forgetting" =>
        Orphan(p) \in lost \/ buffer[proc[p].rows[Orphan(p)].target].state # "live"

(* Rows name live events and say where they are, but for those at work.    *)
Alive ==
    \A k \in Keys \ lost : row[k].target # NoEvent =>
        \/ buffer[row[k].target].state = "live"
        \/ \E p \in Recomputers : Forgets(p, row[k].target)

Placed(k) ==
    buffer[row[k].target].start = row[k].start /\ buffer[row[k].target].end = row[k].end

InPlace ==
    \A k \in Keys \ lost : row[k].target # NoEvent =>
        Placed(k) \/ \E p \in Recomputers : Moving(p, row[k].target)

(* A recomputation that nothing disturbed is the only one.                 *)
Alone ==
    \A p \in alone : /\ ~Idle(p)
                     /\ \A q \in Recomputers \ {p} : Idle(q)

(* It knows the row of k as it is.                                         *)
Read(p, k) == proc[p].rows[k] = IF InRange(row[k], now) THEN row[k] ELSE NoRow

(* The row of w is as planned, or, as it was out of the span read, a new    *)
(* event is.                                                               *)
Kept(w) ==
    w.key \notin lost =>
        \/ row[w.key].target # NoEvent /\ row[w.key].start = w.start /\ row[w.key].end = w.end
        \/ w.key \in unseen /\ \E b \in BufferIds : buffer[b] = Event(w)

(* It makes what it knows no row of, moves events to where they belong,    *)
(* and the rows it does not know of are out of the span read.              *)
AtWork(p) ==
    /\ proc[p].pc = "saving" => Known(p).target = NoEvent
    /\ proc[p].pc = "moving" => buffer[Known(p).target] = Event(Chosen(p))
    /\ \A w \in proc[p].wants : Missing(w.key, now) => w.key \in unseen

KeysOf(wants) == {w.key : w \in wants}

Planned(p) ==
    /\ proc[p].wants \subseteq Earned
    /\ proc[p].seen = KeysOf(Earned)
    /\ \A k \in Keys : k \notin proc[p].seen \/ k \in KeysOf(proc[p].wants) => Read(p, k)
    /\ \A w \in Earned \ proc[p].wants : Kept(w)
    /\ AtWork(p)

OnCourse ==
    \A p \in alone :
        IF proc[p].pc = "listing"
        THEN proc[p].from = now /\ proc[p].minutes = minutes /\ \A k \in Keys : Read(p, k)
        ELSE Planned(p)

(* Once it is done, nobody is at work and the rows are as planned.         *)
Settled ==
    inStep => /\ \A p \in Recomputers : Idle(p)
              /\ alone = {}
              /\ \A w \in Earned : Kept(w)
              /\ \A k \in Keys \ KeysOf(Earned) : ~InRange(row[k], now)

Inv == /\ TypeOK /\ Sized /\ Ours /\ AtHand /\ Saved /\ Forgotten /\ Alive /\ InPlace
       /\ EveryBufferKnown /\ Alone /\ OnCourse /\ Settled
-------------------------------------------------------------------------------
(* What a plan is made of.                                                 *)

LEMMA PlanWants ==
    ASSUME BufferAssumption, NEW e \in Meetings, NEW m \in MeetingStates, NEW mins \in Minutes
    PROVE  /\ Plan(e, m, mins) \subseteq Wants
           /\ \A w \in Plan(e, m, mins) : w.key.source = e
           /\ \A v, w \in Plan(e, m, mins) : v.key = w.key => v = w
<1> DEFINE after == IF mins.decompress > 0 /\ Decompresses(m) THEN m.end + mins.decompress ELSE m.end
           before == Want(e, "travel before", m.start - mins.travel, m.start)
           rest == Want(e, "decompress", m.end, m.end + mins.decompress)
           back == Want(e, "travel after", after, after + mins.travel)
<1>1. Plan(e, m, mins) \subseteq {before, rest, back}  BY DEF Plan
<1>2. /\ m.start \in 0..LastStart /\ m.end \in 0..(LastStart + 2)
      /\ mins.travel \in 0..1 /\ mins.decompress \in 0..1 /\ LastStart \in Nat
  BY DEF MeetingStates, Minutes, BufferAssumption
<1>3. /\ m.start - mins.travel \in Times /\ m.start \in Times /\ m.end \in Times
      /\ m.end + mins.decompress \in Times /\ after \in Times /\ after + mins.travel \in Times
  BY <1>2 DEF Times
<1>4. before \in Wants /\ rest \in Wants /\ back \in Wants
  BY <1>3 DEF Want, Wants, Keys, Kinds
<1>5. before.key.source = e /\ rest.key.source = e /\ back.key.source = e  BY DEF Want
<1>6. /\ before.key.kind = "travel before" /\ rest.key.kind = "decompress"
      /\ back.key.kind = "travel after"
  BY DEF Want
<1> HIDE DEF before, rest, back
<1>7. \A v, w \in {before, rest, back} : v.key = w.key => v = w  BY <1>6
<1> QED  BY <1>1, <1>4, <1>5, <1>7

(* What all meetings earn that are listed from a time on.                  *)
EarnedFrom(from, mins) ==
    UNION {Plan(e, meeting[e], mins) : e \in {x \in Meetings : Listed(meeting[x], from)}}

LEMMA EarnedWants ==
    ASSUME BufferAssumption, TypeOK, NEW from, NEW mins \in Minutes
    PROVE  /\ EarnedFrom(from, mins) \subseteq Wants
           /\ \A v, w \in EarnedFrom(from, mins) : v.key = w.key => v = w
<1>1. \A e \in Meetings : meeting[e] \in MeetingStates  BY DEF TypeOK
<1>2. ASSUME NEW w \in EarnedFrom(from, mins)
      PROVE  /\ w \in Wants /\ w.key.source \in Meetings
             /\ w \in Plan(w.key.source, meeting[w.key.source], mins)
  <2>1. PICK e \in Meetings : w \in Plan(e, meeting[e], mins)  BY DEF EarnedFrom
  <2> QED  BY <1>1, <2>1, PlanWants
<1>3. \A v, w \in EarnedFrom(from, mins) : v.key = w.key => v = w  BY <1>1, <1>2, PlanWants
<1> QED  BY <1>2, <1>3

LEMMA EarnedKeys ==
    ASSUME BufferAssumption, TypeOK
    PROVE  /\ Earned \subseteq Wants
           /\ \A w \in Earned : w.key \in Keys
           /\ \A v, w \in Earned : v.key = w.key => v = w
<1>1. Earned = EarnedFrom(now, minutes)  BY DEF Earned, EarnedFrom
<1>2. minutes \in Minutes  BY DEF TypeOK
<1> QED  BY <1>1, <1>2, EarnedWants DEF Wants
-------------------------------------------------------------------------------
(* What a step does to the recomputation that takes it.                    *)

LEMMA Moved ==
    ASSUME TypeOK, NEW p \in Recomputers, NEW x \in ProcStates, proc' = [proc EXCEPT ![p] = x]
    PROVE  /\ proc' \in [Recomputers -> ProcStates]
           /\ proc'[p] = x
           /\ \A q \in Recomputers \ {p} : proc'[q] = proc[q]
  BY DEF TypeOK

LEMMA GoesOn ==
    ASSUME TypeOK, NEW p \in Recomputers, NEW pc \in Steps, Goes(p, pc)
    PROVE  /\ proc' \in [Recomputers -> ProcStates]
           /\ \A q \in Recomputers \ {p} : proc'[q] = proc[q]
           /\ proc'[p].pc = pc /\ proc'[p].wants = proc[p].wants /\ proc'[p].rows = proc[p].rows
           /\ proc'[p].seen = proc[p].seen /\ proc'[p].target = proc[p].target
<1> DEFINE x == [proc[p] EXCEPT !.pc = pc]
<1>1. proc[p] \in ProcStates  BY DEF TypeOK
<1>2. proc' = [proc EXCEPT ![p] = x]  BY DEF Goes, TypeOK
<1>3. /\ x \in ProcStates /\ x.pc = pc /\ x.wants = proc[p].wants /\ x.rows = proc[p].rows
      /\ x.seen = proc[p].seen /\ x.target = proc[p].target
  BY <1>1 DEF ProcStates
<1> HIDE DEF x
<1> QED  BY <1>2, <1>3, Moved

LEMMA DoneWith ==
    ASSUME TypeOK, NEW p \in Recomputers, NEW w, Done(p, w)
    PROVE  /\ proc' \in [Recomputers -> ProcStates]
           /\ \A q \in Recomputers \ {p} : proc'[q] = proc[q]
           /\ proc'[p].pc = "applying" /\ proc'[p].wants = proc[p].wants \ {w}
           /\ proc'[p].rows = proc[p].rows /\ proc'[p].seen = proc[p].seen
           /\ proc'[p].target = NoEvent
<1> DEFINE x == [proc[p] EXCEPT !.pc = "applying", !.wants = @ \ {w}, !.target = NoEvent]
<1>1. proc[p] \in ProcStates  BY DEF TypeOK
<1>2. proc' = [proc EXCEPT ![p] = x]  BY DEF Done, TypeOK
<1>3. /\ x \in ProcStates /\ x.pc = "applying" /\ x.wants = proc[p].wants \ {w}
      /\ x.rows = proc[p].rows /\ x.seen = proc[p].seen /\ x.target = NoEvent
  BY <1>1 DEF ProcStates, Steps
<1> HIDE DEF x
<1> QED  BY <1>2, <1>3, Moved

LEMMA ChosenWanted ==
    ASSUME TypeOK, NEW p \in Recomputers, proc[p].wants # {}
    PROVE  /\ Chosen(p) \in proc[p].wants /\ Chosen(p) \in Wants /\ Chosen(p).key \in Keys
           /\ Known(p) \in Rows /\ Known(p) = proc[p].rows[Chosen(p).key]
           /\ Event(Chosen(p)) \in BufferStates
<1>1. proc[p] \in ProcStates  BY DEF TypeOK
<1>2. Chosen(p) \in proc[p].wants  BY DEF Chosen
<1>3. Chosen(p) \in Wants /\ proc[p].rows \in [Keys -> Rows]  BY <1>1, <1>2 DEF ProcStates
<1>4. Chosen(p).key \in Keys  BY <1>3 DEF Wants
<1>5. Event(Chosen(p)) \in BufferStates  BY <1>3 DEF Event, Wants, BufferStates
<1> QED  BY <1>2, <1>3, <1>4, <1>5 DEF Known

LEMMA OrphanRead ==
    ASSUME TypeOK, NEW p \in Recomputers, Orphans(p) # {}
    PROVE  /\ Orphan(p) \in Keys /\ Orphan(p) \notin proc[p].seen
           /\ proc[p].rows[Orphan(p)] \in Rows
           /\ proc[p].rows[Orphan(p)].target \in BufferIds
<1>1. Orphan(p) \in Orphans(p)  BY DEF Orphan
<1>2. proc[p].rows \in [Keys -> Rows]  BY DEF TypeOK, ProcStates
<1> QED  BY <1>1, <1>2 DEF Orphans, Rows

(* What is read out of a recomputation that is as it was.                  *)
LEMMA Still ==
    ASSUME NEW q, proc'[q] = proc[q]
    PROVE  /\ Chosen(q)' = Chosen(q) /\ Known(q)' = Known(q)
           /\ Orphans(q)' = Orphans(q) /\ Orphan(q)' = Orphan(q)
           /\ \A b : Saves(q, b)' = Saves(q, b) /\ Moving(q, b)' = Moving(q, b)
                     /\ Forgets(q, b)' = Forgets(q, b)
  BY DEF Chosen, Known, Orphans, Orphan, Saves, Moving, Forgets
-------------------------------------------------------------------------------
(* The steps, one by one.                                                  *)

LEMMA Begun ==
    ASSUME TypeOK, NEW p \in Recomputers, Begin(p)
    PROVE  /\ proc' \in [Recomputers -> ProcStates]
           /\ \A q \in Recomputers \ {p} : proc'[q] = proc[q]
           /\ proc'[p].pc = "listing" /\ proc'[p].from = now /\ proc'[p].minutes = minutes
           /\ \A k \in Keys : proc'[p].rows[k] = IF InRange(row[k], now) THEN row[k] ELSE NoRow
<1> DEFINE rows == [k \in Keys |-> IF InRange(row[k], now) THEN row[k] ELSE NoRow]
           x == [NoProc EXCEPT !.pc = "listing", !.from = now, !.minutes = minutes, !.rows = rows]
<1>1. NoRow \in Rows  BY BufferAssumption DEF NoRow, Rows, Times, BufferAssumption
<1>2. rows \in [Keys -> Rows]  BY <1>1 DEF TypeOK
<1>3. \A k \in Keys : rows[k] = IF InRange(row[k], now) THEN row[k] ELSE NoRow  OBVIOUS
<1> HIDE DEF rows
<1>4. proc' = [proc EXCEPT ![p] = x]  BY DEF Begin, rows
<1>5. x \in ProcStates /\ x.pc = "listing" /\ x.from = now /\ x.minutes = minutes /\ x.rows = rows
  BY <1>2 DEF ProcStates, NoProc, TypeOK, Steps
<1> HIDE DEF x
<1> QED  BY <1>3, <1>4, <1>5, Moved

LEMMA MeetingsListed ==
    ASSUME TypeOK, NEW p \in Recomputers, ListMeetings(p)
    PROVE  /\ proc' \in [Recomputers -> ProcStates]
           /\ \A q \in Recomputers \ {p} : proc'[q] = proc[q]
           /\ proc'[p].pc = "applying" /\ proc'[p].rows = proc[p].rows
           /\ proc'[p].wants = EarnedFrom(proc[p].from, proc[p].minutes)
           /\ proc'[p].seen = KeysOf(proc'[p].wants)
           /\ unseen' = unseen \cup
                 {k \in KeysOf(proc'[p].wants) : Missing(k, proc[p].from)}
           /\ KeysOf(proc'[p].wants) \subseteq Keys
<1> DEFINE wants == EarnedFrom(proc[p].from, proc[p].minutes)
           x == [NoProc EXCEPT !.pc = "applying", !.rows = proc[p].rows, !.wants = wants,
                               !.seen = KeysOf(wants)]
<1>1. proc[p] \in ProcStates  BY DEF TypeOK
<1>2. proc[p].minutes \in Minutes /\ proc[p].rows \in [Keys -> Rows]  BY <1>1 DEF ProcStates
<1>3. wants \subseteq Wants  BY <1>2, BufferAssumption, EarnedWants
<1>4. KeysOf(wants) \subseteq Keys  BY <1>3 DEF KeysOf, Wants
<1>5. /\ proc' = [proc EXCEPT ![p] = x]
      /\ unseen' = unseen \cup {k \in KeysOf(wants) : Missing(k, proc[p].from)}
  BY DEF ListMeetings, KeysOf, EarnedFrom
<1> HIDE DEF wants
<1>6. /\ x \in ProcStates /\ x.pc = "applying" /\ x.rows = proc[p].rows /\ x.wants = wants
      /\ x.seen = KeysOf(wants)
  <2>1. NoProc.from \in 0..LastTime /\ NoProc.minutes \in Minutes
    BY BufferAssumption DEF NoProc, Minutes, BufferAssumption
  <2> QED  BY <1>2, <1>3, <1>4, <2>1 DEF ProcStates, NoProc, Steps
<1> HIDE DEF x
<1> QED  BY <1>4, <1>5, <1>6, Moved DEF wants

LEMMA EventInserted ==
    ASSUME TypeOK, NEW p \in Recomputers, InsertEvent(p)
    PROVE  \E b \in Unborn :
              /\ buffer' = [buffer EXCEPT ![b] = Event(Chosen(p))]
              /\ proc' \in [Recomputers -> ProcStates]
              /\ \A q \in Recomputers \ {p} : proc'[q] = proc[q]
              /\ proc'[p].pc = "saving" /\ proc'[p].target = b /\ proc'[p].wants = proc[p].wants
              /\ proc'[p].rows = proc[p].rows /\ proc'[p].seen = proc[p].seen
<1> DEFINE b == CHOOSE x \in Unborn : TRUE
           x == [proc[p] EXCEPT !.pc = "saving", !.target = b]
<1>1. b \in Unborn  BY DEF InsertEvent
<1>2. buffer' = [buffer EXCEPT ![b] = Event(Chosen(p))]  BY DEF InsertEvent
<1>3. proc' = [proc EXCEPT ![p] = x]  BY DEF InsertEvent, TypeOK
<1> HIDE DEF b
<1>4. proc[p] \in ProcStates /\ b \in BufferIds  BY <1>1 DEF TypeOK, Unborn
<1>5. /\ x \in ProcStates /\ x.pc = "saving" /\ x.target = b /\ x.wants = proc[p].wants
      /\ x.rows = proc[p].rows /\ x.seen = proc[p].seen
  BY <1>4 DEF ProcStates, Steps
<1> HIDE DEF x
<1> QED  BY <1>1, <1>2, <1>3, <1>5, Moved

LEMMA RowDeleted ==
    ASSUME TypeOK, AtHand, NEW p \in Recomputers, DeleteRow(p)
    PROVE  /\ proc' \in [Recomputers -> ProcStates]
           /\ \A q \in Recomputers \ {p} : proc'[q] = proc[q]
           /\ proc'[p].pc = "applying" /\ proc'[p].wants = proc[p].wants
           /\ proc'[p].seen = proc[p].seen /\ proc'[p].target = proc[p].target
           /\ proc'[p].rows[Orphan(p)] = NoRow
           /\ \A k \in Keys \ {Orphan(p)} : proc'[p].rows[k] = proc[p].rows[k]
<1> DEFINE rows == [proc[p].rows EXCEPT ![Orphan(p)] = NoRow]
           x == [proc[p] EXCEPT !.pc = "applying", !.rows = rows]
<1>1. proc[p] \in ProcStates /\ proc[p].rows \in [Keys -> Rows]  BY DEF TypeOK, ProcStates
<1>2. Orphan(p) \in Keys  BY OrphanRead DEF DeleteRow, AtHand
<1>3. NoRow \in Rows  BY BufferAssumption DEF NoRow, Rows, Times, BufferAssumption
<1>4. rows \in [Keys -> Rows] /\ rows[Orphan(p)] = NoRow
      /\ \A k \in Keys \ {Orphan(p)} : rows[k] = proc[p].rows[k]
  BY <1>1, <1>2, <1>3
<1>5. proc' = [proc EXCEPT ![p] = x]  BY DEF DeleteRow, TypeOK
<1> HIDE DEF rows
<1>6. /\ x \in ProcStates /\ x.pc = "applying" /\ x.wants = proc[p].wants /\ x.rows = rows
      /\ x.seen = proc[p].seen /\ x.target = proc[p].target
  BY <1>1, <1>4 DEF ProcStates, Steps
<1> HIDE DEF x
<1> QED  BY <1>4, <1>5, <1>6, Moved

LEMMA Ended ==
    /\ NoProc \in ProcStates /\ NoProc.pc = "idle" /\ NoProc.wants = {}
    /\ \A k \in Keys : NoProc.rows[k] = NoRow
    /\ NoRow.target = NoEvent
<1>1. NoRow \in Rows  BY BufferAssumption DEF NoRow, Rows, Times, BufferAssumption
<1>2. NoProc.minutes \in Minutes  BY DEF NoProc, Minutes
<1>3. NoProc.rows \in [Keys -> Rows]  BY <1>1 DEF NoProc
<1> QED
  BY <1>1, <1>2, <1>3, BufferAssumption DEF NoProc, ProcStates, Steps, NoRow, BufferAssumption
-------------------------------------------------------------------------------
LEMMA InitInv ==
    ASSUME Init
    PROVE  Inv
<1> USE BufferAssumption
<1>1. NoRow \in Rows  BY DEF NoRow, Rows, Times, BufferAssumption
<1>2. AnyKey \in Keys
  <2>1. PICK e \in Meetings : TRUE  BY DEF BufferAssumption
  <2>2. [source |-> e, kind |-> "decompress"] \in Keys  BY <2>1 DEF Keys, Kinds
  <2> QED  BY <2>2 DEF AnyKey
<1>3. [state |-> "unborn", key |-> AnyKey, start |-> 0, end |-> 0] \in BufferStates
  BY <1>2 DEF BufferStates, Times, BufferAssumption
<1>4. AnyMeeting \subseteq MeetingStates
      /\ \A m \in AnyMeeting : m.on => m.start < m.end
  <2>1. 0 \in 0..LastStart /\ 0 \in 0..(LastStart + 2) /\ 2 \in 0..(LastStart + 2)
    BY DEF BufferAssumption
  <2>2. NoMeeting \in MeetingStates /\ ~NoMeeting.on  BY <2>1 DEF NoMeeting, MeetingStates
  <2>3. ASSUME NEW m \in [on : {TRUE}, start : {0}, end : {2}, located : BOOLEAN, people : BOOLEAN]
        PROVE  m \in MeetingStates /\ m.start < m.end
    <3>1. m = [on |-> TRUE, start |-> 0, end |-> 2, located |-> m.located, people |-> m.people]
          /\ m.located \in BOOLEAN /\ m.people \in BOOLEAN
      BY <2>3
    <3>2. m.start = 0 /\ m.end = 2  BY <2>3
    <3>3. \A a, b \in BOOLEAN :
             [on |-> TRUE, start |-> 0, end |-> 2, located |-> a, people |-> b] \in MeetingStates
      BY <2>1 DEF MeetingStates
    <3>4. m \in MeetingStates  BY <3>1, <3>3, Zenon
    <3> QED  BY <3>2, <3>4
  <2> QED  BY <2>2, <2>3 DEF AnyMeeting
<1>5. \A e \in Meetings : meeting[e] \in AnyMeeting  BY DEF Init
<1>6. TypeOK
  <2>1. meeting \in [Meetings -> MeetingStates]  BY <1>4 DEF Init
  <2>2. minutes \in Minutes  BY DEF Init, Minutes
  <2>3. buffer \in [BufferIds -> BufferStates]  BY <1>3 DEF Init
  <2>4. row \in [Keys -> Rows] /\ proc \in [Recomputers -> ProcStates]  BY <1>1, Ended DEF Init
  <2>5. now \in 0..LastTime /\ edits \in 0..MaxEdits /\ upsets \in 0..MaxUpsets
        /\ lost \subseteq Keys /\ unseen \subseteq Keys /\ alone \subseteq Recomputers
    BY DEF Init, BufferAssumption
  <2>6. enabled \in BOOLEAN /\ inStep \in BOOLEAN  BY DEF Init
  <2> QED  BY <2>1, <2>2, <2>3, <2>4, <2>5, <2>6 DEF TypeOK
<1>7. Sized  BY <1>4, <1>5 DEF Sized
<1>8. /\ \A k \in Keys : row[k].target = NoEvent
      /\ \A p \in Recomputers : proc[p] = NoProc
      /\ \A b \in BufferIds : buffer[b].state = "unborn"
  BY DEF Init, NoRow
<1>9. Ours /\ AtHand /\ Saved /\ Forgotten /\ Alive /\ InPlace
  BY <1>8, Ended DEF Ours, AtHand, Saved, Saves, Forgotten, Alive, InPlace
<1>10. EveryBufferKnown  BY <1>8 DEF EveryBufferKnown, Live
<1>11. Alone /\ OnCourse /\ Settled  BY DEF Init, Alone, OnCourse, Settled
<1> QED  BY <1>6, <1>7, <1>9, <1>10, <1>11 DEF Inv

(* The type of the state, step by step.                                    *)
LEMMA NextType ==
    ASSUME TypeOK, AtHand, [Next]_vars
    PROVE  TypeOK'
<1> USE BufferAssumption DEF BufferAssumption
<1>1. CASE UNCHANGED vars  BY <1>1 DEF vars, given, TypeOK
<1>2. ASSUME NEW e \in Meetings, EditMeeting(e) PROVE TypeOK'
  <2>1. PICK on \in BOOLEAN, located \in BOOLEAN, people \in BOOLEAN, start \in 0..LastStart,
             length \in 1..2 :
           meeting' = [meeting EXCEPT ![e] =
              IF on THEN [on |-> TRUE, start |-> start, end |-> start + length,
                          located |-> located, people |-> people]
              ELSE NoMeeting]
    BY <1>2 DEF EditMeeting
  <2>2. start + length \in 0..(LastStart + 2) /\ 0 \in 0..LastStart /\ 0 \in 0..(LastStart + 2)
    OBVIOUS
  <2>3. meeting' \in [Meetings -> MeetingStates]
    BY <2>1, <2>2 DEF TypeOK, MeetingStates, NoMeeting
  <2>4. edits' \in 0..MaxEdits  BY <1>2 DEF EditMeeting, Edit, TypeOK
  <2>5. inStep' \in BOOLEAN /\ alone' = {}  BY <1>2 DEF EditMeeting, Edit, Disturb
  <2> QED  BY <1>2, <2>3, <2>4, <2>5 DEF EditMeeting, Edit, TypeOK
<1>3. CASE EditMinutes \/ Toggle
  <2>1. edits' \in 0..MaxEdits  BY <1>3 DEF EditMinutes, Toggle, Edit, TypeOK
  <2>2. inStep' \in BOOLEAN /\ alone' = {} /\ enabled' \in BOOLEAN
    BY <1>3 DEF EditMinutes, Toggle, Edit, Disturb, TypeOK
  <2>3. minutes' \in Minutes  BY <1>3 DEF EditMinutes, Toggle, TypeOK
  <2> QED  BY <1>3, <2>1, <2>2, <2>3 DEF EditMinutes, Toggle, Edit, TypeOK
<1>4. CASE Tick
  <2>1. now' \in 0..LastTime  BY <1>4 DEF Tick, TypeOK
  <2>2. inStep' \in BOOLEAN /\ alone' = {}  BY <1>4 DEF Tick, Disturb
  <2> QED  BY <1>4, <2>1, <2>2 DEF Tick, TypeOK
<1>5. ASSUME NEW p \in Recomputers, Begin(p) PROVE TypeOK'
  <2>1. proc' \in [Recomputers -> ProcStates]  BY <1>5, Begun
  <2> QED  BY <1>5, <2>1 DEF Begin, given, TypeOK
<1>6. ASSUME NEW p \in Recomputers, ListMeetings(p) PROVE TypeOK'
  <2>1. proc' \in [Recomputers -> ProcStates] /\ unseen' \subseteq Keys
    BY <1>6, MeetingsListed DEF TypeOK
  <2> QED  BY <1>6, <2>1 DEF ListMeetings, given, TypeOK
<1>7. ASSUME NEW p \in Recomputers, Unchanged(p) PROVE TypeOK'
  <2>1. proc' \in [Recomputers -> ProcStates]  BY <1>7, DoneWith DEF Unchanged
  <2> QED  BY <1>7, <2>1 DEF Unchanged, given, TypeOK
<1>8. ASSUME NEW p \in Recomputers, InsertEvent(p) PROVE TypeOK'
  <2>1. proc' \in [Recomputers -> ProcStates]  BY <1>8, EventInserted
  <2>2. Event(Chosen(p)) \in BufferStates
    BY <1>8, ChosenWanted DEF InsertEvent, Inserts, Applies
  <2>3. buffer' \in [BufferIds -> BufferStates]  BY <1>8, <2>2 DEF InsertEvent, TypeOK
  <2> QED  BY <1>8, <2>1, <2>3 DEF InsertEvent, given, TypeOK
<1>9. ASSUME NEW p \in Recomputers, InsertRow(p) PROVE TypeOK'
  <2>1. proc' \in [Recomputers -> ProcStates]  BY <1>9, DoneWith DEF InsertRow
  <2>2. Chosen(p) \in Wants /\ Chosen(p).key \in Keys  BY <1>9, ChosenWanted DEF InsertRow, AtHand
  <2>3. [target |-> proc[p].target, start |-> Chosen(p).start, end |-> Chosen(p).end] \in Rows
    BY <2>2 DEF TypeOK, ProcStates, Rows, Wants
  <2>4. row' \in [Keys -> Rows]  BY <1>9, <2>3 DEF InsertRow, TypeOK
  <2>5. lost' \subseteq Keys /\ alone' \subseteq Recomputers /\ upsets' \in 0..MaxUpsets
    BY <1>9, <2>2 DEF InsertRow, Upset, TypeOK
  <2> QED  BY <1>9, <2>1, <2>4, <2>5 DEF InsertRow, given, TypeOK
<1>10. ASSUME NEW p \in Recomputers, UpdateEvent(p) PROVE TypeOK'
  <2>1. proc' \in [Recomputers -> ProcStates]  BY <1>10, GoesOn DEF UpdateEvent, Steps
  <2>2. Event(Chosen(p)) \in BufferStates
    BY <1>10, ChosenWanted DEF UpdateEvent, Updates, Applies
  <2>3. buffer' \in [BufferIds -> BufferStates]  BY <1>10, <2>2 DEF UpdateEvent, TypeOK
  <2> QED  BY <1>10, <2>1, <2>3 DEF UpdateEvent, given, TypeOK
<1>11. ASSUME NEW p \in Recomputers, UpdateRow(p) PROVE TypeOK'
  <2>1. proc' \in [Recomputers -> ProcStates]  BY <1>11, DoneWith DEF UpdateRow
  <2>2. Chosen(p) \in Wants /\ Chosen(p).key \in Keys  BY <1>11, ChosenWanted DEF UpdateRow, AtHand
  <2>3. \A r \in Rows : [r EXCEPT !.start = Chosen(p).start, !.end = Chosen(p).end] \in Rows
    BY <2>2 DEF Rows, Wants
  <2>4. row' \in [Keys -> Rows]  BY <1>11, <2>3 DEF UpdateRow, TypeOK
  <2>5. lost' \subseteq Keys  BY <1>11, <2>2 DEF UpdateRow, TypeOK
  <2> QED  BY <1>11, <2>1, <2>4, <2>5 DEF UpdateRow, given, TypeOK
<1>12. ASSUME NEW p \in Recomputers, ApplyFails(p) PROVE TypeOK'
  <2>1. proc' \in [Recomputers -> ProcStates]  BY <1>12, DoneWith DEF ApplyFails
  <2>2. Chosen(p).key \in Keys /\ Event(Chosen(p)) \in BufferStates
    BY <1>12, ChosenWanted DEF ApplyFails, AtHand, Inserts, Updates, Applies
  <2>3. buffer' \in [BufferIds -> BufferStates]  BY <1>12, <2>2 DEF ApplyFails, TypeOK
  <2>4. lost' \subseteq Keys /\ upsets' \in 0..MaxUpsets
    BY <1>12, <2>2 DEF ApplyFails, Upset, TypeOK
  <2> QED  BY <1>12, <2>1, <2>3, <2>4 DEF ApplyFails, given, TypeOK
<1>13. ASSUME NEW p \in Recomputers, DeleteEvent(p) PROVE TypeOK'
  <2>1. proc' \in [Recomputers -> ProcStates]  BY <1>13, GoesOn DEF DeleteEvent, Steps
  <2>2. Orphan(p) \in Keys  BY <1>13, OrphanRead DEF DeleteEvent
  <2>3. \A x \in BufferStates : [x EXCEPT !.state = "deleted"] \in BufferStates
    BY DEF BufferStates
  <2>4. buffer' \in [BufferIds -> BufferStates]  BY <1>13, <2>3 DEF DeleteEvent, TypeOK
  <2>5. lost' \subseteq Keys /\ alone' \subseteq Recomputers /\ upsets' \in 0..MaxUpsets
    BY <1>13, <2>2 DEF DeleteEvent, Upset, TypeOK
  <2> QED  BY <1>13, <2>1, <2>4, <2>5 DEF DeleteEvent, given, TypeOK
<1>14. ASSUME NEW p \in Recomputers, DeleteRow(p) PROVE TypeOK'
  <2>1. proc' \in [Recomputers -> ProcStates]  BY <1>14, RowDeleted
  <2>2. Orphan(p) \in Keys  BY <1>14, OrphanRead DEF DeleteRow, AtHand
  <2>3. NoRow \in Rows  BY DEF NoRow, Rows, Times
  <2>4. row' \in [Keys -> Rows]  BY <1>14, <2>3 DEF DeleteRow, Without, TypeOK
  <2>5. lost' \subseteq Keys /\ alone' \subseteq Recomputers /\ upsets' \in 0..MaxUpsets
    BY <1>14, <2>2 DEF DeleteRow, Upset, TypeOK
  <2> QED  BY <1>14, <2>1, <2>4, <2>5 DEF DeleteRow, given, TypeOK
<1>15. ASSUME NEW p \in Recomputers, Finish(p) PROVE TypeOK'
  <2>1. proc' \in [Recomputers -> ProcStates]  BY <1>15, Ended DEF Finish, TypeOK
  <2> QED  BY <1>15, <2>1 DEF Finish, given, TypeOK
<1>16. ASSUME NEW gone \in SUBSET Recomputers, Stop(gone) PROVE TypeOK'
  <2>1. proc' \in [Recomputers -> ProcStates]  BY <1>16, Ended DEF Stop, TypeOK
  <2>2. Unsaved(gone) \subseteq Keys  BY ChosenWanted, OrphanRead DEF Unsaved, AtHand
  <2>3. inStep' \in BOOLEAN /\ alone' = {}  BY <1>16 DEF Stop, Disturb
  <2> QED  BY <1>16, <2>1, <2>2, <2>3 DEF Stop, Upset, given, TypeOK
<1>17. Recomputers \in SUBSET Recomputers /\ \A p \in Recomputers : {p} \in SUBSET Recomputers
  OBVIOUS
<1> QED
  BY <1>1, <1>2, <1>3, <1>4, <1>5, <1>6, <1>7, <1>8, <1>9, <1>10, <1>11, <1>12, <1>13, <1>14,
     <1>15, <1>16, <1>17 DEF Next, Recompute
-------------------------------------------------------------------------------
(* Rows and events.                                                        *)

Books == Ours /\ AtHand /\ Saved /\ Forgotten /\ Alive /\ InPlace /\ EveryBufferKnown

(* Recomputations leave what they were at.                                 *)
LEMMA BooksLeave ==
    ASSUME TypeOK, Books, NEW gone \in SUBSET Recomputers,
           UNCHANGED <<buffer, row>>, lost \subseteq lost', unseen \subseteq unseen',
           Unsaved(gone) \subseteq lost' \cup unseen',
           \A q \in gone : proc[q].pc # "saving" => Unsaved({q}) \subseteq lost',
           \A q \in Recomputers \ gone : proc'[q] = proc[q],
           \A q \in gone :
              /\ proc'[q].pc \notin {"saving", "moving", "forgetting"}
              /\ \A k \in Keys :
                    proc'[q].rows[k].target \in {proc[q].rows[k].target, row[k].target, NoEvent}
    PROVE  Books'
<1> USE DEF Books
<1>1. \A q \in Recomputers \ gone :
         /\ Chosen(q)' = Chosen(q) /\ Known(q)' = Known(q)
         /\ Orphans(q)' = Orphans(q) /\ Orphan(q)' = Orphan(q)
         /\ \A b : Saves(q, b)' = Saves(q, b) /\ Moving(q, b)' = Moving(q, b)
                   /\ Forgets(q, b)' = Forgets(q, b)
  BY Still
<1>2. \A b, k : Bears(b, k)' = Bears(b, k)  BY DEF Bears
<1>3. Ours'  BY <1>2 DEF Ours
<1>4. AtHand'  BY <1>1 DEF AtHand
<1>5. \A q \in gone : \A b : ~Saves(q, b)' /\ ~Moving(q, b)' /\ ~Forgets(q, b)'
  BY DEF Saves, Moving, Forgets
<1>6. Saved'
  <2> SUFFICES ASSUME NEW p \in Recomputers, NEW b \in BufferIds \cup {NoEvent}, Saves(p, b)'
               PROVE  /\ b # NoEvent /\ buffer'[b] = Event(Chosen(p)')
                      /\ \A k \in Keys : row'[k].target # b
                                         /\ \A q \in Recomputers : proc'[q].rows[k].target # b
                      /\ \A q \in Recomputers : Saves(q, b)' => q = p
    BY DEF Saved, Event
  <2>1. p \notin gone /\ Saves(p, b)  BY <1>1, <1>5
  <2>2. /\ b # NoEvent /\ buffer[b] = Event(Chosen(p))
        /\ \A k \in Keys : row[k].target # b /\ \A q \in Recomputers : proc[q].rows[k].target # b
        /\ \A q \in Recomputers : Saves(q, b) => q = p
    BY <2>1 DEF Saved
  <2>3. \A k \in Keys : \A q \in Recomputers : proc'[q].rows[k].target # b  BY <2>2
  <2>4. \A q \in Recomputers : Saves(q, b)' => q = p  BY <1>1, <1>5, <2>2
  <2> QED  BY <1>1, <2>1, <2>2, <2>3, <2>4
<1>7. Forgotten'  BY <1>1 DEF Forgotten
<1>8. Alive'
  <2> SUFFICES ASSUME NEW k \in Keys \ lost', row[k].target # NoEvent,
                      buffer[row[k].target].state # "live"
               PROVE  \E p \in Recomputers : Forgets(p, row[k].target)'
    BY DEF Alive
  <2>1. PICK p \in Recomputers : Forgets(p, row[k].target)  BY DEF Alive
  <2>2. Orphan(p) \in Keys  BY <2>1, OrphanRead DEF Forgets, AtHand
  <2>3. Orphan(p) = k  BY <2>1, <2>2 DEF Forgets, Ours, Bears
  <2>4. p \notin gone  BY <2>1, <2>3 DEF Forgets, Unsaved
  <2> QED  BY <1>1, <2>1, <2>4
<1>9. InPlace'
  <2> SUFFICES ASSUME NEW k \in Keys \ lost', row[k].target # NoEvent, ~Placed(k)
               PROVE  \E p \in Recomputers : Moving(p, row[k].target)'
    BY DEF InPlace, Placed
  <2>1. PICK p \in Recomputers : Moving(p, row[k].target)  BY DEF InPlace
  <2>2. Chosen(p).key \in Keys /\ Known(p) = proc[p].rows[Chosen(p).key]
    BY <2>1, ChosenWanted DEF Moving, AtHand
  <2>3. Chosen(p).key = k  BY <2>1, <2>2 DEF Moving, Ours, Bears
  <2>4. p \notin gone  BY <2>1, <2>3 DEF Moving, Unsaved
  <2> QED  BY <1>1, <2>1, <2>4
<1>10. EveryBufferKnown'
  <2> SUFFICES ASSUME NEW k \in Keys \ (lost' \cup unseen'), NEW b \in Live(k), row[k].target # b
               PROVE  \E p \in Recomputers : Saves(p, b)'
    BY DEF EveryBufferKnown, Live, Saves
  <2>1. PICK p \in Recomputers : Saves(p, b)  BY DEF EveryBufferKnown, Saves
  <2>2. buffer[b].key = Chosen(p).key
    <3>1. b \in BufferIds \cup {NoEvent}  BY DEF Live
    <3>2. buffer[b] = Event(Chosen(p))  BY <2>1, <3>1 DEF Saved
    <3> QED  BY <3>2 DEF Event
  <2>3. p \notin gone  BY <2>1, <2>2 DEF Live, Saves, Unsaved
  <2> QED  BY <1>1, <2>1, <2>3
<1> QED  BY <1>3, <1>4, <1>6, <1>7, <1>8, <1>9, <1>10

(* One recomputation goes on with nothing in hand.                         *)
LEMMA BooksQuiet ==
    ASSUME TypeOK, Books, NEW p \in Recomputers,
           UNCHANGED <<buffer, row, lost>>, unseen \subseteq unseen',
           \A q \in Recomputers \ {p} : proc'[q] = proc[q],
           proc[p].pc \notin {"saving", "moving", "forgetting"},
           proc'[p].pc \notin {"saving", "moving", "forgetting"},
           \A k \in Keys :
              proc'[p].rows[k].target \in {proc[p].rows[k].target, row[k].target, NoEvent}
    PROVE  Books'
<1>1. Unsaved({p}) = {}  BY DEF Unsaved
<1>2. {p} \in SUBSET Recomputers /\ lost \subseteq lost'  OBVIOUS
<1>3. Unsaved({p}) \subseteq lost' \cup unseen'  BY <1>1
<1>4. \A q \in {p} : proc[q].pc # "saving" => Unsaved({q}) \subseteq lost'  BY <1>1
<1> QED  BY <1>2, <1>3, <1>4, BooksLeave

(* A recomputation is done with a buffer without a change to events or rows. *)
LEMMA BooksGiveUp ==
    ASSUME TypeOK, Books, NEW p \in Recomputers, NEW w, Done(p, w),
           UNCHANGED <<buffer, row, unseen>>, lost \subseteq lost',
           Unsaved({p}) \subseteq lost' \cup unseen,
           proc[p].pc # "saving" => Unsaved({p}) \subseteq lost'
    PROVE  Books'
<1>1. /\ \A q \in Recomputers \ {p} : proc'[q] = proc[q]
      /\ proc'[p].pc = "applying" /\ proc'[p].rows = proc[p].rows
  BY DoneWith
<1>2. {p} \in SUBSET Recomputers  OBVIOUS
<1>3. \A q \in {p} : proc[q].pc # "saving" => Unsaved({q}) \subseteq lost'  OBVIOUS
<1>4. \A q \in {p} :
         /\ proc'[q].pc \notin {"saving", "moving", "forgetting"}
         /\ \A k \in Keys :
               proc'[q].rows[k].target \in {proc[q].rows[k].target, row[k].target, NoEvent}
  BY <1>1
<1>5. unseen \subseteq unseen' /\ Unsaved({p}) \subseteq lost' \cup unseen'  OBVIOUS
<1> QED  BY <1>1, <1>2, <1>3, <1>4, <1>5, BooksLeave

LEMMA BooksStay ==
    ASSUME Books, UNCHANGED <<buffer, row, proc, lost, unseen>>
    PROVE  Books'
<1>1. \A q : Chosen(q)' = Chosen(q) /\ Known(q)' = Known(q) /\ Orphans(q)' = Orphans(q)
             /\ Orphan(q)' = Orphan(q)
  BY DEF Chosen, Known, Orphans, Orphan
<1>2. \A q, b : Saves(q, b)' = Saves(q, b) /\ Moving(q, b)' = Moving(q, b)
                /\ Forgets(q, b)' = Forgets(q, b)
  BY <1>1 DEF Saves, Moving, Forgets
<1>3. Ours' /\ AtHand'  BY <1>1 DEF Books, Ours, AtHand, Bears
<1>4. Saved' /\ Forgotten'  BY <1>1, <1>2 DEF Books, Saved, Forgotten, Event
<1>5. Alive' /\ InPlace'  BY <1>2 DEF Books, Alive, InPlace, Placed
<1>6. EveryBufferKnown'  BY DEF Books, EveryBufferKnown, Live
<1> QED  BY <1>3, <1>4, <1>5, <1>6 DEF Books

(* An event is inserted: it is in the hands of the recomputation, or its   *)
(* answer is lost.                                                         *)
LEMMA BooksInsert ==
    ASSUME TypeOK, Books, NEW p \in Recomputers, NEW b \in Unborn,
           proc[p].pc = "applying", proc[p].wants # {}, row' = row, unseen' = unseen,
           buffer' = [buffer EXCEPT ![b] = Event(Chosen(p))],
           \A q \in Recomputers \ {p} : proc'[q] = proc[q],
           proc'[p].rows = proc[p].rows,
           \/ /\ proc'[p].pc = "saving" /\ proc'[p].target = b /\ proc'[p].wants = proc[p].wants
              /\ lost' = lost
           \/ proc'[p].pc = "applying" /\ lost' = lost \cup {Chosen(p).key}
    PROVE  Books'
<1> USE DEF Books
<1>1. /\ b \in BufferIds /\ buffer[b].state = "unborn" /\ buffer'[b] = Event(Chosen(p))
      /\ \A c \in BufferIds \ {b} : buffer'[c] = buffer[c]
      /\ b # NoEvent
  BY BufferAssumption DEF Unborn, TypeOK, BufferAssumption
<1>2. \A k \in Keys : /\ row[k].target \in BufferIds \cup {NoEvent}
                      /\ \A q \in Recomputers : proc[q].rows[k].target \in BufferIds \cup {NoEvent}
  BY DEF TypeOK, ProcStates, Rows
<1>3. \A k \in Keys : row[k].target # b /\ \A q \in Recomputers : proc[q].rows[k].target # b
  BY <1>1 DEF Ours, Bears
<1>4. \A q \in Recomputers \ {p} :
         /\ Chosen(q)' = Chosen(q) /\ Known(q)' = Known(q)
         /\ Orphans(q)' = Orphans(q) /\ Orphan(q)' = Orphan(q)
         /\ \A c : Saves(q, c)' = Saves(q, c) /\ Moving(q, c)' = Moving(q, c)
                   /\ Forgets(q, c)' = Forgets(q, c)
  BY Still
<1>5. \A c : ~Moving(p, c)' /\ ~Forgets(p, c)' /\ ~Moving(p, c) /\ ~Forgets(p, c) /\ ~Saves(p, c)
  BY DEF Moving, Forgets, Saves
<1>6. \A k \in Keys : \A q \in Recomputers : proc'[q].rows[k] = proc[q].rows[k]  OBVIOUS
<1>7. \A q \in Recomputers : ~Saves(q, b)
  <2> SUFFICES ASSUME NEW q \in Recomputers, Saves(q, b) PROVE FALSE
    OBVIOUS
  <2>1. buffer[b] = Event(Chosen(q))  BY <1>1 DEF Saved
  <2> QED  BY <1>1, <2>1 DEF Event
<1>8. Ours'
  <2>1. \A c \in BufferIds, k \in Keys : Bears(c, k) => Bears(c, k)'  BY <1>1 DEF Bears
  <2> QED  BY <1>2, <1>6, <2>1 DEF Ours
<1>9. AtHand'  BY <1>4 DEF AtHand
<1>10. Saved'
  <2> SUFFICES ASSUME NEW q \in Recomputers, NEW c \in BufferIds \cup {NoEvent}, Saves(q, c)'
               PROVE  /\ c # NoEvent /\ buffer'[c] = Event(Chosen(q)')
                      /\ \A k \in Keys : row'[k].target # c
                                         /\ \A o \in Recomputers : proc'[o].rows[k].target # c
                      /\ \A o \in Recomputers : Saves(o, c)' => o = q
    BY DEF Saved, Event
  <2>1. CASE q = p
    <3>1. c = b /\ Chosen(p)' = Chosen(p)  BY <2>1 DEF Saves, Chosen
    <3>2. \A o \in Recomputers : Saves(o, c)' => o = q  BY <1>4, <1>7, <2>1, <3>1
    <3> QED  BY <1>1, <1>3, <1>6, <2>1, <3>1, <3>2
  <2>2. CASE q # p
    <3>1. Saves(q, c) /\ c # b  BY <1>4, <1>7, <2>2
    <3>2. /\ c # NoEvent /\ buffer[c] = Event(Chosen(q))
          /\ \A k \in Keys : row[k].target # c
                             /\ \A o \in Recomputers : proc[o].rows[k].target # c
          /\ \A o \in Recomputers : Saves(o, c) => o = q
      BY <3>1 DEF Saved
    <3>3. ~Saves(p, c)'  BY <3>1 DEF Saves
    <3> QED  BY <1>1, <1>4, <1>6, <2>2, <3>1, <3>2, <3>3
  <2> QED  BY <2>1, <2>2
<1>11. Forgotten'
  <2> SUFFICES ASSUME NEW q \in Recomputers, proc'[q].pc = "forgetting"
               PROVE  \/ Orphan(q)' \in lost'
                      \/ buffer'[proc'[q].rows[Orphan(q)'].target].state # "live"
    BY DEF Forgotten
  <2>1. q # p /\ proc[q].pc = "forgetting"  OBVIOUS
  <2>2. Orphan(q) \in Keys /\ proc[q].rows[Orphan(q)].target \in BufferIds
    BY <2>1, OrphanRead DEF AtHand
  <2> QED  BY <1>1, <1>3, <1>4, <2>1, <2>2 DEF Forgotten
<1>12. Alive' /\ InPlace'
  BY <1>1, <1>2, <1>3, <1>4, <1>5 DEF Alive, InPlace, Placed
<1>13. EveryBufferKnown'
  <2> SUFFICES ASSUME NEW k \in Keys \ (lost' \cup unseen'), NEW c \in Live(k)', row[k].target # c
               PROVE  \E q \in Recomputers : Saves(q, c)'
    BY DEF EveryBufferKnown, Saves
  <2>1. CASE c = b
    <3>1. k = Chosen(p).key  BY <1>1, <2>1 DEF Live, Event
    <3> QED  BY <2>1, <3>1 DEF Saves
  <2>2. CASE c # b
    <3>1. c \in Live(k)  BY <1>1, <2>2 DEF Live
    <3>2. PICK q \in Recomputers : Saves(q, c)  BY <3>1 DEF EveryBufferKnown, Saves
    <3> QED  BY <1>4, <1>5, <3>2
  <2> QED  BY <2>1, <2>2
<1> QED  BY <1>8, <1>9, <1>10, <1>11, <1>12, <1>13

(* The row of the new event is written.                                    *)
LEMMA BooksSave ==
    ASSUME TypeOK, Books, NEW p \in Recomputers, proc[p].pc = "saving",
           Done(p, Chosen(p)), buffer' = buffer, lost' = lost, unseen' = unseen,
           row[Chosen(p).key].target = NoEvent,
           row' = [row EXCEPT ![Chosen(p).key] = [target |-> proc[p].target,
                      start |-> Chosen(p).start, end |-> Chosen(p).end]]
    PROVE  Books'
<1> USE DEF Books
<1> DEFINE b == proc[p].target
<1>1. PICK key \in Keys : key = Chosen(p).key  BY ChosenWanted DEF AtHand
<1>2. /\ row'[key].target = b /\ row'[key].start = Chosen(p).start /\ row'[key].end = Chosen(p).end
      /\ \A k \in Keys \ {key} : row'[k] = row[k]
  BY <1>1 DEF TypeOK, b
<1>3. b \in BufferIds \cup {NoEvent} /\ Saves(p, b)  BY DEF TypeOK, ProcStates, Saves
<1>4. /\ b # NoEvent /\ buffer[b] = Event(Chosen(p))
      /\ \A k \in Keys : row[k].target # b /\ \A q \in Recomputers : proc[q].rows[k].target # b
      /\ \A q \in Recomputers : Saves(q, b) => q = p
  BY <1>3 DEF Saved
<1>5. /\ \A q \in Recomputers \ {p} : proc'[q] = proc[q]
      /\ proc'[p].pc = "applying" /\ proc'[p].rows = proc[p].rows
  BY DoneWith
<1>6. \A q \in Recomputers \ {p} :
         /\ Chosen(q)' = Chosen(q) /\ Known(q)' = Known(q)
         /\ Orphans(q)' = Orphans(q) /\ Orphan(q)' = Orphan(q)
         /\ \A c : Saves(q, c)' = Saves(q, c) /\ Moving(q, c)' = Moving(q, c)
                   /\ Forgets(q, c)' = Forgets(q, c)
  BY <1>5, Still
<1>7. \A c : ~Moving(p, c)' /\ ~Forgets(p, c)' /\ ~Moving(p, c) /\ ~Forgets(p, c) /\ ~Saves(p, c)'
  BY <1>5 DEF Moving, Forgets, Saves
<1>8. \A c, k : Bears(c, k)' = Bears(c, k)  BY DEF Bears
<1>9. /\ buffer[b].state = "live" /\ buffer[b].key = key /\ Bears(b, key)
      /\ buffer[b].start = Chosen(p).start /\ buffer[b].end = Chosen(p).end
  BY <1>1, <1>4 DEF Event, Bears
<1> HIDE DEF b
<1>10. \A k \in Keys : \A q \in Recomputers : proc'[q].rows[k] = proc[q].rows[k]  BY <1>5
<1>11. Ours'  BY <1>2, <1>8, <1>9, <1>10 DEF Ours
<1>12. AtHand'  BY <1>5, <1>6 DEF AtHand
<1>13. Saved'
  <2> SUFFICES ASSUME NEW q \in Recomputers, NEW c \in BufferIds \cup {NoEvent}, Saves(q, c)'
               PROVE  /\ c # NoEvent /\ buffer'[c] = Event(Chosen(q)')
                      /\ \A k \in Keys : row'[k].target # c
                                         /\ \A o \in Recomputers : proc'[o].rows[k].target # c
                      /\ \A o \in Recomputers : Saves(o, c)' => o = q
    BY DEF Saved, Event
  <2>1. q # p /\ Saves(q, c)  BY <1>6, <1>7
  <2>2. c # b  BY <1>4, <2>1
  <2>3. /\ c # NoEvent /\ buffer[c] = Event(Chosen(q))
        /\ \A k \in Keys : row[k].target # c
                           /\ \A o \in Recomputers : proc[o].rows[k].target # c
        /\ \A o \in Recomputers : Saves(o, c) => o = q
    BY <2>1 DEF Saved
  <2> QED  BY <1>2, <1>6, <1>7, <1>10, <2>1, <2>2, <2>3
<1>14. Forgotten'  BY <1>5, <1>6 DEF Forgotten
<1>15. Alive'
  <2>1. buffer'[row'[key].target].state = "live"  BY <1>2, <1>9
  <2>2. \A k \in Keys \ {key} : row'[k] = row[k]  BY <1>2
  <2> QED  BY <1>6, <1>7, <2>1, <2>2 DEF Alive
<1>16. InPlace'
  <2>1. Placed(key)'  BY <1>2, <1>9 DEF Placed
  <2>2. \A k \in Keys \ {key} : row'[k] = row[k] /\ Placed(k)' = Placed(k)  BY <1>2 DEF Placed
  <2> QED  BY <1>6, <1>7, <2>1, <2>2 DEF InPlace
<1>17. EveryBufferKnown'
  <2> SUFFICES ASSUME NEW k \in Keys \ (lost' \cup unseen'), NEW c \in Live(k), row'[k].target # c
               PROVE  \E q \in Recomputers : Saves(q, c)'
    BY DEF EveryBufferKnown, Saves, Live
  <2>1. row[k].target # c  BY <1>1, <1>2, BufferAssumption DEF Live, BufferAssumption
  <2>2. PICK q \in Recomputers : Saves(q, c)  BY <2>1 DEF EveryBufferKnown, Saves
  <2>3. q # p
    <3> SUFFICES ASSUME q = p PROVE FALSE
      OBVIOUS
    <3>1. c = b /\ k = key  BY <1>9, <2>2 DEF Saves, Live, b
    <3> QED  BY <1>2, <3>1
  <2> QED  BY <1>6, <2>2, <2>3
<1> QED  BY <1>11, <1>12, <1>13, <1>14, <1>15, <1>16, <1>17

(* An event is moved.                                                      *)
LEMMA BooksMove ==
    ASSUME TypeOK, Books, NEW p \in Recomputers, UpdateEvent(p)
    PROVE  Books'
<1> USE DEF Books
<1>1. /\ proc[p].pc = "applying" /\ proc[p].wants # {} /\ Known(p).target # NoEvent
      /\ row' = row /\ lost' = lost /\ unseen' = unseen
  BY DEF UpdateEvent, Updates, Applies
<1>2. PICK key \in Keys : key = Chosen(p).key /\ Known(p) = proc[p].rows[key]
  BY <1>1, ChosenWanted
<1>3. PICK b \in BufferIds : b = Known(p).target
  BY <1>1, ChosenWanted DEF Rows
<1>4. /\ buffer[b].state = "live" /\ buffer'[b] = Event(Chosen(p))
      /\ \A c \in BufferIds \ {b} : buffer'[c] = buffer[c]
  BY <1>3 DEF UpdateEvent, TypeOK
<1>5. buffer[b].key = key  BY <1>1, <1>2, <1>3 DEF Ours, Bears
<1>6. buffer'[b].state = "live" /\ buffer'[b].key = key  BY <1>2, <1>4 DEF Event
<1>7. /\ \A q \in Recomputers \ {p} : proc'[q] = proc[q]
      /\ proc'[p].pc = "moving" /\ proc'[p].rows = proc[p].rows /\ proc'[p].wants = proc[p].wants
  BY GoesOn DEF UpdateEvent, Steps
<1>8. \A q \in Recomputers \ {p} :
         /\ Chosen(q)' = Chosen(q) /\ Known(q)' = Known(q)
         /\ Orphans(q)' = Orphans(q) /\ Orphan(q)' = Orphan(q)
         /\ \A c : Saves(q, c)' = Saves(q, c) /\ Moving(q, c)' = Moving(q, c)
                   /\ Forgets(q, c)' = Forgets(q, c)
  BY <1>7, Still
<1>9. /\ Chosen(p)' = Chosen(p) /\ Known(p)' = Known(p)
      /\ \A c : ~Forgets(p, c)' /\ ~Saves(p, c)' /\ ~Moving(p, c) /\ ~Forgets(p, c) /\ ~Saves(p, c)
  BY <1>1, <1>7 DEF Chosen, Known, Moving, Forgets, Saves
<1>10. Moving(p, b)'  BY <1>3, <1>7, <1>9 DEF Moving
<1>11. \A k \in Keys : \A q \in Recomputers : proc'[q].rows[k] = proc[q].rows[k]  BY <1>7
<1>12. \A k \in Keys : /\ row[k].target \in BufferIds \cup {NoEvent}
                       /\ \A q \in Recomputers : proc[q].rows[k].target \in BufferIds \cup {NoEvent}
  BY DEF TypeOK, ProcStates, Rows
<1>13. Ours'
  <2>1. \A c \in BufferIds, k \in Keys : Bears(c, k) => Bears(c, k)'
    BY <1>4, <1>5, <1>6 DEF Bears
  <2> QED  BY <1>1, <1>11, <1>12, <2>1 DEF Ours
<1>14. AtHand'  BY <1>1, <1>7, <1>8, <1>9 DEF AtHand
<1>15. Saved'
  <2> SUFFICES ASSUME NEW q \in Recomputers, NEW c \in BufferIds \cup {NoEvent}, Saves(q, c)'
               PROVE  /\ c # NoEvent /\ buffer'[c] = Event(Chosen(q)')
                      /\ \A k \in Keys : row'[k].target # c
                                         /\ \A o \in Recomputers : proc'[o].rows[k].target # c
                      /\ \A o \in Recomputers : Saves(o, c)' => o = q
    BY DEF Saved, Event
  <2>1. q # p /\ Saves(q, c)  BY <1>8, <1>9
  <2>2. /\ c # NoEvent /\ buffer[c] = Event(Chosen(q))
        /\ \A k \in Keys : row[k].target # c
                           /\ \A o \in Recomputers : proc[o].rows[k].target # c
        /\ \A o \in Recomputers : Saves(o, c) => o = q
    BY <2>1 DEF Saved
  <2> QED  BY <1>1, <1>2, <1>3, <1>4, <1>8, <1>9, <1>11, <2>1, <2>2
<1>16. Forgotten'
  <2> SUFFICES ASSUME NEW q \in Recomputers, proc'[q].pc = "forgetting"
               PROVE  \/ Orphan(q)' \in lost'
                      \/ buffer'[proc'[q].rows[Orphan(q)'].target].state # "live"
    BY DEF Forgotten
  <2>1. q # p /\ proc[q].pc = "forgetting"  BY <1>7
  <2>2. Orphan(q) \in Keys /\ proc[q].rows[Orphan(q)].target \in BufferIds
    BY <2>1, OrphanRead DEF AtHand
  <2> QED  BY <1>1, <1>4, <1>8, <2>1, <2>2, <1>7 DEF Forgotten
<1>17. Alive'
  <2>1. \A c \in BufferIds : buffer[c].state = "live" => buffer'[c].state = "live"  BY <1>4, <1>6
  <2> QED  BY <1>1, <1>8, <1>9, <1>12, <2>1 DEF Alive
<1>18. InPlace'
  <2>1. \A k \in Keys : row[k].target # b /\ row[k].target # NoEvent => Placed(k)' = Placed(k)
    BY <1>1, <1>4, <1>12 DEF Placed
  <2> QED  BY <1>1, <1>8, <1>9, <1>10, <2>1 DEF InPlace
<1>19. EveryBufferKnown'
  <2> SUFFICES ASSUME NEW k \in Keys \ (lost' \cup unseen'), NEW c \in Live(k)', row[k].target # c
               PROVE  \E q \in Recomputers : Saves(q, c)'
    BY <1>1 DEF EveryBufferKnown, Saves
  <2>1. c \in Live(k)  BY <1>4, <1>5, <1>6 DEF Live
  <2>2. PICK q \in Recomputers : Saves(q, c)  BY <1>1, <2>1 DEF EveryBufferKnown, Saves
  <2> QED  BY <1>8, <1>9, <2>2
<1> QED  BY <1>13, <1>14, <1>15, <1>16, <1>17, <1>18, <1>19

(* The row of the moved event follows.                                     *)
LEMMA BooksMoved ==
    ASSUME TypeOK, Books, NEW p \in Recomputers, UpdateRow(p)
    PROVE  Books'
<1> USE DEF Books
<1>1. /\ proc[p].pc = "moving" /\ proc[p].wants # {} /\ Known(p).target # NoEvent
      /\ buffer' = buffer /\ unseen' = unseen
  BY DEF UpdateRow, AtHand
<1>2. PICK key \in Keys : key = Chosen(p).key /\ Known(p) = proc[p].rows[key]
  BY <1>1, ChosenWanted
<1>3. PICK b \in BufferIds : b = Known(p).target
  BY <1>1, ChosenWanted DEF Rows
<1>4. buffer[b].key = key  BY <1>1, <1>2, <1>3 DEF Ours, Bears
<1>5. /\ \A q \in Recomputers \ {p} : proc'[q] = proc[q]
      /\ proc'[p].pc = "applying" /\ proc'[p].rows = proc[p].rows
  BY DoneWith DEF UpdateRow
<1>6. \A q \in Recomputers \ {p} :
         /\ Chosen(q)' = Chosen(q) /\ Known(q)' = Known(q)
         /\ Orphans(q)' = Orphans(q) /\ Orphan(q)' = Orphan(q)
         /\ \A c : Saves(q, c)' = Saves(q, c) /\ Moving(q, c)' = Moving(q, c)
                   /\ Forgets(q, c)' = Forgets(q, c)
  BY <1>5, Still
<1>7. \A c : /\ ~Forgets(p, c)' /\ ~Saves(p, c)' /\ ~Moving(p, c)' /\ ~Forgets(p, c) /\ ~Saves(p, c)
             /\ Moving(p, c) => c = b
  BY <1>1, <1>3, <1>5 DEF Moving, Forgets, Saves
<1>8. \A k \in Keys : \A q \in Recomputers : proc'[q].rows[k] = proc[q].rows[k]  BY <1>5
<1>9. /\ \A k \in Keys : row'[k].target = row[k].target
      /\ \A k \in Keys : row'[k] = row[k] \/ (k = key /\ row[k].target = b)
      /\ row[key].target = b => row'[key].start = Chosen(p).start /\ row'[key].end = Chosen(p).end
  <2>1. /\ row'[key] = IF row[key].target = b
                       THEN [row[key] EXCEPT !.start = Chosen(p).start, !.end = Chosen(p).end]
                       ELSE row[key]
        /\ \A k \in Keys \ {key} : row'[k] = row[k]
    BY <1>2, <1>3 DEF UpdateRow, TypeOK
  <2>2. row[key] \in Rows  BY DEF TypeOK
  <2>3. row[key].target = b =>
           /\ row'[key].target = b
           /\ row'[key].start = Chosen(p).start /\ row'[key].end = Chosen(p).end
    BY <2>1, <2>2 DEF Rows
  <2>4. row'[key].target = row[key].target /\ (row'[key] = row[key] \/ row[key].target = b)
    BY <2>1, <2>3
  <2> QED  BY <2>1, <2>3, <2>4
<1>10. /\ lost \subseteq lost'
       /\ key \notin lost' => buffer[b].start = Chosen(p).start /\ buffer[b].end = Chosen(p).end
  BY <1>2, <1>3 DEF UpdateRow
<1>11. Ours'
  <2>1. \A c, k : Bears(c, k)' = Bears(c, k)  BY <1>1 DEF Bears
  <2> QED  BY <1>8, <1>9, <2>1 DEF Ours
<1>12. AtHand'  BY <1>5, <1>6 DEF AtHand
<1>13. Saved'
  <2> SUFFICES ASSUME NEW q \in Recomputers, NEW c \in BufferIds \cup {NoEvent}, Saves(q, c)'
               PROVE  /\ c # NoEvent /\ buffer'[c] = Event(Chosen(q)')
                      /\ \A k \in Keys : row'[k].target # c
                                         /\ \A o \in Recomputers : proc'[o].rows[k].target # c
                      /\ \A o \in Recomputers : Saves(o, c)' => o = q
    BY DEF Saved, Event
  <2>1. q # p /\ Saves(q, c)  BY <1>6, <1>7
  <2>2. /\ c # NoEvent /\ buffer[c] = Event(Chosen(q))
        /\ \A k \in Keys : row[k].target # c
                           /\ \A o \in Recomputers : proc[o].rows[k].target # c
        /\ \A o \in Recomputers : Saves(o, c) => o = q
    BY <2>1 DEF Saved
  <2> QED  BY <1>1, <1>6, <1>7, <1>8, <1>9, <2>1, <2>2
<1>14. Forgotten'  BY <1>1, <1>5, <1>6, <1>10 DEF Forgotten
<1>15. Alive'  BY <1>1, <1>6, <1>7, <1>9, <1>10 DEF Alive
<1>16. InPlace'
  <2> SUFFICES ASSUME NEW k \in Keys \ lost', NEW t, t = row'[k].target, t # NoEvent, ~Placed(k)'
               PROVE  \E q \in Recomputers : Moving(q, t)'
    BY DEF InPlace
  <2>1. row'[k] = row[k]  BY <1>1, <1>9, <1>10 DEF Placed
  <2>2. PICK q \in Recomputers : Moving(q, row[k].target)
    BY <1>1, <1>10, <2>1 DEF InPlace, Placed
  <2>3. q # p
    <3> SUFFICES ASSUME q = p PROVE FALSE
      OBVIOUS
    <3>1. row[k].target = b  BY <1>7, <2>2
    <3>2. k = key  BY <1>3, <1>4, <2>1, <3>1 DEF Ours, Bears
    <3> QED  BY <1>1, <1>9, <1>10, <3>1, <3>2 DEF Placed
  <2> QED  BY <1>6, <2>1, <2>2, <2>3
<1>17. EveryBufferKnown'
  <2> SUFFICES ASSUME NEW k \in Keys \ (lost' \cup unseen'), NEW c \in Live(k), row[k].target # c
               PROVE  \E q \in Recomputers : Saves(q, c)'
    BY <1>1, <1>9 DEF EveryBufferKnown, Saves, Live
  <2>1. PICK q \in Recomputers : Saves(q, c)  BY <1>1, <1>10 DEF EveryBufferKnown, Saves
  <2> QED  BY <1>6, <1>7, <2>1
<1> QED  BY <1>11, <1>12, <1>13, <1>14, <1>15, <1>16, <1>17

(* An orphan's event is deleted.                                           *)
LEMMA BooksDelete ==
    ASSUME TypeOK, Books, NEW p \in Recomputers, DeleteEvent(p)
    PROVE  Books'
<1> USE DEF Books
<1>1. /\ proc[p].pc = "applying" /\ proc[p].wants = {} /\ Orphans(p) # {} /\ row' = row
      /\ unseen' = unseen
  BY DEF DeleteEvent
<1>2. PICK key \in Keys : key = Orphan(p)  BY <1>1, OrphanRead
<1>3. PICK b \in BufferIds : b = proc[p].rows[key].target  BY <1>1, <1>2, OrphanRead
<1>4. Bears(b, key)
  BY <1>3, BufferAssumption DEF Ours, BufferAssumption
<1>5. /\ \A c \in BufferIds \ {b} : buffer'[c] = buffer[c]
      /\ lost \subseteq lost'
      /\ \/ /\ buffer'[b].state = "deleted" /\ buffer'[b].key = buffer[b].key
            /\ buffer'[b].start = buffer[b].start /\ buffer'[b].end = buffer[b].end
         \/ buffer'[b] = buffer[b] /\ key \in lost'
  BY <1>2, <1>3 DEF DeleteEvent, TypeOK, BufferStates
<1>6. /\ \A q \in Recomputers \ {p} : proc'[q] = proc[q]
      /\ proc'[p].pc = "forgetting" /\ proc'[p].rows = proc[p].rows /\ proc'[p].wants = proc[p].wants
      /\ proc'[p].seen = proc[p].seen
  BY GoesOn DEF DeleteEvent, Steps
<1>7. \A q \in Recomputers \ {p} :
         /\ Chosen(q)' = Chosen(q) /\ Known(q)' = Known(q)
         /\ Orphans(q)' = Orphans(q) /\ Orphan(q)' = Orphan(q)
         /\ \A c : Saves(q, c)' = Saves(q, c) /\ Moving(q, c)' = Moving(q, c)
                   /\ Forgets(q, c)' = Forgets(q, c)
  BY <1>6, Still
<1>8. /\ Orphans(p)' = Orphans(p) /\ Orphan(p)' = Orphan(p)
      /\ \A c : ~Saves(p, c)' /\ ~Moving(p, c)' /\ ~Saves(p, c) /\ ~Moving(p, c) /\ ~Forgets(p, c)
  BY <1>1, <1>6 DEF Orphans, Orphan, Moving, Forgets, Saves
<1>9. Forgets(p, b)'  BY <1>2, <1>3, <1>6, <1>8 DEF Forgets
<1>10. \A k \in Keys : \A q \in Recomputers : proc'[q].rows[k] = proc[q].rows[k]  BY <1>6
<1>11. \A k \in Keys : /\ row[k].target \in BufferIds \cup {NoEvent}
                       /\ \A q \in Recomputers : proc[q].rows[k].target \in BufferIds \cup {NoEvent}
  BY DEF TypeOK, ProcStates, Rows
<1>12. Ours'
  <2>1. \A c \in BufferIds, k \in Keys : Bears(c, k) => Bears(c, k)'  BY <1>5 DEF Bears
  <2> QED  BY <1>1, <1>10, <1>11, <2>1 DEF Ours
<1>13. AtHand'  BY <1>1, <1>6, <1>7, <1>8 DEF AtHand
<1>14. Saved'
  <2> SUFFICES ASSUME NEW q \in Recomputers, NEW c \in BufferIds \cup {NoEvent}, Saves(q, c)'
               PROVE  /\ c # NoEvent /\ buffer'[c] = Event(Chosen(q)')
                      /\ \A k \in Keys : row'[k].target # c
                                         /\ \A o \in Recomputers : proc'[o].rows[k].target # c
                      /\ \A o \in Recomputers : Saves(o, c)' => o = q
    BY DEF Saved, Event
  <2>1. q # p /\ Saves(q, c)  BY <1>7, <1>8
  <2>2. /\ c # NoEvent /\ buffer[c] = Event(Chosen(q))
        /\ \A k \in Keys : row[k].target # c
                           /\ \A o \in Recomputers : proc[o].rows[k].target # c
        /\ \A o \in Recomputers : Saves(o, c) => o = q
    BY <2>1 DEF Saved
  <2> QED  BY <1>1, <1>3, <1>5, <1>7, <1>8, <1>10, <2>1, <2>2
<1>15. Forgotten'
  <2> SUFFICES ASSUME NEW q \in Recomputers, proc'[q].pc = "forgetting"
               PROVE  \/ Orphan(q)' \in lost'
                      \/ buffer'[proc'[q].rows[Orphan(q)'].target].state # "live"
    BY DEF Forgotten
  <2>1. CASE q = p  BY <1>2, <1>3, <1>5, <1>8, <1>10, <2>1
  <2>2. CASE q # p
    <3>1. proc[q].pc = "forgetting"  BY <1>6, <2>2
    <3>2. Orphan(q) \in Keys /\ proc[q].rows[Orphan(q)].target \in BufferIds
      BY <3>1, OrphanRead DEF AtHand
    <3> QED  BY <1>5, <1>6, <1>7, <2>2, <3>1, <3>2 DEF Forgotten
  <2> QED  BY <2>1, <2>2
<1>16. Alive'  BY <1>1, <1>5, <1>7, <1>8, <1>9, <1>11 DEF Alive
<1>17. InPlace'
  <2>1. \A k \in Keys : row[k].target # NoEvent => Placed(k)' = Placed(k)
    BY <1>1, <1>5, <1>11 DEF Placed
  <2> QED  BY <1>1, <1>5, <1>7, <1>8, <2>1 DEF InPlace
<1>18. EveryBufferKnown'
  <2> SUFFICES ASSUME NEW k \in Keys \ (lost' \cup unseen'), NEW c \in Live(k)', row[k].target # c
               PROVE  \E q \in Recomputers : Saves(q, c)'
    BY <1>1 DEF EveryBufferKnown, Saves
  <2>1. c \in Live(k)  BY <1>5 DEF Live
  <2>2. PICK q \in Recomputers : Saves(q, c)  BY <1>1, <1>5, <2>1 DEF EveryBufferKnown, Saves
  <2> QED  BY <1>7, <1>8, <2>2
<1> QED  BY <1>12, <1>13, <1>14, <1>15, <1>16, <1>17, <1>18

(* The row of an orphan goes, if it still is the orphan's.                 *)
LEMMA BooksForget ==
    ASSUME TypeOK, Books, NEW p \in Recomputers, DeleteRow(p), lost' = lost,
           row' = Without(row, Orphan(p), proc[p].rows[Orphan(p)].target)
    PROVE  Books'
<1> USE DEF Books
<1>1. proc[p].pc = "forgetting" /\ Orphans(p) # {} /\ buffer' = buffer /\ unseen' = unseen
  BY DEF DeleteRow, AtHand
<1>2. PICK key \in Keys : key = Orphan(p)  BY <1>1, OrphanRead
<1>3. PICK b \in BufferIds : b = proc[p].rows[key].target  BY <1>1, <1>2, OrphanRead
<1>4. Bears(b, key)
  BY <1>3, BufferAssumption DEF Ours, BufferAssumption
<1>5. /\ \A k \in Keys : row'[k] = row[k] \/ row'[k].target = NoEvent
      /\ \A k \in Keys : row'[k] = row[k] \/ (k = key /\ row[k].target = b)
      /\ row'[key].target # b
  <2>1. /\ row'[key] = IF row[key].target = b THEN NoRow ELSE row[key]
        /\ \A k \in Keys \ {key} : row'[k] = row[k]
    BY <1>2, <1>3 DEF Without, TypeOK
  <2>2. NoRow.target = NoEvent /\ b # NoEvent  BY Ended, BufferAssumption DEF BufferAssumption
  <2>3. /\ row'[key] = row[key] \/ (row'[key].target = NoEvent /\ row[key].target = b)
        /\ row'[key].target # b
    BY <2>1, <2>2
  <2> QED  BY <2>1, <2>3
<1>6. /\ \A q \in Recomputers \ {p} : proc'[q] = proc[q]
      /\ proc'[p].pc = "applying"
      /\ \A k \in Keys : proc'[p].rows[k] = proc[p].rows[k] \/ proc'[p].rows[k].target = NoEvent
  BY RowDeleted, Ended
<1>7. \A q \in Recomputers \ {p} :
         /\ Chosen(q)' = Chosen(q) /\ Known(q)' = Known(q)
         /\ Orphans(q)' = Orphans(q) /\ Orphan(q)' = Orphan(q)
         /\ \A c : Saves(q, c)' = Saves(q, c) /\ Moving(q, c)' = Moving(q, c)
                   /\ Forgets(q, c)' = Forgets(q, c)
  BY <1>6, Still
<1>8. \A c : /\ ~Saves(p, c)' /\ ~Moving(p, c)' /\ ~Forgets(p, c)' /\ ~Saves(p, c) /\ ~Moving(p, c)
             /\ Forgets(p, c) => c = b
  BY <1>1, <1>2, <1>3, <1>6 DEF Moving, Forgets, Saves
<1>9. \A k \in Keys : \A q \in Recomputers :
         proc'[q].rows[k] = proc[q].rows[k] \/ proc'[q].rows[k].target = NoEvent
  BY <1>6
<1>10. Ours'
  <2>1. \A c, k : Bears(c, k)' = Bears(c, k)  BY <1>1 DEF Bears
  <2> QED  BY <1>5, <1>9, <2>1 DEF Ours
<1>11. AtHand'  BY <1>6, <1>7 DEF AtHand
<1>12. Saved'
  <2> SUFFICES ASSUME NEW q \in Recomputers, NEW c \in BufferIds \cup {NoEvent}, Saves(q, c)'
               PROVE  /\ c # NoEvent /\ buffer'[c] = Event(Chosen(q)')
                      /\ \A k \in Keys : row'[k].target # c
                                         /\ \A o \in Recomputers : proc'[o].rows[k].target # c
                      /\ \A o \in Recomputers : Saves(o, c)' => o = q
    BY DEF Saved, Event
  <2>1. q # p /\ Saves(q, c)  BY <1>7, <1>8
  <2>2. /\ c # NoEvent /\ buffer[c] = Event(Chosen(q))
        /\ \A k \in Keys : row[k].target # c
                           /\ \A o \in Recomputers : proc[o].rows[k].target # c
        /\ \A o \in Recomputers : Saves(o, c) => o = q
    BY <2>1 DEF Saved
  <2> QED  BY <1>1, <1>5, <1>7, <1>8, <1>9, <2>1, <2>2
<1>13. Forgotten'  BY <1>1, <1>6, <1>7 DEF Forgotten
<1>14. \A k \in Keys : row'[k].target # NoEvent => row'[k] = row[k] /\ row[k].target # b
  <2> SUFFICES ASSUME NEW k \in Keys, row'[k].target # NoEvent, row[k].target = b PROVE FALSE
    BY <1>5
  <2>1. k = key  BY <1>4, BufferAssumption DEF Ours, Bears, BufferAssumption
  <2> QED  BY <1>5, <2>1
<1>15. Alive'  BY <1>1, <1>7, <1>8, <1>14 DEF Alive
<1>16. InPlace'
  <2> SUFFICES ASSUME NEW k \in Keys \ lost, row'[k].target # NoEvent
               PROVE  Placed(k)' \/ \E q \in Recomputers :
                         proc'[q].pc = "moving" /\ Known(q)'.target = row'[k].target
    BY DEF InPlace, Moving
  <2>1. row'[k] = row[k]  BY <1>14
  <2>2. Placed(k) \/ \E q \in Recomputers : Moving(q, row[k].target)  BY <2>1 DEF InPlace
  <2>3. Placed(k)' = Placed(k)  BY <1>1, <2>1 DEF Placed
  <2>4. ASSUME NEW q \in Recomputers, Moving(q, row[k].target)
        PROVE  proc'[q].pc = "moving" /\ Known(q)'.target = row'[k].target
    <3>1. q # p  BY <1>1, <2>4 DEF Moving
    <3>2. proc'[q] = proc[q] /\ Known(q)' = Known(q)  BY <1>6, <1>7, <3>1
    <3> QED  BY <2>1, <2>4, <3>2 DEF Moving
  <2> QED  BY <2>2, <2>3, <2>4
<1>17. EveryBufferKnown'
  <2> SUFFICES ASSUME NEW k \in Keys \ (lost \cup unseen), NEW c \in Live(k), row'[k].target # c
               PROVE  \E q \in Recomputers : Saves(q, c)'
    BY <1>1 DEF EveryBufferKnown, Saves, Live
  <2>1. row[k].target # c
    <3> SUFFICES ASSUME row[k].target = c PROVE FALSE
      OBVIOUS
    <3>1. k = key /\ c = b  BY <1>5
    <3> QED  BY <1>1, <1>2, <1>3, <3>1 DEF Forgotten, Live
  <2>2. PICK q \in Recomputers : Saves(q, c)  BY <2>1 DEF EveryBufferKnown, Saves
  <2> QED  BY <1>7, <1>8, <2>2
<1> QED  BY <1>10, <1>11, <1>12, <1>13, <1>15, <1>16, <1>17

LEMMA NextBooks ==
    ASSUME TypeOK, Books, [Next]_vars
    PROVE  Books'
<1>1. CASE UNCHANGED vars  BY <1>1, BooksStay DEF vars
<1>2. CASE EditMinutes \/ Toggle \/ Tick  BY <1>2, BooksStay DEF EditMinutes, Toggle, Tick, Edit
<1>3. ASSUME NEW e \in Meetings, EditMeeting(e) PROVE Books'
  BY <1>3, BooksStay DEF EditMeeting, Edit
<1>4. ASSUME NEW p \in Recomputers, Begin(p) PROVE Books'
  <2>1. \A k \in Keys : proc'[p].rows[k].target \in {row[k].target, NoEvent}
    BY <1>4, Begun, Ended
  <2> QED  BY <1>4, <2>1, Begun, BooksQuiet DEF Begin, Idle
<1>5. ASSUME NEW p \in Recomputers, ListMeetings(p) PROVE Books'
  <2>1. unseen \subseteq unseen'  BY <1>5, MeetingsListed
  <2> QED  BY <1>5, <2>1, MeetingsListed, BooksQuiet DEF ListMeetings
<1>6. ASSUME NEW p \in Recomputers, Unchanged(p) PROVE Books'
  BY <1>6, DoneWith, BooksQuiet DEF Unchanged, Applies
<1>7. ASSUME NEW p \in Recomputers, InsertEvent(p) PROVE Books'
  <2>1. /\ row' = row /\ lost' = lost /\ unseen' = unseen
        /\ proc[p].pc = "applying" /\ proc[p].wants # {}
    BY <1>7 DEF InsertEvent, Inserts, Applies
  <2> QED  BY <1>7, <2>1, EventInserted, BooksInsert
<1>8. ASSUME NEW p \in Recomputers, InsertRow(p) PROVE Books'
  <2>1. /\ proc[p].pc = "saving" /\ Done(p, Chosen(p)) /\ buffer' = buffer /\ unseen' = unseen
        /\ Chosen(p).key \in Keys
    BY <1>8, ChosenWanted DEF InsertRow, Books, AtHand
  <2>2. CASE /\ row' = row /\ lost \subseteq lost' /\ Chosen(p).key \in lost' \cup unseen
    <3>1. Unsaved({p}) = {Chosen(p).key}  BY <2>1 DEF Unsaved
    <3>2. Unsaved({p}) \subseteq lost' \cup unseen  BY <2>2, <3>1
    <3> QED  BY <2>1, <2>2, <3>2, BooksGiveUp
  <2>3. CASE /\ row[Chosen(p).key].target = NoEvent /\ lost' = lost
             /\ row' = [row EXCEPT ![Chosen(p).key] =
                           [target |-> proc[p].target, start |-> Chosen(p).start, end |-> Chosen(p).end]]
    BY <2>1, <2>3, BooksSave
  <2> QED  BY <1>8, <2>2, <2>3 DEF InsertRow
<1>9. ASSUME NEW p \in Recomputers, UpdateEvent(p) PROVE Books'  BY <1>9, BooksMove
<1>10. ASSUME NEW p \in Recomputers, UpdateRow(p) PROVE Books'  BY <1>10, BooksMoved
<1>11. ASSUME NEW p \in Recomputers, ApplyFails(p) PROVE Books'
  <2>1. Done(p, Chosen(p)) /\ row' = row /\ unseen' = unseen  BY <1>11 DEF ApplyFails
  <2>2. CASE Applies(p) /\ buffer' = buffer /\ lost' = lost
    BY <2>1, <2>2, DoneWith, BooksQuiet DEF Applies
  <2>3. CASE proc[p].pc = "moving" /\ buffer' = buffer /\ lost' = lost \cup {Chosen(p).key}
    <3>1. Unsaved({p}) = {Chosen(p).key}  BY <2>3 DEF Unsaved
    <3>2. Unsaved({p}) \subseteq lost' /\ lost \subseteq lost'  BY <2>3, <3>1
    <3> QED  BY <2>1, <2>3, <3>2, BooksGiveUp
  <2>4. CASE /\ Applies(p) /\ Unborn # {} /\ lost' = lost \cup {Chosen(p).key}
             /\ buffer' = [buffer EXCEPT ![CHOOSE x \in Unborn : TRUE] = Event(Chosen(p))]
    <3>1. PICK b \in Unborn : b = CHOOSE x \in Unborn : TRUE  BY <2>4
    <3> QED  BY <2>1, <2>4, <3>1, DoneWith, BooksInsert DEF Applies
  <2> QED  BY <1>11, <2>2, <2>3, <2>4 DEF ApplyFails, Inserts, Updates
<1>12. ASSUME NEW p \in Recomputers, DeleteEvent(p) PROVE Books'  BY <1>12, BooksDelete
<1>13. ASSUME NEW p \in Recomputers, DeleteRow(p) PROVE Books'
  <2>1. proc[p].pc = "forgetting" /\ buffer' = buffer /\ unseen' = unseen  BY <1>13 DEF DeleteRow
  <2>2. CASE lost' = lost \cup {Orphan(p)} /\ row' = row
    <3>1. Unsaved({p}) = {Orphan(p)}  BY <2>1 DEF Unsaved
    <3>2. \A k \in Keys : proc'[p].rows[k].target \in {proc[p].rows[k].target, NoEvent}
      BY <1>13, RowDeleted, Ended DEF Books
    <3>3. Unsaved({p}) \subseteq lost' /\ {p} \in SUBSET Recomputers  BY <2>2, <3>1
    <3>4. \A q \in {p} : Unsaved({q}) \subseteq lost'  BY <3>3
    <3>5. /\ \A q \in Recomputers \ {p} : proc'[q] = proc[q]
          /\ proc'[p].pc = "applying"
      BY <1>13, RowDeleted DEF Books
    <3>6. lost \subseteq lost' /\ unseen \subseteq unseen' /\ UNCHANGED <<buffer, row>>
      BY <2>1, <2>2
    <3>7. \A q \in Recomputers \ {p} : proc'[q] = proc[q]  BY <3>5
    <3>8. \A q \in {p} :
             /\ proc'[q].pc \notin {"saving", "moving", "forgetting"}
             /\ \A k \in Keys :
                   proc'[q].rows[k].target \in {proc[q].rows[k].target, row[k].target, NoEvent}
      BY <3>2, <3>5
    <3>9. Unsaved({p}) \subseteq lost' \cup unseen'  BY <3>3
    <3> QED  BY <3>3, <3>4, <3>6, <3>7, <3>8, <3>9, BooksLeave
  <2>3. CASE lost' = lost /\ row' = Without(row, Orphan(p), proc[p].rows[Orphan(p)].target)
    BY <1>13, <2>3, BooksForget
  <2> QED  BY <1>13, <2>2, <2>3 DEF DeleteRow
<1>14. ASSUME NEW p \in Recomputers, Finish(p) PROVE Books'
  <2>1. proc'[p] = NoProc /\ \A q \in Recomputers \ {p} : proc'[q] = proc[q]
    BY <1>14 DEF Finish, TypeOK
  <2> QED  BY <1>14, <2>1, Ended, BooksQuiet DEF Finish
<1>15. ASSUME NEW gone \in SUBSET Recomputers, Stop(gone) PROVE Books'
  <2>1. /\ \A q \in Recomputers \ gone : proc'[q] = proc[q]
        /\ \A q \in gone : proc'[q] = NoProc
        /\ lost' = lost \cup Unsaved(gone) /\ unseen' = unseen /\ UNCHANGED <<buffer, row>>
    BY <1>15 DEF Stop
  <2>2. \A q \in gone : Unsaved({q}) \subseteq Unsaved(gone)  BY DEF Unsaved
  <2>3. \A q \in gone : Unsaved({q}) \subseteq lost'  BY <2>1, <2>2
  <2> QED  BY <2>1, <2>3, Ended, BooksLeave
<1>16. Recomputers \in SUBSET Recomputers /\ \A p \in Recomputers : {p} \in SUBSET Recomputers
  OBVIOUS
<1> QED
  BY <1>1, <1>2, <1>3, <1>4, <1>5, <1>6, <1>7, <1>8, <1>9, <1>10, <1>11, <1>12, <1>13, <1>14,
     <1>15, <1>16 DEF Next, Recompute

LEMMA NextSized ==
    ASSUME TypeOK, Sized, [Next]_vars
    PROVE  Sized'
<1>1. CASE meeting' = meeting  BY <1>1 DEF Sized
<1>2. ASSUME NEW e \in Meetings, EditMeeting(e) PROVE Sized'
  <2>1. PICK on \in BOOLEAN, located \in BOOLEAN, people \in BOOLEAN, start \in 0..LastStart,
             length \in 1..2 :
           meeting' = [meeting EXCEPT ![e] =
              IF on THEN [on |-> TRUE, start |-> start, end |-> start + length,
                          located |-> located, people |-> people]
              ELSE NoMeeting]
    BY <1>2 DEF EditMeeting
  <2>2. meeting'[e].on => meeting'[e].start < meeting'[e].end
    <3>1. start < start + length  OBVIOUS
    <3> QED  BY <2>1, <3>1 DEF TypeOK, NoMeeting
  <2>3. \A x \in Meetings \ {e} : meeting'[x] = meeting[x]  BY <2>1 DEF TypeOK
  <2> QED  BY <2>2, <2>3 DEF Sized
<1>3. Next => meeting' = meeting \/ \E e \in Meetings : EditMeeting(e)
  BY DEF Next, EditMinutes, Toggle, Tick, Begin, Recompute, ListMeetings, Unchanged, InsertEvent,
     InsertRow, UpdateEvent, UpdateRow, ApplyFails, DeleteEvent, DeleteRow, Finish, Stop, given
<1> QED  BY <1>1, <1>2, <1>3 DEF vars, given
-------------------------------------------------------------------------------
(* The course of a recomputation that runs alone.                          *)

Course == Alone /\ OnCourse /\ Settled

OnPlan(p) ==
    IF proc[p].pc = "listing"
    THEN proc[p].from = now /\ proc[p].minutes = minutes /\ \A k \in Keys : Read(p, k)
    ELSE Planned(p)

LEMMA Undisturbed ==
    ASSUME Course, alone' = {}, inStep' = FALSE
    PROVE  Course'
  BY DEF Course, Alone, OnCourse, Settled

LEMMA OneStep ==
    ASSUME Course, TypeOK, NEW p \in Recomputers, ~Idle(p), ~Idle(p)',
           \A q \in Recomputers \ {p} : proc'[q] = proc[q],
           alone' \subseteq alone, inStep' = inStep,
           p \in alone' => OnPlan(p)'
    PROVE  Course'
<1>1. ~inStep  BY DEF Course, Settled
<1>2. \A q \in alone' : q = p /\ q \in Recomputers  BY DEF Course, Alone, Idle, TypeOK
<1>3. Alone'  BY <1>2 DEF Course, Alone, Idle
<1>4. OnCourse'  BY <1>2 DEF OnCourse, OnPlan
<1>5. Settled'  BY <1>1 DEF Settled
<1> QED  BY <1>3, <1>4, <1>5 DEF Course

LEMMA SameEarned ==
    ASSUME UNCHANGED given
    PROVE  Earned' = Earned
  BY DEF Earned, given

LEMMA StaysPlanned ==
    ASSUME TypeOK, NEW p \in Recomputers, Planned(p), UNCHANGED given,
           proc'[p].wants \subseteq proc[p].wants, proc'[p].seen = proc[p].seen,
           \A k \in Keys : k \notin proc[p].seen \/ k \in KeysOf(proc'[p].wants) => Read(p, k)',
           \A w \in Earned \ proc'[p].wants : Kept(w)', AtWork(p)'
    PROVE  Planned(p)'
<1>1. Earned' = Earned  BY SameEarned
<1> QED  BY <1>1 DEF Planned, KeysOf

(* A buffer stays as planned while its row and the event made of it do.    *)
LEMMA StaysKept ==
    ASSUME NEW w, Kept(w), lost \subseteq lost', unseen \subseteq unseen',
           row'[w.key] = row[w.key],
           \A b \in BufferIds : buffer[b] = Event(w) => buffer'[b] = Event(w)
    PROVE  Kept(w)'
<1>1. Event(w)' = Event(w)  BY DEF Event
<1> QED  BY <1>1 DEF Kept

LEMMA StaysAtWork ==
    ASSUME NEW p \in Recomputers, AtWork(p), UNCHANGED given, unseen \subseteq unseen',
           proc'[p].wants \subseteq proc[p].wants,
           \A w \in proc'[p].wants : row'[w.key] = row[w.key],
           proc'[p].pc \notin {"saving", "moving"}
    PROVE  AtWork(p)'
<1>1. now' = now  BY DEF given
<1> QED  BY <1>1 DEF AtWork, Missing, InRange

(* One buffer after the other is done.                                     *)
LEMMA DonePlanned ==
    ASSUME TypeOK, NEW p \in Recomputers, Planned(p), UNCHANGED given,
           proc[p].wants # {}, Done(p, Chosen(p)), lost \subseteq lost',
           buffer' = buffer, unseen' = unseen,
           \A k \in Keys \ {Chosen(p).key} : row'[k] = row[k],
           Chosen(p).key \notin lost' =>
              \/ /\ row'[Chosen(p).key].target # NoEvent
                 /\ row'[Chosen(p).key].start = Chosen(p).start
                 /\ row'[Chosen(p).key].end = Chosen(p).end
              \/ Chosen(p).key \in unseen /\ \E b \in BufferIds : buffer[b] = Event(Chosen(p))
    PROVE  Planned(p)'
<1>1. PICK w \in Earned : w = Chosen(p) /\ w \in proc[p].wants /\ w.key \in Keys
  BY ChosenWanted DEF Planned
<1>2. /\ proc'[p].wants = proc[p].wants \ {w} /\ proc'[p].seen = proc[p].seen
      /\ proc'[p].rows = proc[p].rows /\ proc'[p].pc = "applying"
  BY <1>1, DoneWith
<1>3. \A v \in Earned \ {w} : v.key # w.key /\ v.key \in Keys
  BY <1>1, EarnedKeys, BufferAssumption
<1>4. proc[p].wants \subseteq Earned /\ w.key \in proc[p].seen  BY <1>1 DEF Planned, KeysOf
<1>5. now' = now  BY DEF given
<1>6. ASSUME NEW k \in Keys, k \notin proc[p].seen \/ k \in KeysOf(proc'[p].wants)
      PROVE  Read(p, k)'
  <2>1. k # w.key  BY <1>2, <1>3, <1>4, <1>6 DEF KeysOf
  <2>2. Read(p, k)  BY <1>2, <1>6 DEF Planned, KeysOf
  <2>3. row'[k] = row[k]  BY <1>1, <2>1
  <2> QED  BY <1>2, <1>5, <2>2, <2>3 DEF Read
<1>7. ASSUME NEW v \in Earned \ proc'[p].wants PROVE Kept(v)'
  <2>1. CASE v = w
    <3>1. Event(w)' = Event(w)  BY DEF Event
    <3> QED  BY <1>1, <2>1, <3>1 DEF Kept
  <2>2. CASE v # w
    <3>1. Kept(v)  BY <1>2, <1>7, <2>2 DEF Planned
    <3>2. row'[v.key] = row[v.key]  BY <1>1, <1>3, <2>2
    <3> QED  BY <3>1, <3>2, StaysKept
  <2> QED  BY <2>1, <2>2
<1>8. AtWork(p)'
  <2>1. \A v \in proc'[p].wants : row'[v.key] = row[v.key]  BY <1>1, <1>2, <1>3, <1>4
  <2> QED  BY <1>2, <2>1, StaysAtWork DEF Planned
<1> QED  BY <1>2, <1>6, <1>7, <1>8, StaysPlanned

(* What it knows of the buffer it is at.                                   *)
LEMMA KnownRead ==
    ASSUME TypeOK, NEW p \in Recomputers, Planned(p), proc[p].wants # {}, Known(p).target # NoEvent
    PROVE  row[Chosen(p).key] = Known(p)
<1>1. Chosen(p).key \in Keys /\ Known(p) = proc[p].rows[Chosen(p).key]
      /\ Chosen(p) \in proc[p].wants
  BY ChosenWanted
<1>2. Read(p, Chosen(p).key)  BY <1>1 DEF Planned, KeysOf
<1> QED  BY <1>1, <1>2, Ended DEF Read

LEMMA NextCourse ==
    ASSUME TypeOK, Books, Course, [Next]_vars
    PROVE  Course'
<1>0. AtHand /\ Saved /\ Ours  BY DEF Books
<1>1. CASE UNCHANGED vars
  <2>1. Earned' = Earned  BY <1>1, SameEarned DEF vars
  <2>2. /\ \A p, k : Read(p, k)' = Read(p, k)
        /\ \A w : Kept(w)' = Kept(w)
        /\ now' = now /\ minutes' = minutes
    BY <1>1 DEF vars, given, Read, InRange, Kept, Event
  <2>3. \A p : AtWork(p)' = AtWork(p)
    BY <1>1, <2>2 DEF vars, AtWork, Known, Chosen, Event, Missing, InRange
  <2>4. \A p : Planned(p)' = Planned(p)  BY <1>1, <2>1, <2>2, <2>3 DEF vars, Planned
  <2>5. Alone'  BY <1>1 DEF vars, Course, Alone, Idle
  <2>6. OnCourse'  BY <1>1, <2>2, <2>4 DEF vars, Course, OnCourse
  <2>7. Settled'  BY <1>1, <2>1, <2>2 DEF vars, Course, Settled, Idle
  <2> QED  BY <2>5, <2>6, <2>7 DEF Course
<1>2. CASE EditMinutes \/ Toggle \/ Tick
  BY <1>2, Undisturbed DEF EditMinutes, Toggle, Tick, Edit, Disturb
<1>3. ASSUME NEW e \in Meetings, EditMeeting(e) PROVE Course'
  BY <1>3, Undisturbed DEF EditMeeting, Edit, Disturb
<1>4. ASSUME NEW p \in Recomputers, Begin(p) PROVE Course'
  <2>1. /\ alone' \subseteq {p} /\ inStep' = FALSE /\ now' = now /\ minutes' = minutes /\ row' = row
        /\ p \in alone' => \A q \in Recomputers : Idle(q)
    BY <1>4 DEF Begin, given
  <2>2. Alone'  BY <1>4, <2>1, Begun DEF Alone, Idle
  <2>3. \A k \in Keys : Read(p, k)'  BY <1>4, <2>1, Begun DEF Read
  <2>4. OnCourse'  BY <1>4, <2>1, <2>3, Begun DEF OnCourse
  <2> QED  BY <2>1, <2>2, <2>4 DEF Course, Settled
<1>5. ASSUME NEW p \in Recomputers, p \in alone PROVE OnPlan(p)
  BY <1>5 DEF Course, OnCourse, OnPlan
<1>6. ASSUME NEW p \in Recomputers, ListMeetings(p) PROVE Course'
  <2>1. /\ UNCHANGED given /\ alone' = alone /\ inStep' = inStep /\ row' = row /\ now' = now
        /\ proc[p].pc = "listing"
    BY <1>6 DEF ListMeetings, given
  <2>2. ASSUME p \in alone PROVE Planned(p)'
    <3>1. proc[p].from = now /\ proc[p].minutes = minutes /\ \A k \in Keys : Read(p, k)
      BY <1>5, <2>1, <2>2 DEF OnPlan
    <3>2. EarnedFrom(now, minutes) = Earned  BY DEF Earned, EarnedFrom
    <3>3. Earned' = Earned  BY <2>1, SameEarned
    <3>4. proc'[p].wants = Earned /\ proc'[p].seen = KeysOf(Earned) /\ proc'[p].rows = proc[p].rows
      BY <1>6, <3>1, <3>2, MeetingsListed
    <3>5. \A k \in Keys : Read(p, k)'  BY <2>1, <3>1, <3>4 DEF Read
    <3>6. \A w \in Earned : Missing(w.key, now) => w.key \in unseen'
      BY <1>6, <3>1, <3>4, MeetingsListed DEF KeysOf
    <3>7. AtWork(p)'
      <4>1. \A k : Missing(k, now)' = Missing(k, now)  BY <2>1 DEF Missing, InRange
      <4> QED  BY <1>6, <3>4, <3>6, <4>1, MeetingsListed DEF AtWork
    <3> QED  BY <3>3, <3>4, <3>5, <3>7 DEF Planned
  <2>3. p \in alone' => OnPlan(p)'  BY <1>6, <2>1, <2>2, MeetingsListed DEF OnPlan
  <2> QED  BY <1>6, <2>1, <2>3, MeetingsListed, OneStep DEF Idle
<1>7. ASSUME NEW p \in Recomputers, Unchanged(p) PROVE Course'
  <2>1. /\ UNCHANGED given /\ alone' = alone /\ inStep' = inStep /\ row' = row /\ lost' = lost
        /\ Applies(p) /\ Known(p).target # NoEvent /\ Matches(p) /\ Done(p, Chosen(p))
        /\ buffer' = buffer /\ unseen' = unseen
    BY <1>7 DEF Unchanged
  <2>2. ASSUME p \in alone PROVE Planned(p)'
    <3>1. Planned(p) /\ proc[p].wants # {}  BY <1>5, <2>1, <2>2 DEF OnPlan, Applies
    <3>2. row[Chosen(p).key] = Known(p)  BY <2>1, <3>1, KnownRead
    <3> QED  BY <2>1, <3>1, <3>2, DonePlanned DEF Matches
  <2>3. p \in alone' => OnPlan(p)'  BY <2>1, <2>2, DoneWith DEF OnPlan
  <2> QED  BY <2>1, <2>3, DoneWith, OneStep DEF Idle, Applies
<1>8. ASSUME NEW p \in Recomputers, InsertEvent(p) \/ UpdateEvent(p) PROVE Course'
  <2>1. /\ UNCHANGED given /\ alone' = alone /\ inStep' = inStep /\ row' = row /\ lost' = lost
        /\ proc[p].pc = "applying" /\ now' = now /\ unseen' = unseen /\ proc[p].wants # {}
    BY <1>8 DEF InsertEvent, UpdateEvent, Inserts, Updates, Applies, given
  <2>2. /\ \A q \in Recomputers \ {p} : proc'[q] = proc[q]
        /\ proc'[p].pc \in {"saving", "moving"} /\ proc'[p].wants = proc[p].wants
        /\ proc'[p].rows = proc[p].rows /\ proc'[p].seen = proc[p].seen
    <3>1. CASE InsertEvent(p)  BY <3>1, EventInserted
    <3>2. CASE UpdateEvent(p)  BY <3>2, GoesOn DEF UpdateEvent, Steps
    <3> QED  BY <1>8, <3>1, <3>2
  <2>3. ASSUME p \in alone PROVE Planned(p)'
    <3>1. Planned(p)  BY <1>5, <2>1, <2>3 DEF OnPlan
    <3>2. \A k \in Keys : Read(p, k)' = Read(p, k)  BY <2>1, <2>2 DEF Read
    <3>3. PICK v \in Earned : v = Chosen(p) /\ v \in proc[p].wants /\ v.key \in Keys
                             /\ Known(p) \in Rows /\ Known(p) = proc[p].rows[v.key]
      BY <2>1, <3>1, ChosenWanted DEF Planned
    <3>4. \A k \in Keys : k \notin proc[p].seen \/ k \in KeysOf(proc'[p].wants) => Read(p, k)'
      BY <2>2, <3>1, <3>2 DEF Planned
    <3>5. ASSUME NEW w \in Earned \ proc'[p].wants PROVE Kept(w)'
      <4>1. Kept(w) /\ w.key # v.key
        BY <2>2, <3>1, <3>3, <3>5, EarnedKeys, BufferAssumption DEF Planned
      <4>2. ASSUME NEW b \in BufferIds, buffer[b] = Event(w) PROVE buffer'[b] = Event(w)
        <5>1. buffer[b].state = "live" /\ buffer[b].key = w.key  BY <4>2 DEF Event
        <5>2. CASE InsertEvent(p)
          <6>1. PICK c \in Unborn : buffer' = [buffer EXCEPT ![c] = Event(Chosen(p))]
            BY <5>2, EventInserted
          <6>2. b # c  BY <5>1 DEF Unborn
          <6> QED  BY <4>2, <6>1, <6>2 DEF TypeOK
        <5>3. CASE UpdateEvent(p)
          <6>1. Known(p).target # b
            BY <1>0, <3>3, <4>1, <5>1, <5>3 DEF UpdateEvent, Updates, Ours, Bears
          <6> QED  BY <4>2, <5>3, <6>1 DEF UpdateEvent, TypeOK
        <5> QED  BY <1>8, <5>2, <5>3
      <4> QED  BY <2>1, <4>1, <4>2, StaysKept
    <3>6. Chosen(p)' = Chosen(p) /\ Known(p)' = Known(p)  BY <2>2 DEF Chosen, Known
    <3>7. /\ proc'[p].pc = "saving" => Known(p).target = NoEvent
          /\ proc'[p].pc = "moving" => buffer'[Known(p).target] = Event(Chosen(p))
      <4>1. CASE InsertEvent(p)
        BY <4>1, EventInserted DEF InsertEvent, Inserts
      <4>2. CASE UpdateEvent(p)
        <5>1. Known(p).target \in BufferIds  BY <3>3, <4>2 DEF UpdateEvent, Updates, Rows
        <5> QED  BY <4>2, <5>1, GoesOn DEF UpdateEvent, Steps, TypeOK
      <4> QED  BY <1>8, <4>1, <4>2
    <3>8. AtWork(p)'
      <4>1. \A w \in proc[p].wants : Missing(w.key, now) => w.key \in unseen
        BY <3>1 DEF Planned, AtWork
      <4>2. \A k : Missing(k, now)' = Missing(k, now)  BY <2>1 DEF Missing, InRange
      <4>3. Event(Chosen(p))' = Event(Chosen(p))  BY <3>6 DEF Event
      <4> QED  BY <2>1, <2>2, <3>6, <3>7, <4>1, <4>2, <4>3 DEF AtWork
    <3> QED  BY <2>1, <2>2, <3>1, <3>4, <3>5, <3>8, StaysPlanned
  <2>4. p \in alone' => OnPlan(p)'  BY <2>1, <2>2, <2>3 DEF OnPlan
  <2> QED  BY <2>1, <2>2, <2>4, OneStep DEF Idle
<1>9. ASSUME NEW p \in Recomputers, InsertRow(p) PROVE Course'
  <2>1. /\ UNCHANGED given /\ alone' \subseteq alone /\ inStep' = inStep
        /\ proc[p].pc = "saving" /\ proc[p].wants # {} /\ Done(p, Chosen(p))
        /\ buffer' = buffer /\ unseen' = unseen
    BY <1>0, <1>9 DEF InsertRow, AtHand
  <2>2. ASSUME p \in alone, p \in alone' PROVE Planned(p)'
    <3>1. Planned(p)  BY <1>5, <2>1, <2>2 DEF OnPlan
    <3>2. CASE row' = row /\ lost \subseteq lost' /\ Chosen(p).key \in lost' \cup unseen
      <4>1. PICK b \in BufferIds : buffer[b] = Event(Chosen(p))
        <5>1. proc[p].target \in BufferIds \cup {NoEvent}  BY DEF TypeOK, ProcStates
        <5> QED  BY <1>0, <2>1, <5>1 DEF Saved, Saves
      <4> QED  BY <2>1, <3>1, <3>2, <4>1, DonePlanned
    <3>3. CASE /\ row[Chosen(p).key].target = NoEvent /\ lost' = lost
               /\ row' = [row EXCEPT ![Chosen(p).key] =
                             [target |-> proc[p].target, start |-> Chosen(p).start, end |-> Chosen(p).end]]
      <4>1. Chosen(p).key \in Keys  BY <2>1, ChosenWanted
      <4>2. /\ row'[Chosen(p).key] =
                 [target |-> proc[p].target, start |-> Chosen(p).start, end |-> Chosen(p).end]
            /\ \A k \in Keys \ {Chosen(p).key} : row'[k] = row[k]
        BY <3>3, <4>1 DEF TypeOK
      <4>3. proc[p].target # NoEvent
        <5>1. proc[p].target \in BufferIds \cup {NoEvent}  BY DEF TypeOK, ProcStates
        <5> QED  BY <1>0, <2>1, <5>1 DEF Saved, Saves
      <4> QED  BY <2>1, <3>1, <3>3, <4>2, <4>3, DonePlanned
    <3>4. Chosen(p).key \in Keys  BY <2>1, ChosenWanted
    <3> QED  BY <1>9, <3>2, <3>3, <3>4 DEF InsertRow
  <2>3. p \in alone' => OnPlan(p)'  BY <2>1, <2>2, DoneWith DEF OnPlan
  <2> QED  BY <2>1, <2>3, DoneWith, OneStep DEF Idle
<1>10. ASSUME NEW p \in Recomputers, UpdateRow(p) PROVE Course'
  <2>1. /\ UNCHANGED given /\ alone' = alone /\ inStep' = inStep /\ lost \subseteq lost'
        /\ proc[p].pc = "moving" /\ proc[p].wants # {} /\ Known(p).target # NoEvent
        /\ Done(p, Chosen(p)) /\ buffer' = buffer /\ unseen' = unseen
    BY <1>0, <1>10 DEF UpdateRow, AtHand
  <2>2. ASSUME p \in alone PROVE Planned(p)'
    <3>1. Planned(p)  BY <1>5, <2>1, <2>2 DEF OnPlan
    <3>2. row[Chosen(p).key] = Known(p)  BY <2>1, <3>1, KnownRead
    <3>3. Chosen(p).key \in Keys /\ Known(p) \in Rows  BY <2>1, ChosenWanted
    <3>4. /\ row'[Chosen(p).key] = [Known(p) EXCEPT !.start = Chosen(p).start, !.end = Chosen(p).end]
          /\ \A k \in Keys \ {Chosen(p).key} : row'[k] = row[k]
      BY <1>10, <3>2, <3>3 DEF UpdateRow, TypeOK
    <3>5. /\ row'[Chosen(p).key].target = Known(p).target
          /\ row'[Chosen(p).key].start = Chosen(p).start
          /\ row'[Chosen(p).key].end = Chosen(p).end
      BY <3>3, <3>4 DEF Rows
    <3> QED  BY <2>1, <3>1, <3>4, <3>5, DonePlanned
  <2>3. p \in alone' => OnPlan(p)'  BY <2>1, <2>2, DoneWith DEF OnPlan
  <2> QED  BY <2>1, <2>3, DoneWith, OneStep DEF Idle
<1>11. ASSUME NEW p \in Recomputers, ApplyFails(p) PROVE Course'
  <2>1. alone' = {} /\ inStep' = inStep /\ Done(p, Chosen(p)) /\ proc[p].pc \in {"applying", "moving"}
    BY <1>11 DEF ApplyFails, Inserts, Updates, Applies
  <2> QED  BY <2>1, DoneWith, OneStep DEF Idle
<1>12. ASSUME NEW p \in Recomputers, DeleteEvent(p) PROVE Course'
  <2>1. /\ UNCHANGED given /\ alone' \subseteq alone /\ inStep' = inStep /\ row' = row /\ now' = now
        /\ proc[p].pc = "applying" /\ lost \subseteq lost' /\ unseen' = unseen
        /\ proc[p].wants = {} /\ Orphans(p) # {}
    BY <1>12 DEF DeleteEvent, given
  <2>2. /\ \A q \in Recomputers \ {p} : proc'[q] = proc[q]
        /\ proc'[p].pc = "forgetting" /\ proc'[p].wants = proc[p].wants
        /\ proc'[p].rows = proc[p].rows /\ proc'[p].seen = proc[p].seen
    BY <1>12, GoesOn DEF DeleteEvent, Steps
  <2>3. ASSUME p \in alone PROVE Planned(p)'
    <3>1. Planned(p)  BY <1>5, <2>1, <2>3 DEF OnPlan
    <3>2. \A k \in Keys : Read(p, k)' = Read(p, k)  BY <2>1, <2>2 DEF Read
    <3>3. PICK k \in Keys : k = Orphan(p) /\ k \notin proc[p].seen
                            /\ proc[p].rows[k].target \in BufferIds
      BY <2>1, OrphanRead
    <3>4. \A l \in Keys : l \notin proc[p].seen \/ l \in KeysOf(proc'[p].wants) => Read(p, l)'
      BY <2>2, <3>1, <3>2 DEF Planned
    <3>5. ASSUME NEW w \in Earned \ proc'[p].wants PROVE Kept(w)'
      <4>1. Kept(w) /\ w.key # k  BY <2>2, <3>1, <3>3, <3>5 DEF Planned, KeysOf
      <4>2. buffer[proc[p].rows[k].target].key = k
        BY <1>0, <3>3, BufferAssumption DEF Ours, Bears, BufferAssumption
      <4>3. \A b \in BufferIds : buffer[b] = Event(w) => buffer'[b] = Event(w)
        BY <1>12, <3>3, <4>1, <4>2 DEF DeleteEvent, TypeOK, Event
      <4> QED  BY <2>1, <4>1, <4>3, StaysKept
    <3>6. AtWork(p)'  BY <2>1, <2>2, <3>1, StaysAtWork DEF Planned
    <3> QED  BY <2>1, <2>2, <3>1, <3>4, <3>5, <3>6, StaysPlanned
  <2>4. p \in alone' => OnPlan(p)'  BY <2>1, <2>2, <2>3 DEF OnPlan
  <2> QED  BY <2>1, <2>2, <2>4, OneStep DEF Idle
<1>13. ASSUME NEW p \in Recomputers, DeleteRow(p) PROVE Course'
  <2>1. /\ UNCHANGED given /\ alone' \subseteq alone /\ inStep' = inStep /\ now' = now
        /\ proc[p].pc = "forgetting" /\ proc[p].wants = {} /\ Orphans(p) # {}
        /\ buffer' = buffer /\ unseen' = unseen
    BY <1>0, <1>13 DEF DeleteRow, AtHand, given
  <2>2. ASSUME p \in alone, p \in alone' PROVE Planned(p)'
    <3>1. Planned(p)  BY <1>5, <2>1, <2>2 DEF OnPlan
    <3>2. PICK k \in Keys : k = Orphan(p) /\ k \notin proc[p].seen  BY <2>1, OrphanRead
    <3>3. proc[p].rows[k].target # NoEvent
      BY <2>1, <3>2, OrphanRead, BufferAssumption DEF BufferAssumption
    <3>4. row[k] = proc[p].rows[k]  BY <3>1, <3>2, <3>3, Ended DEF Planned, Read
    <3>5. /\ proc'[p].wants = {} /\ proc'[p].seen = proc[p].seen /\ proc'[p].rows[k] = NoRow
          /\ \A l \in Keys \ {k} : proc'[p].rows[l] = proc[p].rows[l]
      BY <1>0, <1>13, <2>1, <3>2, RowDeleted
    <3>6. lost' = lost /\ row' = Without(row, k, proc[p].rows[k].target)
      BY <1>13, <2>2, <3>2 DEF DeleteRow
    <3>7. row'[k] = NoRow /\ \A l \in Keys \ {k} : row'[l] = row[l]
      BY <3>4, <3>6 DEF Without, TypeOK
    <3>8. ASSUME NEW l \in Keys, l \notin proc[p].seen \/ l \in KeysOf(proc'[p].wants)
          PROVE  Read(p, l)'
      <4>1. CASE l = k  BY <3>5, <3>7, <4>1 DEF Read
      <4>2. CASE l # k
        <5>1. Read(p, l)  BY <3>1, <3>5, <3>8 DEF Planned, KeysOf
        <5> QED  BY <2>1, <3>5, <3>7, <4>2, <5>1 DEF Read
      <4> QED  BY <4>1, <4>2
    <3>9. ASSUME NEW w \in Earned \ proc'[p].wants PROVE Kept(w)'
      <4>1. Kept(w) /\ w.key \in proc[p].seen  BY <2>1, <3>1 DEF Planned, KeysOf
      <4>2. w.key \in Keys  BY EarnedKeys, BufferAssumption
      <4> QED  BY <2>1, <3>2, <3>6, <3>7, <4>1, <4>2, StaysKept
    <3>10. AtWork(p)'
      <4>1. proc'[p].pc = "applying"  BY <1>0, <1>13, RowDeleted
      <4> QED  BY <2>1, <3>1, <3>5, <4>1, StaysAtWork DEF Planned
    <3> QED  BY <2>1, <3>1, <3>5, <3>8, <3>9, <3>10, StaysPlanned
  <2>3. p \in alone' => OnPlan(p)'  BY <1>0, <1>13, <2>1, <2>2, RowDeleted DEF OnPlan
  <2> QED  BY <1>0, <1>13, <2>1, <2>3, RowDeleted, OneStep DEF Idle
<1>14. ASSUME NEW p \in Recomputers, Finish(p) PROVE Course'
  <2>1. /\ UNCHANGED given /\ inStep' = (p \in alone) /\ alone' = alone \ {p} /\ now' = now
        /\ row' = row /\ lost' = lost /\ proc[p].pc = "applying" /\ proc[p].wants = {}
        /\ Orphans(p) = {} /\ buffer' = buffer /\ unseen' = unseen
    BY <1>14 DEF Finish, given
  <2>2. proc'[p] = NoProc /\ \A q \in Recomputers \ {p} : proc'[q] = proc[q]
    BY <1>14 DEF Finish, TypeOK
  <2>3. alone' = {}  BY <2>1 DEF Course, Alone, Idle, TypeOK
  <2>4. CASE p \in alone
    <3>1. Planned(p)  BY <1>5, <2>1, <2>4 DEF OnPlan
    <3>2. Earned' = Earned  BY <2>1, SameEarned
    <3>3. \A w \in Earned : Kept(w)'  BY <2>1, <3>1, StaysKept DEF Planned
    <3>4. ASSUME NEW k \in Keys \ KeysOf(Earned) PROVE ~InRange(row[k], now)
      <4>1. Read(p, k) /\ proc[p].rows[k].target = NoEvent  BY <2>1, <3>1 DEF Planned, Orphans
      <4> QED  BY <4>1 DEF Read, InRange
    <3>5. \A q \in Recomputers : Idle(q)'  BY <2>2, <2>4, Ended DEF Course, Alone, Idle
    <3>6. Settled'  BY <2>1, <2>3, <3>2, <3>3, <3>4, <3>5 DEF Settled
    <3> QED  BY <2>3, <3>6 DEF Course, Alone, OnCourse
  <2>5. CASE p \notin alone
    <3>1. inStep' = FALSE
      <4>1. (p \in alone) = FALSE  BY <2>5
      <4> QED  BY <2>1, <4>1, Zenon
    <3> QED  BY <2>3, <3>1, Undisturbed
  <2> QED  BY <2>4, <2>5
<1>15. ASSUME NEW gone \in SUBSET Recomputers, Stop(gone) PROVE Course'
  BY <1>15, Undisturbed DEF Stop, Disturb
<1>16. Recomputers \in SUBSET Recomputers /\ \A p \in Recomputers : {p} \in SUBSET Recomputers
  OBVIOUS
<1> QED
  BY <1>1, <1>2, <1>3, <1>4, <1>6, <1>7, <1>8, <1>9, <1>10, <1>11, <1>12, <1>13, <1>14,
     <1>15, <1>16 DEF Next, Recompute
-------------------------------------------------------------------------------
LEMMA NextInv ==
    ASSUME Inv, [Next]_vars
    PROVE  Inv'
<1>1. TypeOK /\ Sized /\ Books /\ Course  BY DEF Inv, Books, Course
<1>2. TypeOK'  BY <1>1, NextType DEF Books
<1>3. Sized' /\ Books' /\ Course'  BY <1>1, NextSized, NextBooks, NextCourse
<1> QED  BY <1>2, <1>3 DEF Inv, Books, Course

LEMMA InvHolds == Spec => []Inv
<1>1. Init => Inv  BY InitInv
<1>2. Inv /\ [Next]_vars => Inv'  BY NextInv
<1> QED  BY <1>1, <1>2, PTL DEF Spec

(* The state of the engine keeps its type.                                 *)
THEOREM TypeCorrect == Spec => []TypeOK
<1>1. Inv => TypeOK  BY DEF Inv
<1> QED  BY <1>1, InvHolds, PTL

(* No buffer is lost sight of but in the ways "lost" records, whatever     *)
(* recomputations cross, fail or are cut off, and whatever is edited.      *)
THEOREM BuffersAreKnown == Spec => []EveryBufferKnown
<1>1. Inv => EveryBufferKnown  BY DEF Inv
<1> QED  BY <1>1, InvHolds, PTL

(* A recomputation that nothing disturbs loses no buffer.                  *)
LEMMA NothingLost ==
    ASSUME Inv, [Next]_vars, NEW p \in alone, p \in alone' \/ inStep'
    PROVE  lost' = lost
<1> USE DEF Inv
<1>1. p \in Recomputers /\ ~Idle(p) /\ ~inStep /\ \A q \in Recomputers \ {p} : Idle(q)
  BY DEF TypeOK, Alone, Settled
<1>2. ~(alone' = {} /\ (inStep' = inStep \/ inStep' = FALSE))  BY <1>1
<1>3. CASE EditMinutes \/ Toggle \/ Tick \/ \E e \in Meetings : EditMeeting(e)
  BY <1>3 DEF EditMinutes, Toggle, Tick, EditMeeting, Edit
<1>4. ASSUME NEW gone, Stop(gone) PROVE FALSE  BY <1>2, <1>4 DEF Stop, Disturb
<1>5. ASSUME NEW q \in Recomputers, Begin(q) PROVE lost' = lost  BY <1>5 DEF Begin
<1>6. ASSUME NEW q \in Recomputers, Recompute(q), ~Idle(q) PROVE lost' = lost
  <2>1. q = p  BY <1>1, <1>6
  <2>2. CASE ListMeetings(p) \/ Unchanged(p) \/ InsertEvent(p) \/ UpdateEvent(p) \/ Finish(p)
    BY <2>2 DEF ListMeetings, Unchanged, InsertEvent, UpdateEvent, Finish
  <2>3. CASE ApplyFails(p)  BY <1>2, <2>3 DEF ApplyFails
  <2>4. CASE DeleteEvent(p)  BY <1>2, <2>4 DEF DeleteEvent
  <2>5. CASE DeleteRow(p)  BY <1>2, <2>5 DEF DeleteRow
  <2>6. CASE InsertRow(p)
    <3>1. proc[p].pc = "saving" /\ proc[p].wants # {}  BY <1>1, <2>6 DEF InsertRow, AtHand
    <3>2. Planned(p) /\ Known(p).target = NoEvent  BY <3>1 DEF OnCourse, Planned, AtWork
    <3>3. PICK w \in proc[p].wants : w = Chosen(p) /\ w.key \in Keys
                                     /\ Known(p) = proc[p].rows[w.key]
      BY <3>1, <1>1, ChosenWanted
    <3>4. Read(p, w.key)  BY <3>2, <3>3 DEF Planned, KeysOf
    <3>5. row[w.key].target # NoEvent => w.key \in unseen
      BY <3>2, <3>3, <3>4 DEF Read, Missing, Planned, AtWork
    <3> QED  BY <1>2, <2>6, <3>3, <3>5 DEF InsertRow
  <2>7. CASE UpdateRow(p)
    <3>1. proc[p].pc = "moving"  BY <2>7 DEF UpdateRow
    <3>2. buffer[Known(p).target] = Event(Chosen(p))  BY <3>1 DEF OnCourse, Planned, AtWork
    <3> QED  BY <2>7, <3>2 DEF UpdateRow, Event
  <2> QED  BY <1>6, <2>1, <2>2, <2>3, <2>4, <2>5, <2>6, <2>7 DEF Recompute
<1>7. ASSUME NEW q \in Recomputers, Recompute(q) PROVE ~Idle(q)
  BY <1>7 DEF Recompute, Idle, ListMeetings, Unchanged, InsertEvent, InsertRow, UpdateEvent, UpdateRow,
       ApplyFails, DeleteEvent, DeleteRow, Finish, Inserts, Updates, Applies
<1>8. CASE UNCHANGED vars  BY <1>8 DEF vars
<1> QED  BY <1>3, <1>4, <1>5, <1>6, <1>7, <1>8 DEF Next

(* While nothing disturbs a recomputation, no buffer becomes lost: what    *)
(* the next two theorems except was lost to a failure or a crossing        *)
(* recomputation, never to the one they speak of.                          *)
THEOREM NothingIsLostUndisturbed == Spec => UndisturbedLosesNothing
<1>1. Inv /\ [Next]_vars => [\A p \in alone : p \in alone' \/ inStep' => lost' = lost]_vars
  BY NothingLost
<1> QED  BY <1>1, InvHolds, PTL DEF Spec, UndisturbedLosesNothing

(* Once an undisturbed recomputation is done, an earned buffer whose key   *)
(* was not lost is there as planned, and if its row was read, once.        *)
LEMMA EarnedAreThere ==
    ASSUME Inv, inStep, NEW w \in Earned, w.key \notin lost
    PROVE  \E b \in Live(w.key) : buffer[b] = Event(w) /\ (w.key \notin unseen => Live(w.key) = {b})
<1> USE DEF Inv
<1>1. w.key \in Keys /\ w \in Wants  BY EarnedKeys, BufferAssumption
<1>2. \A p \in Recomputers : Idle(p)  BY DEF Settled
<1>3. CASE w.key \in unseen /\ \E b \in BufferIds : buffer[b] = Event(w)
  <2>1. PICK b \in BufferIds : buffer[b] = Event(w)  BY <1>3
  <2>2. b \in Live(w.key)  BY <2>1 DEF Live, Event
  <2> QED  BY <1>3, <2>1, <2>2
<1>4. CASE row[w.key].target # NoEvent /\ row[w.key].start = w.start /\ row[w.key].end = w.end
  <2>1. PICK b \in BufferIds : b = row[w.key].target  BY <1>1, <1>4 DEF TypeOK, Rows
  <2>2. buffer[b].state = "live"  BY <1>1, <1>2, <1>4, <2>1 DEF Alive, Forgets, Idle
  <2>3. buffer[b].start = w.start /\ buffer[b].end = w.end
    BY <1>1, <1>2, <1>4, <2>1 DEF InPlace, Placed, Moving, Idle
  <2>4. buffer[b].key = w.key  BY <1>1, <1>4, <2>1 DEF Ours, Bears
  <2>5. buffer[b] = Event(w)
    <3>1. buffer[b] \in BufferStates  BY DEF TypeOK
    <3> QED  BY <2>2, <2>3, <2>4, <3>1 DEF Event, BufferStates
  <2>6. w.key \notin unseen => \A c \in Live(w.key) : c = b
    BY <1>1, <1>2, <2>1 DEF EveryBufferKnown, Idle
  <2>7. b \in Live(w.key)  BY <2>2, <2>4 DEF Live
  <2> QED  BY <2>5, <2>6, <2>7
<1> QED  BY <1>3, <1>4 DEF Settled, Kept

(* A buffer that no meeting earns lies outside the coming days.            *)
LEMMA UnearnedAreGone ==
    ASSUME Inv, inStep, NEW k \in Keys \ (lost \cup unseen \cup KeysOf(Earned)), NEW b \in Live(k)
    PROVE  buffer[b].end < now \/ buffer[b].start >= now + Horizon
<1> USE DEF Inv
<1>1. \A p \in Recomputers : Idle(p)  BY DEF Settled
<1>2. row[k].target = b  BY <1>1 DEF EveryBufferKnown, Idle
<1>3. row[k].target # NoEvent  BY <1>2, BufferAssumption DEF Live, BufferAssumption
<1>4. buffer[b].start = row[k].start /\ buffer[b].end = row[k].end
  BY <1>1, <1>2, <1>3 DEF InPlace, Placed, Moving, Idle
<1>5. ~InRange(row[k], now)  BY DEF Settled
<1>6. /\ row[k].end \in Int /\ row[k].start \in Int /\ now \in Int /\ Horizon \in Int
  BY BufferAssumption DEF TypeOK, Rows, Times, BufferAssumption
<1> QED  BY <1>3, <1>4, <1>5, <1>6 DEF InRange

(* After an undisturbed recomputation each buffer a meeting earns is on    *)
(* the calendar and in its place, whether or not its row was read; once    *)
(* only if it was; and the coming days show none that no meeting earns.    *)
THEOREM CalendarsAreInStep == Spec => []CalendarInStep
<1>1. ASSUME Inv PROVE CalendarInStep
  BY <1>1, EarnedAreThere, UnearnedAreGone DEF CalendarInStep, KeysOf
<1> QED  BY <1>1, InvHolds, PTL

(* What a meeting earns lies apart from the meeting and from one another.  *)
LEMMA PlanApart ==
    ASSUME BufferAssumption, NEW e \in Meetings, NEW m \in MeetingStates, NEW mins \in Minutes,
           m.on => m.start < m.end, NEW v \in Plan(e, m, mins)
    PROVE  /\ Apart(v, m)
           /\ \A w \in Plan(e, m, mins) : v # w => Apart(v, w)
<1> DEFINE after == IF mins.decompress > 0 /\ Decompresses(m) THEN m.end + mins.decompress ELSE m.end
           before == Want(e, "travel before", m.start - mins.travel, m.start)
           rest == Want(e, "decompress", m.end, m.end + mins.decompress)
           back == Want(e, "travel after", after, after + mins.travel)
<1>1. /\ m.start \in 0..LastStart /\ m.end \in 0..(LastStart + 2)
      /\ mins.travel \in 0..1 /\ mins.decompress \in 0..1 /\ LastStart \in Nat
  BY DEF MeetingStates, Minutes, BufferAssumption
<1>2. m.on /\ m.start < m.end  BY DEF Plan, Travels, Decompresses
<1>3. /\ before.start = m.start - mins.travel /\ before.end = m.start
      /\ rest.start = m.end /\ rest.end = m.end + mins.decompress
      /\ back.start = after /\ back.end = after + mins.travel
      /\ before.key.kind = "travel before" /\ rest.key.kind = "decompress"
      /\ back.key.kind = "travel after"
  BY DEF Want
<1>4. Plan(e, m, mins) = {w \in {before, rest, back} :
            IF w.key.kind = "decompress" THEN mins.decompress > 0 /\ Decompresses(m)
            ELSE mins.travel > 0 /\ Travels(m)}
  BY DEF Plan
<1>5. /\ Plan(e, m, mins) \subseteq {before, rest, back}
      /\ rest \in Plan(e, m, mins) => after = m.end + mins.decompress
  BY <1>3, <1>4
<1>6. after >= m.end /\ after \in Nat  BY <1>1
<1> HIDE DEF after, before, rest, back
<1>7. /\ before.end <= m.start /\ m.end <= rest.start /\ m.end <= back.start
      /\ before.end <= rest.start /\ before.end <= back.start
  <2>1. \A i, j \in Int : i < j => i <= j /\ i <= i /\ j <= j  OBVIOUS
  <2>2. m.start <= m.end /\ m.start <= m.start /\ m.end <= m.end  BY <1>1, <1>2, <2>1
  <2>3. m.start <= after
    <3>1. m.start \in Int /\ m.end \in Int /\ after \in Int  BY <1>1, <1>6
    <3> QED  BY <1>6, <2>2, <3>1
  <2> QED  BY <1>3, <1>6, <2>2, <2>3
<1>8. rest \in Plan(e, m, mins) => rest.end <= back.start
  <2>1. m.end + mins.decompress \in Int  BY <1>1
  <2>2. m.end + mins.decompress <= m.end + mins.decompress  BY <2>1
  <2> QED  BY <1>3, <1>5, <2>2
<1>9. Apart(before, m) /\ Apart(rest, m) /\ Apart(back, m)  BY <1>7 DEF Apart
<1>10. /\ Apart(before, rest) /\ Apart(rest, before) /\ Apart(before, back) /\ Apart(back, before)
       /\ rest \in Plan(e, m, mins) => Apart(rest, back) /\ Apart(back, rest)
  BY <1>7, <1>8 DEF Apart
<1> QED  BY <1>5, <1>9, <1>10

(* After an undisturbed recomputation the buffers of a meeting overlap     *)
(* neither each other nor the meeting.                                     *)
THEOREM BuffersDoNotOverlap == Spec => []NoOverlap
<1>1. ASSUME Inv PROVE NoOverlap
  <2> SUFFICES ASSUME inStep,
                      NEW w1 \in Earned, NEW w2 \in Earned,
                      w1.key \notin lost \cup unseen, w2.key \notin lost \cup unseen,
                      NEW b1 \in Live(w1.key), NEW b2 \in Live(w2.key),
                      w1.key.source = w2.key.source
               PROVE  /\ b1 # b2 => Apart(buffer[b1], buffer[b2])
                      /\ Apart(buffer[b1], meeting[w1.key.source])
    BY DEF NoOverlap
  <2>1. TypeOK /\ Sized  BY <1>1 DEF Inv
  <2>2. /\ Live(w1.key) = {b1} /\ buffer[b1] = Event(w1)
        /\ Live(w2.key) = {b2} /\ buffer[b2] = Event(w2)
    BY <1>1, EarnedAreThere
  <2>3. /\ buffer[b1].start = w1.start /\ buffer[b1].end = w1.end
        /\ buffer[b2].start = w2.start /\ buffer[b2].end = w2.end
    BY <2>2 DEF Event
  <2>4. PICK e \in Meetings : w1 \in Plan(e, meeting[e], minutes)  BY DEF Earned
  <2>5. PICK f \in Meetings : w2 \in Plan(f, meeting[f], minutes)  BY DEF Earned
  <2>6. meeting[e] \in MeetingStates /\ meeting[f] \in MeetingStates /\ minutes \in Minutes
    BY <2>1 DEF TypeOK
  <2>7. w1.key.source = e /\ f = e  BY <2>4, <2>5, <2>6, PlanWants, BufferAssumption
  <2>8. meeting[e].on => meeting[e].start < meeting[e].end  BY <2>1 DEF Sized
  <2>9. Apart(w1, meeting[e]) /\ (w1 # w2 => Apart(w1, w2))
    BY <2>4, <2>5, <2>6, <2>7, <2>8, PlanApart, BufferAssumption
  <2>10. b1 # b2 => w1 # w2  BY <2>2
  <2> QED  BY <2>3, <2>7, <2>9, <2>10 DEF Apart
<1> QED  BY <1>1, InvHolds, PTL
===============================================================================
