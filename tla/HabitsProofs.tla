---------------------------- MODULE HabitsProofs ----------------------------
(***************************************************************************)
(* Proofs about module Habits, for all calendars, days, slots and bounds.  *)
(*                                                                         *)
(* That no event is lost sight of rests on what rows say: an occurrence,   *)
(* stored or read, names an event of its day (Ours), what a placement has  *)
(* read of a live event is so still (Tracked), and what it dropped or      *)
(* erased is not live (Gone).                                              *)
(*                                                                         *)
(* That the habit is kept is a matter of one placement that runs alone     *)
(* (Alone): what it read is still so for every day it has not come to,     *)
(* the days it is done with are kept, and what it has chosen for the day   *)
(* it is at is still the best there is (OnCourse).                         *)
(***************************************************************************)
EXTENDS Habits, FiniteSetTheorems, WellFoundedInduction, TLAPS

(* Event b of the calendar ev is one of day d.                             *)
Bears(ev, b, d) == ev[b].state # "unborn" /\ ev[b].day = d

Ours ==
    \A d \in Days :
        /\ occ[d] # NoRow => Bears(event, occ[d].event, d)
        /\ \A p \in Placers : proc[p].occ[d] # NoRow => Bears(event, proc[p].occ[d].event, d)

(* A placement has in hand what its place requires.                        *)
Equipped(p) ==
    /\ proc[p].at \in {"look", "put", "note", "drop", "dropped"} => proc[p].day \in Days
    /\ proc[p].at \in {"put", "note"} => proc[p].slot \in Slots
    /\ IF proc[p].at \in {"note", "dropped"}
       THEN proc[p].hand # NoBlock /\ Bears(event, proc[p].hand, proc[p].day)
       ELSE proc[p].hand = NoBlock
    /\ proc[p].at \in {"drop", "dropped"} => Prev(p) # NoRow
    /\ proc[p].at = "dropped" => proc[p].hand = Prev(p).event

AtHand == \A p \in Placers : Equipped(p)

(* An occurrence that was read, whose event is on the calendar, is still   *)
(* as it was read, but for the slot; and one that names the event is it.   *)
Tracked ==
    \A p \in Placers : \A d \in Days :
        proc[p].occ[d] # NoRow /\ proc[p].occ[d].event \notin lost =>
            /\ event[proc[p].occ[d].event].state = "live" => occ[d].event = proc[p].occ[d].event
            /\ occ[d].event = proc[p].occ[d].event => occ[d].id = proc[p].occ[d].id

(* What was dropped or erased is not on the calendar.                      *)
Gone ==
    \A p \in Placers :
        \A b \in BlockIds \ lost :
            \/ proc[p].at = "dropped" /\ proc[p].hand = b
            \/ proc[p].at = "erased" /\ b \in Known(proc[p])
            => event[b].state # "live"

(* Rows say where the live events are, but for those just moved.           *)
InPlace ==
    \A d \in Days : occ[d] # NoRow /\ occ[d].event \notin lost =>
        \/ event[occ[d].event].state # "live"
        \/ event[occ[d].event].slot = occ[d].slot
        \/ \E p \in Placers : proc[p].at = "note" /\ proc[p].hand = occ[d].event

(* While a placement that nothing disturbed is at work, nobody else is.    *)
Working == {"idle", "read", "list", "look", "put", "note", "drop", "dropped"}
AloneAtWork ==
    \A p \in alone : /\ proc[p].at \in Working
                     /\ \A q \in Placers \ {p} : Idle(q)

(* What is taken on day d but for event b.                                 *)
Beside(d, b) ==
    {s \in Slots : <<d, s>> \in busy} \cup {event[x].slot : x \in {y \in Live \ {b} : event[y].day = d}}

(* Slot s is the one to take.                                              *)
Best(s, free, ideal) ==
    /\ s \in Fitting(free, ideal)
    /\ \A t \in Fitting(free, ideal) :
          \/ Off(s, ideal) < Off(t, ideal)
          \/ Off(s, ideal) = Off(t, ideal) /\ s <= t

OpenNow(p) == OpenTo(proc[p].day, Prev(p).slot)

Underway(p) ==
    /\ proc[p].day \in Due
    /\ \A d \in Due : d < proc[p].day => Kept(d)
    /\ \A d \in Days : d >= proc[p].day => proc[p].occ[d] = occ[d]
    /\ proc[p].at = "put" => Best(proc[p].slot, OpenNow(p), habit.ideal) /\ ~Same(p, proc[p].slot)
    /\ proc[p].at = "drop" => Fitting(OpenNow(p), habit.ideal) = {}
    /\ proc[p].at = "note" =>
          /\ event[proc[p].hand].state = "live" /\ event[proc[p].hand].slot = proc[p].slot
          /\ Best(proc[p].slot, hours \ Beside(proc[p].day, proc[p].hand), habit.ideal)
    /\ proc[p].at = "dropped" =>
          Fitting(hours \ Beside(proc[p].day, NoBlock), habit.ideal) = {}

OnCourse ==
    \A p \in alone : proc[p].at \notin {"idle", "read"} =>
        /\ habit.kept /\ proc[p].row = habit /\ proc[p].from = today
        /\ proc[p].at # "list" => Underway(p)

(* Once it is done, nobody is at work and the habit is kept.               *)
Settled ==
    inStep => /\ \A p \in Placers : Idle(p)
              /\ alone = {}
              /\ habit.kept /\ habit.on => InTune

Books == TypeOK /\ Ours /\ AtHand /\ Tracked /\ Gone /\ InPlace /\ EveryEventKnown
Inv == Books /\ AloneAtWork /\ OnCourse /\ Settled
-------------------------------------------------------------------------------
(* A finite set of numbers has a least one, so First and Nearest are what  *)
(* they are to be.                                                         *)

LEMMA LeastExists ==
    ASSUME NEW S \in SUBSET Nat, S # {}, IsFiniteSet(S)
    PROVE  \E m \in S : \A n \in S : m <= n
<1> DEFINE Below(x) == {y \in S : y <= x}
           R == StrictSubsetOrdering(S)
           T == {Below(x) : x \in S}
<1>1. \A x \in S : Below(x) \in FiniteSubsetsOf(S)
  <2> TAKE x \in S
  <2> Below(x) \in SUBSET S  OBVIOUS
  <2> QED  BY FS_Subset DEF FiniteSubsetsOf
<1>2. IsWellFoundedOn(R, FiniteSubsetsOf(S))  BY FS_StrictSubsetOrderingWellFounded
<1>3. T \subseteq FiniteSubsetsOf(S) /\ T # {}  BY <1>1
<1> HIDE DEF T, R
<1>4. PICK t \in T : \A u \in T : <<u, t>> \notin R  BY <1>2, <1>3, WFMin, Zenon
<1>5. PICK m \in S : t = Below(m)  BY DEF T
<1>6. \A n \in S : m <= n
  <2> SUFFICES ASSUME NEW n \in S, ~(m <= n) PROVE FALSE  OBVIOUS
  <2>1. n \in Nat /\ m \in Nat /\ n < m  OBVIOUS
  <2>2. \A y \in S : y \in Nat  OBVIOUS
  <2>3. \A y \in S : y <= n => y <= m  BY <2>1, <2>2
  <2>7. Below(n) \subseteq Below(m)  BY <2>3
  <2>4. m \in Below(m) /\ m \notin Below(n)  BY <2>1
  <2>5. <<Below(n), t>> \in R  BY <1>5, <2>4, <2>7 DEF R, StrictSubsetOrdering
  <2>6. Below(n) \in T  BY DEF T
  <2> QED  BY <1>4, <2>5, <2>6
<1> QED  BY <1>6

LEMMA FirstIsLeast ==
    ASSUME HabitAssumption, NEW S \in SUBSET Days, S # {}
    PROVE  First(S) \in S /\ \A e \in S : First(S) <= e
<1>1. IsFiniteSet(S)
  <2>1. IsFiniteSet(1..LastDay)  BY FS_Interval DEF HabitAssumption
  <2> QED  BY <2>1, FS_Subset DEF Days
<1>2. S \in SUBSET Nat  BY DEF Days
<1> QED  BY <1>1, <1>2, LeastExists DEF First

(* The order in which slots are preferred is that of a number.             *)
Rank(s, ideal) == 2 * Off(s, ideal) + IF s < ideal THEN 0 ELSE 1

LEMMA Ranked ==
    ASSUME NEW s \in Nat, NEW t \in Nat, NEW ideal \in Nat, Rank(s, ideal) <= Rank(t, ideal)
    PROVE  Off(s, ideal) < Off(t, ideal) \/ (Off(s, ideal) = Off(t, ideal) /\ s <= t)
  BY DEF Rank, Off

LEMMA NearestIsBest ==
    ASSUME HabitAssumption, NEW free \in SUBSET Slots, NEW ideal \in Slots,
           Fitting(free, ideal) # {}
    PROVE  Nearest(free, ideal) \in Slots /\ Best(Nearest(free, ideal), free, ideal)
<1> DEFINE fits == Fitting(free, ideal)
           ranks == {Rank(s, ideal) : s \in fits}
<1>1. fits \subseteq Slots /\ Slots \subseteq Nat /\ LastSlot \in Nat
  <2>1. fits \subseteq free  BY DEF Fitting
  <2>2. fits \subseteq Slots  BY <2>1
  <2>3. Slots \subseteq Nat  BY DEF Slots
  <2>4. LastSlot \in Nat  BY DEF HabitAssumption
  <2> QED  BY <2>2, <2>3, <2>4
<1>2. \A s \in fits : Rank(s, ideal) \in 0..(2 * LastSlot + 1)
  BY <1>1 DEF Rank, Off, Slots
<1>3. ranks \subseteq 0..(2 * LastSlot + 1) /\ ranks # {}  BY <1>2
<1>4. IsFiniteSet(ranks) /\ ranks \in SUBSET Nat
  <2>1. 2 * LastSlot + 1 \in Nat  BY <1>1
  <2>2. IsFiniteSet(0..(2 * LastSlot + 1))  BY <2>1, FS_Interval
  <2> QED  BY <1>3, <2>1, <2>2, FS_Subset
<1> HIDE DEF ranks
<1>5. PICK m \in ranks : \A n \in ranks : m <= n  BY <1>3, <1>4, LeastExists
<1>6. PICK s \in fits : m = Rank(s, ideal)  BY DEF ranks
<1>7. \A t \in fits : Rank(s, ideal) <= Rank(t, ideal)  BY <1>5, <1>6 DEF ranks
<1>8. Best(s, free, ideal)  BY <1>1, <1>7, Ranked DEF Best
<1>9. Best(Nearest(free, ideal), free, ideal)  BY <1>8 DEF Best, Nearest
<1> QED  BY <1>1, <1>9 DEF Best

LEMMA BestIsOne ==
    ASSUME NEW free \in SUBSET Slots, NEW ideal \in Slots, NEW s, NEW t,
           Best(s, free, ideal), Best(t, free, ideal)
    PROVE  s = t
<1>1. s \in Nat /\ t \in Nat /\ ideal \in Nat  BY DEF Best, Fitting, Slots
<1>2. Off(s, ideal) \in Nat /\ Off(t, ideal) \in Nat  BY <1>1 DEF Off
<1> QED  BY <1>1, <1>2 DEF Best

(* What is best of more is best of less, if it is there.                   *)
LEMMA BestOfLess ==
    ASSUME NEW more, NEW free \in SUBSET more, NEW ideal, NEW s \in free, Best(s, more, ideal)
    PROVE  Best(s, free, ideal)
  BY DEF Best, Fitting
-------------------------------------------------------------------------------
(* What a step does to the goroutine that takes it.                        *)

LEMMA Moved ==
    ASSUME TypeOK, NEW p \in Placers, NEW x \in ProcStates, proc' = [proc EXCEPT ![p] = x]
    PROVE  /\ proc' \in [Placers -> ProcStates]
           /\ proc'[p] = x
           /\ \A q \in Placers \ {p} : proc'[q] = proc[q]
  BY DEF TypeOK

LEMMA AtRest ==
    ASSUME HabitAssumption
    PROVE  /\ NoProc \in ProcStates /\ NoProc.at = "idle" /\ NoProc.hand = NoBlock
           /\ \A d \in Days : NoProc.occ[d] = NoRow
           /\ NewHabit \in Habit
           /\ NoRow \in OccRow /\ NoRow.id = 0 /\ NoRow.event = NoBlock /\ NoRow.slot = 0
<1>1. AnyCal \in Cals  BY DEF AnyCal, HabitAssumption
<1>2. 1 \in Slots  BY DEF Slots, HabitAssumption
<1>3. NewHabit \in Habit  BY <1>1, <1>2 DEF NewHabit, Habit
<1>4. NoRow \in OccRow /\ NoRow.id = 0 /\ NoRow.event = NoBlock /\ NoRow.slot = 0
  BY DEF NoRow, OccRow
<1>5. NoRows \in [Days -> OccRow] /\ \A d \in Days : NoRows[d] = NoRow
  BY <1>4 DEF NoRows
<1>6. 0 \in 0..LastDay /\ 0 \in 0..LastSlot  BY DEF HabitAssumption
<1> QED  BY <1>3, <1>4, <1>5, <1>6 DEF NoProc, ProcStates, Places

(* A row that is one names an event.                                       *)
LEMMA RowShape ==
    ASSUME HabitAssumption, NEW r \in OccRow
    PROVE  /\ r # NoRow <=> r.id # 0
           /\ r # NoRow <=> r.event # NoBlock
           /\ r # NoRow => r.id \in Nat \ {0} /\ r.event \in BlockIds /\ r.slot \in Slots
           /\ r.event \in BlockIds \cup {NoBlock} /\ r.slot \in 0..LastSlot
<1>1. NoRow.id = 0 /\ NoRow.event = NoBlock /\ NoRow.slot = 0  BY DEF NoRow
<1>2. NoBlock \notin BlockIds /\ LastSlot \in Nat  BY DEF HabitAssumption
<1>3. CASE r = NoRow  BY <1>1, <1>2, <1>3
<1>4. CASE r # NoRow
  <2>1. r \in [id : Nat \ {0}, event : BlockIds, slot : Slots]  BY <1>4 DEF OccRow
  <2>2. r.slot \in 0..LastSlot  BY <2>1 DEF Slots
  <2> QED  BY <1>1, <1>2, <1>4, <2>1, <2>2
<1> QED  BY <1>3, <1>4

LEMMA HorizonDays ==
    ASSUME TypeOK, NEW p \in Placers, NEW n
    PROVE  Rest(p, n) \in SUBSET Days
  BY DEF Rest, Horizon

(* Going on to the next day, whatever it does to what is seen.             *)
Onward(p, q, n) ==
    IF Rest(p, n) = {} THEN Ends(p)
    ELSE proc' = [proc EXCEPT ![p] = [q EXCEPT !.at = "look", !.day = First(Rest(p, n)),
                                               !.slot = 0, !.hand = NoBlock]]

LEMMA GoneOnward ==
    ASSUME HabitAssumption, TypeOK, NEW p \in Placers, NEW q \in ProcStates, NEW n,
           Onward(p, q, n)
    PROVE  /\ proc' \in [Placers -> ProcStates]
           /\ \A r \in Placers \ {p} : proc'[r] = proc[r]
           /\ \/ Rest(p, n) = {} /\ proc'[p] = NoProc
              \/ /\ proc'[p].day \in Rest(p, n) /\ \A e \in Rest(p, n) : proc'[p].day <= e
                 /\ proc'[p].at = "look" /\ proc'[p].hand = NoBlock
                 /\ proc'[p].row = q.row /\ proc'[p].occ = q.occ /\ proc'[p].from = q.from
<1>1. CASE Rest(p, n) = {}
  <2>1. proc' = [proc EXCEPT ![p] = NoProc]  BY <1>1 DEF Onward, Ends
  <2> QED  BY <1>1, <2>1, AtRest, Moved
<1>2. CASE Rest(p, n) # {}
  <2> DEFINE d == First(Rest(p, n))
             x == [q EXCEPT !.at = "look", !.day = d, !.slot = 0, !.hand = NoBlock]
  <2>1. d \in Rest(p, n) /\ (\A e \in Rest(p, n) : d <= e) /\ d \in Days
    BY <1>2, HorizonDays, FirstIsLeast
  <2>2. proc' = [proc EXCEPT ![p] = x]  BY <1>2 DEF Onward
  <2> HIDE DEF d
  <2>3. d \in 0..LastDay /\ 0 \in 0..LastSlot  BY <2>1 DEF Days, HabitAssumption
  <2>4. /\ x \in ProcStates /\ x.at = "look" /\ x.day = d /\ x.hand = NoBlock
        /\ x.row = q.row /\ x.occ = q.occ /\ x.from = q.from
    BY <2>3 DEF ProcStates, Places
  <2> HIDE DEF x
  <2> QED  BY <2>1, <2>2, <2>4, Moved
<1> QED  BY <1>1, <1>2

LEMMA GoOnIsOnward ==
    ASSUME NEW p, NEW q, NEW n, GoOn(p, q, n)
    PROVE  /\ Onward(p, q, n)
           /\ IF Rest(p, n) = {} THEN inStep' = (p \in alone) /\ alone' = alone \ {p}
              ELSE inStep' = inStep /\ alone' = alone
           /\ orderly' = orderly
<1>1. CASE Rest(p, n) = {}  BY <1>1, Zenon DEF GoOn, Onward
<1>2. CASE Rest(p, n) # {}  BY <1>2, Zenon DEF GoOn, Onward, seen
<1> QED  BY <1>1, <1>2
-------------------------------------------------------------------------------
(* The books are kept by every step that takes nothing in hand: that may   *)
(* remove rows and lose sight of events, and lets go of what it had.       *)

Calm(q) == proc[q].at \notin {"note", "dropped", "erased"}

LEMMA LetGo ==
    ASSUME HabitAssumption, Books, TypeOK', lost \subseteq lost',
           \A b \in BlockIds :
              /\ event[b].state # "unborn" => event'[b].state # "unborn" /\ event'[b].day = event[b].day
              /\ b \notin lost' => event'[b] = event[b],
           \A d \in Days :
              \/ occ'[d] = occ[d]
              \/ /\ occ'[d] = NoRow
                 /\ occ[d].event \in lost' \/ event[occ[d].event].state # "live",
           \A q \in Placers :
              \/ proc'[q] = proc[q]
              \/ /\ Calm(q)' /\ Equipped(q)'
                 /\ \A d \in Days : proc'[q].occ[d] \in {NoRow, occ'[d], proc[q].occ[d]}
                 /\ \A b \in InHand(proc[q]) \ lost' :
                       event[b].state # "live" /\ \A d \in Days : occ'[d].event # b
    PROVE  Books'
<1>0. /\ TypeOK /\ Ours /\ AtHand /\ Tracked /\ Gone /\ InPlace /\ EveryEventKnown  BY DEF Books
<1>1. NoRow.event = NoBlock /\ NoRow.id = 0 /\ NoBlock \notin BlockIds
  BY AtRest DEF HabitAssumption
<1>2. ASSUME NEW d \in Days, occ'[d] # NoRow
      PROVE  occ'[d] = occ[d] /\ occ[d].event \in BlockIds /\ occ[d] # NoRow
  <2>1. occ'[d] = occ[d] /\ occ[d] # NoRow  BY <1>2
  <2>2. occ[d] \in OccRow  BY <1>0 DEF TypeOK
  <2> QED  BY <2>1, <2>2, RowShape
<1>3. \A q \in Placers : \A d \in Days :
         proc[q].occ[d] # NoRow => proc[q].occ[d].event \in BlockIds
  <2> TAKE q \in Placers
  <2> TAKE d \in Days
  <2>1. proc[q].occ[d] \in OccRow  BY <1>0 DEF TypeOK, ProcStates
  <2> QED  BY <2>1, RowShape
<1>4. ASSUME NEW b \in BlockIds, NEW d \in Days, Bears(event, b, d)
      PROVE  Bears(event', b, d)
  BY <1>4 DEF Bears
<1>5. Ours'
  <2>1. ASSUME NEW d \in Days, occ'[d] # NoRow
        PROVE  Bears(event', occ'[d].event, d)
    <3>1. occ'[d] = occ[d] /\ occ[d].event \in BlockIds /\ Bears(event, occ[d].event, d)
      BY <1>0, <1>2, <2>1 DEF Ours
    <3>2. PICK b \in BlockIds : b = occ[d].event  BY <3>1
    <3>3. Bears(event', b, d)  BY <1>4, <3>1, <3>2
    <3> QED  BY <3>1, <3>2, <3>3 DEF Bears
  <2>2. ASSUME NEW d \in Days, NEW q \in Placers, proc'[q].occ[d] # NoRow
        PROVE  Bears(event', proc'[q].occ[d].event, d)
    <3>1. CASE proc'[q].occ[d] = proc[q].occ[d]
      <4>1. PICK b \in BlockIds : b = proc[q].occ[d].event  BY <1>3, <2>2, <3>1
      <4>2. Bears(event, b, d)  BY <1>0, <2>2, <3>1, <4>1 DEF Ours
      <4>3. Bears(event', b, d)  BY <1>4, <4>2
      <4> QED  BY <3>1, <4>1, <4>3 DEF Bears
    <3>2. CASE proc'[q].occ[d] = occ'[d]
      <4>1. Bears(event', occ'[d].event, d)  BY <2>1, <2>2, <3>2
      <4> QED  BY <3>2, <4>1 DEF Bears
    <3> QED  BY <2>2, <3>1, <3>2
  <2> QED  BY <2>1, <2>2 DEF Ours
<1>6. AtHand'
  <2> SUFFICES ASSUME NEW q \in Placers, proc'[q] = proc[q] PROVE Equipped(q)'
    BY DEF AtHand
  <2>1. Equipped(q)  BY <1>0 DEF AtHand
  <2>2. Prev(q)' = Prev(q)  BY DEF Prev
  <2>3. CASE proc[q].at \in {"note", "dropped"}
    <3>1. proc[q].hand \in BlockIds /\ proc[q].day \in Days
      BY <1>0, <2>1, <2>3 DEF Equipped, TypeOK, ProcStates
    <3>2. Bears(event, proc[q].hand, proc[q].day)  BY <2>1, <2>3 DEF Equipped
    <3>3. PICK b \in BlockIds, d \in Days : b = proc[q].hand /\ d = proc[q].day  BY <3>1
    <3>4. Bears(event', b, d)  BY <1>4, <3>2, <3>3
    <3>5. Bears(event', proc'[q].hand, proc'[q].day)  BY <3>3, <3>4 DEF Bears
    <3> QED  BY <2>1, <2>2, <2>3, <3>5 DEF Equipped
  <2>4. CASE proc[q].at \notin {"note", "dropped"}
    BY <2>1, <2>2, <2>4 DEF Equipped
  <2> QED  BY <2>3, <2>4
<1>7. Tracked'
  <2> SUFFICES ASSUME NEW q \in Placers, NEW d \in Days, NEW r, r = proc'[q].occ[d],
                      r # NoRow, r.event \notin lost'
               PROVE  /\ event'[r.event].state = "live" => occ'[d].event = r.event
                      /\ occ'[d].event = r.event => occ'[d].id = r.id
    BY DEF Tracked
  <2>1. CASE r = occ'[d]  BY <2>1
  <2>2. CASE r = proc[q].occ[d]
    <3>1. r.event \in BlockIds /\ r.event \notin lost  BY <1>3, <2>2
    <3>2. /\ event[r.event].state = "live" => occ[d].event = r.event
          /\ occ[d].event = r.event => occ[d].id = r.id
      BY <1>0, <2>2, <3>1 DEF Tracked
    <3>3. event'[r.event] = event[r.event]  BY <3>1
    <3>4. event'[r.event].state = "live" => occ'[d] = occ[d]  BY <3>2, <3>3
    <3>5. occ'[d].event = r.event => occ'[d] = occ[d]  BY <1>1, <3>1
    <3> QED  BY <3>2, <3>3, <3>4, <3>5
  <2> QED  BY <2>1, <2>2
<1>8. Gone'
  <2> SUFFICES ASSUME NEW q \in Placers, NEW b \in BlockIds \ lost',
                      \/ proc'[q].at = "dropped" /\ proc'[q].hand = b
                      \/ proc'[q].at = "erased" /\ b \in Known(proc'[q])
               PROVE  event'[b].state # "live"
    BY DEF Gone
  <2>1. proc'[q] = proc[q]  BY DEF Calm
  <2>2. b \notin lost /\ event'[b] = event[b]  OBVIOUS
  <2>3. event[b].state # "live"  BY <1>0, <2>1, <2>2 DEF Gone
  <2> QED  BY <2>2, <2>3
<1>9. \A q \in Placers : \A b \in BlockIds :
         proc[q].at = "note" /\ proc[q].hand = b => b \in InHand(proc[q])
  BY <1>1 DEF InHand
<1>10. InPlace'
  <2> SUFFICES ASSUME NEW d \in Days, occ'[d] # NoRow, occ'[d].event \notin lost',
                      event'[occ'[d].event].state = "live",
                      event'[occ'[d].event].slot # occ'[d].slot
               PROVE  \E q \in Placers : proc'[q].at = "note" /\ proc'[q].hand = occ'[d].event
    BY DEF InPlace
  <2>1. occ'[d] = occ[d] /\ occ[d].event \in BlockIds \ lost' /\ occ[d] # NoRow  BY <1>2
  <2>2. event'[occ[d].event] = event[occ[d].event]  BY <2>1
  <2>3. PICK q \in Placers : proc[q].at = "note" /\ proc[q].hand = occ[d].event
    BY <1>0, <2>1, <2>2 DEF InPlace
  <2>4. proc'[q] = proc[q]  BY <1>9, <2>1, <2>2, <2>3
  <2> QED  BY <2>1, <2>3, <2>4
<1>11. EveryEventKnown'
  <2> SUFFICES ASSUME NEW b \in BlockIds \ lost',
                      ~ \E q \in Placers : b \in InHand(proc'[q])
               PROVE  event'[b].state = "live" <=> \E d \in Days : occ'[d].id # 0 /\ occ'[d].event = b
    BY DEF EveryEventKnown, Live, Placed
  <2>1. b \notin lost /\ event'[b] = event[b]  OBVIOUS
  <2>2. CASE \E q \in Placers : b \in InHand(proc[q])
    <3>1. PICK q \in Placers : b \in InHand(proc[q])  BY <2>2
    <3>2. proc'[q] # proc[q]  BY <3>1
    <3> QED  BY <2>1, <3>1, <3>2
  <2>3. CASE event[b].state = "live" <=> \E d \in Days : occ[d].id # 0 /\ occ[d].event = b
    <3>1. ASSUME event[b].state = "live"
          PROVE  \E d \in Days : occ'[d].id # 0 /\ occ'[d].event = b
      BY <2>3, <3>1
    <3>2. ASSUME NEW d \in Days, occ'[d].id # 0, occ'[d].event = b
          PROVE  event[b].state = "live"
      BY <1>1, <1>2, <2>3, <3>2
    <3> QED  BY <2>1, <3>1, <3>2
  <2> QED  BY <1>0, <2>1, <2>2, <2>3 DEF EveryEventKnown, Live, Placed
<1> QED  BY <1>5, <1>6, <1>7, <1>8, <1>10, <1>11 DEF Books
-------------------------------------------------------------------------------
LEMMA CalmHand ==
    ASSUME Books, NEW q \in Placers, Calm(q)
    PROVE  InHand(proc[q]) = {}
<1>1. proc[q].hand = NoBlock  BY DEF Books, AtHand, Equipped, Calm
<1> QED  BY <1>1 DEF InHand, Calm

(* One goroutine goes on, and neither rows nor events change.              *)
LEMMA Quietly ==
    ASSUME HabitAssumption, Books, TypeOK', occ' = occ, event' = event, lost \subseteq lost',
           NEW p \in Placers, \A q \in Placers \ {p} : proc'[q] = proc[q],
           Calm(p)', Equipped(p)', InHand(proc[p]) \subseteq lost',
           \A d \in Days : proc'[p].occ[d] \in {NoRow, occ[d], proc[p].occ[d]}
    PROVE  Books'
<1>1. ASSUME NEW q \in Placers, proc'[q] # proc[q]
      PROVE  /\ Calm(q)' /\ Equipped(q)'
             /\ \A d \in Days : proc'[q].occ[d] \in {NoRow, occ'[d], proc[q].occ[d]}
             /\ \A b \in InHand(proc[q]) \ lost' :
                   event[b].state # "live" /\ \A d \in Days : occ'[d].event # b
  <2>1. q = p  BY <1>1
  <2>2. \A d \in Days : proc'[p].occ[d] \in {NoRow, occ'[d], proc[p].occ[d]}  OBVIOUS
  <2>3. InHand(proc[p]) \ lost' = {}  OBVIOUS
  <2> QED  BY <2>1, <2>2, <2>3
<1> QED  BY <1>1, LetGo

LEMMA OnwardCalm ==
    ASSUME HabitAssumption, TypeOK, NEW p \in Placers, NEW q \in ProcStates, NEW n, Onward(p, q, n)
    PROVE  /\ Calm(p)' /\ Equipped(p)'
           /\ \A d \in Days : proc'[p].occ[d] \in {NoRow, q.occ[d]}
<1>1. CASE proc'[p] = NoProc
  <2>1. proc'[p].at = "idle" /\ proc'[p].hand = NoBlock  BY <1>1, AtRest
  <2>2. \A d \in Days : proc'[p].occ[d] = NoRow  BY <1>1, AtRest
  <2> QED  BY <2>1, <2>2 DEF Calm, Equipped
<1>2. CASE /\ proc'[p].day \in Rest(p, n)
           /\ proc'[p].at = "look" /\ proc'[p].hand = NoBlock /\ proc'[p].occ = q.occ
  <2>1. proc'[p].day \in Days  BY <1>2, HorizonDays
  <2> QED  BY <1>2, <2>1 DEF Calm, Equipped
<1> QED  BY <1>1, <1>2, GoneOnward

LEMMA OnwardBooks ==
    ASSUME HabitAssumption, Books, TypeOK', occ' = occ, event' = event, lost \subseteq lost',
           NEW p \in Placers, NEW q \in ProcStates, NEW n, Onward(p, q, n),
           InHand(proc[p]) \subseteq lost',
           \A d \in Days : q.occ[d] \in {occ[d], proc[p].occ[d]}
    PROVE  Books'
<1>1. TypeOK  BY DEF Books
<1>2. \A r \in Placers \ {p} : proc'[r] = proc[r]  BY <1>1, GoneOnward
<1>3. /\ Calm(p)' /\ Equipped(p)'
      /\ \A d \in Days : proc'[p].occ[d] \in {NoRow, q.occ[d]}
  BY <1>1, OnwardCalm
<1>4. \A d \in Days : proc'[p].occ[d] \in {NoRow, occ[d], proc[p].occ[d]}  BY <1>3
<1> QED  BY <1>2, <1>3, <1>4, Quietly
-------------------------------------------------------------------------------
(* Users, other people, and time.                                          *)

LEMMA WorldBooks ==
    ASSUME HabitAssumption, Books, Meet \/ EditHours \/ NextDay
    PROVE  Books'
<1>1. TypeOK  BY DEF Books
<1>2. UNCHANGED <<habit, occ, born, event, proc, lost, upsets>>
  BY DEF Meet, EditHours, NextDay, stored
<1>3. busy' \subseteq Days \X Slots  BY <1>1 DEF TypeOK, Meet, EditHours, NextDay
<1>4. hours' \subseteq Slots  BY <1>1 DEF TypeOK, Meet, EditHours, NextDay
<1>5. today' \in Days
  BY <1>1, HabitAssumption DEF TypeOK, Meet, EditHours, NextDay, Days, HabitAssumption
<1>6. asks' \in 0..MaxAsks
  BY <1>1, HabitAssumption DEF TypeOK, Meet, EditHours, NextDay, Ask, HabitAssumption
<1>7. alone' \subseteq Placers /\ inStep' \in BOOLEAN /\ orderly' \in BOOLEAN
  BY <1>1 DEF TypeOK, Meet, EditHours, NextDay, Disturb
<1>8. TypeOK'  BY <1>1, <1>2, <1>3, <1>4, <1>5, <1>6, <1>7 DEF TypeOK
<1> QED  BY <1>2, <1>8, LetGo

LEMMA RemoveBooks ==
    ASSUME HabitAssumption, Books, RemoveByHand
    PROVE  Books'
<1>1. TypeOK  BY DEF Books
<1>2. PICK b \in Live : event' = [event EXCEPT ![b].state = "gone"] /\ lost' = lost \cup {b}
  BY DEF RemoveByHand
<1>3. b \in BlockIds  BY DEF Live
<1>4. UNCHANGED <<habit, occ, born, busy, hours, today, proc, upsets>>
  BY DEF RemoveByHand, stored
<1>5. /\ event' \in [BlockIds -> Events] /\ event'[b].day = event[b].day /\ event'[b].state = "gone"
      /\ \A c \in BlockIds \ {b} : event'[c] = event[c]
  BY <1>1, <1>2, <1>3 DEF TypeOK, Events
<1>6. asks' \in 0..MaxAsks
  BY <1>1, HabitAssumption DEF TypeOK, RemoveByHand, Ask, HabitAssumption
<1>7. alone' \subseteq Placers /\ inStep' \in BOOLEAN /\ orderly' \in BOOLEAN
  BY <1>1 DEF TypeOK, RemoveByHand, Disturb
<1>8. TypeOK'  BY <1>1, <1>2, <1>3, <1>4, <1>5, <1>6, <1>7 DEF TypeOK
<1>9. \A c \in BlockIds :
         /\ event[c].state # "unborn" => event'[c].state # "unborn" /\ event'[c].day = event[c].day
         /\ c \notin lost' => event'[c] = event[c]
  BY <1>2, <1>5
<1>10. lost \subseteq lost'  BY <1>2
<1> QED  BY <1>4, <1>8, <1>9, <1>10, LetGo
-------------------------------------------------------------------------------
(* Steps of a goroutine that touch neither rows nor events.                *)

LEMMA Bounds ==
    ASSUME HabitAssumption, TypeOK
    PROVE  /\ Ask \/ asks' = asks => asks' \in 0..MaxAsks
           /\ Upset \/ upsets' = upsets => upsets' \in 0..MaxUpsets
  BY DEF TypeOK, Ask, Upset, HabitAssumption

LEMMA SeenType ==
    ASSUME TypeOK, Disturb \/ Enters \/ (\E p \in Placers : Begins(p)) \/ UNCHANGED seen
    PROVE  alone' \subseteq Placers /\ inStep' \in BOOLEAN /\ orderly' \in BOOLEAN
<1>1. alone \subseteq Placers /\ inStep \in BOOLEAN /\ orderly \in BOOLEAN  BY DEF TypeOK
<1>2. CASE Disturb  BY <1>1, <1>2 DEF Disturb
<1>3. CASE Enters
  <2>1. orderly' \in BOOLEAN  BY <1>3, Zenon DEF Enters
  <2> QED  BY <1>3, <2>1 DEF Enters
<1>4. CASE \E p \in Placers : Begins(p)
  <2>1. PICK p \in Placers : Begins(p)  BY <1>4
  <2>2. orderly' \in BOOLEAN  BY <2>1, Zenon DEF Begins
  <2>3. alone' \subseteq Placers /\ inStep' \in BOOLEAN  BY <2>1 DEF Begins
  <2> QED  BY <2>2, <2>3
<1>5. CASE UNCHANGED seen  BY <1>1, <1>5 DEF seen
<1> QED  BY <1>2, <1>3, <1>4, <1>5

LEMMA GoOnSeen ==
    ASSUME TypeOK, NEW p, NEW q, NEW n, GoOn(p, q, n)
    PROVE  alone' \subseteq Placers /\ inStep' \in BOOLEAN /\ orderly' \in BOOLEAN
<1>1. alone \subseteq Placers /\ inStep \in BOOLEAN /\ orderly \in BOOLEAN  BY DEF TypeOK
<1>2. inStep' = inStep \/ inStep' = (p \in alone)  BY GoOnIsOnward
<1>3. (p \in alone) \in BOOLEAN  OBVIOUS
<1>4. inStep' \in BOOLEAN  BY <1>1, <1>2, <1>3, Zenon
<1> QED  BY <1>1, <1>4, GoOnIsOnward

LEMMA Goes ==
    ASSUME TypeOK, NEW p \in Placers, NEW a \in Places, proc' = [proc EXCEPT ![p].at = a]
    PROVE  /\ proc' \in [Placers -> ProcStates]
           /\ \A q \in Placers \ {p} : proc'[q] = proc[q]
           /\ proc'[p].at = a /\ proc'[p].row = proc[p].row /\ proc'[p].occ = proc[p].occ
           /\ proc'[p].day = proc[p].day /\ proc'[p].from = proc[p].from
           /\ proc'[p].slot = proc[p].slot /\ proc'[p].hand = proc[p].hand
<1> DEFINE x == [proc[p] EXCEPT !.at = a]
<1>1. proc[p] \in ProcStates  BY DEF TypeOK
<1>2. proc' = [proc EXCEPT ![p] = x]  BY DEF TypeOK
<1>3. /\ x \in ProcStates /\ x.at = a /\ x.row = proc[p].row /\ x.occ = proc[p].occ
      /\ x.day = proc[p].day /\ x.from = proc[p].from /\ x.slot = proc[p].slot
      /\ x.hand = proc[p].hand
  BY <1>1 DEF ProcStates
<1> HIDE DEF x
<1> QED  BY <1>2, <1>3, Moved

(* What p has in hand, where it has to have nothing.                       *)
LEMMA EmptyHanded ==
    ASSUME Books, NEW p \in Placers, Calm(p)
    PROVE  proc[p].hand = NoBlock /\ InHand(proc[p]) \subseteq lost
<1>1. proc[p].hand = NoBlock  BY DEF Books, AtHand, Equipped, Calm
<1> QED  BY <1>1, CalmHand

LEMMA StartBooks ==
    ASSUME HabitAssumption, Books, NEW p \in Placers, Starts(p), Ask \/ asks' = asks,
           UNCHANGED <<stored, event, busy, hours, today, lost, upsets>>
    PROVE  Books'
<1>0. TypeOK  BY DEF Books
<1>1. proc' = [proc EXCEPT ![p].at = "read"] /\ "read" \in Places  BY DEF Starts, Places
<1>2. /\ proc' \in [Placers -> ProcStates]
      /\ \A q \in Placers \ {p} : proc'[q] = proc[q]
      /\ proc'[p].at = "read" /\ proc'[p].occ = proc[p].occ /\ proc'[p].hand = proc[p].hand
  BY <1>0, <1>1, Goes
<1>3. Calm(p)  BY DEF Starts, Idle, Calm
<1>4. proc[p].hand = NoBlock /\ InHand(proc[p]) \subseteq lost  BY <1>3, EmptyHanded
<1>5. Calm(p)' /\ Equipped(p)'  BY <1>2, <1>4 DEF Calm, Equipped
<1>6. UNCHANGED <<habit, occ, born, event, busy, hours, today, lost, upsets>>  BY DEF stored
<1>7. alone' \subseteq Placers /\ inStep' \in BOOLEAN /\ orderly' \in BOOLEAN
  BY <1>0, SeenType DEF Starts
<1>8. asks' \in 0..MaxAsks  BY <1>0, Bounds
<1>9. TypeOK'  BY <1>0, <1>2, <1>6, <1>7, <1>8 DEF TypeOK
<1> QED  BY <1>2, <1>4, <1>5, <1>6, <1>9, Quietly

LEMMA SaveBooks ==
    ASSUME HabitAssumption, Books, NEW p \in Placers, SaveHabit(p)
    PROVE  Books'
<1>0. TypeOK  BY DEF Books
<1>1. PICK c \in Cals, on \in BOOLEAN, ds \in SUBSET Days, i \in Slots :
         proc' = [proc EXCEPT ![p].at = "wipe",
                              ![p].row = [kept |-> TRUE, on |-> on, cal |-> c, days |-> ds, ideal |-> i]]
  BY DEF SaveHabit
<1> DEFINE h == [kept |-> TRUE, on |-> on, cal |-> c, days |-> ds, ideal |-> i]
           x == [proc[p] EXCEPT !.at = "wipe", !.row = h]
<1>2. h \in Habit  BY DEF Habit
<1>3. proc' = [proc EXCEPT ![p] = x]  BY <1>0, <1>1 DEF TypeOK
<1> HIDE DEF h
<1>4. proc[p] \in ProcStates  BY <1>0 DEF TypeOK
<1>5. x \in ProcStates /\ x.at = "wipe" /\ x.occ = proc[p].occ /\ x.hand = proc[p].hand
  BY <1>2, <1>4 DEF ProcStates, Places
<1> HIDE DEF x
<1>6. /\ proc' \in [Placers -> ProcStates] /\ proc'[p] = x
      /\ \A q \in Placers \ {p} : proc'[q] = proc[q]
  BY <1>0, <1>3, <1>5, Moved
<1>7. Calm(p)  BY DEF SaveHabit, Idle, Calm
<1>8. proc[p].hand = NoBlock /\ InHand(proc[p]) \subseteq lost  BY <1>7, EmptyHanded
<1>9. Calm(p)' /\ Equipped(p)'  BY <1>5, <1>6, <1>8 DEF Calm, Equipped
<1>10. UNCHANGED <<habit, occ, born, event, busy, hours, today, lost, upsets>>
  BY DEF SaveHabit, stored
<1>11. alone' \subseteq Placers /\ inStep' \in BOOLEAN /\ orderly' \in BOOLEAN
  BY <1>0, SeenType DEF SaveHabit
<1>12. asks' \in 0..MaxAsks  BY <1>0, Bounds DEF SaveHabit
<1>13. TypeOK'  BY <1>0, <1>6, <1>10, <1>11, <1>12 DEF TypeOK
<1>14. \A d \in Days : proc'[p].occ[d] \in {NoRow, occ[d], proc[p].occ[d]}  BY <1>5, <1>6
<1> QED  BY <1>6, <1>8, <1>9, <1>10, <1>13, <1>14, Quietly

LEMMA UpdateBooks ==
    ASSUME HabitAssumption, Books, NEW p \in Placers, Update(p)
    PROVE  Books'
<1>0. TypeOK  BY DEF Books
<1> DEFINE x == [NoProc EXCEPT !.at = "read"]
<1>1. proc' = [proc EXCEPT ![p] = x]  BY DEF Update
<1>2. x \in ProcStates /\ x.at = "read" /\ x.occ = NoProc.occ /\ x.hand = NoBlock
  BY AtRest DEF ProcStates, Places
<1> HIDE DEF x
<1>3. /\ proc' \in [Placers -> ProcStates] /\ proc'[p] = x
      /\ \A q \in Placers \ {p} : proc'[q] = proc[q]
  BY <1>0, <1>1, <1>2, Moved
<1>4. Calm(p)  BY DEF Update, Calm
<1>5. InHand(proc[p]) \subseteq lost  BY <1>4, EmptyHanded
<1>6. Calm(p)' /\ Equipped(p)'  BY <1>2, <1>3 DEF Calm, Equipped
<1>7. \A d \in Days : proc'[p].occ[d] = NoRow  BY <1>2, <1>3, AtRest
<1>8. UNCHANGED <<occ, born, event, busy, hours, today, asks, lost, upsets>>
  BY DEF Update, given
<1>9. proc[p].row \in Habit  BY <1>0 DEF TypeOK, ProcStates
<1>10. habit' \in Habit  BY <1>0, <1>9 DEF Update, TypeOK
<1>11. alone' \subseteq Placers /\ inStep' \in BOOLEAN /\ orderly' \in BOOLEAN
  BY <1>0, SeenType DEF Update
<1>12. TypeOK'  BY <1>0, <1>3, <1>8, <1>10, <1>11 DEF TypeOK
<1> QED  BY <1>3, <1>5, <1>6, <1>7, <1>8, <1>12, Quietly

LEMMA ReadBooks ==
    ASSUME HabitAssumption, Books, NEW p \in Placers, Read(p)
    PROVE  /\ Books'
           /\ \A q \in Placers \ {p} : proc'[q] = proc[q]
           /\ \/ proc'[p] = NoProc
              \/ /\ habit.kept /\ proc'[p].at = "list" /\ proc'[p].row = habit
                 /\ proc'[p].from = today
<1>0. TypeOK  BY DEF Books
<1> DEFINE x == [proc[p] EXCEPT !.at = "list", !.row = habit, !.from = today]
<1>1. PICK y \in {x, NoProc} :
         proc' = [proc EXCEPT ![p] = y] /\ (y = x => habit.kept \/ y = NoProc)
  BY <1>0 DEF Read, Ends, TypeOK
<1>2. /\ x \in ProcStates /\ x.at = "list" /\ x.row = habit /\ x.from = today
      /\ x.occ = proc[p].occ /\ x.hand = proc[p].hand
  <2>1. proc[p] \in ProcStates /\ habit \in Habit /\ today \in 0..LastDay
    BY <1>0 DEF TypeOK, Days
  <2> QED  BY <2>1 DEF ProcStates, Places
<1> HIDE DEF x
<1>3. /\ proc' \in [Placers -> ProcStates] /\ proc'[p] = y
      /\ \A q \in Placers \ {p} : proc'[q] = proc[q]
  BY <1>0, <1>1, <1>2, AtRest, Moved
<1>4. Calm(p)  BY DEF Read, Calm
<1>5. proc[p].hand = NoBlock /\ InHand(proc[p]) \subseteq lost  BY <1>4, EmptyHanded
<1>6. Calm(p)' /\ Equipped(p)'  BY <1>2, <1>3, <1>5, AtRest DEF Calm, Equipped
<1>7. \A d \in Days : proc'[p].occ[d] \in {NoRow, occ[d], proc[p].occ[d]}
  BY <1>2, <1>3, AtRest
<1>8. UNCHANGED <<habit, occ, born, event, busy, hours, today, asks, lost, upsets>>
  BY DEF Read, stored, given
<1>9. alone' \subseteq Placers /\ inStep' \in BOOLEAN /\ orderly' \in BOOLEAN
  BY <1>0, SeenType DEF Read
<1>10. TypeOK'  BY <1>0, <1>3, <1>8, <1>9 DEF TypeOK
<1>11. Books'  BY <1>3, <1>5, <1>6, <1>7, <1>8, <1>10, Quietly
<1> QED  BY <1>1, <1>2, <1>3, <1>11

LEMMA ListBooks ==
    ASSUME HabitAssumption, Books, NEW p \in Placers, List(p)
    PROVE  Books'
<1>0. TypeOK  BY DEF Books
<1> DEFINE q == [proc[p] EXCEPT !.occ = occ]
<1>1. GoOn(p, q, proc[p].from)  BY DEF List
<1>2. q \in ProcStates /\ q.occ = occ  BY <1>0 DEF TypeOK, ProcStates
<1> HIDE DEF q
<1>3. Onward(p, q, proc[p].from)  BY <1>1, GoOnIsOnward
<1>4. proc' \in [Placers -> ProcStates]  BY <1>0, <1>2, <1>3, GoneOnward
<1>5. UNCHANGED <<habit, occ, born, event, busy, hours, today, asks, lost, upsets>>
  BY DEF List, stored, given
<1>6. alone' \subseteq Placers /\ inStep' \in BOOLEAN /\ orderly' \in BOOLEAN
  BY <1>0, <1>1, GoOnSeen
<1>7. TypeOK'  BY <1>0, <1>4, <1>5, <1>6 DEF TypeOK
<1>8. InHand(proc[p]) \subseteq lost  BY EmptyHanded DEF List, Calm
<1> QED  BY <1>2, <1>3, <1>5, <1>7, <1>8, OnwardBooks

Fits(p) == Fitting(OpenNow(p), proc[p].row.ideal)
Pick(p) == Nearest(OpenNow(p), proc[p].row.ideal)

LEMMA LookCases ==
    ASSUME NEW p, Look(p)
    PROVE  \/ /\ Fits(p) = {} /\ HasPrev(p) /\ UNCHANGED seen
              /\ proc' = [proc EXCEPT ![p].at = "drop"]
           \/ /\ Fits(p) # {} /\ ~Same(p, Pick(p)) /\ UNCHANGED seen
              /\ proc' = [proc EXCEPT ![p].at = "put", ![p].slot = Pick(p)]
           \/ /\ (Fits(p) = {} /\ ~HasPrev(p)) \/ (Fits(p) # {} /\ Same(p, Pick(p)))
              /\ GoOn(p, proc[p], proc[p].day + 1)
<1>1. CASE Fits(p) = {} /\ HasPrev(p)  BY <1>1 DEF Look, Fits, Pick, OpenNow
<1>2. CASE Fits(p) # {} /\ ~Same(p, Pick(p))  BY <1>2 DEF Look, Fits, Pick, OpenNow
<1>3. CASE (Fits(p) = {} /\ ~HasPrev(p)) \/ (Fits(p) # {} /\ Same(p, Pick(p)))
  BY <1>3 DEF Look, Fits, Pick, OpenNow
<1> QED  BY <1>1, <1>2, <1>3

LEMMA PickIsBest ==
    ASSUME HabitAssumption, TypeOK, NEW p \in Placers, Fits(p) # {}
    PROVE  Pick(p) \in Slots /\ Best(Pick(p), OpenNow(p), proc[p].row.ideal)
<1>1. OpenNow(p) \in SUBSET Slots  BY DEF OpenNow, OpenTo, TypeOK
<1>2. proc[p].row.ideal \in Slots  BY DEF TypeOK, ProcStates, Habit
<1> QED  BY <1>1, <1>2, NearestIsBest DEF Fits, Pick

(* A placement that has picked a slot for the day it is at.                *)
LEMMA Picked ==
    ASSUME HabitAssumption, TypeOK, NEW p \in Placers, NEW s \in Slots,
           proc' = [proc EXCEPT ![p].at = "put", ![p].slot = s]
    PROVE  /\ proc' \in [Placers -> ProcStates]
           /\ \A q \in Placers \ {p} : proc'[q] = proc[q]
           /\ proc'[p].at = "put" /\ proc'[p].slot = s /\ proc'[p].row = proc[p].row
           /\ proc'[p].occ = proc[p].occ /\ proc'[p].day = proc[p].day
           /\ proc'[p].from = proc[p].from /\ proc'[p].hand = proc[p].hand
<1> DEFINE x == [proc[p] EXCEPT !.at = "put", !.slot = s]
<1>1. proc[p] \in ProcStates /\ s \in 0..LastSlot  BY DEF TypeOK, Slots
<1>2. proc' = [proc EXCEPT ![p] = x]  BY DEF TypeOK
<1>3. /\ x \in ProcStates /\ x.at = "put" /\ x.slot = s /\ x.row = proc[p].row
      /\ x.occ = proc[p].occ /\ x.day = proc[p].day /\ x.from = proc[p].from
      /\ x.hand = proc[p].hand
  BY <1>1 DEF ProcStates, Places
<1> HIDE DEF x
<1> QED  BY <1>2, <1>3, Moved

LEMMA LookBooks ==
    ASSUME HabitAssumption, Books, NEW p \in Placers, Look(p)
    PROVE  Books'
<1>0. TypeOK /\ AtHand  BY DEF Books
<1>1. UNCHANGED <<habit, occ, born, event, busy, hours, today, asks, lost, upsets>>
  BY DEF Look, stored, given
<1>2. Calm(p)  BY DEF Look, Calm
<1>3. proc[p].hand = NoBlock /\ InHand(proc[p]) \subseteq lost  BY <1>2, EmptyHanded
<1>4. proc[p].day \in Days  BY <1>0 DEF Look, AtHand, Equipped
<1>5. CASE /\ HasPrev(p) /\ UNCHANGED seen
           /\ proc' = [proc EXCEPT ![p].at = "drop"]
  <2>1. /\ proc' \in [Placers -> ProcStates]
        /\ \A q \in Placers \ {p} : proc'[q] = proc[q]
        /\ proc'[p].at = "drop" /\ proc'[p].occ = proc[p].occ /\ proc'[p].day = proc[p].day
        /\ proc'[p].hand = proc[p].hand
    BY <1>0, <1>5, Goes DEF Places
  <2>2. Prev(p) # NoRow  BY <1>5, AtRest DEF HasPrev
  <2>3. Prev(p)' = Prev(p)  BY <2>1 DEF Prev
  <2>4. Calm(p)' /\ Equipped(p)'  BY <1>3, <1>4, <2>1, <2>2, <2>3 DEF Calm, Equipped
  <2>5. TypeOK'  BY <1>0, <1>1, <1>5, <2>1 DEF TypeOK, seen
  <2>6. \A d \in Days : proc'[p].occ[d] \in {NoRow, occ[d], proc[p].occ[d]}  BY <2>1
  <2> QED  BY <1>1, <1>3, <2>1, <2>4, <2>5, <2>6, Quietly
<1>6. CASE /\ Fits(p) # {} /\ UNCHANGED seen
           /\ proc' = [proc EXCEPT ![p].at = "put", ![p].slot = Pick(p)]
  <2>0. Pick(p) \in Slots  BY <1>0, <1>6, PickIsBest
  <2>1. /\ proc' \in [Placers -> ProcStates]
        /\ \A q \in Placers \ {p} : proc'[q] = proc[q]
        /\ proc'[p].at = "put" /\ proc'[p].slot = Pick(p)
        /\ proc'[p].occ = proc[p].occ /\ proc'[p].day = proc[p].day /\ proc'[p].hand = proc[p].hand
    BY <1>0, <1>6, <2>0, Picked
  <2>2. Calm(p)' /\ Equipped(p)'  BY <1>3, <1>4, <2>0, <2>1 DEF Calm, Equipped
  <2>3. TypeOK'  BY <1>0, <1>1, <1>6, <2>1 DEF TypeOK, seen
  <2>4. \A d \in Days : proc'[p].occ[d] \in {NoRow, occ[d], proc[p].occ[d]}  BY <2>1
  <2> QED  BY <1>1, <1>3, <2>1, <2>2, <2>3, <2>4, Quietly
<1>7. CASE GoOn(p, proc[p], proc[p].day + 1)
  <2>1. proc[p] \in ProcStates  BY <1>0 DEF TypeOK
  <2>2. Onward(p, proc[p], proc[p].day + 1)  BY <1>7, GoOnIsOnward
  <2>3. proc' \in [Placers -> ProcStates]  BY <1>0, <2>1, <2>2, GoneOnward
  <2>4. alone' \subseteq Placers /\ inStep' \in BOOLEAN /\ orderly' \in BOOLEAN
    BY <1>0, <1>7, GoOnSeen
  <2>5. TypeOK'  BY <1>0, <1>1, <2>3, <2>4 DEF TypeOK
  <2>6. \A d \in Days : proc[p].occ[d] \in {occ[d], proc[p].occ[d]}  OBVIOUS
  <2> QED  BY <1>1, <1>3, <2>1, <2>2, <2>5, <2>6, OnwardBooks
<1> QED  BY <1>5, <1>6, <1>7, LookCases

LEMMA DeleteBooks ==
    ASSUME HabitAssumption, Books, NEW p \in Placers, DeleteHabit(p)
    PROVE  Books'
<1>0. TypeOK  BY DEF Books
<1> DEFINE x == [proc[p] EXCEPT !.at = "erase", !.row = habit, !.occ = occ]
<1>1. proc' = [proc EXCEPT ![p] = x]  BY <1>0 DEF DeleteHabit, TypeOK
<1>2. proc[p] \in ProcStates /\ habit \in Habit /\ occ \in [Days -> OccRow]  BY <1>0 DEF TypeOK
<1>3. x \in ProcStates /\ x.at = "erase" /\ x.occ = occ /\ x.hand = proc[p].hand
  BY <1>2 DEF ProcStates, Places
<1> HIDE DEF x
<1>4. /\ proc' \in [Placers -> ProcStates] /\ proc'[p] = x
      /\ \A q \in Placers \ {p} : proc'[q] = proc[q]
  BY <1>0, <1>1, <1>3, Moved
<1>5. Calm(p)  BY DEF DeleteHabit, Idle, Calm
<1>6. proc[p].hand = NoBlock /\ InHand(proc[p]) \subseteq lost  BY <1>5, EmptyHanded
<1>7. Calm(p)' /\ Equipped(p)'  BY <1>3, <1>4, <1>6 DEF Calm, Equipped
<1>8. UNCHANGED <<habit, occ, born, event, busy, hours, today, lost, upsets>>
  BY DEF DeleteHabit, stored
<1>9. alone' \subseteq Placers /\ inStep' \in BOOLEAN /\ orderly' \in BOOLEAN
  BY <1>0, SeenType DEF DeleteHabit
<1>10. asks' \in 0..MaxAsks  BY <1>0, Bounds DEF DeleteHabit
<1>11. TypeOK'  BY <1>0, <1>4, <1>8, <1>9, <1>10 DEF TypeOK
<1>12. \A d \in Days : proc'[p].occ[d] \in {NoRow, occ[d], proc[p].occ[d]}  BY <1>3, <1>4
<1> QED  BY <1>4, <1>6, <1>7, <1>8, <1>11, <1>12, Quietly
-------------------------------------------------------------------------------
(* Steps that remove rows, or let go of events.                            *)

LEMMA HandType ==
    ASSUME HabitAssumption, TypeOK, NEW p \in Placers
    PROVE  InHand(proc[p]) \subseteq BlockIds /\ Known(proc[p]) \subseteq BlockIds
<1>1. \A d \in Days : proc[p].occ[d] \in OccRow  BY DEF TypeOK, ProcStates
<1>2. \A d \in Days : proc[p].occ[d].event \in BlockIds \cup {NoBlock}  BY <1>1, RowShape
<1>3. Known(proc[p]) \subseteq BlockIds  BY <1>2 DEF Known
<1>4. proc[p].hand \in BlockIds \cup {NoBlock}  BY DEF TypeOK, ProcStates
<1> QED  BY <1>3, <1>4 DEF InHand

LEMMA WipeBooks ==
    ASSUME HabitAssumption, Books, NEW p \in Placers, Wipe(p)
    PROVE  Books'
<1>0. TypeOK  BY DEF Books
<1>1. /\ proc' \in [Placers -> ProcStates]
      /\ \A q \in Placers \ {p} : proc'[q] = proc[q]
      /\ proc'[p].at = "update" /\ proc'[p].occ = proc[p].occ /\ proc'[p].hand = proc[p].hand
  BY <1>0, Goes DEF Wipe, Places
<1>2. Calm(p)  BY DEF Wipe, Calm
<1>3. proc[p].hand = NoBlock /\ InHand(proc[p]) \subseteq lost  BY <1>2, EmptyHanded
<1>4. Calm(p)' /\ Equipped(p)'  BY <1>1, <1>3 DEF Calm, Equipped
<1>5. \A d \in Days : occ'[d] = IF d \in WipeDays THEN NoRow ELSE occ[d]  BY DEF Wipe
<1>6. occ' \in [Days -> OccRow]  BY <1>0, AtRest DEF Wipe, TypeOK
<1>7. lost' = lost \cup {occ[d].event : d \in WipeDays}  BY DEF Wipe
<1>8. \A d \in WipeDays : occ[d].event \in BlockIds
  <2> TAKE d \in WipeDays
  <2>1. d \in Days /\ occ[d].id # 0  BY DEF WipeDays, Placed
  <2>2. occ[d] \in OccRow  BY <1>0, <2>1 DEF TypeOK
  <2> QED  BY <2>1, <2>2, RowShape
<1>9. lost' \subseteq BlockIds  BY <1>0, <1>7, <1>8 DEF TypeOK
<1>10. UNCHANGED <<habit, born, event, busy, hours, today, asks, upsets>>  BY DEF Wipe, given
<1>11. alone' \subseteq Placers /\ inStep' \in BOOLEAN /\ orderly' \in BOOLEAN
  BY <1>0, SeenType DEF Wipe
<1>12. TypeOK'  BY <1>0, <1>1, <1>6, <1>9, <1>10, <1>11 DEF TypeOK
<1>13. \A d \in Days : occ'[d] = occ[d] \/ (occ'[d] = NoRow /\ occ[d].event \in lost')
  BY <1>5, <1>7
<1>14. lost \subseteq lost'  BY <1>7
<1>15. \A q \in Placers :
          \/ proc'[q] = proc[q]
          \/ /\ Calm(q)' /\ Equipped(q)'
             /\ \A d \in Days : proc'[q].occ[d] \in {NoRow, occ'[d], proc[q].occ[d]}
             /\ InHand(proc[q]) \subseteq lost'
  BY <1>1, <1>3, <1>4, <1>14
<1> QED  BY <1>10, <1>12, <1>13, <1>14, <1>15, LetGo

LEMMA StopBooks ==
    ASSUME HabitAssumption, Books, NEW gone \in SUBSET Placers, Stop(gone)
    PROVE  Books'
<1>0. TypeOK  BY DEF Books
<1>1. \A q \in Placers : proc'[q] = IF q \in gone THEN NoProc ELSE proc[q]  BY DEF Stop
<1>2. proc' \in [Placers -> ProcStates]  BY <1>0, AtRest DEF Stop, TypeOK
<1>3. lost' = lost \cup UNION {InHand(proc[p]) : p \in gone}  BY DEF Stop
<1>4. lost' \subseteq BlockIds  BY <1>0, <1>3, HandType DEF TypeOK
<1>5. UNCHANGED <<habit, occ, born, event, busy, hours, today, asks>>  BY DEF Stop, stored, given
<1>6. alone' \subseteq Placers /\ inStep' \in BOOLEAN /\ orderly' \in BOOLEAN
  BY <1>0, SeenType DEF Stop
<1>7. upsets' \in 0..MaxUpsets  BY <1>0, Bounds DEF Stop
<1>8. TypeOK'  BY <1>0, <1>2, <1>4, <1>5, <1>6, <1>7 DEF TypeOK
<1>9. ASSUME NEW q \in gone
      PROVE  /\ Calm(q)' /\ Equipped(q)'
             /\ \A d \in Days : proc'[q].occ[d] = NoRow
             /\ InHand(proc[q]) \subseteq lost'
  <2>1. proc'[q] = NoProc  BY <1>1
  <2>2. proc'[q].at = "idle" /\ proc'[q].hand = NoBlock  BY <2>1, AtRest
  <2>3. \A d \in Days : proc'[q].occ[d] = NoRow  BY <2>1, AtRest
  <2>4. InHand(proc[q]) \subseteq lost'  BY <1>3
  <2> QED  BY <2>2, <2>3, <2>4 DEF Calm, Equipped
<1>10. lost \subseteq lost'  BY <1>3
<1>11. \A q \in Placers :
          \/ proc'[q] = proc[q]
          \/ /\ Calm(q)' /\ Equipped(q)'
             /\ \A d \in Days : proc'[q].occ[d] \in {NoRow, occ'[d], proc[q].occ[d]}
             /\ \A b \in InHand(proc[q]) \ lost' :
                   event[b].state # "live" /\ \A d \in Days : occ'[d].event # b
  BY <1>1, <1>9
<1> QED  BY <1>5, <1>8, <1>10, <1>11, LetGo

LEMMA EventMoved ==
    ASSUME TypeOK, NEW b \in BlockIds, NEW s \in Slots,
           event' = [event EXCEPT ![b].slot = s]
    PROVE  /\ event' \in [BlockIds -> Events]
           /\ \A c \in BlockIds \ {b} : event'[c] = event[c]
           /\ event'[b].state = event[b].state /\ event'[b].cal = event[b].cal
           /\ event'[b].day = event[b].day /\ event'[b].slot = s
<1> DEFINE x == [event[b] EXCEPT !.slot = s]
<1>1. event[b] \in Events /\ s \in 0..LastSlot  BY DEF TypeOK, Slots
<1>2. event' = [event EXCEPT ![b] = x]  BY DEF TypeOK
<1>3. /\ x \in Events /\ x.state = event[b].state /\ x.cal = event[b].cal
      /\ x.day = event[b].day /\ x.slot = s
  BY <1>1 DEF Events
<1> HIDE DEF x
<1> QED  BY <1>2, <1>3 DEF TypeOK

LEMMA EventInserted ==
    ASSUME TypeOK, NEW p \in Placers, NEW b \in BlockIds, proc[p].day \in Days,
           event' = Inserted(p, b)
    PROVE  /\ event' \in [BlockIds -> Events]
           /\ \A c \in BlockIds \ {b} : event'[c] = event[c]
           /\ event'[b].state = "live" /\ event'[b].cal = proc[p].row.cal
           /\ event'[b].day = proc[p].day /\ event'[b].slot = proc[p].slot
<1> DEFINE x == [state |-> "live", cal |-> proc[p].row.cal, day |-> proc[p].day, slot |-> proc[p].slot]
<1>1. proc[p].row.cal \in Cals /\ proc[p].day \in 0..LastDay /\ proc[p].slot \in 0..LastSlot
  BY DEF TypeOK, ProcStates, Habit
<1>2. event' = [event EXCEPT ![b] = x]  BY DEF Inserted
<1>3. /\ x \in Events /\ x.state = "live" /\ x.cal = proc[p].row.cal /\ x.day = proc[p].day
      /\ x.slot = proc[p].slot
  BY <1>1 DEF Events
<1> HIDE DEF x
<1> QED  BY <1>2, <1>3 DEF TypeOK

LEMMA DayFailsBooks ==
    ASSUME HabitAssumption, Books, NEW p \in Placers, DayFails(p)
    PROVE  /\ Books'
           /\ Onward(p, proc[p], proc[p].day + 1)
<1>0. TypeOK /\ AtHand /\ proc[p] \in ProcStates  BY DEF Books, TypeOK
<1>1. Onward(p, proc[p], proc[p].day + 1)
  <2>1. CASE Rest(p, proc[p].day + 1) = {}  BY <2>1 DEF DayFails, Onward
  <2>2. CASE Rest(p, proc[p].day + 1) # {}
    BY <1>0, <2>2 DEF DayFails, Onward, TypeOK
  <2> QED  BY <2>1, <2>2
<1>2. /\ proc' \in [Placers -> ProcStates]
      /\ \A q \in Placers \ {p} : proc'[q] = proc[q]
  BY <1>0, <1>1, GoneOnward
<1>3. /\ Calm(p)' /\ Equipped(p)'
      /\ \A d \in Days : proc'[p].occ[d] \in {NoRow, proc[p].occ[d]}
  BY <1>0, <1>1, OnwardCalm
<1>4. UNCHANGED <<habit, occ, born, busy, hours, today, asks>>  BY DEF DayFails, stored, given
<1>5. alone' \subseteq Placers /\ inStep' \in BOOLEAN /\ orderly' \in BOOLEAN
  BY <1>0, SeenType DEF DayFails
<1>6. upsets' \in 0..MaxUpsets  BY <1>0, Bounds DEF DayFails
<1>7. proc[p].at \in {"put", "note", "dropped", "look"}  BY DEF DayFails
<1>8. proc[p].day \in Days /\ (proc[p].at = "put" => proc[p].slot \in Slots)
  BY <1>0, <1>7 DEF AtHand, Equipped
<1>9. \/ event' = event /\ lost' = lost /\ Calm(p)
      \/ \E b \in BlockIds :
            /\ Calm(p) /\ lost' = lost \cup {b} /\ proc[p].slot \in Slots
            /\ \/ event' = [event EXCEPT ![b].slot = proc[p].slot]
               \/ b \in Unborn /\ event' = Inserted(p, b)
      \/ event' = event /\ lost' = lost \cup {proc[p].hand} /\ proc[p].at \in {"note", "dropped"}
  <2>1. HasPrev(p) => Prev(p).event \in BlockIds
    <3>1. Prev(p) \in OccRow  BY <1>0, <1>8 DEF Prev, ProcStates
    <3> QED  BY <3>1, RowShape DEF HasPrev
  <2>2. Unborn # {} => Fresh \in Unborn /\ Fresh \in BlockIds  BY DEF Fresh, Unborn
  <2> QED  BY <1>8, <2>1, <2>2 DEF DayFails, Calm
<1>10. ASSUME event' \in [BlockIds -> Events], lost \subseteq lost', lost' \subseteq BlockIds,
              InHand(proc[p]) \subseteq lost',
              \A b \in BlockIds :
                 /\ event[b].state # "unborn" =>
                       event'[b].state # "unborn" /\ event'[b].day = event[b].day
                 /\ b \notin lost' => event'[b] = event[b]
       PROVE  Books'
  <2>1. TypeOK'  BY <1>0, <1>2, <1>4, <1>5, <1>6, <1>10 DEF TypeOK
  <2>2. \A q \in Placers :
           \/ proc'[q] = proc[q]
           \/ /\ Calm(q)' /\ Equipped(q)'
              /\ \A d \in Days : proc'[q].occ[d] \in {NoRow, occ'[d], proc[q].occ[d]}
              /\ InHand(proc[q]) \subseteq lost'
    BY <1>2, <1>3, <1>10
  <2> QED  BY <1>4, <1>10, <2>1, <2>2, LetGo
<1>11. lost \subseteq BlockIds /\ event \in [BlockIds -> Events]  BY <1>0 DEF TypeOK
<1>12. CASE event' = event /\ lost' = lost /\ Calm(p)
  <2>1. InHand(proc[p]) \subseteq lost  BY <1>12, EmptyHanded
  <2> QED  BY <1>1, <1>10, <1>11, <1>12, <2>1
<1>13. CASE \E b \in BlockIds :
               /\ Calm(p) /\ lost' = lost \cup {b} /\ proc[p].slot \in Slots
               /\ \/ event' = [event EXCEPT ![b].slot = proc[p].slot]
                  \/ b \in Unborn /\ event' = Inserted(p, b)
  <2>1. PICK b \in BlockIds :
               /\ Calm(p) /\ lost' = lost \cup {b} /\ proc[p].slot \in Slots
               /\ \/ event' = [event EXCEPT ![b].slot = proc[p].slot]
                  \/ b \in Unborn /\ event' = Inserted(p, b)
    BY <1>13
  <2>2. InHand(proc[p]) \subseteq lost  BY <2>1, EmptyHanded
  <2>3. CASE event' = [event EXCEPT ![b].slot = proc[p].slot]
    <3>1. /\ event' \in [BlockIds -> Events]
          /\ \A c \in BlockIds \ {b} : event'[c] = event[c]
          /\ event'[b].state = event[b].state /\ event'[b].day = event[b].day
      BY <1>0, <2>1, <2>3, EventMoved
    <3> QED  BY <1>1, <1>10, <1>11, <2>1, <2>2, <3>1
  <2>4. CASE b \in Unborn /\ event' = Inserted(p, b)
    <3>1. /\ event' \in [BlockIds -> Events]
          /\ \A c \in BlockIds \ {b} : event'[c] = event[c]
      BY <1>0, <1>8, <2>4, EventInserted
    <3>2. event[b].state = "unborn"  BY <2>4 DEF Unborn
    <3> QED  BY <1>1, <1>10, <1>11, <2>1, <2>2, <3>1, <3>2
  <2> QED  BY <2>1, <2>3, <2>4
<1>14. CASE event' = event /\ lost' = lost \cup {proc[p].hand} /\ proc[p].at \in {"note", "dropped"}
  <2>1. InHand(proc[p]) \subseteq {proc[p].hand}  BY <1>14 DEF InHand
  <2>2. proc[p].hand \in BlockIds
    BY <1>0, <1>14 DEF AtHand, Equipped, ProcStates
  <2> QED  BY <1>1, <1>10, <1>11, <1>14, <2>1, <2>2
<1> QED  BY <1>9, <1>12, <1>13, <1>14

LEMMA OnlyDay ==
    ASSUME HabitAssumption, Books, NEW d \in Days, NEW e \in Days, NEW b \in BlockIds,
           Bears(event, b, d), occ[e].event = b
    PROVE  e = d
<1>1. occ[e] # NoRow  BY AtRest DEF HabitAssumption
<1>2. Bears(event, b, e)  BY <1>1 DEF Books, Ours
<1> QED  BY <1>2 DEF Bears

LEMMA DropRowBooks ==
    ASSUME HabitAssumption, Books, NEW p \in Placers, DropRow(p)
    PROVE  Books'
<1>0. TypeOK /\ AtHand /\ Tracked /\ Gone /\ proc[p] \in ProcStates  BY DEF Books, TypeOK
<1>1. PICK d \in Days : d = proc[p].day  BY <1>0 DEF AtHand, Equipped, DropRow
<1>2. PICK b \in BlockIds : b = proc[p].hand
  BY <1>0 DEF AtHand, Equipped, DropRow, ProcStates
<1>3. /\ Bears(event, b, d) /\ proc[p].occ[d] # NoRow /\ proc[p].occ[d].event = b
      /\ Prev(p) = proc[p].occ[d] /\ proc[p].at = "dropped"
  BY <1>0, <1>1, <1>2 DEF AtHand, Equipped, DropRow, Prev
<1>4. b \notin lost => event[b].state # "live"  BY <1>0, <1>2, <1>3 DEF Gone
<1>5. b \notin lost /\ occ[d].event = b => occ[d].id = proc[p].occ[d].id
  BY <1>0, <1>3 DEF Tracked
<1> DEFINE there == occ[d].id = proc[p].occ[d].id
<1>6. /\ occ' = IF there THEN [occ EXCEPT ![d] = NoRow] ELSE occ
      /\ lost' = IF there /\ occ[d].event # b THEN lost \cup {occ[d].event} ELSE lost
  BY <1>1, <1>2, <1>3 DEF DropRow
<1>7. occ \in [Days -> OccRow] /\ lost \subseteq BlockIds  BY <1>0 DEF TypeOK
<1>8. /\ occ' \in [Days -> OccRow]
      /\ occ'[d] = IF there THEN NoRow ELSE occ[d]
      /\ \A e \in Days \ {d} : occ'[e] = occ[e]
  BY <1>6, <1>7, AtRest
<1>9. there => occ[d].event \in BlockIds
  <2>1. proc[p].occ[d] \in OccRow  BY <1>0 DEF ProcStates
  <2>2. proc[p].occ[d].id # 0  BY <1>3, <2>1, RowShape
  <2>3. occ[d] \in OccRow  BY <1>7
  <2> QED  BY <2>2, <2>3, RowShape
<1>10. lost \subseteq lost' /\ lost' \subseteq BlockIds  BY <1>6, <1>7, <1>9
<1>11. Onward(p, proc[p], proc[p].day + 1)  BY GoOnIsOnward DEF DropRow
<1>12. /\ proc' \in [Placers -> ProcStates]
       /\ \A q \in Placers \ {p} : proc'[q] = proc[q]
  BY <1>0, <1>11, GoneOnward
<1>13. /\ Calm(p)' /\ Equipped(p)'
       /\ \A e \in Days : proc'[p].occ[e] \in {NoRow, proc[p].occ[e]}
  BY <1>0, <1>11, OnwardCalm
<1>14. UNCHANGED <<habit, born, event, busy, hours, today, asks, upsets>>  BY DEF DropRow, given
<1>15. alone' \subseteq Placers /\ inStep' \in BOOLEAN /\ orderly' \in BOOLEAN
  BY <1>0, GoOnSeen DEF DropRow
<1>16. TypeOK'  BY <1>0, <1>8, <1>10, <1>12, <1>14, <1>15 DEF TypeOK
<1>17. \A e \in Days :
          \/ occ'[e] = occ[e]
          \/ occ'[e] = NoRow /\ (occ[e].event \in lost' \/ event[occ[e].event].state # "live")
  BY <1>4, <1>6, <1>8, <1>10
<1>18. InHand(proc[p]) = {b}  BY <1>2, <1>3 DEF InHand, HabitAssumption
<1>19. ASSUME b \notin lost', NEW e \in Days, occ'[e].event = b
       PROVE  FALSE
  <2>1. b \notin lost  BY <1>10, <1>19
  <2>2. NoRow.event # b  BY AtRest DEF HabitAssumption
  <2>3. occ[e].event = b  BY <1>8, <1>19, <2>2
  <2>4. e = d  BY <1>3, <2>3, OnlyDay
  <2>5. there  BY <1>5, <2>1, <2>3, <2>4
  <2> QED  BY <1>8, <1>19, <2>2, <2>4, <2>5
<1>20. \A q \in Placers :
          \/ proc'[q] = proc[q]
          \/ /\ Calm(q)' /\ Equipped(q)'
             /\ \A e \in Days : proc'[q].occ[e] \in {NoRow, occ'[e], proc[q].occ[e]}
             /\ \A c \in InHand(proc[q]) \ lost' :
                   event[c].state # "live" /\ \A e \in Days : occ'[e].event # c
  BY <1>4, <1>10, <1>12, <1>13, <1>18, <1>19
<1> QED  BY <1>10, <1>14, <1>16, <1>17, <1>20, LetGo

LEMMA EraseRowBooks ==
    ASSUME HabitAssumption, Books, NEW p \in Placers, EraseRow(p)
    PROVE  Books'
<1>0. TypeOK /\ AtHand /\ Gone /\ proc[p] \in ProcStates  BY DEF Books, TypeOK
<1>1. \A d \in Days : occ'[d] = NoRow  BY DEF EraseRow, NoRows
<1>2. occ' \in [Days -> OccRow]  BY AtRest DEF EraseRow, NoRows
<1>3. lost' = lost \cup ({occ[d].event : d \in Placed} \ Known(proc[p]))  BY DEF EraseRow
<1>4. \A b \in Known(proc[p]) \ lost' : event[b].state # "live"
  BY <1>0, <1>3, HandType DEF Gone, EraseRow
<1>5. \A d \in Days : occ[d] # NoRow => occ[d].event \in BlockIds /\ d \in Placed
  <2> TAKE d \in Days
  <2>1. occ[d] \in OccRow  BY <1>0 DEF TypeOK
  <2> QED  BY <2>1, RowShape DEF Placed
<1>6. lost' \subseteq BlockIds /\ lost \subseteq lost'
  <2>1. \A d \in Placed : occ[d].event \in BlockIds
    BY <1>5, AtRest DEF Placed
  <2> QED  BY <1>0, <1>3, <2>1 DEF TypeOK
<1>7. \A d \in Days :
         \/ occ'[d] = occ[d]
         \/ occ'[d] = NoRow /\ (occ[d].event \in lost' \/ event[occ[d].event].state # "live")
  BY <1>1, <1>3, <1>4, <1>5
<1>8. proc' = [proc EXCEPT ![p] = NoProc]  BY DEF EraseRow, Ends
<1>9. /\ proc' \in [Placers -> ProcStates] /\ proc'[p] = NoProc
      /\ \A q \in Placers \ {p} : proc'[q] = proc[q]
  BY <1>0, <1>8, AtRest, Moved
<1>10. Calm(p)' /\ Equipped(p)'  BY <1>9, AtRest DEF Calm, Equipped
<1>11. \A d \in Days : proc'[p].occ[d] = NoRow  BY <1>9, AtRest
<1>12. habit' \in Habit  BY <1>0 DEF EraseRow, TypeOK, Habit
<1>13. UNCHANGED <<born, event, busy, hours, today, asks, upsets>>  BY DEF EraseRow, given
<1>14. alone' \subseteq Placers /\ inStep' \in BOOLEAN /\ orderly' \in BOOLEAN
  BY <1>0, SeenType DEF EraseRow
<1>15. TypeOK'  BY <1>0, <1>2, <1>6, <1>9, <1>12, <1>13, <1>14 DEF TypeOK
<1>16. InHand(proc[p]) \subseteq Known(proc[p])
  BY <1>0 DEF EraseRow, InHand, AtHand, Equipped
<1>17. \A b \in InHand(proc[p]) \ lost' :
          event[b].state # "live" /\ \A d \in Days : occ'[d].event # b
  BY <1>0, <1>1, <1>4, <1>16, HandType, AtRest DEF HabitAssumption
<1>18. \A q \in Placers :
          \/ proc'[q] = proc[q]
          \/ /\ Calm(q)' /\ Equipped(q)'
             /\ \A d \in Days : proc'[q].occ[d] \in {NoRow, occ'[d], proc[q].occ[d]}
             /\ \A b \in InHand(proc[q]) \ lost' :
                   event[b].state # "live" /\ \A d \in Days : occ'[d].event # b
  BY <1>9, <1>10, <1>11, <1>17
<1> QED  BY <1>6, <1>7, <1>13, <1>15, <1>18, LetGo
-------------------------------------------------------------------------------
(* Steps that take an event in hand.                                       *)

LEMMA Takes ==
    ASSUME HabitAssumption, Books, TypeOK', occ' = occ, lost \subseteq lost',
           NEW p \in Placers, \A q \in Placers \ {p} : proc'[q] = proc[q],
           Calm(p), proc'[p].occ = proc[p].occ, Equipped(p)',
           NEW b \in BlockIds, proc'[p].hand = b, proc'[p].at \in {"note", "dropped"},
           \A c \in BlockIds \ {b} : event'[c] = event[c],
           event[b].state # "unborn" => event'[b].state # "unborn" /\ event'[b].day = event[b].day,
           event'[b].state = "live" => event[b].state \in {"live", "unborn"},
           proc'[p].at = "dropped" => b \in lost' \/ event'[b].state # "live"
    PROVE  Books'
<1>0. /\ TypeOK /\ Ours /\ AtHand /\ Tracked /\ Gone /\ InPlace /\ EveryEventKnown  BY DEF Books
<1>1. \A q \in Placers : proc'[q].occ = proc[q].occ  OBVIOUS
<1>2. \A d \in Days : occ[d] \in OccRow /\ \A q \in Placers : proc[q].occ[d] \in OccRow
  BY <1>0 DEF TypeOK, ProcStates
<1>3. \A d \in Days : /\ occ[d] # NoRow => occ[d].event \in BlockIds
                      /\ \A q \in Placers : proc[q].occ[d] # NoRow => proc[q].occ[d].event \in BlockIds
  BY <1>2, RowShape
<1>4. ASSUME NEW c \in BlockIds, NEW d, Bears(event, c, d)
      PROVE  /\ Bears(event', c, d)
             /\ event'[c].state = "live" => event[c].state = "live"
  BY <1>4 DEF Bears
<1>5. Ours'
  BY <1>0, <1>1, <1>3, <1>4 DEF Ours
<1>6. AtHand'
  <2> SUFFICES ASSUME NEW q \in Placers \ {p} PROVE Equipped(q)'
    BY DEF AtHand
  <2>1. proc'[q] = proc[q] /\ Equipped(q)  BY <1>0 DEF AtHand
  <2>2. Prev(q)' = Prev(q)  BY <2>1 DEF Prev
  <2>3. CASE proc[q].at \in {"note", "dropped"}
    <3>1. proc[q].hand \in BlockIds /\ Bears(event, proc[q].hand, proc[q].day)
      BY <1>0, <2>1, <2>3 DEF Equipped, TypeOK, ProcStates
    <3>2. Bears(event', proc[q].hand, proc[q].day)  BY <1>4, <3>1
    <3> QED  BY <2>1, <2>2, <2>3, <3>2 DEF Equipped
  <2>4. CASE proc[q].at \notin {"note", "dropped"}
    BY <2>1, <2>2, <2>4 DEF Equipped
  <2> QED  BY <2>3, <2>4
<1>7. Tracked'
  <2> SUFFICES ASSUME NEW q \in Placers, NEW d \in Days, NEW r, r = proc[q].occ[d],
                      r # NoRow, r.event \notin lost'
               PROVE  /\ event'[r.event].state = "live" => occ[d].event = r.event
                      /\ occ[d].event = r.event => occ[d].id = r.id
    BY <1>1 DEF Tracked
  <2>1. r.event \in BlockIds /\ r.event \notin lost /\ Bears(event, r.event, d)
    BY <1>0, <1>3 DEF Ours
  <2>2. event'[r.event].state = "live" => event[r.event].state = "live"  BY <1>4, <2>1
  <2> QED  BY <1>0, <2>1, <2>2 DEF Tracked
<1>8. Gone'
  <2> SUFFICES ASSUME NEW q \in Placers, NEW c \in BlockIds \ lost',
                      \/ proc'[q].at = "dropped" /\ proc'[q].hand = c
                      \/ proc'[q].at = "erased" /\ c \in Known(proc'[q])
               PROVE  event'[c].state # "live"
    BY DEF Gone
  <2>1. CASE q = p  BY <2>1
  <2>2. CASE q # p
    <3>1. proc'[q] = proc[q]  BY <2>2
    <3>2. event[c].state # "live"  BY <1>0, <3>1 DEF Gone
    <3>3. \E d : Bears(event, c, d)
      <4>1. CASE proc[q].at = "dropped" /\ proc[q].hand = c
        BY <1>0, <4>1 DEF AtHand, Equipped
      <4>2. CASE c \in Known(proc[q])
        <5>1. PICK d \in Days : c = proc[q].occ[d].event /\ c # NoBlock  BY <4>2 DEF Known
        <5>2. proc[q].occ[d] # NoRow  BY <5>1, AtRest
        <5> QED  BY <1>0, <5>1, <5>2 DEF Ours
      <4> QED  BY <3>1, <4>1, <4>2
    <3> QED  BY <1>4, <3>2, <3>3
  <2> QED  BY <2>1, <2>2
<1>9. InPlace'
  <2> SUFFICES ASSUME NEW d \in Days, occ[d] # NoRow, occ[d].event \notin lost',
                      event'[occ[d].event].state = "live",
                      event'[occ[d].event].slot # occ[d].slot
               PROVE  \E q \in Placers : proc'[q].at = "note" /\ proc'[q].hand = occ[d].event
    BY DEF InPlace
  <2>1. occ[d].event \in BlockIds  BY <1>3
  <2>2. CASE occ[d].event = b  BY <2>2
  <2>3. CASE occ[d].event # b
    <3>1. event'[occ[d].event] = event[occ[d].event]  BY <2>1, <2>3
    <3>2. PICK q \in Placers : proc[q].at = "note" /\ proc[q].hand = occ[d].event
      BY <1>0, <2>1, <3>1 DEF InPlace
    <3>3. q # p  BY <3>2 DEF Calm
    <3> QED  BY <3>2, <3>3
  <2> QED  BY <2>2, <2>3
<1>10. b \in InHand(proc'[p])  BY DEF InHand, HabitAssumption
<1>11. InHand(proc[p]) = {}  BY CalmHand
<1>12. EveryEventKnown'
  <2> SUFFICES ASSUME NEW c \in BlockIds \ lost',
                      ~ \E q \in Placers : c \in InHand(proc'[q])
               PROVE  event'[c].state = "live" <=> \E d \in Days : occ[d].id # 0 /\ occ[d].event = c
    BY DEF EveryEventKnown, Live, Placed
  <2>1. c # b  BY <1>10
  <2>2. event'[c] = event[c] /\ c \notin lost  BY <2>1
  <2>3. ~ \E q \in Placers : c \in InHand(proc[q])  BY <1>11
  <2> QED  BY <1>0, <2>2, <2>3 DEF EveryEventKnown, Live, Placed
<1> QED  BY <1>5, <1>6, <1>7, <1>8, <1>9, <1>12 DEF Books

(* Goroutine p takes event b in hand, and is at a next.                    *)
TakesUp(p, a, b) == proc' = [proc EXCEPT ![p].at = a, ![p].hand = b]

LEMMA InHandNext ==
    ASSUME TypeOK, NEW p \in Placers, NEW a \in Places, NEW b \in BlockIds, TakesUp(p, a, b)
    PROVE  /\ proc' \in [Placers -> ProcStates]
           /\ \A q \in Placers \ {p} : proc'[q] = proc[q]
           /\ proc'[p].at = a /\ proc'[p].hand = b /\ proc'[p].row = proc[p].row
           /\ proc'[p].occ = proc[p].occ /\ proc'[p].day = proc[p].day
           /\ proc'[p].from = proc[p].from /\ proc'[p].slot = proc[p].slot
<1> DEFINE x == [proc[p] EXCEPT !.at = a, !.hand = b]
<1>1. proc[p] \in ProcStates  BY DEF TypeOK
<1>2. proc' = [proc EXCEPT ![p] = x]  BY DEF TypeOK, TakesUp
<1>3. /\ x \in ProcStates /\ x.at = a /\ x.hand = b /\ x.row = proc[p].row
      /\ x.occ = proc[p].occ /\ x.day = proc[p].day /\ x.from = proc[p].from
      /\ x.slot = proc[p].slot
  BY <1>1 DEF ProcStates
<1> HIDE DEF x
<1> QED  BY <1>2, <1>3, Moved

LEMMA PrevEvent ==
    ASSUME HabitAssumption, Books, NEW p \in Placers, proc[p].day \in Days, Prev(p) # NoRow
    PROVE  /\ Prev(p).event \in BlockIds /\ Bears(event, Prev(p).event, proc[p].day)
           /\ HasPrev(p) /\ Prev(p).slot \in Slots
<1>1. Prev(p) \in OccRow  BY DEF Books, TypeOK, ProcStates, Prev
<1>2. Prev(p) = proc[p].occ[proc[p].day]  BY DEF Prev
<1>3. Bears(event, Prev(p).event, proc[p].day)  BY <1>2 DEF Books, Ours
<1> QED  BY <1>1, <1>3, RowShape DEF HasPrev

LEMMA MoveBooks ==
    ASSUME HabitAssumption, Books, NEW p \in Placers, MoveEvent(p)
    PROVE  Books'
<1>0. TypeOK /\ AtHand  BY DEF Books
<1>1. proc[p].day \in Days /\ proc[p].slot \in Slots  BY <1>0 DEF MoveEvent, AtHand, Equipped
<1>2. Prev(p) # NoRow  BY AtRest DEF MoveEvent, HasPrev
<1>3. PICK b \in BlockIds : b = Prev(p).event  BY <1>1, <1>2, PrevEvent
<1>4. Bears(event, b, proc[p].day)  BY <1>1, <1>2, <1>3, PrevEvent
<1>5. /\ event' \in [BlockIds -> Events]
      /\ \A c \in BlockIds \ {b} : event'[c] = event[c]
      /\ event'[b].state = event[b].state /\ event'[b].day = event[b].day
  BY <1>0, <1>1, <1>3, EventMoved DEF MoveEvent
<1>6. /\ proc' \in [Placers -> ProcStates]
      /\ \A q \in Placers \ {p} : proc'[q] = proc[q]
      /\ proc'[p].at = "note" /\ proc'[p].hand = b /\ proc'[p].occ = proc[p].occ
      /\ proc'[p].day = proc[p].day /\ proc'[p].slot = proc[p].slot
  <2>1. TakesUp(p, "note", b)  BY <1>3 DEF MoveEvent, TakesUp
  <2>2. "note" \in Places  BY DEF Places
  <2> QED  BY <1>0, <1>3, <2>1, <2>2, InHandNext
<1>7. Bears(event', b, proc'[p].day)  BY <1>4, <1>5, <1>6 DEF Bears
<1>8. Calm(p)  BY DEF MoveEvent, Calm
<1>9. Equipped(p)'  BY <1>1, <1>6, <1>7 DEF Equipped, HabitAssumption
<1>10. UNCHANGED <<habit, occ, born, busy, hours, today, asks, lost, upsets>>
  BY DEF MoveEvent, stored, given
<1>11. alone' \subseteq Placers /\ inStep' \in BOOLEAN /\ orderly' \in BOOLEAN
  BY <1>0 DEF TypeOK, MoveEvent, ActsOn
<1>12. TypeOK'  BY <1>0, <1>5, <1>6, <1>10, <1>11 DEF TypeOK
<1>13. proc'[p].at = "note"  BY <1>6
<1> QED  BY <1>5, <1>6, <1>8, <1>9, <1>10, <1>12, <1>13, Takes DEF Bears

LEMMA InsertBooks ==
    ASSUME HabitAssumption, Books, NEW p \in Placers, InsertEvent(p)
    PROVE  Books'
<1>0. TypeOK /\ AtHand  BY DEF Books
<1>1. proc[p].day \in Days /\ proc[p].slot \in Slots  BY <1>0 DEF InsertEvent, AtHand, Equipped
<1>2. PICK b \in Unborn : b = Fresh  BY DEF InsertEvent, Fresh
<1>3. b \in BlockIds /\ event[b].state = "unborn"  BY DEF Unborn
<1>4. /\ event' \in [BlockIds -> Events]
      /\ \A c \in BlockIds \ {b} : event'[c] = event[c]
      /\ event'[b].state = "live" /\ event'[b].day = proc[p].day
  BY <1>0, <1>1, <1>2, <1>3, EventInserted DEF InsertEvent
<1>5. /\ proc' \in [Placers -> ProcStates]
      /\ \A q \in Placers \ {p} : proc'[q] = proc[q]
      /\ proc'[p].at = "note" /\ proc'[p].hand = b /\ proc'[p].occ = proc[p].occ
      /\ proc'[p].day = proc[p].day /\ proc'[p].slot = proc[p].slot
  <2>1. TakesUp(p, "note", b)  BY <1>2 DEF InsertEvent, TakesUp
  <2>2. "note" \in Places  BY DEF Places
  <2> QED  BY <1>0, <1>3, <2>1, <2>2, InHandNext
<1>6. Bears(event', b, proc'[p].day)  BY <1>4, <1>5 DEF Bears
<1>7. Calm(p)  BY DEF InsertEvent, Calm
<1>8. Equipped(p)'  BY <1>1, <1>3, <1>5, <1>6 DEF Equipped, HabitAssumption
<1>9. UNCHANGED <<habit, occ, born, busy, hours, today, asks, lost, upsets>>
  BY DEF InsertEvent, stored, given
<1>10. alone' \subseteq Placers /\ inStep' \in BOOLEAN /\ orderly' \in BOOLEAN
  BY <1>0, SeenType DEF InsertEvent
<1>11. TypeOK'  BY <1>0, <1>4, <1>5, <1>9, <1>10 DEF TypeOK
<1> QED  BY <1>3, <1>4, <1>5, <1>7, <1>8, <1>9, <1>11, Takes

LEMMA DropEventBooks ==
    ASSUME HabitAssumption, Books, NEW p \in Placers, DropEvent(p)
    PROVE  Books'
<1>0. TypeOK /\ AtHand  BY DEF Books
<1>1. proc[p].day \in Days /\ Prev(p) # NoRow  BY <1>0 DEF DropEvent, AtHand, Equipped
<1>2. PICK b \in BlockIds : b = Prev(p).event  BY <1>1, PrevEvent
<1>3. Bears(event, b, proc[p].day)  BY <1>1, <1>2, PrevEvent
<1> DEFINE c == proc[p].row.cal
<1>4. /\ event' = event \/ event' = [event EXCEPT ![b].state = "gone"]
      /\ lost' = lost \/ lost' = lost \cup {b}
      /\ b \in lost' \/ event' = [event EXCEPT ![b].state = "gone"] \/ event[b].state # "live"
  <2>1. CASE event' = Dropped(b, c)
             /\ lost' = IF b \in Live /\ event[b].cal # c THEN lost \cup {b} ELSE lost
    BY <2>1 DEF Dropped, There, Live
  <2>2. CASE event' = event /\ lost' = lost \cup {b}  BY <2>2
  <2> QED  BY <1>2, <2>1, <2>2 DEF DropEvent
<1>5. /\ event' \in [BlockIds -> Events]
      /\ \A x \in BlockIds \ {b} : event'[x] = event[x]
      /\ event'[b].day = event[b].day /\ event'[b].state \in {event[b].state, "gone"}
      /\ b \in lost' \/ event'[b].state # "live"
  <2>1. CASE event' = event
    <3>1. event \in [BlockIds -> Events]  BY <1>0 DEF TypeOK
    <3>2. CASE b \in lost' \/ event[b].state # "live"  BY <2>1, <3>1, <3>2
    <3>3. CASE event' = [event EXCEPT ![b].state = "gone"]
      <4>1. event'[b].state = "gone"  BY <3>1, <3>3 DEF Events
      <4> QED  BY <2>1, <3>1, <4>1
    <3> QED  BY <1>4, <3>2, <3>3
  <2>2. CASE event' = [event EXCEPT ![b].state = "gone"]
    <3>1. event \in [BlockIds -> Events]  BY <1>0 DEF TypeOK
    <3> QED  BY <2>2, <3>1 DEF Events
  <2> QED  BY <1>4, <2>1, <2>2
<1>6. /\ proc' \in [Placers -> ProcStates]
      /\ \A q \in Placers \ {p} : proc'[q] = proc[q]
      /\ proc'[p].at = "dropped" /\ proc'[p].hand = b /\ proc'[p].occ = proc[p].occ
      /\ proc'[p].day = proc[p].day
  <2>1. TakesUp(p, "dropped", b)  BY <1>2 DEF DropEvent, TakesUp
  <2>2. "dropped" \in Places  BY DEF Places
  <2> QED  BY <1>0, <1>2, <2>1, <2>2, InHandNext
<1>7. Bears(event', b, proc'[p].day)  BY <1>3, <1>5, <1>6 DEF Bears
<1>8. Calm(p)  BY DEF DropEvent, Calm
<1>9. Prev(p)' = Prev(p)  BY <1>6 DEF Prev
<1>10. Equipped(p)'  BY <1>1, <1>2, <1>6, <1>7, <1>9 DEF Equipped, HabitAssumption
<1>11. UNCHANGED <<habit, occ, born, busy, hours, today, asks>>
  BY DEF DropEvent, stored, given
<1>12. alone' \subseteq Placers /\ inStep' \in BOOLEAN /\ orderly' \in BOOLEAN
  BY <1>0 DEF TypeOK, DropEvent, ActsOn
<1>13. upsets' \in 0..MaxUpsets  BY <1>0, Bounds DEF DropEvent
<1>14. lost \subseteq lost' /\ lost' \subseteq BlockIds  BY <1>0, <1>4 DEF TypeOK
<1>15. TypeOK'  BY <1>0, <1>5, <1>6, <1>11, <1>12, <1>13, <1>14 DEF TypeOK
<1>16. event[b].state # "unborn"  BY <1>3 DEF Bears
<1> QED  BY <1>5, <1>6, <1>8, <1>10, <1>11, <1>14, <1>15, <1>16, Takes

LEMMA EraseEvents ==
    ASSUME TypeOK, NEW some \in SUBSET BlockIds, NEW c, event' = Erased(some, c)
    PROVE  /\ event' \in [BlockIds -> Events]
           /\ \A b \in BlockIds :
                 /\ event'[b].day = event[b].day /\ event'[b].slot = event[b].slot
                 /\ b \notin some => event'[b] = event[b]
                 /\ event'[b] = event[b] \/ (event[b].state = "live" /\ event'[b].state = "gone")
                 /\ b \in some /\ event'[b].state = "live" => event[b].cal # c
<1>1. event \in [BlockIds -> Events]  BY DEF TypeOK
<1>2. ASSUME NEW b \in BlockIds
      PROVE  /\ Dropped(b, c)[b] \in Events
             /\ Dropped(b, c)[b].day = event[b].day /\ Dropped(b, c)[b].slot = event[b].slot
             /\ \/ Dropped(b, c)[b] = event[b] /\ (event[b].state # "live" \/ event[b].cal # c)
                \/ event[b].state = "live" /\ Dropped(b, c)[b].state = "gone"
  <2> DEFINE x == [event[b] EXCEPT !.state = "gone"]
  <2>1. event[b] \in Events  BY <1>1
  <2>2. x \in Events /\ x.day = event[b].day /\ x.slot = event[b].slot /\ x.state = "gone"
    BY <2>1 DEF Events
  <2>3. CASE There(b, c)
    <3>1. Dropped(b, c) = [event EXCEPT ![b] = x]  BY <1>1, <2>3 DEF Dropped
    <3> HIDE DEF x
    <3>2. Dropped(b, c)[b] = x  BY <1>1, <3>1
    <3> QED  BY <2>2, <2>3, <3>2 DEF There, Live
  <2>4. CASE ~There(b, c)  BY <2>1, <2>4 DEF Dropped, There, Live
  <2> QED  BY <2>3, <2>4
<1>3. \A b \in BlockIds : event'[b] = IF b \in some THEN Dropped(b, c)[b] ELSE event[b]
  BY DEF Erased
<1>4. event' \in [BlockIds -> Events]
  <2>1. \A b \in BlockIds : (IF b \in some THEN Dropped(b, c)[b] ELSE event[b]) \in Events
    BY <1>1, <1>2
  <2> QED  BY <2>1 DEF Erased
<1> QED  BY <1>2, <1>3, <1>4

LEMMA EraseBooks ==
    ASSUME HabitAssumption, Books, NEW p \in Placers, Erase(p)
    PROVE  Books'
<1>0. /\ TypeOK /\ Ours /\ AtHand /\ Tracked /\ Gone /\ InPlace /\ EveryEventKnown  BY DEF Books
<1> DEFINE known == Known(proc[p])
           c == proc[p].row.cal
<1>1. known \subseteq BlockIds  BY <1>0, HandType
<1>2. PICK some \in SUBSET known :
         /\ event' = Erased(some, c)
         /\ \/ some = known /\ lost' = lost \cup {b \in known \cap Live : event[b].cal # c}
            \/ lost' = lost \cup known
  BY DEF Erase
<1>3. /\ event' \in [BlockIds -> Events]
      /\ \A b \in BlockIds :
            /\ event'[b].day = event[b].day /\ event'[b].slot = event[b].slot
            /\ b \notin some => event'[b] = event[b]
            /\ event'[b] = event[b] \/ (event[b].state = "live" /\ event'[b].state = "gone")
            /\ b \in some /\ event'[b].state = "live" => event[b].cal # c
  BY <1>0, <1>1, <1>2, EraseEvents
<1>4. lost \subseteq lost' /\ lost' \subseteq BlockIds  BY <1>0, <1>1, <1>2 DEF TypeOK
<1>5. \A b \in known : b \in lost' \/ event'[b].state # "live"
  BY <1>1, <1>2, <1>3 DEF Live
<1>6. /\ proc' \in [Placers -> ProcStates]
      /\ \A q \in Placers \ {p} : proc'[q] = proc[q]
      /\ proc'[p].at = "erased" /\ proc'[p].occ = proc[p].occ /\ proc'[p].hand = proc[p].hand
      /\ proc'[p].day = proc[p].day
  BY <1>0, Goes DEF Erase, Places
<1>7. Known(proc'[p]) = known  BY <1>6 DEF Known
<1>8. proc[p].hand = NoBlock /\ proc[p].at = "erase" /\ InHand(proc[p]) = {}
  BY <1>0, CalmHand DEF Erase, AtHand, Equipped, Calm
<1>9. known \subseteq InHand(proc'[p])  BY <1>6, <1>7 DEF InHand
<1>10. UNCHANGED <<habit, occ, born, busy, hours, today, asks>>  BY DEF Erase, stored, given
<1>11. alone' \subseteq Placers /\ inStep' \in BOOLEAN /\ orderly' \in BOOLEAN
  BY <1>0, SeenType DEF Erase
<1>12. upsets' \in 0..MaxUpsets  BY <1>0, Bounds DEF Erase
<1>13. TypeOK'  BY <1>0, <1>3, <1>4, <1>6, <1>10, <1>11, <1>12 DEF TypeOK
<1>14. \A q \in Placers : proc'[q].occ = proc[q].occ  BY <1>6
<1>15. \A d \in Days : /\ occ[d] # NoRow => occ[d].event \in BlockIds
                       /\ \A q \in Placers : proc[q].occ[d] # NoRow => proc[q].occ[d].event \in BlockIds
  <2>1. \A d \in Days : occ[d] \in OccRow /\ \A q \in Placers : proc[q].occ[d] \in OccRow
    BY <1>0 DEF TypeOK, ProcStates
  <2> QED  BY <2>1, RowShape
<1>16. ASSUME NEW b \in BlockIds, NEW d, Bears(event, b, d)
       PROVE  Bears(event', b, d)
  BY <1>3, <1>16 DEF Bears
<1>17. Ours'  BY <1>0, <1>10, <1>14, <1>15, <1>16 DEF Ours
<1>18. AtHand'
  <2> SUFFICES ASSUME NEW q \in Placers PROVE Equipped(q)'
    BY DEF AtHand
  <2>1. CASE q = p  BY <1>6, <1>8, <2>1 DEF Equipped
  <2>2. CASE q # p
    <3>1. proc'[q] = proc[q] /\ Equipped(q)  BY <1>0, <1>6, <2>2 DEF AtHand
    <3>2. Prev(q)' = Prev(q)  BY <3>1 DEF Prev
    <3>3. CASE proc[q].at \in {"note", "dropped"}
      <4>1. proc[q].hand \in BlockIds /\ Bears(event, proc[q].hand, proc[q].day)
        BY <1>0, <3>1, <3>3 DEF Equipped, TypeOK, ProcStates
      <4>2. Bears(event', proc[q].hand, proc[q].day)  BY <1>16, <4>1
      <4> QED  BY <3>1, <3>2, <3>3, <4>2 DEF Equipped
    <3>4. CASE proc[q].at \notin {"note", "dropped"}
      BY <3>1, <3>2, <3>4 DEF Equipped
    <3> QED  BY <3>3, <3>4
  <2> QED  BY <2>1, <2>2
<1>19. \A b \in BlockIds : event'[b].state = "live" => event'[b] = event[b]  BY <1>3
<1>20. Tracked'
  <2> SUFFICES ASSUME NEW q \in Placers, NEW d \in Days, NEW r, r = proc[q].occ[d],
                      r # NoRow, r.event \notin lost'
               PROVE  /\ event'[r.event].state = "live" => occ[d].event = r.event
                      /\ occ[d].event = r.event => occ[d].id = r.id
    BY <1>10, <1>14 DEF Tracked
  <2>1. r.event \in BlockIds /\ r.event \notin lost  BY <1>4, <1>15
  <2> QED  BY <1>0, <1>19, <2>1 DEF Tracked
<1>21. Gone'
  <2> SUFFICES ASSUME NEW q \in Placers, NEW b \in BlockIds \ lost',
                      \/ proc'[q].at = "dropped" /\ proc'[q].hand = b
                      \/ proc'[q].at = "erased" /\ b \in Known(proc'[q])
               PROVE  event'[b].state # "live"
    BY DEF Gone
  <2>1. CASE q = p  BY <1>5, <1>6, <1>7, <2>1
  <2>2. CASE q # p
    <3>1. proc'[q] = proc[q] /\ b \notin lost  BY <1>4, <1>6, <2>2
    <3>2. event[b].state # "live"  BY <1>0, <3>1 DEF Gone
    <3> QED  BY <1>19, <3>2
  <2> QED  BY <2>1, <2>2
<1>22. InPlace'
  <2> SUFFICES ASSUME NEW d \in Days, occ[d] # NoRow, occ[d].event \notin lost',
                      event'[occ[d].event].state = "live",
                      event'[occ[d].event].slot # occ[d].slot
               PROVE  \E q \in Placers : proc'[q].at = "note" /\ proc'[q].hand = occ[d].event
    BY <1>10 DEF InPlace
  <2>1. occ[d].event \in BlockIds \ lost  BY <1>4, <1>15
  <2>2. event'[occ[d].event] = event[occ[d].event]  BY <1>19, <2>1
  <2>3. PICK q \in Placers : proc[q].at = "note" /\ proc[q].hand = occ[d].event
    BY <1>0, <2>1, <2>2 DEF InPlace
  <2>4. q # p  BY <1>8, <2>3
  <2> QED  BY <1>6, <2>3, <2>4
<1>23. EveryEventKnown'
  <2> SUFFICES ASSUME NEW b \in BlockIds \ lost',
                      ~ \E q \in Placers : b \in InHand(proc'[q])
               PROVE  event'[b].state = "live" <=> \E d \in Days : occ[d].id # 0 /\ occ[d].event = b
    BY <1>10 DEF EveryEventKnown, Live, Placed
  <2>1. event'[b] = event[b] /\ b \notin lost  BY <1>2, <1>3, <1>4, <1>9
  <2>2. ~ \E q \in Placers : b \in InHand(proc[q])  BY <1>6, <1>8
  <2> QED  BY <1>0, <2>1, <2>2 DEF EveryEventKnown, Live, Placed
<1> QED  BY <1>13, <1>17, <1>18, <1>20, <1>21, <1>22, <1>23 DEF Books

LEMMA NoteBooks ==
    ASSUME HabitAssumption, Books, NEW p \in Placers, Note(p)
    PROVE  Books'
<1>0. /\ TypeOK /\ Ours /\ AtHand /\ Tracked /\ Gone /\ InPlace /\ EveryEventKnown
      /\ proc[p] \in ProcStates
  BY DEF Books, TypeOK
<1>1. PICK d \in Days : d = proc[p].day  BY <1>0 DEF AtHand, Equipped, Note
<1>2. PICK b \in BlockIds : b = proc[p].hand  BY <1>0 DEF AtHand, Equipped, Note, ProcStates
<1>3. PICK s \in Slots : s = proc[p].slot  BY <1>0 DEF AtHand, Equipped, Note
<1>4. Bears(event, b, d) /\ proc[p].at = "note"  BY <1>0, <1>1, <1>2 DEF AtHand, Equipped, Note
<1>5. Onward(p, proc[p], proc[p].day + 1)  BY GoOnIsOnward DEF Note
<1>6. /\ proc' \in [Placers -> ProcStates]
      /\ \A q \in Placers \ {p} : proc'[q] = proc[q]
  BY <1>0, <1>5, GoneOnward
<1>7. /\ Calm(p)' /\ Equipped(p)'
      /\ \A e \in Days : proc'[p].occ[e] \in {NoRow, proc[p].occ[e]}
  BY <1>0, <1>5, OnwardCalm
<1>8. UNCHANGED <<habit, event, busy, hours, today, asks, upsets>>  BY DEF Note, given
<1>9. alone' \subseteq Placers /\ inStep' \in BOOLEAN /\ orderly' \in BOOLEAN
  BY <1>0, GoOnSeen DEF Note
<1>10. InHand(proc[p]) = {b}  BY <1>2, <1>4 DEF InHand, HabitAssumption
<1>11. lost \subseteq BlockIds /\ occ \in [Days -> OccRow] /\ born \in Nat  BY <1>0 DEF TypeOK
<1>12. CASE ~habit.kept
  <2>1. lost' = lost \cup {b} /\ occ' = occ /\ born' = born  BY <1>2, <1>12 DEF Note
  <2>2. lost' \subseteq BlockIds /\ lost \subseteq lost' /\ InHand(proc[p]) \subseteq lost'
    BY <1>10, <1>11, <2>1
  <2>3. TypeOK'  BY <1>0, <1>6, <1>8, <1>9, <2>1, <2>2 DEF TypeOK
  <2>4. \A e \in Days : proc[p].occ[e] \in {occ[e], proc[p].occ[e]}  OBVIOUS
  <2> QED  BY <1>0, <1>5, <1>8, <2>1, <2>2, <2>3, <2>4, OnwardBooks
<1>13. CASE habit.kept
  <2> DEFINE id == IF d \in Placed THEN occ[d].id ELSE born + 1
             r == [id |-> id, event |-> b, slot |-> s]
  <2>1. /\ occ' = [occ EXCEPT ![d] = r]
        /\ born' = IF d \in Placed THEN born ELSE born + 1
        /\ lost' = lost \cup ({occ[e].event : e \in {d} \cap Placed} \ {b})
                        \cup {e \in {b} : e \notin Live \/ event[e].slot # s}
    BY <1>1, <1>2, <1>3, <1>13 DEF Note, Upserted
  <2>2. occ[d] \in OccRow  BY <1>11
  <2>3. id \in Nat \ {0} /\ (d \in Placed => id = occ[d].id)
    <3>1. CASE d \in Placed
      <4>1. occ[d].id # 0  BY <3>1 DEF Placed
      <4> QED  BY <2>2, <3>1, <4>1, RowShape
    <3>2. CASE d \notin Placed  BY <1>11, <3>2
    <3> QED  BY <3>1, <3>2
  <2> HIDE DEF id
  <2>4. r \in OccRow /\ r.id = id /\ r.event = b /\ r.slot = s  BY <2>3 DEF OccRow
  <2> HIDE DEF r
  <2>5. /\ occ' \in [Days -> OccRow] /\ occ'[d] = r
        /\ \A e \in Days \ {d} : occ'[e] = occ[e]
    BY <1>11, <2>1, <2>4
  <2>6. born' \in Nat  BY <1>11, <2>1
  <2>7. d \in Placed => occ[d].event \in BlockIds  BY <2>2, RowShape DEF Placed
  <2>8. lost \subseteq lost' /\ lost' \subseteq BlockIds  BY <1>11, <2>1, <2>7
  <2>9. TypeOK'  BY <1>0, <1>6, <1>8, <1>9, <2>5, <2>6, <2>8 DEF TypeOK
  <2>10. b \notin lost' => event[b].state = "live" /\ event[b].slot = s  BY <2>1 DEF Live
  <2>11. d \in Placed /\ occ[d].event # b => occ[d].event \in lost'  BY <2>1
  <2>12. r # NoRow  BY <2>3, <2>4, AtRest
  <2>13. \A q \in Placers : \A e \in Days : proc'[q].occ[e] \in {NoRow, proc[q].occ[e]}
    BY <1>6, <1>7
  <2>14. \A e \in Days : \A q \in Placers :
            proc[q].occ[e] # NoRow => proc[q].occ[e].event \in BlockIds
    <3>1. \A e \in Days : \A q \in Placers : proc[q].occ[e] \in OccRow
      BY <1>0 DEF TypeOK, ProcStates
    <3> QED  BY <3>1, RowShape
  <2>15. \A e \in Days : occ[e] # NoRow => occ[e].event \in BlockIds /\ e \in Placed
    BY <1>11, RowShape DEF Placed
  <2>16. Ours'
    <3>1. ASSUME NEW e \in Days, occ'[e] # NoRow
          PROVE  Bears(event, occ'[e].event, e)
      BY <1>0, <1>4, <2>4, <2>5, <3>1 DEF Ours
    <3>2. ASSUME NEW e \in Days, NEW q \in Placers, proc'[q].occ[e] # NoRow
          PROVE  Bears(event, proc'[q].occ[e].event, e)
      BY <1>0, <2>13, <3>2 DEF Ours
    <3> QED  BY <1>8, <3>1, <3>2 DEF Ours
  <2>17. AtHand'
    <3> SUFFICES ASSUME NEW q \in Placers \ {p} PROVE Equipped(q)'
      BY <1>7 DEF AtHand
    <3>1. proc'[q] = proc[q] /\ Equipped(q)  BY <1>0, <1>6 DEF AtHand
    <3>2. Prev(q)' = Prev(q)  BY <3>1 DEF Prev
    <3> QED  BY <1>8, <3>1, <3>2 DEF Equipped
  <2>18. Tracked'
    <3> SUFFICES ASSUME NEW q \in Placers, NEW e \in Days, NEW t, t = proc[q].occ[e],
                        t # NoRow, t.event \notin lost'
                 PROVE  /\ event[t.event].state = "live" => occ'[e].event = t.event
                        /\ occ'[e].event = t.event => occ'[e].id = t.id
      BY <1>8, <2>13 DEF Tracked
    <3>1. t.event \in BlockIds /\ t.event \notin lost  BY <2>8, <2>14
    <3>2. /\ event[t.event].state = "live" => occ[e].event = t.event
          /\ occ[e].event = t.event => occ[e].id = t.id
      BY <1>0, <3>1 DEF Tracked
    <3>3. CASE e # d  BY <2>5, <3>2, <3>3
    <3>4. CASE e = d
      <4>1. ASSUME event[t.event].state = "live"
            PROVE  t.event = b /\ id = t.id
        <5>1. occ[d].event = t.event /\ occ[d].id = t.id  BY <3>2, <3>4, <4>1
        <5>2. occ[d] # NoRow  BY <3>1, <5>1, AtRest DEF HabitAssumption
        <5> QED  BY <2>3, <2>11, <2>15, <5>1, <5>2
      <4>2. t.event = b => event[t.event].state = "live"  BY <2>10
      <4> QED  BY <2>4, <2>5, <3>4, <4>1, <4>2
    <3> QED  BY <3>3, <3>4
  <2>19. Gone'
    <3> SUFFICES ASSUME NEW q \in Placers, NEW c \in BlockIds \ lost',
                        \/ proc'[q].at = "dropped" /\ proc'[q].hand = c
                        \/ proc'[q].at = "erased" /\ c \in Known(proc'[q])
                 PROVE  event[c].state # "live"
      BY <1>8 DEF Gone
    <3>1. proc'[q] = proc[q] /\ c \notin lost  BY <1>6, <1>7, <2>8 DEF Calm
    <3> QED  BY <1>0, <3>1 DEF Gone
  <2>20. InPlace'
    <3> SUFFICES ASSUME NEW e \in Days, occ'[e] # NoRow, occ'[e].event \notin lost',
                        event[occ'[e].event].state = "live",
                        event[occ'[e].event].slot # occ'[e].slot
                 PROVE  \E q \in Placers : proc'[q].at = "note" /\ proc'[q].hand = occ'[e].event
      BY <1>8 DEF InPlace
    <3>1. e # d /\ occ'[e] = occ[e]  BY <2>4, <2>5, <2>10
    <3>2. occ[e].event \in BlockIds \ lost  BY <2>8, <2>15, <3>1
    <3>3. PICK q \in Placers : proc[q].at = "note" /\ proc[q].hand = occ[e].event
      BY <1>0, <3>1, <3>2 DEF InPlace
    <3>4. q # p
      <4>1. q = p => occ[e].event = b  BY <1>2, <3>3
      <4> QED  BY <1>4, <3>1, <4>1, OnlyDay
    <3> QED  BY <1>6, <3>1, <3>3, <3>4
  <2>21. EveryEventKnown'
    <3> SUFFICES ASSUME NEW c \in BlockIds \ lost',
                        ~ \E q \in Placers : c \in InHand(proc'[q])
                 PROVE  event[c].state = "live" <=> \E e \in Days : occ'[e].id # 0 /\ occ'[e].event = c
      BY <1>8 DEF EveryEventKnown, Live, Placed
    <3>1. CASE c = b  BY <2>3, <2>4, <2>5, <2>10, <3>1
    <3>2. CASE c # b
      <4>1. ~ \E q \in Placers : c \in InHand(proc[q])  BY <1>6, <1>10, <3>2
      <4>2. event[c].state = "live" <=> \E e \in Days : occ[e].id # 0 /\ occ[e].event = c
        BY <1>0, <2>8, <4>1 DEF EveryEventKnown, Live, Placed
      <4>3. occ[d].id # 0 => occ[d].event # c  BY <2>11, <3>2 DEF Placed
      <4>4. \A e \in Days : (occ[e].id # 0 /\ occ[e].event = c) <=> (occ'[e].id # 0 /\ occ'[e].event = c)
        BY <2>4, <2>5, <3>2, <4>3
      <4> QED  BY <4>2, <4>4
    <3> QED  BY <3>1, <3>2
  <2> QED  BY <2>9, <2>16, <2>17, <2>18, <2>19, <2>20, <2>21 DEF Books
<1> QED  BY <1>12, <1>13
-------------------------------------------------------------------------------
(* The slots that are open on a day.                                       *)

Others(d) == IF occ[d].id # 0 THEN Beside(d, NoBlock) \ {occ[d].slot} ELSE Beside(d, NoBlock)

LEMMA OpenIs ==
    TypeOK => \A d \in Days : OpenTo(d, occ[d].slot) = hours \ Others(d)
<1> SUFFICES ASSUME TypeOK, NEW d \in Days
             PROVE  OpenTo(d, occ[d].slot) = hours \ Others(d)
  OBVIOUS
<1>1. Live \ {NoBlock} = Live  BY HabitAssumption DEF Live, HabitAssumption
<1>2. Taken(d) = Others(d)
  <2>1. CASE d \in Placed
    <3>1. {occ[e].slot : e \in {d} \cap Placed} = {occ[d].slot}  BY <2>1
    <3> QED  BY <1>1, <2>1, <3>1 DEF Taken, Others, Beside, Placed
  <2>2. CASE d \notin Placed
    <3>1. {occ[e].slot : e \in {d} \cap Placed} = {}  BY <2>2
    <3> QED  BY <1>1, <2>2, <3>1 DEF Taken, Others, Beside, Placed
  <2> QED  BY <2>1, <2>2
<1>3. occ[d].slot \notin hours \cap Others(d)
  <2>1. CASE occ[d].id # 0  BY <2>1 DEF Others
  <2>2. CASE occ[d].id = 0
    <3>1. occ[d] = NoRow  BY <2>2, HabitAssumption, RowShape DEF TypeOK
    <3>2. occ[d].slot = 0  BY <3>1 DEF NoRow
    <3>3. 0 \notin Slots  BY DEF Slots
    <3> QED  BY <3>2, <3>3 DEF TypeOK
  <2> QED  BY <2>1, <2>2
<1> QED  BY <1>2, <1>3 DEF OpenTo

LEMMA OpenNext ==
    TypeOK' => (\A d \in Days : OpenTo(d, occ[d].slot) = hours \ Others(d))'
  BY OpenIs, PTL

LEMMA KeptIs ==
    TypeOK => \A d \in Days :
        Kept(d) <=> IF Fitting(hours \ Others(d), habit.ideal) = {} THEN occ[d] = NoRow
                    ELSE occ[d] # NoRow /\ occ[d].slot = Nearest(hours \ Others(d), habit.ideal)
<1> SUFFICES ASSUME TypeOK, NEW d \in Days
             PROVE  Kept(d) <=> IF Fitting(hours \ Others(d), habit.ideal) = {} THEN occ[d] = NoRow
                    ELSE occ[d] # NoRow /\ occ[d].slot = Nearest(hours \ Others(d), habit.ideal)
  OBVIOUS
<1>1. OpenTo(d, occ[d].slot) = hours \ Others(d)  BY OpenIs
<1>2. d \in Placed <=> occ[d] # NoRow  BY HabitAssumption, RowShape DEF Placed, TypeOK
<1> QED  BY <1>1, <1>2 DEF Kept

LEMMA KeptIfBest ==
    TypeOK => \A d \in Days :
        \/ occ[d] # NoRow /\ Best(occ[d].slot, hours \ Others(d), habit.ideal)
        \/ occ[d] = NoRow /\ Fitting(hours \ Others(d), habit.ideal) = {}
        => Kept(d)
<1> SUFFICES ASSUME TypeOK, NEW d \in Days, NEW free, free = hours \ Others(d),
                    \/ occ[d] # NoRow /\ Best(occ[d].slot, free, habit.ideal)
                    \/ occ[d] = NoRow /\ Fitting(free, habit.ideal) = {}
             PROVE  Kept(d)
  OBVIOUS
<1>1. free \in SUBSET Slots /\ habit.ideal \in Slots  BY DEF TypeOK, Habit
<1>2. CASE occ[d] # NoRow /\ Best(occ[d].slot, free, habit.ideal)
  <2>1. Fitting(free, habit.ideal) # {}  BY <1>2 DEF Best
  <2>2. Best(Nearest(free, habit.ideal), free, habit.ideal)
    BY <1>1, <2>1, HabitAssumption, NearestIsBest
  <2>3. occ[d].slot = Nearest(free, habit.ideal)  BY <1>1, <1>2, <2>2, BestIsOne
  <2> QED  BY <1>2, <2>1, <2>3, KeptIs
<1>3. CASE occ[d] = NoRow /\ Fitting(free, habit.ideal) = {}  BY <1>3, KeptIs
<1> QED  BY <1>2, <1>3

LEMMA KeptNext ==
    /\ TypeOK' => (\A d \in Days :
         Kept(d) <=> IF Fitting(hours \ Others(d), habit.ideal) = {} THEN occ[d] = NoRow
                     ELSE occ[d] # NoRow /\ occ[d].slot = Nearest(hours \ Others(d), habit.ideal))'
    /\ TypeOK' => (\A d \in Days :
         \/ occ[d] # NoRow /\ Best(occ[d].slot, hours \ Others(d), habit.ideal)
         \/ occ[d] = NoRow /\ Fitting(hours \ Others(d), habit.ideal) = {}
         => Kept(d))'
<1>1. TypeOK' => (\A d \in Days :
         Kept(d) <=> IF Fitting(hours \ Others(d), habit.ideal) = {} THEN occ[d] = NoRow
                     ELSE occ[d] # NoRow /\ occ[d].slot = Nearest(hours \ Others(d), habit.ideal))'
  BY KeptIs, PTL
<1>2. TypeOK' => (\A d \in Days :
         \/ occ[d] # NoRow /\ Best(occ[d].slot, hours \ Others(d), habit.ideal)
         \/ occ[d] = NoRow /\ Fitting(hours \ Others(d), habit.ideal) = {}
         => Kept(d))'
  BY KeptIfBest, PTL
<1> QED  BY <1>1, <1>2

(* A day is as well kept as before, if nothing of it changed.              *)
LEMMA KeptStays ==
    ASSUME TypeOK, TypeOK', NEW d \in Days, UNCHANGED <<hours, busy, habit>>, occ'[d] = occ[d],
           \A x \in BlockIds :
              \/ event[x].state = "live" /\ event[x].day = d
              \/ event'[x].state = "live" /\ event'[x].day = d
              => event'[x] = event[x]
    PROVE  Kept(d)' <=> Kept(d)
<1>1. {y \in Live' \ {NoBlock} : event'[y].day = d} = {y \in Live \ {NoBlock} : event[y].day = d}
  BY DEF Live
<1>2. \A x \in {y \in Live \ {NoBlock} : event[y].day = d} : event'[x] = event[x]
  BY DEF Live
<1>3. Beside(d, NoBlock)' = Beside(d, NoBlock)  BY <1>1, <1>2 DEF Beside
<1>4. Others(d)' = Others(d)  BY <1>3 DEF Others
<1>5. PICK o : o = Others(d)  OBVIOUS
<1>6. PICK h \in Habit : h = habit  BY DEF TypeOK
<1>7. Kept(d) <=> IF Fitting(hours \ o, h.ideal) = {} THEN occ[d] = NoRow
                  ELSE occ[d] # NoRow /\ occ[d].slot = Nearest(hours \ o, h.ideal)
  BY <1>5, <1>6, KeptIs
<1>8. Kept(d)' <=> IF Fitting(hours \ o, h.ideal) = {} THEN occ[d] = NoRow
                   ELSE occ[d] # NoRow /\ occ[d].slot = Nearest(hours \ o, h.ideal)
  <2>1. (Kept(d) <=> IF Fitting(hours \ Others(d), habit.ideal) = {} THEN occ[d] = NoRow
                     ELSE occ[d] # NoRow /\ occ[d].slot = Nearest(hours \ Others(d), habit.ideal))'
    BY KeptNext
  <2>2. Others(d)' = o /\ habit' = h /\ hours' = hours  BY <1>4, <1>5, <1>6
  <2> QED  BY <2>1, <2>2
<1> QED  BY <1>7, <1>8
-------------------------------------------------------------------------------
(* A placement that runs alone.                                            *)

LEMMA Disturbed ==
    ASSUME alone' = {}, inStep' = FALSE
    PROVE  AloneAtWork' /\ OnCourse' /\ Settled'
  BY DEF AloneAtWork, OnCourse, Settled

LEMMA Started ==
    ASSUME NEW p \in Placers, Begins(p), proc'[p].at = "read",
           \A q \in Placers \ {p} : proc'[q] = proc[q]
    PROVE  AloneAtWork' /\ OnCourse' /\ Settled'
<1>1. alone' = {} \/ (alone' = {p} /\ \A q \in Placers \ {p} : Idle(q))  BY DEF Begins
<1>2. inStep' = FALSE  BY DEF Begins
<1> QED  BY <1>1, <1>2 DEF AloneAtWork, OnCourse, Settled, Working, Idle

LEMMA OneAlone ==
    ASSUME Inv, NEW p \in Placers, ~Idle(p)
    PROVE  /\ alone \subseteq {p} /\ inStep = FALSE
           /\ p \in alone => /\ proc[p].at \in Working
                             /\ \A q \in Placers \ {p} : Idle(q)
<1>1. alone \subseteq Placers /\ inStep \in BOOLEAN  BY DEF Inv, Books, TypeOK
<1>2. AloneAtWork /\ Settled  BY DEF Inv
<1> QED  BY <1>1, <1>2 DEF AloneAtWork, Settled

LEMMA NotAlone ==
    ASSUME Inv, NEW p \in Placers, proc[p].at \in {"wipe", "erase", "erased"}, UNCHANGED seen
    PROVE  AloneAtWork' /\ OnCourse' /\ Settled'
<1>1. alone = {} /\ inStep = FALSE  BY OneAlone DEF Idle, Working
<1> QED  BY <1>1, Disturbed DEF seen

(* What p leaves a placement to that goes on to the next day.              *)
LEMMA GoesOnCourse ==
    ASSUME HabitAssumption, Inv, NEW p \in Placers, ~Idle(p), NEW q \in ProcStates, NEW n \in Nat,
           GoOn(p, q, n), UNCHANGED <<habit, today>>,
           p \in alone =>
              /\ habit.kept /\ proc[p].row = habit /\ proc[p].from = today
              /\ q.row = habit /\ q.from = today
              /\ \A d \in Due : d < n => Kept(d)'
              /\ \A d \in Days : d >= n => q.occ[d] = occ'[d]
    PROVE  AloneAtWork' /\ OnCourse' /\ Settled'
<1>0. TypeOK  BY DEF Inv, Books
<1>1. alone \subseteq {p} /\ inStep = FALSE  BY OneAlone
<1>2. CASE p \notin alone
  <2>1. alone' = {}  BY <1>1, <1>2, GoOnIsOnward
  <2>2. inStep' = inStep \/ inStep' = (p \in alone)  BY GoOnIsOnward
  <2>3. (p \in alone) = FALSE  BY <1>2
  <2>4. inStep' = FALSE  BY <1>1, <2>2, <2>3
  <2> QED  BY <2>1, <2>4, Disturbed
<1>3. CASE p \in alone
  <2>1. \A r \in Placers \ {p} : proc'[r] = proc[r] /\ proc[r].at = "idle"
    <3>1. Onward(p, q, n)  BY GoOnIsOnward
    <3>2. \A r \in Placers \ {p} : proc'[r] = proc[r]  BY <1>0, <3>1, GoneOnward
    <3>3. \A r \in Placers \ {p} : Idle(r)  BY <1>3, OneAlone
    <3> QED  BY <3>2, <3>3 DEF Idle
  <2>2. Rest(p, n) = {e \in Due : e >= n}  BY <1>3 DEF Rest, Due
  <2>3. Due' = Due /\ Due \subseteq Days  BY DEF Due, Horizon
  <2>4. \A d \in Due : d \in Nat  BY <2>3 DEF Days
  <2>5. CASE Rest(p, n) = {}
    <3>1. proc' = [proc EXCEPT ![p] = NoProc]  BY <2>5 DEF GoOn, Ends
    <3>2. proc'[p].at = "idle"  BY <1>0, <3>1, AtRest DEF TypeOK
    <3>3. alone' = {}  BY <1>1, <2>5, GoOnIsOnward
    <3>4. \A d \in Due : d < n  BY <2>2, <2>4, <2>5
    <3>5. InTune'  BY <1>3, <2>3, <3>4 DEF InTune
    <3> QED  BY <2>1, <3>2, <3>3, <3>5 DEF AloneAtWork, OnCourse, Settled, Idle
  <2>6. CASE Rest(p, n) # {}
    <3>1. alone' = alone /\ inStep' = FALSE  BY <1>1, <2>6, GoOnIsOnward
    <3>2. /\ proc'[p].day \in Rest(p, n) /\ \A e \in Rest(p, n) : proc'[p].day <= e
          /\ proc'[p].at = "look" /\ proc'[p].row = q.row /\ proc'[p].occ = q.occ
          /\ proc'[p].from = q.from
      BY <1>0, <2>6, GoOnIsOnward, GoneOnward
    <3>3. PICK d \in Due : d = proc'[p].day /\ d >= n  BY <2>2, <3>2
    <3>4. \A e \in Due : e < d => e < n  BY <2>2, <2>4, <3>2, <3>3
    <3>5. \A e \in Due : e < d => Kept(e)'  BY <1>3, <3>4
    <3>6. \A e \in Days : e >= d => q.occ[e] = occ'[e]
      <4>1. \A e \in Days : e >= d => e >= n  BY <2>4, <3>3 DEF Days
      <4> QED  BY <1>3, <4>1
    <3>7. Underway(p)'  BY <2>3, <3>2, <3>3, <3>5, <3>6 DEF Underway
    <3> QED  BY <1>1, <1>3, <2>1, <3>1, <3>2, <3>7 DEF AloneAtWork, OnCourse, Settled, Idle, Working
  <2> QED  BY <2>5, <2>6
<1> QED  BY <1>2, <1>3

(* What p leaves a placement to that stays at its day.                     *)
LEMMA StaysOnCourse ==
    ASSUME Inv, NEW p \in Placers, ~Idle(p), alone' \subseteq alone, inStep' = inStep,
           \A q \in Placers \ {p} : proc'[q] = proc[q],
           p \in alone' =>
              /\ proc'[p].at \in Working
              /\ proc'[p].at \notin {"idle", "read"} =>
                    /\ habit'.kept /\ proc'[p].row = habit' /\ proc'[p].from = today'
                    /\ proc'[p].at # "list" => Underway(p)'
    PROVE  AloneAtWork' /\ OnCourse' /\ Settled'
<1>1. /\ alone' \subseteq {p} /\ inStep' = FALSE
      /\ p \in alone' => \A q \in Placers \ {p} : Idle(q)
  BY OneAlone
<1> QED  BY <1>1 DEF AloneAtWork, OnCourse, Settled, Idle

LEMMA ReadCourse ==
    ASSUME HabitAssumption, Inv, NEW p \in Placers, Read(p)
    PROVE  AloneAtWork' /\ OnCourse' /\ Settled'
<1>1. Books /\ ~Idle(p)  BY DEF Inv, Read, Idle
<1>2. UNCHANGED <<habit, today, alone, inStep>>  BY DEF Read, stored, given, seen
<1>3. /\ \A q \in Placers \ {p} : proc'[q] = proc[q]
      /\ \/ proc'[p] = NoProc
         \/ /\ habit.kept /\ proc'[p].at = "list" /\ proc'[p].row = habit
            /\ proc'[p].from = today
  BY <1>1, ReadBooks
<1> QED  BY <1>1, <1>2, <1>3, AtRest, StaysOnCourse DEF Working

(* All that is known of a placement at work on its day.                    *)
LEMMA AtItsDay ==
    ASSUME HabitAssumption, Inv, NEW p \in alone,
           proc[p].at \in {"look", "put", "note", "drop", "dropped"}
    PROVE  /\ habit.kept /\ proc[p].row = habit /\ proc[p].from = today
           /\ Underway(p) /\ Equipped(p)
           /\ proc[p].day \in Due /\ proc[p].day \in Days
           /\ Prev(p) = occ[proc[p].day]
           /\ OpenNow(p) = hours \ Others(proc[p].day)
<1>0. TypeOK /\ AtHand /\ AloneAtWork /\ OnCourse  BY DEF Inv, Books
<1>1. p \in Placers  BY <1>0 DEF TypeOK
<1>2. /\ habit.kept /\ proc[p].row = habit /\ proc[p].from = today /\ Underway(p)
  BY <1>0 DEF OnCourse
<1>3. proc[p].day \in Due /\ proc[p].day \in Days  BY <1>2 DEF Underway, Due, Horizon
<1>4. Prev(p) = occ[proc[p].day]
  <2>1. proc[p].day >= proc[p].day  BY <1>3 DEF Days
  <2> QED  BY <1>2, <1>3, <2>1 DEF Underway, Prev
<1>5. OpenNow(p) = hours \ Others(proc[p].day)  BY <1>0, <1>3, <1>4, OpenIs DEF OpenNow
<1>6. Equipped(p)  BY <1>0, <1>1 DEF AtHand
<1> QED  BY <1>2, <1>3, <1>4, <1>5, <1>6

LEMMA ListCourse ==
    ASSUME HabitAssumption, Inv, NEW p \in Placers, List(p)
    PROVE  AloneAtWork' /\ OnCourse' /\ Settled'
<1>0. TypeOK /\ OnCourse /\ ~Idle(p)  BY DEF Inv, Books, List, Idle
<1> DEFINE q == [proc[p] EXCEPT !.occ = occ]
<1>1. GoOn(p, q, proc[p].from)  BY DEF List
<1>2. q \in ProcStates /\ q.occ = occ /\ q.row = proc[p].row /\ q.from = proc[p].from
  BY <1>0 DEF TypeOK, ProcStates
<1> HIDE DEF q
<1>3. UNCHANGED <<habit, today, occ>>  BY DEF List, stored, given
<1>4. proc[p].from \in Nat  BY <1>0 DEF TypeOK, ProcStates
<1>5. ASSUME p \in alone
      PROVE  /\ habit.kept /\ proc[p].row = habit /\ proc[p].from = today
             /\ q.row = habit /\ q.from = today
             /\ \A d \in Due : d < proc[p].from => Kept(d)'
             /\ \A d \in Days : d >= proc[p].from => q.occ[d] = occ'[d]
  <2>1. habit.kept /\ proc[p].row = habit /\ proc[p].from = today
    BY <1>0, <1>5 DEF OnCourse, List
  <2>2. \A d \in Due : ~(d < today)
    <3>1. today \in Nat /\ Days \subseteq Nat  BY <1>0 DEF TypeOK, Days
    <3> QED  BY <3>1 DEF Due, Horizon
  <2> QED  BY <1>2, <1>3, <2>1, <2>2
<1> QED  BY <1>0, <1>1, <1>2, <1>3, <1>4, <1>5, GoesOnCourse

LEMMA KeptSame ==
    ASSUME TypeOK, TypeOK', UNCHANGED <<hours, busy, habit, occ, event>>, NEW d \in Days
    PROVE  Kept(d)' <=> Kept(d)
  BY KeptStays

LEMMA UpToDay ==
    ASSUME NEW d \in Days, NEW e \in Days, e < d + 1
    PROVE  e < d \/ e = d
  BY DEF Days

LEMMA LookCourse ==
    ASSUME HabitAssumption, Inv, NEW p \in Placers, Look(p)
    PROVE  AloneAtWork' /\ OnCourse' /\ Settled'
<1>0. TypeOK /\ Books /\ ~Idle(p) /\ proc[p].at = "look" /\ proc[p] \in ProcStates
  BY DEF Inv, Books, Look, Idle, TypeOK
<1>1. TypeOK'  BY <1>0, LookBooks DEF Books
<1>2. UNCHANGED <<habit, today, occ, event, hours, busy>>  BY DEF Look, stored, given
<1>3. \A d \in Days : Kept(d)' <=> Kept(d)  BY <1>0, <1>1, <1>2, KeptSame
<1>4. Due' = Due /\ Due \subseteq Days  BY <1>2 DEF Due, Horizon
<1>5. ASSUME p \in alone
      PROVE  /\ habit.kept /\ proc[p].row = habit /\ proc[p].from = today
             /\ Underway(p) /\ proc[p].day \in Due /\ Prev(p) = occ[proc[p].day]
  BY <1>0, <1>5, AtItsDay
<1>6. CASE /\ Fits(p) = {} /\ UNCHANGED seen
           /\ proc' = [proc EXCEPT ![p].at = "drop"]
  <2>1. /\ \A q \in Placers \ {p} : proc'[q] = proc[q]
        /\ proc'[p].at = "drop" /\ proc'[p].row = proc[p].row /\ proc'[p].occ = proc[p].occ
        /\ proc'[p].day = proc[p].day /\ proc'[p].from = proc[p].from
    BY <1>0, <1>6, Goes DEF Places
  <2>2. ASSUME p \in alone
        PROVE  Underway(p)'
    <3>1. OpenNow(p)' = OpenNow(p)
      BY <1>2, <2>1 DEF OpenNow, OpenTo, Taken, Single, Live, Placed, Prev
    <3>2. Fitting(OpenNow(p), habit.ideal)' = {}
      BY <1>2, <1>5, <1>6, <2>2, <3>1 DEF Fits
    <3> QED  BY <1>2, <1>3, <1>4, <1>5, <2>1, <2>2, <3>2 DEF Underway
  <2> QED  BY <1>0, <1>2, <1>5, <1>6, <2>1, <2>2, StaysOnCourse DEF seen, Working
<1>7. CASE /\ Fits(p) # {} /\ ~Same(p, Pick(p)) /\ UNCHANGED seen
           /\ proc' = [proc EXCEPT ![p].at = "put", ![p].slot = Pick(p)]
  <2>0. PICK s \in Slots : s = Pick(p) /\ Best(s, OpenNow(p), proc[p].row.ideal)
    BY <1>0, <1>7, PickIsBest
  <2>1. /\ \A q \in Placers \ {p} : proc'[q] = proc[q]
        /\ proc'[p].at = "put" /\ proc'[p].slot = s /\ proc'[p].row = proc[p].row
        /\ proc'[p].occ = proc[p].occ /\ proc'[p].day = proc[p].day
        /\ proc'[p].from = proc[p].from
    BY <1>0, <1>7, <2>0, Picked
  <2>2. ASSUME p \in alone
        PROVE  Underway(p)'
    <3>1. OpenNow(p)' = OpenNow(p)
      BY <1>2, <2>1 DEF OpenNow, OpenTo, Taken, Single, Live, Placed, Prev
    <3>2. Best(s, OpenNow(p), habit.ideal)'
      BY <1>2, <1>5, <2>0, <2>2, <3>1
    <3>3. ~Same(p, s)'
      BY <1>7, <2>0, <2>1 DEF Same, HasPrev, Prev
    <3>4. /\ Best(proc[p].slot, OpenNow(p), habit.ideal)'
          /\ ~Same(p, proc[p].slot)'
      BY <2>1, <3>2, <3>3
    <3> QED  BY <1>2, <1>3, <1>4, <1>5, <2>1, <2>2, <3>4 DEF Underway
  <2> QED  BY <1>0, <1>2, <1>5, <1>7, <2>1, <2>2, StaysOnCourse DEF seen, Working
<1>8. CASE /\ (Fits(p) = {} /\ ~HasPrev(p)) \/ (Fits(p) # {} /\ Same(p, Pick(p)))
           /\ GoOn(p, proc[p], proc[p].day + 1)
  <2>1. ASSUME p \in alone
        PROVE  /\ \A d \in Due : d < proc[p].day + 1 => Kept(d)'
               /\ \A d \in Days : d >= proc[p].day + 1 => proc[p].occ[d] = occ'[d]
    <3>1. PICK d \in Days : d = proc[p].day  BY <1>4, <1>5, <2>1
    <3>2. Kept(d)
      BY <1>5, <1>8, <2>1, <3>1
      DEF Kept, Fits, Pick, OpenNow, Same, HasPrev, Prev, Placed
    <3>3. \A e \in Due : e < d + 1 => Kept(e)
      BY <1>4, <1>5, <2>1, <3>1, <3>2, UpToDay DEF Underway
    <3>4. \A e \in Days : e >= d + 1 => e >= d  BY DEF Days
    <3> QED  BY <1>2, <1>3, <1>4, <1>5, <2>1, <3>1, <3>3, <3>4 DEF Underway
  <2>2. proc[p].day + 1 \in Nat  BY <1>0 DEF ProcStates
  <2> QED  BY <1>0, <1>2, <1>5, <1>8, <2>1, <2>2, GoesOnCourse
<1> QED  BY <1>6, <1>7, <1>8, LookCases

(* What happens to an event of one day does not matter to the others.      *)
LEMMA OtherDays ==
    ASSUME TypeOK, TypeOK', UNCHANGED <<hours, busy, habit>>, NEW b \in BlockIds, NEW d \in Days,
           \A c \in BlockIds \ {b} : event'[c] = event[c],
           event[b].state # "live" \/ event[b].day = d, event'[b].day = d,
           NEW e \in Days \ {d}, occ'[e] = occ[e]
    PROVE  Kept(e)' <=> Kept(e)
<1>1. \A x \in BlockIds :
         \/ event[x].state = "live" /\ event[x].day = e
         \/ event'[x].state = "live" /\ event'[x].day = e
         => event'[x] = event[x]
  OBVIOUS
<1> QED  BY <1>1, KeptStays

LEMMA LessFits ==
    ASSUME NEW free, NEW less \in SUBSET free, NEW ideal, Fitting(free, ideal) = {}
    PROVE  Fitting(less, ideal) = {}
  BY DEF Fitting

(* The slots taken by other events than the occurrence's own.              *)
LEMMA OwnAside ==
    ASSUME HabitAssumption, TypeOK, NEW d \in Days, occ[d] # NoRow, NEW b \in BlockIds, b = occ[d].event,
           event[b].state = "live" => event[b].slot = occ[d].slot
    PROVE  /\ Others(d) \subseteq Beside(d, b)
           /\ Beside(d, b) \subseteq Others(d) \cup {occ[d].slot}
<1>1. occ[d].id # 0  BY RowShape DEF TypeOK
<1>2. Others(d) = Beside(d, NoBlock) \ {occ[d].slot}  BY <1>1 DEF Others
<1>3. Live \ {NoBlock} = Live  BY DEF Live, HabitAssumption
<1>4. Beside(d, NoBlock) \subseteq Beside(d, b) \cup {occ[d].slot}
  BY <1>3 DEF Beside, Live
<1>5. Beside(d, b) \subseteq Beside(d, NoBlock)  BY <1>3 DEF Beside
<1> QED  BY <1>2, <1>4, <1>5

LEMMA DropEventCourse ==
    ASSUME HabitAssumption, Inv, NEW p \in Placers, DropEvent(p)
    PROVE  AloneAtWork' /\ OnCourse' /\ Settled'
<1>0. TypeOK /\ Books /\ AtHand /\ ~Idle(p) /\ proc[p].at = "drop" /\ proc[p] \in ProcStates
  BY DEF Inv, Books, DropEvent, Idle, TypeOK
<1>1. TypeOK'  BY <1>0, DropEventBooks DEF Books
<1>2. UNCHANGED <<habit, occ, hours, busy, today>>  BY DEF DropEvent, stored, given
<1>3. proc[p].day \in Days /\ Prev(p) # NoRow  BY <1>0 DEF AtHand, Equipped
<1>4. PICK d \in Days : d = proc[p].day  BY <1>3
<1>5. PICK b \in BlockIds : b = Prev(p).event  BY <1>0, <1>3, PrevEvent
<1>6. Bears(event, b, d)  BY <1>0, <1>3, <1>4, <1>5, PrevEvent
<1>7. /\ \A q \in Placers \ {p} : proc'[q] = proc[q]
      /\ proc'[p].at = "dropped" /\ proc'[p].hand = b /\ proc'[p].occ = proc[p].occ
      /\ proc'[p].day = d /\ proc'[p].row = proc[p].row /\ proc'[p].from = proc[p].from
  <2>1. TakesUp(p, "dropped", b)  BY <1>4, <1>5 DEF DropEvent, TakesUp
  <2>2. "dropped" \in Places  BY DEF Places
  <2> QED  BY <1>0, <1>4, <1>5, <2>1, <2>2, InHandNext
<1>8. alone' \subseteq alone /\ inStep' = inStep
  BY DEF DropEvent, ActsOn
<1>9. event' = event \/ event' = [event EXCEPT ![b].state = "gone"]
  BY <1>5 DEF DropEvent, Dropped
<1>10. /\ \A x \in BlockIds \ {b} : event'[x] = event[x]
       /\ event'[b].day = d
  BY <1>0, <1>6, <1>9 DEF Bears, TypeOK, Events
<1>11. ASSUME p \in alone'
       PROVE  /\ habit'.kept /\ proc'[p].row = habit' /\ proc'[p].from = today'
              /\ Underway(p)'
  <2>1. p \in alone  BY <1>8, <1>11
  <2>2. /\ habit.kept /\ proc[p].row = habit /\ proc[p].from = today /\ Underway(p)
        /\ d \in Due /\ Prev(p) = occ[d] /\ OpenNow(p) = hours \ Others(d)
    BY <1>0, <1>4, <2>1, AtItsDay
  <2>3. event[b].slot = occ[d].slot
    BY <1>5, <1>11, <2>2 DEF DropEvent, ActsOn
  <2>4. Others(d) \subseteq Beside(d, b)  BY <1>0, <1>3, <1>5, <2>2, <2>3, OwnAside
  <2>5. Beside(d, b) \subseteq Beside(d, NoBlock)'
    <3>1. \A x \in Live \ {b} : x \in Live' \ {NoBlock} /\ event'[x] = event[x]
      BY <1>10 DEF Live, HabitAssumption
    <3> QED  BY <1>2, <3>1 DEF Beside
  <2>6. Fitting(OpenNow(p), habit.ideal) = {}  BY <1>0, <2>2 DEF Underway
  <2>7. (hours \ Beside(d, NoBlock))' \subseteq OpenNow(p)  BY <1>2, <2>2, <2>4, <2>5
  <2>8. Fitting((hours \ Beside(d, NoBlock))', habit.ideal) = {}  BY <2>6, <2>7, LessFits
  <2>9. Fitting(hours \ Beside(d, NoBlock), habit.ideal)' = {}  BY <1>2, <2>8 DEF Fitting
  <2>10. Due' = Due /\ Due \subseteq Days  BY <1>2 DEF Due, Horizon
  <2>11. \A e \in Due : e < d => Kept(e)'
    <3> SUFFICES ASSUME NEW e \in Due, e < d PROVE Kept(e)'
      OBVIOUS
    <3>1. Kept(e)  BY <1>4, <2>2 DEF Underway
    <3>2. e \in Days \ {d}  BY <2>10 DEF Days
    <3>3. event[b].day = d  BY <1>6 DEF Bears
    <3> QED  BY <1>0, <1>1, <1>2, <1>10, <3>1, <3>2, <3>3, OtherDays
  <2>12. \A e \in Days : e >= d => proc'[p].occ[e] = occ'[e]
    BY <1>2, <1>4, <1>7, <2>2 DEF Underway
  <2>13. Underway(p)'  BY <1>7, <2>2, <2>9, <2>10, <2>11, <2>12 DEF Underway
  <2> QED  BY <1>2, <1>7, <2>2, <2>13
<1>12. proc'[p].at \in Working  BY <1>7 DEF Working
<1> QED  BY <1>0, <1>7, <1>8, <1>11, <1>12, StaysOnCourse

LEMMA DropRowCourse ==
    ASSUME HabitAssumption, Inv, NEW p \in Placers, DropRow(p)
    PROVE  AloneAtWork' /\ OnCourse' /\ Settled'
<1>0. TypeOK /\ Books /\ AtHand /\ ~Idle(p) /\ proc[p].at = "dropped" /\ proc[p] \in ProcStates
  BY DEF Inv, Books, DropRow, Idle, TypeOK
<1>1. TypeOK'  BY <1>0, DropRowBooks DEF Books
<1>2. UNCHANGED <<habit, event, hours, busy, today>>  BY DEF DropRow, given
<1>3. PICK d \in Days : d = proc[p].day  BY <1>0 DEF AtHand, Equipped
<1>4. GoOn(p, proc[p], d + 1)  BY <1>3 DEF DropRow
<1>5. d + 1 \in Nat  BY DEF Days
<1>6. ASSUME p \in alone
      PROVE  /\ habit.kept /\ proc[p].row = habit /\ proc[p].from = today
             /\ \A e \in Due : e < d + 1 => Kept(e)'
             /\ \A e \in Days : e >= d + 1 => proc[p].occ[e] = occ'[e]
  <2>1. /\ habit.kept /\ proc[p].row = habit /\ proc[p].from = today /\ Underway(p)
        /\ d \in Due /\ Prev(p) = occ[d]
    BY <1>0, <1>3, <1>6, AtItsDay
  <2>2. occ' = [occ EXCEPT ![d] = NoRow]  BY <1>3, <2>1 DEF DropRow
  <2>3. occ'[d] = NoRow /\ \A e \in Days \ {d} : occ'[e] = occ[e]  BY <1>0, <2>2 DEF TypeOK
  <2>4. Beside(d, NoBlock)' = Beside(d, NoBlock)  BY <1>2 DEF Beside, Live
  <2>5. Others(d)' = Beside(d, NoBlock)  BY <2>3, <2>4, AtRest DEF Others
  <2>6. Fitting(hours \ Beside(d, NoBlock), habit.ideal) = {}  BY <1>0, <1>3, <2>1 DEF Underway
  <2>7. Fitting(hours \ Others(d), habit.ideal)' = {}  BY <1>2, <2>5, <2>6 DEF Fitting
  <2>8. Kept(d)'  BY <1>1, <2>3, <2>7, KeptNext
  <2>9. Due \subseteq Days  BY DEF Due, Horizon
  <2>10. ASSUME NEW e \in Due, e < d + 1 PROVE Kept(e)'
    <3>1. CASE e = d  BY <2>8, <3>1
    <3>2. CASE e < d
      <4>1. Kept(e)  BY <1>3, <2>1, <3>2 DEF Underway
      <4>2. e \in Days \ {d}  BY <2>9, <3>2 DEF Days
      <4> QED  BY <1>0, <1>1, <1>2, <2>3, <4>1, <4>2, KeptStays
    <3> QED  BY <2>9, <2>10, <3>1, <3>2, UpToDay
  <2>11. ASSUME NEW e \in Days, e >= d + 1 PROVE proc[p].occ[e] = occ'[e]
    <3>1. e >= d /\ e # d  BY <2>11 DEF Days
    <3> QED  BY <1>3, <2>1, <2>3, <3>1 DEF Underway
  <2> QED  BY <2>1, <2>10, <2>11
<1> QED  BY <1>0, <1>2, <1>4, <1>5, <1>6, GoesOnCourse

LEMMA MoveCourse ==
    ASSUME HabitAssumption, Inv, NEW p \in Placers, MoveEvent(p)
    PROVE  AloneAtWork' /\ OnCourse' /\ Settled'
<1>0. TypeOK /\ Books /\ AtHand /\ ~Idle(p) /\ proc[p].at = "put" /\ proc[p] \in ProcStates
  BY DEF Inv, Books, MoveEvent, Idle, TypeOK
<1>1. TypeOK'  BY <1>0, MoveBooks DEF Books
<1>2. UNCHANGED <<habit, occ, hours, busy, today>>  BY DEF MoveEvent, stored, given
<1>3. proc[p].day \in Days /\ proc[p].slot \in Slots /\ Prev(p) # NoRow
  BY <1>0, AtRest DEF AtHand, Equipped, MoveEvent, HasPrev
<1>4. PICK d \in Days, s \in Slots : d = proc[p].day /\ s = proc[p].slot  BY <1>3
<1>5. PICK b \in BlockIds : b = Prev(p).event  BY <1>0, <1>3, PrevEvent
<1>6. Bears(event, b, d) /\ HasPrev(p)  BY <1>0, <1>3, <1>4, <1>5, PrevEvent
<1>7. /\ \A q \in Placers \ {p} : proc'[q] = proc[q]
      /\ proc'[p].at = "note" /\ proc'[p].hand = b /\ proc'[p].occ = proc[p].occ
      /\ proc'[p].day = d /\ proc'[p].slot = s /\ proc'[p].row = proc[p].row
      /\ proc'[p].from = proc[p].from
  <2>1. TakesUp(p, "note", b)  BY <1>4, <1>5 DEF MoveEvent, TakesUp
  <2>2. "note" \in Places  BY DEF Places
  <2> QED  BY <1>0, <1>4, <1>5, <2>1, <2>2, InHandNext
<1>8. alone' \subseteq alone /\ inStep' = inStep
  BY DEF MoveEvent, ActsOn
<1>9. /\ \A x \in BlockIds \ {b} : event'[x] = event[x]
      /\ event'[b].day = d /\ event'[b].state = "live" /\ event'[b].slot = s
      /\ event[b].state = "live"
  BY <1>0, <1>4, <1>5, <1>6, EventMoved DEF MoveEvent, Bears, There, Live
<1>10. ASSUME p \in alone'
       PROVE  /\ habit'.kept /\ proc'[p].row = habit' /\ proc'[p].from = today'
              /\ Underway(p)'
  <2>1. p \in alone  BY <1>8, <1>10
  <2>2. /\ habit.kept /\ proc[p].row = habit /\ proc[p].from = today /\ Underway(p)
        /\ d \in Due /\ Prev(p) = occ[d] /\ OpenNow(p) = hours \ Others(d)
    BY <1>0, <1>4, <2>1, AtItsDay
  <2>3. event[b].slot = occ[d].slot
    BY <1>5, <1>10, <2>2 DEF MoveEvent, ActsOn
  <2>4. /\ Others(d) \subseteq Beside(d, b)
        /\ Beside(d, b) \subseteq Others(d) \cup {occ[d].slot}
    BY <1>0, <1>3, <1>5, <2>2, <2>3, OwnAside
  <2>5. Beside(d, b)' = Beside(d, b)
    <3>1. Live' \ {b} = Live \ {b}  BY <1>9 DEF Live
    <3>2. \A x \in Live \ {b} : event'[x] = event[x]  BY <1>9 DEF Live
    <3>3. {y \in Live' \ {b} : event'[y].day = d} = {y \in Live \ {b} : event[y].day = d}
      BY <3>1, <3>2
    <3> QED  BY <1>2, <3>2, <3>3 DEF Beside
  <2>6. Best(s, hours \ Others(d), habit.ideal) /\ s # occ[d].slot
    BY <1>0, <1>4, <1>6, <2>2 DEF Underway, Same
  <2>7. s \in hours \ Others(d)  BY <2>6 DEF Best, Fitting
  <2>8. s \in hours \ Beside(d, b) /\ hours \ Beside(d, b) \subseteq hours \ Others(d)
    BY <2>4, <2>6, <2>7
  <2>9. Best(s, hours \ Beside(d, b), habit.ideal)  BY <2>6, <2>8, BestOfLess
  <2>10. Best(s, hours \ Beside(d, b), habit.ideal)'  BY <1>2, <2>5, <2>9 DEF Best, Fitting
  <2>11. Due' = Due /\ Due \subseteq Days  BY <1>2 DEF Due, Horizon
  <2>12. \A e \in Due : e < d => Kept(e)'
    <3> SUFFICES ASSUME NEW e \in Due, e < d PROVE Kept(e)'
      OBVIOUS
    <3>1. Kept(e)  BY <1>4, <2>2 DEF Underway
    <3>2. e \in Days \ {d}  BY <2>11 DEF Days
    <3>3. event[b].day = d  BY <1>6 DEF Bears
    <3> QED  BY <1>0, <1>1, <1>2, <1>9, <3>1, <3>2, <3>3, OtherDays
  <2>13. \A e \in Days : e >= d => proc'[p].occ[e] = occ'[e]
    BY <1>2, <1>4, <1>7, <2>2 DEF Underway
  <2>14. Underway(p)'  BY <1>7, <1>9, <2>2, <2>10, <2>11, <2>12, <2>13 DEF Underway
  <2> QED  BY <1>2, <1>7, <2>2, <2>14
<1>11. proc'[p].at \in Working  BY <1>7 DEF Working
<1> QED  BY <1>0, <1>7, <1>8, <1>10, <1>11, StaysOnCourse

LEMMA InsertCourse ==
    ASSUME HabitAssumption, Inv, NEW p \in Placers, InsertEvent(p)
    PROVE  AloneAtWork' /\ OnCourse' /\ Settled'
<1>0. TypeOK /\ Books /\ AtHand /\ ~Idle(p) /\ proc[p].at = "put" /\ proc[p] \in ProcStates
  BY DEF Inv, Books, InsertEvent, Idle, TypeOK
<1>1. TypeOK'  BY <1>0, InsertBooks DEF Books
<1>2. UNCHANGED <<habit, occ, hours, busy, today, alone, inStep>>
  BY DEF InsertEvent, stored, given, seen
<1>3. proc[p].day \in Days /\ proc[p].slot \in Slots  BY <1>0 DEF AtHand, Equipped
<1>4. PICK d \in Days, s \in Slots : d = proc[p].day /\ s = proc[p].slot  BY <1>3
<1>5. PICK b \in Unborn : b = Fresh  BY DEF InsertEvent, Fresh
<1>6. b \in BlockIds /\ event[b].state = "unborn"  BY DEF Unborn
<1>7. /\ \A q \in Placers \ {p} : proc'[q] = proc[q]
      /\ proc'[p].at = "note" /\ proc'[p].hand = b /\ proc'[p].occ = proc[p].occ
      /\ proc'[p].day = d /\ proc'[p].slot = s /\ proc'[p].row = proc[p].row
      /\ proc'[p].from = proc[p].from
  <2>1. TakesUp(p, "note", b)  BY <1>4, <1>5, <1>6 DEF InsertEvent, TakesUp
  <2>2. "note" \in Places  BY DEF Places
  <2> QED  BY <1>0, <1>4, <1>5, <1>6, <2>1, <2>2, InHandNext
<1>8. /\ \A x \in BlockIds \ {b} : event'[x] = event[x]
      /\ event'[b].day = d /\ event'[b].state = "live" /\ event'[b].slot = s
  BY <1>0, <1>3, <1>4, <1>5, <1>6, EventInserted DEF InsertEvent
<1>9. ASSUME p \in alone'
      PROVE  /\ habit'.kept /\ proc'[p].row = habit' /\ proc'[p].from = today'
             /\ Underway(p)'
  <2>1. p \in alone  BY <1>2, <1>9
  <2>2. /\ habit.kept /\ proc[p].row = habit /\ proc[p].from = today /\ Underway(p)
        /\ d \in Due /\ Prev(p) = occ[d] /\ OpenNow(p) = hours \ Others(d)
    BY <1>0, <1>4, <2>1, AtItsDay
  <2>3. Others(d) = Beside(d, NoBlock)  BY <2>2 DEF InsertEvent, HasPrev, Others
  <2>4. Beside(d, b)' = Beside(d, NoBlock)
    <3>1. Live' \ {b} = Live \ {NoBlock}  BY <1>6, <1>8 DEF Live, HabitAssumption
    <3>2. \A x \in Live \ {NoBlock} : event'[x] = event[x]  BY <1>6, <1>8 DEF Live
    <3>3. {y \in Live' \ {b} : event'[y].day = d} = {y \in Live \ {NoBlock} : event[y].day = d}
      BY <3>1, <3>2
    <3> QED  BY <1>2, <3>2, <3>3 DEF Beside
  <2>5. Best(s, hours \ Beside(d, NoBlock), habit.ideal)
    BY <1>0, <1>4, <2>2, <2>3 DEF Underway
  <2>6. Best(s, hours \ Beside(d, b), habit.ideal)'  BY <1>2, <2>4, <2>5 DEF Best, Fitting
  <2>7. Due' = Due /\ Due \subseteq Days  BY <1>2 DEF Due, Horizon
  <2>8. \A e \in Due : e < d => Kept(e)'
    <3> SUFFICES ASSUME NEW e \in Due, e < d PROVE Kept(e)'
      OBVIOUS
    <3>1. Kept(e)  BY <1>4, <2>2 DEF Underway
    <3>2. e \in Days \ {d}  BY <2>7 DEF Days
    <3> QED  BY <1>0, <1>1, <1>2, <1>6, <1>8, <3>1, <3>2, OtherDays
  <2>9. \A e \in Days : e >= d => proc'[p].occ[e] = occ'[e]
    BY <1>2, <1>4, <1>7, <2>2 DEF Underway
  <2>10. Underway(p)'  BY <1>7, <1>8, <2>2, <2>6, <2>7, <2>8, <2>9 DEF Underway
  <2> QED  BY <1>2, <1>7, <2>2, <2>10
<1>10. proc'[p].at \in Working  BY <1>7 DEF Working
<1> QED  BY <1>0, <1>2, <1>7, <1>9, <1>10, StaysOnCourse

LEMMA NoteCourse ==
    ASSUME HabitAssumption, Inv, NEW p \in Placers, Note(p)
    PROVE  AloneAtWork' /\ OnCourse' /\ Settled'
<1>0. TypeOK /\ Books /\ AtHand /\ OnCourse /\ ~Idle(p) /\ proc[p].at = "note" /\ proc[p] \in ProcStates
  BY DEF Inv, Books, Note, Idle, TypeOK
<1>1. TypeOK'  BY <1>0, NoteBooks DEF Books
<1>2. UNCHANGED <<habit, event, hours, busy, today>>  BY DEF Note, given
<1>3. PICK d \in Days, s \in Slots : d = proc[p].day /\ s = proc[p].slot
  BY <1>0 DEF AtHand, Equipped
<1>4. PICK b \in BlockIds : b = proc[p].hand  BY <1>0 DEF AtHand, Equipped, ProcStates
<1>5. Bears(event, b, d)  BY <1>0, <1>3, <1>4 DEF AtHand, Equipped
<1>6. GoOn(p, proc[p], d + 1)  BY <1>3 DEF Note
<1>7. d + 1 \in Nat  BY DEF Days
<1>8. ASSUME p \in alone
      PROVE  /\ habit.kept /\ proc[p].row = habit /\ proc[p].from = today
             /\ \A e \in Due : e < d + 1 => Kept(e)'
             /\ \A e \in Days : e >= d + 1 => proc[p].occ[e] = occ'[e]
  <2>1. /\ habit.kept /\ proc[p].row = habit /\ proc[p].from = today /\ Underway(p)
        /\ d \in Due
    BY <1>0, <1>3, <1>8 DEF OnCourse, Underway
  <2>2. occ' = Upserted(d, b, s)  BY <1>3, <1>4, <2>1 DEF Note
  <2>3. \A e \in Days \ {d} : occ'[e] = occ[e]  BY <1>0, <2>2 DEF TypeOK, Upserted
  <2>4. occ'[d].slot = s /\ occ'[d].event = b  BY <1>0, <2>2 DEF TypeOK, Upserted
  <2>5. occ'[d] # NoRow /\ occ'[d].id # 0
    <3>1. occ'[d] \in OccRow  BY <1>1 DEF TypeOK
    <3>2. occ'[d].event # NoBlock  BY <2>4 DEF HabitAssumption
    <3> QED  BY <3>1, <3>2, RowShape
  <2>6. /\ event[b].state = "live" /\ event[b].slot = s
        /\ Best(s, hours \ Beside(d, b), habit.ideal)
    BY <1>0, <1>3, <1>4, <2>1 DEF Underway
  <2>7. Beside(d, NoBlock)' = Beside(d, NoBlock)  BY <1>2 DEF Beside, Live
  <2>8. Others(d)' = Beside(d, NoBlock) \ {s}  BY <2>4, <2>5, <2>7 DEF Others
  <2>9. Live \ {NoBlock} = (Live \ {b}) \cup {b}  BY <2>6 DEF Live, HabitAssumption
  <2>10. Beside(d, NoBlock) = Beside(d, b) \cup {s}
    <3>1. {y \in Live \ {NoBlock} : event[y].day = d} = {y \in Live \ {b} : event[y].day = d} \cup {b}
      BY <1>5, <2>9 DEF Bears
    <3> QED  BY <2>6, <3>1 DEF Beside
  <2>11. s \notin Beside(d, b)  BY <2>6 DEF Best, Fitting
  <2>12. Others(d)' = Beside(d, b)  BY <2>8, <2>10, <2>11
  <2>13. Best(occ[d].slot, hours \ Others(d), habit.ideal)'
    BY <1>2, <2>4, <2>6, <2>12 DEF Best, Fitting
  <2>14. Kept(d)'  BY <1>1, <2>5, <2>13, KeptNext
  <2>15. Due \subseteq Days  BY DEF Due, Horizon
  <2>16. ASSUME NEW e \in Due, e < d + 1 PROVE Kept(e)'
    <3>1. CASE e = d  BY <2>14, <3>1
    <3>2. CASE e < d
      <4>1. Kept(e)  BY <1>3, <2>1, <3>2 DEF Underway
      <4>2. e \in Days \ {d}  BY <2>15, <3>2 DEF Days
      <4> QED  BY <1>0, <1>1, <1>2, <2>3, <4>1, <4>2, KeptStays
    <3> QED  BY <2>15, <2>16, <3>1, <3>2, UpToDay
  <2>17. ASSUME NEW e \in Days, e >= d + 1 PROVE proc[p].occ[e] = occ'[e]
    <3>1. e >= d /\ e # d  BY <2>17 DEF Days
    <3> QED  BY <1>3, <2>1, <2>3, <3>1 DEF Underway
  <2> QED  BY <2>1, <2>16, <2>17
<1> QED  BY <1>0, <1>2, <1>6, <1>7, <1>8, GoesOnCourse
-------------------------------------------------------------------------------
(* The invariant.                                                          *)

LEMMA InitInv ==
    ASSUME HabitAssumption, Init
    PROVE  Inv
<1>1. /\ \A d \in Days : occ[d] = NoRow
      /\ \A p \in Placers : proc[p] = NoProc
      /\ \A b \in BlockIds : event[b].state = "unborn"
      /\ lost = {} /\ alone = {} /\ inStep = FALSE
  BY DEF Init, NoRows, Unused
<1>2. TypeOK
  <2>1. habit \in Habit  BY AtRest DEF Init
  <2>2. occ \in [Days -> OccRow]  BY AtRest DEF Init, NoRows
  <2>3. AnyCal \in Cals  BY DEF AnyCal, HabitAssumption
  <2>4. event \in [BlockIds -> Events]
    <3>1. 0 \in 0..LastDay /\ 0 \in 0..LastSlot  BY DEF HabitAssumption
    <3>2. Unused \in Events  BY <2>3, <3>1 DEF Unused, Events
    <3> QED  BY <3>2 DEF Init
  <2>5. proc \in [Placers -> ProcStates]  BY AtRest DEF Init
  <2>6. today \in Days  BY DEF Init, Days, HabitAssumption
  <2>7. asks \in 0..MaxAsks /\ upsets \in 0..MaxUpsets  BY DEF Init, HabitAssumption
  <2> QED  BY <2>1, <2>2, <2>4, <2>5, <2>6, <2>7 DEF Init, TypeOK
<1>3. Ours  BY <1>1, AtRest DEF Ours
<1>4. AtHand  BY <1>1, AtRest DEF AtHand, Equipped
<1>5. Tracked  BY <1>1, AtRest DEF Tracked
<1>6. Gone  BY <1>1, AtRest DEF Gone
<1>7. InPlace  BY <1>1 DEF InPlace
<1>8. EveryEventKnown  BY <1>1, AtRest DEF EveryEventKnown, Live, Placed
<1>9. AloneAtWork /\ OnCourse /\ Settled  BY <1>1 DEF AloneAtWork, OnCourse, Settled
<1> QED  BY <1>2, <1>3, <1>4, <1>5, <1>6, <1>7, <1>8, <1>9 DEF Inv, Books

(* Users, other people, and time; and what users begin.                    *)
LEMMA GivenInv ==
    ASSUME HabitAssumption, Inv,
           \/ Meet \/ EditHours \/ RemoveByHand \/ NextDay \/ Maintain
           \/ \E h \in Handlers : SaveHabit(h) \/ PlaceNow(h) \/ DeleteHabit(h)
    PROVE  Inv'
<1>0. Books /\ TypeOK  BY DEF Inv, Books
<1>1. CASE Meet \/ EditHours \/ NextDay
  <2>1. Books'  BY <1>0, <1>1, WorldBooks
  <2>2. Disturb  BY <1>1 DEF Meet, EditHours, NextDay
  <2> QED  BY <2>1, <2>2, Disturbed DEF Inv, Disturb
<1>2. CASE RemoveByHand
  BY <1>0, <1>2, RemoveBooks, Disturbed DEF Inv, RemoveByHand, Disturb
<1>3. ASSUME NEW p \in Placers, Starts(p), Ask \/ asks' = asks,
             UNCHANGED <<stored, event, busy, hours, today, lost, upsets>>
      PROVE  Inv'
  <2>1. Books'  BY <1>0, <1>3, StartBooks
  <2>2. /\ proc'[p].at = "read" /\ Begins(p)
        /\ \A q \in Placers \ {p} : proc'[q] = proc[q]
    BY <1>0, <1>3 DEF Starts, TypeOK, ProcStates
  <2> QED  BY <2>1, <2>2, Started DEF Inv
<1>4. CASE Maintain
  <2>1. Ticker \in Placers  BY DEF Placers
  <2>2. /\ Starts(Ticker) /\ asks' = asks
        /\ UNCHANGED <<stored, event, busy, hours, today, lost, upsets>>
    BY <1>4 DEF Maintain, given
  <2> QED  BY <1>3, <2>1, <2>2
<1>5. ASSUME NEW h \in Handlers, SaveHabit(h) \/ PlaceNow(h) \/ DeleteHabit(h)
      PROVE  Inv'
  <2>0. h \in Placers  BY DEF Placers
  <2>1. CASE SaveHabit(h)
    BY <1>0, <2>0, <2>1, SaveBooks, Disturbed DEF Inv, SaveHabit, Enters
  <2>2. CASE PlaceNow(h)
    <3>1. /\ Starts(h) /\ Ask
          /\ UNCHANGED <<stored, event, busy, hours, today, lost, upsets>>
      BY <2>2 DEF PlaceNow
    <3> QED  BY <1>3, <2>0, <3>1
  <2>3. CASE DeleteHabit(h)
    BY <1>0, <2>0, <2>3, DeleteBooks, Disturbed DEF Inv, DeleteHabit, Enters
  <2> QED  BY <1>5, <2>1, <2>2, <2>3
<1> QED  BY <1>1, <1>2, <1>4, <1>5

LEMMA StepInv ==
    ASSUME HabitAssumption, Inv, NEW p \in Placers, Step(p)
    PROVE  Inv'
<1>0. Books /\ TypeOK  BY DEF Inv, Books
<1>1. CASE Wipe(p)  BY <1>0, <1>1, WipeBooks, NotAlone DEF Inv, Wipe
<1>2. CASE Update(p)
  <2>1. Books'  BY <1>0, <1>2, UpdateBooks
  <2>2. /\ proc'[p].at = "read" /\ Begins(p)
        /\ \A q \in Placers \ {p} : proc'[q] = proc[q]
    BY <1>0, <1>2 DEF Update, TypeOK, NoProc
  <2> QED  BY <2>1, <2>2, Started DEF Inv
<1>3. CASE Read(p)  BY <1>0, <1>3, ReadBooks, ReadCourse DEF Inv
<1>4. CASE List(p)  BY <1>0, <1>4, ListBooks, ListCourse DEF Inv
<1>5. CASE Look(p)  BY <1>0, <1>5, LookBooks, LookCourse DEF Inv
<1>6. CASE DropEvent(p)  BY <1>0, <1>6, DropEventBooks, DropEventCourse DEF Inv
<1>7. CASE DropRow(p)  BY <1>0, <1>7, DropRowBooks, DropRowCourse DEF Inv
<1>8. CASE MoveEvent(p)  BY <1>0, <1>8, MoveBooks, MoveCourse DEF Inv
<1>9. CASE InsertEvent(p)  BY <1>0, <1>9, InsertBooks, InsertCourse DEF Inv
<1>10. CASE Note(p)  BY <1>0, <1>10, NoteBooks, NoteCourse DEF Inv
<1>11. CASE DayFails(p)
  <2>1. Books'  BY <1>0, <1>11, DayFailsBooks
  <2>2. Disturb  BY <1>11 DEF DayFails
  <2> QED  BY <2>1, <2>2, Disturbed DEF Inv, Disturb
<1>12. CASE Erase(p)  BY <1>0, <1>12, EraseBooks, NotAlone DEF Inv, Erase
<1>13. CASE EraseRow(p)  BY <1>0, <1>13, EraseRowBooks, NotAlone DEF Inv, EraseRow
<1> QED  BY <1>1, <1>2, <1>3, <1>4, <1>5, <1>6, <1>7, <1>8, <1>9, <1>10, <1>11, <1>12, <1>13
         DEF Step

LEMMA StopInv ==
    ASSUME HabitAssumption, Inv, NEW gone \in SUBSET Placers, Stop(gone)
    PROVE  Inv'
<1>1. Books'  BY StopBooks DEF Inv
<1>2. Disturb  BY DEF Stop
<1> QED  BY <1>1, <1>2, Disturbed DEF Inv, Disturb

LEMMA StutterInv ==
    ASSUME Inv, UNCHANGED vars
    PROVE  Inv'
<1>1. UNCHANGED <<habit, occ, born, event, busy, hours, today, asks, proc, lost, alone, inStep,
                  orderly, upsets>>
  BY DEF vars, stored, given, seen
<1>2. TypeOK' <=> TypeOK  BY <1>1 DEF TypeOK
<1>3. (Ours' <=> Ours) /\ (InPlace' <=> InPlace) /\ (Tracked' <=> Tracked)
  BY <1>1 DEF Ours, Bears, InPlace, Tracked
<1>4. AtHand' <=> AtHand  BY <1>1 DEF AtHand, Equipped, Bears, Prev
<1>5. Gone' <=> Gone  BY <1>1 DEF Gone, Known
<1>6. EveryEventKnown' <=> EveryEventKnown
  BY <1>1 DEF EveryEventKnown, Live, Placed, InHand, Known
<1>7. AloneAtWork' <=> AloneAtWork  BY <1>1 DEF AloneAtWork, Idle
<1>8. \A d \in Days : Kept(d)' <=> Kept(d)
  BY <1>1 DEF Kept, OpenTo, Single, Taken, Live, Placed
<1>9. Due' = Due /\ Due \subseteq Days  BY <1>1 DEF Due, Horizon
<1>10. Settled' <=> Settled
  <2>1. InTune' <=> InTune  BY <1>8, <1>9 DEF InTune
  <2> QED  BY <1>1, <2>1 DEF Settled, Idle
<1>11. OnCourse' <=> OnCourse
  <2>1. ASSUME NEW p \in Placers PROVE Underway(p)' <=> Underway(p)
    <3>1. OpenNow(p)' = OpenNow(p) /\ Prev(p)' = Prev(p)
      BY <1>1 DEF OpenNow, OpenTo, Taken, Single, Live, Placed, Prev
    <3>2. (\A d \in Due : d < proc[p].day => Kept(d))' <=> (\A d \in Due : d < proc[p].day => Kept(d))
      BY <1>1, <1>8, <1>9
    <3>3. Beside(proc[p].day, proc[p].hand)' = Beside(proc[p].day, proc[p].hand)
      BY <1>1 DEF Beside, Live
    <3>4. Beside(proc[p].day, NoBlock)' = Beside(proc[p].day, NoBlock)  BY <1>1 DEF Beside, Live
    <3>5. Same(p, proc[p].slot)' <=> Same(p, proc[p].slot)  BY <1>1, <3>1 DEF Same, HasPrev
    <3>6. Best(proc[p].slot, OpenNow(p), habit.ideal)' <=> Best(proc[p].slot, OpenNow(p), habit.ideal)
      BY <1>1, <3>1 DEF Best, Fitting
    <3>7. Best(proc[p].slot, hours \ Beside(proc[p].day, proc[p].hand), habit.ideal)'
          <=> Best(proc[p].slot, hours \ Beside(proc[p].day, proc[p].hand), habit.ideal)
      BY <1>1, <3>3 DEF Best, Fitting
    <3>8. /\ Fitting(OpenNow(p), habit.ideal)' = Fitting(OpenNow(p), habit.ideal)
          /\ Fitting(hours \ Beside(proc[p].day, NoBlock), habit.ideal)'
             = Fitting(hours \ Beside(proc[p].day, NoBlock), habit.ideal)
      BY <1>1, <3>1, <3>4 DEF Fitting
    <3> QED  BY <1>1, <1>9, <3>2, <3>5, <3>6, <3>7, <3>8 DEF Underway
  <2>2. alone \subseteq Placers  BY DEF Inv, Books, TypeOK
  <2> QED  BY <1>1, <2>1, <2>2 DEF OnCourse
<1> QED  BY <1>2, <1>3, <1>4, <1>5, <1>6, <1>7, <1>10, <1>11 DEF Inv, Books

LEMMA NextInv ==
    ASSUME HabitAssumption, Inv, [Next]_vars
    PROVE  Inv'
<1>1. CASE \/ Meet \/ EditHours \/ RemoveByHand \/ NextDay \/ Maintain
           \/ \E h \in Handlers : SaveHabit(h) \/ PlaceNow(h) \/ DeleteHabit(h)
  BY <1>1, GivenInv
<1>2. CASE \E p \in Placers : Step(p)  BY <1>2, StepInv
<1>3. CASE \E p \in Placers : Stop({p})
  <2>1. PICK p \in Placers : Stop({p})  BY <1>3
  <2> QED  BY <2>1, StopInv
<1>4. CASE Stop(Placers)  BY <1>4, StopInv
<1>5. CASE UNCHANGED vars  BY <1>5, StutterInv
<1> QED  BY <1>1, <1>2, <1>3, <1>4, <1>5 DEF Next

LEMMA InvHolds ==
    Spec => []Inv
<1>1. Init => Inv  BY HabitAssumption, InitInv
<1>2. Inv /\ [Next]_vars => Inv'  BY HabitAssumption, NextInv
<1> QED  BY <1>1, <1>2, PTL DEF Spec
-------------------------------------------------------------------------------
(* What follows.                                                           *)

(* Rows, events and goroutines are what the code takes them to be.         *)
THEOREM TypeCorrect ==
    Spec => []TypeOK
<1>1. Inv => TypeOK  BY DEF Inv, Books
<1> QED  BY <1>1, InvHolds, PTL

(* No order of placements, edits, deletions and crashes loses sight of an  *)
(* occurrence's event, or keeps a row without one, but where "lost" says.  *)
THEOREM EventsAreKnown ==
    Spec => []EveryEventKnown
<1>1. Inv => EveryEventKnown  BY DEF Inv, Books
<1> QED  BY <1>1, InvHolds, PTL

(* A placement nothing disturbed leaves each day's occurrence in the best  *)
(* free slot, or none where none fits, and the events where the rows say.  *)
THEOREM HabitIsKept ==
    Spec => []HabitKept
<1>1. Inv => HabitKept
  <2> SUFFICES ASSUME Inv, inStep, habit.kept, habit.on PROVE
                  /\ InTune
                  /\ Sound => \A d \in Due \cap Placed : occ[d].event \notin lost =>
                        event[occ[d].event].day = d /\ event[occ[d].event].slot = occ[d].slot
    BY DEF HabitKept
  <2>1. InTune /\ \A p \in Placers : Idle(p)  BY DEF Inv, Settled
  <2>2. TypeOK /\ Ours /\ InPlace  BY DEF Inv, Books
  <2>3. ASSUME Sound, NEW d \in Due \cap Placed, occ[d].event \notin lost
        PROVE  event[occ[d].event].day = d /\ event[occ[d].event].slot = occ[d].slot
    <3>1. d \in Days /\ occ[d] # NoRow  BY AtRest, HabitAssumption DEF Placed
    <3>2. event[occ[d].event].day = d  BY <2>2, <3>1 DEF Ours, Bears
    <3>3. event[occ[d].event].state = "live"  BY <2>3 DEF Sound, There, Live
    <3>4. \A p \in Placers : proc[p].at # "note"  BY <2>1 DEF Idle
    <3> QED  BY <2>2, <2>3, <3>1, <3>2, <3>3, <3>4 DEF InPlace
  <2> QED  BY <2>1, <2>3
<1> QED  BY <1>1, InvHolds, PTL

(* A step is one goroutine's, or stops some.                               *)
LEMMA WhoMoves ==
    ASSUME HabitAssumption, TypeOK, [Next]_vars
    PROVE  \/ proc' = proc
           \/ \E q \in Placers :
                 /\ \A r \in Placers \ {q} : proc'[r] = proc[r]
                 /\ proc[q].at = "look" => Look(q) \/ DayFails(q)
           \/ \A r \in Placers : proc'[r] \in {proc[r], NoProc}
<1>1. CASE Meet \/ EditHours \/ RemoveByHand \/ NextDay \/ UNCHANGED vars
  BY <1>1 DEF Meet, EditHours, RemoveByHand, NextDay, vars
<1>2. ASSUME NEW q \in Placers, Step(q)
      PROVE  \A r \in Placers \ {q} : proc'[r] = proc[r]
  <2>1. CASE Wipe(q)  BY <2>1 DEF Wipe, TypeOK
  <2>2. CASE Update(q)  BY <2>2 DEF Update, TypeOK
  <2>3. CASE Read(q)  BY <2>3 DEF Read, Ends, TypeOK
  <2>4. CASE List(q)
    <3> DEFINE x == [proc[q] EXCEPT !.occ = occ]
    <3>1. x \in ProcStates  BY DEF TypeOK, ProcStates
    <3>2. Onward(q, x, proc[q].from)  BY <2>4, GoOnIsOnward DEF List
    <3> QED  BY <3>1, <3>2, GoneOnward
  <2>5. proc[q] \in ProcStates  BY DEF TypeOK
  <2>6. ASSUME GoOn(q, proc[q], proc[q].day + 1)
        PROVE  \A r \in Placers \ {q} : proc'[r] = proc[r]
    BY <2>5, <2>6, GoOnIsOnward, GoneOnward
  <2>7. CASE Look(q)
    <3>1. CASE proc' = [proc EXCEPT ![q].at = "drop"]  BY <3>1 DEF TypeOK
    <3>2. CASE proc' = [proc EXCEPT ![q].at = "put", ![q].slot = Pick(q)]  BY <3>2 DEF TypeOK
    <3> QED  BY <2>6, <2>7, <3>1, <3>2, LookCases
  <2>8. CASE DropEvent(q)  BY <2>8 DEF DropEvent, TypeOK
  <2>9. CASE DropRow(q) \/ Note(q)  BY <2>6, <2>9 DEF DropRow, Note
  <2>10. CASE MoveEvent(q) \/ InsertEvent(q)  BY <2>10 DEF MoveEvent, InsertEvent, TypeOK
  <2>11. CASE DayFails(q)  BY <2>11 DEF DayFails, Ends, TypeOK
  <2>12. CASE Erase(q) \/ EraseRow(q)  BY <2>12 DEF Erase, EraseRow, Ends, TypeOK
  <2> QED  BY <1>2, <2>1, <2>2, <2>3, <2>4, <2>7, <2>8, <2>9, <2>10, <2>11, <2>12 DEF Step
<1>3. ASSUME NEW q \in Placers, Step(q), proc[q].at = "look"
      PROVE  Look(q) \/ DayFails(q)
  BY <1>3 DEF Step, Wipe, Update, Read, List, DropEvent, DropRow, MoveEvent, InsertEvent, Note,
              Erase, EraseRow
<1>4. CASE \E q \in Placers : Step(q)  BY <1>2, <1>3, <1>4
<1>5. CASE \E h \in Handlers : SaveHabit(h) \/ PlaceNow(h) \/ DeleteHabit(h)
  <2>1. PICK h \in Handlers : SaveHabit(h) \/ PlaceNow(h) \/ DeleteHabit(h)  BY <1>5
  <2>2. h \in Placers  BY DEF Placers
  <2>3. \A r \in Placers \ {h} : proc'[r] = proc[r]
    BY <2>1, <2>2 DEF SaveHabit, PlaceNow, DeleteHabit, Starts, TypeOK
  <2>4. proc[h].at = "idle"  BY <2>1 DEF SaveHabit, PlaceNow, DeleteHabit, Starts, Idle
  <2> QED  BY <2>2, <2>3, <2>4
<1>6. CASE Maintain
  <2>1. Ticker \in Placers  BY DEF Placers
  <2>2. \A r \in Placers \ {Ticker} : proc'[r] = proc[r]
    BY <1>6, <2>1 DEF Maintain, Starts, TypeOK
  <2>3. proc[Ticker].at = "idle"  BY <1>6 DEF Maintain, Starts, Idle
  <2> QED  BY <2>1, <2>2, <2>3
<1>7. CASE (\E p \in Placers : Stop({p})) \/ Stop(Placers)
  <2>1. PICK gone : Stop(gone)  BY <1>7
  <2>2. proc' = [r \in Placers |-> IF r \in gone THEN NoProc ELSE proc[r]]  BY <2>1 DEF Stop
  <2> QED  BY <2>2
<1> QED  BY <1>1, <1>4, <1>5, <1>6, <1>7 DEF Next

(* While the habit is in tune, a placement that knows the day as it is     *)
(* neither moves, makes nor deletes anything.                              *)
THEOREM ChurnsNothing ==
    Spec => NoChurn
<1>1. ASSUME Inv, [Next]_vars, NEW p \in Placers, InTune, proc[p].at = "look", proc[p].row = habit,
             proc[p].occ[proc[p].day] = occ[proc[p].day], proc[p].day \in Due
      PROVE  proc'[p].at \notin {"put", "drop"}
  <2>0. Books /\ TypeOK /\ proc[p] \in ProcStates  BY <1>1 DEF Inv, Books, TypeOK
  <2>1. CASE Look(p)
    <3>1. PICK d \in Days : d = proc[p].day  BY <1>1 DEF Due, Horizon
    <3>2. Kept(d) /\ Prev(p) = occ[d]  BY <1>1, <3>1 DEF InTune, Prev
    <3>3. /\ Fits(p) = Fitting(OpenTo(d, occ[d].slot), habit.ideal)
          /\ Pick(p) = Nearest(OpenTo(d, occ[d].slot), habit.ideal)
      BY <1>1, <3>1, <3>2 DEF Fits, Pick, OpenNow
    <3>4. Fits(p) = {} => ~HasPrev(p)  BY <3>2, <3>3 DEF Kept, Placed, HasPrev
    <3>5. Fits(p) # {} => Same(p, Pick(p))  BY <3>2, <3>3 DEF Kept, Placed, HasPrev, Same
    <3>6. GoOn(p, proc[p], proc[p].day + 1)  BY <2>1, <3>4, <3>5, LookCases
    <3>7. Onward(p, proc[p], proc[p].day + 1)  BY <3>6, GoOnIsOnward
    <3> QED  BY <2>0, <3>7, HabitAssumption, GoneOnward, AtRest
  <2>2. CASE DayFails(p)
    <3>1. Onward(p, proc[p], proc[p].day + 1)  BY <2>0, <2>2, HabitAssumption, DayFailsBooks
    <3> QED  BY <2>0, <3>1, HabitAssumption, GoneOnward, AtRest
  <2>3. CASE proc'[p] \in {proc[p], NoProc}
    BY <1>1, <2>3, HabitAssumption, AtRest
  <2> QED  BY <1>1, <2>0, <2>1, <2>2, <2>3, HabitAssumption, WhoMoves
<1>2. Inv /\ [Next]_vars =>
        [\A p \in Placers :
           (/\ InTune /\ proc[p].at = "look"
            /\ proc[p].row = habit /\ proc[p].occ[proc[p].day] = occ[proc[p].day]
            /\ proc[p].day \in Due)
           => proc'[p].at \notin {"put", "drop"}]_vars
  BY <1>1
<1> QED  BY <1>2, InvHolds, PTL DEF Spec, NoChurn
===============================================================================
