--------------------------- MODULE SmartBlocksProofs ---------------------------
(***************************************************************************)
(* Proofs about module SmartBlocks, for any number of recomputations and   *)
(* events, any working hours and settings, any edits, failures and stops.  *)
(*                                                                         *)
(* That no event is lost sight of (Inv) does not depend on which windows   *)
(* are wanted.  It rests on rows naming events that were made (Made), on   *)
(* an event without a row being in the hands of the recomputation that     *)
(* inserted it (Saved), and on a row being dropped only when its event is  *)
(* gone, or is known to be left behind (Dropped).                          *)
(*                                                                         *)
(* What an undisturbed recomputation shows (Ordered) rests on the plans    *)
(* being apart (PlansApart), on rows that say where the events are         *)
(* (InPlace), and on what one recomputation has placed (Course).  Desired  *)
(* and what it is made of are never expanded.                              *)
(***************************************************************************)
EXTENDS SmartBlocks, TLAPS

(* What the steps need of the variables' types.                            *)
BlockShape(x) == x \in [state : {x.state}, window : {x.window}, cal : {x.cal}]
ProcShape(x) ==
    /\ x \in [pc : {x.pc}, day : {x.day}, using : {x.using}, cal : {x.cal}, wants : {x.wants},
              rows : {x.rows}, matched : {x.matched}, target : {x.target}, settled : {x.settled}]
    /\ x.rows = [b \in BlockIds |-> x.rows[b]]

Procs == proc = [p \in Recomputers |-> proc[p]] /\ \A p \in Recomputers : ProcShape(proc[p])
Shape ==
    /\ block = [b \in BlockIds |-> block[b]] /\ \A b \in BlockIds : BlockShape(block[b])
    /\ row = [b \in BlockIds |-> row[b]]
    /\ Procs

(* A row, stored or read, and a target are of an event that was made.      *)
Made ==
    /\ \A b \in Unborn : ~row[b].kept
    /\ \A p \in Recomputers : \A b \in Unborn : ~proc[p].rows[b].kept /\ b \notin proc[p].target

(* A recomputation has an event in hand while it is about to write its row. *)
Handed == \A p \in Recomputers : proc[p].target # {} => proc[p].pc \in {"saving", "moving"}

(* An event without a row is about to get it from the one who inserted it. *)
Saved ==
    \A b \in Live \ lost :
        row[b].kept \/ \E p \in Recomputers : proc[p].pc = "saving" /\ b \in proc[p].target

(* A row is dropped after its event.                                       *)
Dropped ==
    \A p \in Recomputers :
        proc[p].pc = "forgetting" => Leftovers(p) # {} /\ Leftover(p) \notin Live \ lost

Inv == Shape /\ Made /\ Handed /\ Saved /\ Dropped
-------------------------------------------------------------------------------
LEMMA NoProcIsOne ==
    /\ ProcShape(NoProc) /\ NoProc.pc = "idle" /\ NoProc.target = {} /\ NoProc.matched = {}
    /\ NoProc.wants = <<>> /\ NoProc.day = 0 /\ NoProc.using = AnySettings /\ NoProc.cal = AnyTarget
    /\ \A b \in BlockIds : NoProc.rows[b] = NoRow /\ ~NoProc.rows[b].kept
<1> DEFINE rows == [b \in BlockIds |-> NoRow]
<1>1. \A b \in BlockIds : rows[b] = NoRow /\ ~rows[b].kept  BY DEF NoRow
<1>2. rows = [b \in BlockIds |-> rows[b]]  OBVIOUS
<1> HIDE DEF rows
<1>3. NoProc = [pc |-> "idle", day |-> 0, using |-> AnySettings, cal |-> AnyTarget, wants |-> <<>>,
                rows |-> rows, matched |-> {}, target |-> {}, settled |-> FALSE]
  BY DEF NoProc, rows
<1> QED  BY <1>1, <1>2, <1>3 DEF ProcShape

LEMMA LeftoverIsOne ==
    ASSUME NEW p \in Recomputers, Leftovers(p) # {}
    PROVE  Leftover(p) \in BlockIds /\ Leftover(p) \in Leftovers(p) /\ proc[p].rows[Leftover(p)].kept
  BY DEF Leftover, Leftovers

LEMMA FreshIsUnborn ==
    ASSUME Unborn # {}
    PROVE  FreshId \in BlockIds /\ FreshId \in Unborn
  BY DEF FreshId, Unborn

(* What a step of one recomputation must do, and not do, so that nothing   *)
(* is lost sight of.                                                       *)
Careful(p) ==
    /\ lost \subseteq lost'
    /\ Unborn' \subseteq Unborn
    /\ \A b \in Unborn' : ~row'[b].kept /\ ~proc'[p].rows[b].kept /\ b \notin proc'[p].target
    /\ proc'[p].target # {} => proc'[p].pc \in {"saving", "moving"}
    /\ \A b \in (Live \ lost)' :
          IF b \in Live
          THEN /\ row[b].kept => row'[b].kept
               /\ proc[p].pc = "saving" /\ b \in proc[p].target => row'[b].kept
          ELSE b \in Unborn /\ proc'[p].pc = "saving" /\ b \in proc'[p].target
    /\ proc'[p].pc = "forgetting" => Leftovers(p)' # {} /\ Leftover(p)' \notin (Live \ lost)'

LEMMA CarefulStep ==
    ASSUME Inv, NEW p \in Recomputers, Careful(p), Shape',
           \A q \in Recomputers \ {p} : proc'[q] = proc[q]
    PROVE  Inv'
<1>1. Made'
  <2> SUFFICES ASSUME NEW b \in Unborn'
               PROVE  ~row'[b].kept /\ \A q \in Recomputers : ~proc'[q].rows[b].kept /\ b \notin proc'[q].target
    BY DEF Made
  <2>1. b \in Unborn  BY DEF Careful
  <2> QED  BY <2>1 DEF Careful, Inv, Made
<1>2. Handed'  BY DEF Careful, Inv, Handed
<1>3. Saved'
  <2> SUFFICES ASSUME NEW b \in (Live \ lost)'
               PROVE  \/ row'[b].kept
                      \/ \E q \in Recomputers : proc'[q].pc = "saving" /\ b \in proc'[q].target
    BY DEF Saved
  <2>1. CASE b \notin Live  BY <2>1 DEF Careful
  <2>2. CASE b \in Live
    <3>1. b \in Live \ lost  BY <2>2 DEF Careful
    <3>2. row[b].kept \/ \E q \in Recomputers : proc[q].pc = "saving" /\ b \in proc[q].target
      BY <3>1 DEF Inv, Saved
    <3> QED  BY <2>2, <3>2 DEF Careful
  <2> QED  BY <2>1, <2>2
<1>4. Dropped'
  <2> SUFFICES ASSUME NEW q \in Recomputers, q # p, proc'[q].pc = "forgetting"
               PROVE  Leftovers(q)' # {} /\ Leftover(q)' \notin (Live \ lost)'
    BY DEF Dropped, Careful
  <2>1. proc'[q] = proc[q]  OBVIOUS
  <2>2. Leftovers(q)' = Leftovers(q) /\ Leftover(q)' = Leftover(q)  BY <2>1 DEF Leftovers, Leftover
  <2>3. Leftovers(q) # {} /\ Leftover(q) \notin Live \ lost  BY <2>1 DEF Inv, Dropped
  <2>4. Leftover(q) \notin Unborn  BY <2>3, LeftoverIsOne DEF Inv, Made
  <2> QED  BY <2>2, <2>3, <2>4 DEF Careful
<1> QED  BY <1>1, <1>2, <1>3, <1>4 DEF Inv
-------------------------------------------------------------------------------
(* What each step makes of what its recomputation knows.                   *)
Turn(p) == Procs' /\ \A q \in Recomputers \ {p} : proc'[q] = proc[q]

LEMMA Setting ==
    ASSUME Procs, NEW p \in Recomputers, NEW x, ProcShape(x), proc' = [proc EXCEPT ![p] = x]
    PROVE  Turn(p) /\ proc'[p] = x
  BY DEF Procs, Turn

LEMMA EndsDoes ==
    ASSUME Procs, NEW p \in Recomputers, Ends(p)
    PROVE  Turn(p) /\ proc'[p] = NoProc
  BY NoProcIsOne, Setting DEF Ends

LEMMA BeginDoes ==
    ASSUME Procs, NEW p \in Recomputers, Begin(p)
    PROVE  /\ Turn(p) /\ proc'[p].pc = "begun" /\ proc'[p].day = today /\ proc'[p].using = settings
           /\ proc'[p].cal = target /\ proc'[p].wants = <<>> /\ proc'[p].rows = NoProc.rows
           /\ proc'[p].matched = {} /\ proc'[p].target = {} /\ proc'[p].settled = inStep
<1> DEFINE x == [NoProc EXCEPT !.pc = "begun", !.day = today, !.using = settings, !.cal = target,
                               !.settled = inStep]
<1>1. /\ x \in [pc : {x.pc}, day : {x.day}, using : {x.using}, cal : {x.cal}, wants : {x.wants},
                rows : {x.rows}, matched : {x.matched}, target : {x.target}, settled : {x.settled}]
      /\ x.pc = "begun" /\ x.day = today /\ x.using = settings /\ x.cal = target /\ x.settled = inStep
      /\ x.wants = NoProc.wants /\ x.target = NoProc.target /\ x.rows = NoProc.rows
      /\ x.matched = NoProc.matched
  BY NoProcIsOne DEF ProcShape
<1>2. ProcShape(x)  BY <1>1, NoProcIsOne DEF ProcShape
<1>3. proc' = [proc EXCEPT ![p] = x]  BY DEF Begin
<1> HIDE DEF x
<1> QED  BY <1>1, <1>2, <1>3, NoProcIsOne, Setting

LEMMA AskBusyDoes ==
    ASSUME Procs, NEW p \in Recomputers, AskBusy(p)
    PROVE  /\ Turn(p) /\ proc'[p].pc = "asked" /\ proc'[p].using = AnySettings
           /\ proc'[p].wants = Desired(BusyTime, proc[p].using, proc[p].day)
           /\ proc'[p].day = proc[p].day /\ proc'[p].cal = proc[p].cal /\ proc'[p].rows = proc[p].rows
           /\ proc'[p].matched = proc[p].matched /\ proc'[p].target = proc[p].target
           /\ proc'[p].settled = proc[p].settled
<1> DEFINE wants == Desired(BusyTime, proc[p].using, proc[p].day)
           x == [proc[p] EXCEPT !.pc = "asked", !.using = AnySettings, !.wants = wants]
<1>1. proc' = [proc EXCEPT ![p] = x]  BY DEF AskBusy
<1>2. ProcShape(proc[p])  BY DEF Procs
<1> HIDE DEF wants
<1>3. /\ ProcShape(x) /\ x.pc = "asked" /\ x.using = AnySettings /\ x.wants = wants
      /\ x.day = proc[p].day /\ x.cal = proc[p].cal /\ x.rows = proc[p].rows
      /\ x.matched = proc[p].matched /\ x.target = proc[p].target /\ x.settled = proc[p].settled
  BY <1>2 DEF ProcShape
<1> HIDE DEF x
<1>4. Turn(p) /\ proc'[p] = x  BY <1>1, <1>3, Setting
<1> QED  BY <1>3, <1>4 DEF wants

LEMMA ListRowsDoes ==
    ASSUME Procs, NEW p \in Recomputers, ListRows(p)
    PROVE  /\ Turn(p) /\ proc'[p].pc = "applying" /\ proc'[p].day = 0
           /\ \A b \in BlockIds : proc'[p].rows[b] = IF row[b].kept /\ InRange(row[b], proc[p].day)
                                                     THEN row[b] ELSE NoRow
           /\ proc'[p].using = proc[p].using /\ proc'[p].cal = proc[p].cal /\ proc'[p].wants = proc[p].wants
           /\ proc'[p].matched = proc[p].matched /\ proc'[p].target = proc[p].target
           /\ proc'[p].settled = proc[p].settled
<1> DEFINE rows == [b \in BlockIds |->
                       IF row[b].kept /\ InRange(row[b], proc[p].day) THEN row[b] ELSE NoRow]
           x == [proc[p] EXCEPT !.pc = "applying", !.day = 0, !.rows = rows]
<1>1. proc' = [proc EXCEPT ![p] = x]  BY DEF ListRows
<1>2. ProcShape(proc[p])  BY DEF Procs
<1>3. /\ rows = [b \in BlockIds |-> rows[b]]
      /\ \A b \in BlockIds : rows[b] = IF row[b].kept /\ InRange(row[b], proc[p].day) THEN row[b] ELSE NoRow
  OBVIOUS
<1> HIDE DEF rows
<1>4. /\ ProcShape(x) /\ x.pc = "applying" /\ x.day = 0 /\ x.rows = rows
      /\ x.using = proc[p].using /\ x.cal = proc[p].cal /\ x.wants = proc[p].wants
      /\ x.matched = proc[p].matched /\ x.target = proc[p].target /\ x.settled = proc[p].settled
  BY <1>2, <1>3 DEF ProcShape
<1> HIDE DEF x
<1>5. Turn(p) /\ proc'[p] = x  BY <1>1, <1>4, Setting
<1> QED  BY <1>3, <1>4, <1>5

LEMMA DoneDoes ==
    ASSUME Procs, NEW p \in Recomputers, NEW taken, Done(p, taken)
    PROVE  /\ Turn(p) /\ proc'[p].pc = "applying" /\ proc'[p].target = {}
           /\ proc'[p].wants = Tail(proc[p].wants) /\ proc'[p].matched = proc[p].matched \cup taken
           /\ proc'[p].day = proc[p].day /\ proc'[p].using = proc[p].using /\ proc'[p].cal = proc[p].cal
           /\ proc'[p].rows = proc[p].rows /\ proc'[p].settled = proc[p].settled
<1> DEFINE wants == Tail(proc[p].wants)
           matched == proc[p].matched \cup taken
           x == [proc[p] EXCEPT !.pc = "applying", !.wants = wants, !.matched = matched, !.target = {}]
<1>1. proc' = [proc EXCEPT ![p] = x]  BY DEF Done
<1>2. ProcShape(proc[p])  BY DEF Procs
<1> HIDE DEF wants, matched
<1>3. /\ ProcShape(x) /\ x.pc = "applying" /\ x.target = {} /\ x.wants = wants /\ x.matched = matched
      /\ x.day = proc[p].day /\ x.using = proc[p].using /\ x.cal = proc[p].cal
      /\ x.rows = proc[p].rows /\ x.settled = proc[p].settled
  BY <1>2 DEF ProcShape
<1> HIDE DEF x
<1>4. Turn(p) /\ proc'[p] = x  BY <1>1, <1>3, Setting
<1> QED  BY <1>3, <1>4 DEF wants, matched

(* It inserts or moves an event, and has it in hand.                       *)
Writes(p, pc, hand) == proc' = [proc EXCEPT ![p].pc = pc, ![p].target = hand]

LEMMA WritesDoes ==
    ASSUME Procs, NEW p \in Recomputers, NEW pc, NEW hand, Writes(p, pc, hand)
    PROVE  /\ Turn(p) /\ proc'[p].pc = pc /\ proc'[p].target = hand
           /\ proc'[p].wants = proc[p].wants /\ proc'[p].matched = proc[p].matched
           /\ proc'[p].day = proc[p].day /\ proc'[p].using = proc[p].using /\ proc'[p].cal = proc[p].cal
           /\ proc'[p].rows = proc[p].rows /\ proc'[p].settled = proc[p].settled
<1> DEFINE x == [proc[p] EXCEPT !.pc = pc, !.target = hand]
<1>1. proc' = [proc EXCEPT ![p] = x]  BY DEF Writes
<1>2. ProcShape(proc[p])  BY DEF Procs
<1>3. /\ ProcShape(x) /\ x.pc = pc /\ x.target = hand /\ x.wants = proc[p].wants
      /\ x.matched = proc[p].matched /\ x.day = proc[p].day /\ x.using = proc[p].using
      /\ x.cal = proc[p].cal /\ x.rows = proc[p].rows /\ x.settled = proc[p].settled
  BY <1>2 DEF ProcShape
<1> HIDE DEF x
<1>4. Turn(p) /\ proc'[p] = x  BY <1>1, <1>3, Setting
<1> QED  BY <1>3, <1>4

LEMMA GoesDoes ==
    ASSUME Procs, NEW p \in Recomputers, NEW pc, Goes(p, pc)
    PROVE  /\ Turn(p) /\ proc'[p].pc = pc /\ proc'[p].target = proc[p].target
           /\ proc'[p].wants = proc[p].wants /\ proc'[p].matched = proc[p].matched
           /\ proc'[p].day = proc[p].day /\ proc'[p].using = proc[p].using /\ proc'[p].cal = proc[p].cal
           /\ proc'[p].rows = proc[p].rows /\ proc'[p].settled = proc[p].settled
           /\ Leftovers(p)' = Leftovers(p) /\ Leftover(p)' = Leftover(p)
<1> DEFINE x == [proc[p] EXCEPT !.pc = pc]
<1>1. proc' = [proc EXCEPT ![p] = x]  BY DEF Goes
<1>2. ProcShape(proc[p])  BY DEF Procs
<1>3. /\ ProcShape(x) /\ x.pc = pc /\ x.target = proc[p].target /\ x.wants = proc[p].wants
      /\ x.matched = proc[p].matched /\ x.day = proc[p].day /\ x.using = proc[p].using
      /\ x.cal = proc[p].cal /\ x.rows = proc[p].rows /\ x.settled = proc[p].settled
  BY <1>2 DEF ProcShape
<1> HIDE DEF x
<1>4. Turn(p) /\ proc'[p] = x  BY <1>1, <1>3, Setting
<1> QED  BY <1>3, <1>4 DEF Leftovers, Leftover

LEMMA DeleteRowDoes ==
    ASSUME Procs, NEW p \in Recomputers, DeleteRow(p), Leftover(p) \in BlockIds
    PROVE  /\ Turn(p) /\ proc'[p].pc = "applying" /\ proc'[p].rows[Leftover(p)] = NoRow
           /\ \A b \in BlockIds \ {Leftover(p)} : proc'[p].rows[b] = proc[p].rows[b]
           /\ proc'[p].target = proc[p].target
           /\ proc'[p].wants = proc[p].wants /\ proc'[p].matched = proc[p].matched
           /\ proc'[p].day = proc[p].day /\ proc'[p].using = proc[p].using /\ proc'[p].cal = proc[p].cal
           /\ proc'[p].settled = proc[p].settled
<1> DEFINE b == Leftover(p)
           rows == [proc[p].rows EXCEPT ![b] = NoRow]
           x == [proc[p] EXCEPT !.pc = "applying", !.rows = rows]
<1>1. proc' = [proc EXCEPT ![p] = x]  BY DEF DeleteRow
<1>2. ProcShape(proc[p])  BY DEF Procs
<1> HIDE DEF b
<1>3. /\ rows = [c \in BlockIds |-> rows[c]] /\ rows[b] = NoRow
      /\ \A c \in BlockIds \ {b} : rows[c] = proc[p].rows[c]
  BY <1>2 DEF ProcShape, b
<1> HIDE DEF rows
<1>4. /\ ProcShape(x) /\ x.pc = "applying" /\ x.rows = rows /\ x.target = proc[p].target
      /\ x.wants = proc[p].wants /\ x.matched = proc[p].matched /\ x.day = proc[p].day
      /\ x.using = proc[p].using /\ x.cal = proc[p].cal /\ x.settled = proc[p].settled
  BY <1>2, <1>3 DEF ProcShape
<1> HIDE DEF x
<1>5. Turn(p) /\ proc'[p] = x  BY <1>1, <1>4, Setting
<1> QED  BY <1>3, <1>4, <1>5 DEF b
-------------------------------------------------------------------------------
(* No event is lost sight of.                                              *)
LEMMA BeginStep ==
    ASSUME Inv, NEW p \in Recomputers, Begin(p)
    PROVE  Inv'
<1>1. UNCHANGED <<block, row, lost>> /\ proc[p].pc = "idle"  BY DEF Begin, Idle
<1>2. Shape' /\ Turn(p)  BY <1>1, BeginDoes DEF Inv, Shape, Turn
<1>3. Careful(p)
  BY <1>1, BeginDoes, NoProcIsOne DEF Careful, Live, Unborn, Inv, Made, Shape
<1> QED  BY <1>2, <1>3, CarefulStep DEF Turn

LEMMA AskBusyStep ==
    ASSUME Inv, NEW p \in Recomputers, AskBusy(p)
    PROVE  Inv'
<1>1. UNCHANGED <<block, row, lost>> /\ proc[p].pc = "begun"  BY DEF AskBusy
<1>2. Shape' /\ Turn(p)  BY <1>1, AskBusyDoes DEF Inv, Shape, Turn
<1>3. Careful(p)  BY <1>1, AskBusyDoes DEF Careful, Live, Unborn, Inv, Made, Handed, Shape
<1> QED  BY <1>2, <1>3, CarefulStep DEF Turn

LEMMA ListRowsStep ==
    ASSUME Inv, NEW p \in Recomputers, ListRows(p)
    PROVE  Inv'
<1>1. UNCHANGED <<block, row, lost>> /\ proc[p].pc = "asked"  BY DEF ListRows
<1>2. Shape' /\ Turn(p)  BY <1>1, ListRowsDoes DEF Inv, Shape, Turn
<1>3. \A b \in BlockIds : proc'[p].rows[b].kept => row[b].kept
  BY ListRowsDoes DEF Inv, Shape, NoRow
<1>4. proc'[p].pc = "applying" /\ proc'[p].target = proc[p].target  BY ListRowsDoes DEF Inv, Shape
<1>5. Careful(p)  BY <1>1, <1>3, <1>4 DEF Careful, Live, Unborn, Inv, Made, Handed
<1> QED  BY <1>2, <1>5, CarefulStep DEF Turn

LEMMA UnchangedStep ==
    ASSUME Inv, NEW p \in Recomputers, Unchanged(p)
    PROVE  Inv'
<1>1. UNCHANGED <<block, row, lost>> /\ proc[p].pc = "applying" /\ Done(p, {Match(p)})
  BY DEF Unchanged, Unchanging, Applies
<1>2. Shape' /\ Turn(p)  BY <1>1, DoneDoes DEF Inv, Shape, Turn
<1>3. Careful(p)  BY <1>1, DoneDoes DEF Careful, Live, Unborn, Inv, Made, Shape
<1> QED  BY <1>2, <1>3, CarefulStep DEF Turn

(* A new event.                                                            *)
LEMMA Inserting ==
    ASSUME Shape, NEW p \in Recomputers, Unborn # {}, block' = [block EXCEPT ![FreshId] = Event(p)]
    PROVE  /\ block' = [b \in BlockIds |-> block'[b]] /\ \A b \in BlockIds : BlockShape(block'[b])
           /\ FreshId \in BlockIds /\ FreshId \in Unborn /\ FreshId \notin Live
           /\ Unborn' = Unborn \ {FreshId} /\ Live' = Live \cup {FreshId}
           /\ block'[FreshId] = Event(p) /\ \A b \in BlockIds \ {FreshId} : block'[b] = block[b]
<1>1. FreshId \in BlockIds /\ FreshId \in Unborn  BY FreshIsUnborn
<1>2. BlockShape(Event(p)) /\ Event(p).state = "live"  BY DEF Event, BlockShape
<1>3. /\ block' = [b \in BlockIds |-> block'[b]] /\ block'[FreshId] = Event(p)
      /\ \A b \in BlockIds \ {FreshId} : block'[b] = block[b]
  BY <1>1 DEF Shape
<1>4. Unborn' = Unborn \ {FreshId} /\ Live' = Live \cup {FreshId} /\ FreshId \notin Live
  BY <1>1, <1>2, <1>3 DEF Unborn, Live
<1> QED  BY <1>1, <1>2, <1>3, <1>4 DEF Shape

LEMMA InsertEventStep ==
    ASSUME Inv, NEW p \in Recomputers, InsertEvent(p)
    PROVE  Inv'
<1>1. /\ Writes(p, "saving", {FreshId})
      /\ block' = [block EXCEPT ![FreshId] = Event(p)]
      /\ UNCHANGED <<row, lost>> /\ proc[p].pc = "applying" /\ Unborn # {}
  BY DEF InsertEvent, Inserts, Applies, Writes
<1>2. /\ Turn(p) /\ proc'[p].pc = "saving" /\ proc'[p].target = {FreshId} /\ proc'[p].rows = proc[p].rows
  BY <1>1, WritesDoes DEF Inv, Shape
<1>3. Shape'  BY <1>1, <1>2, Inserting DEF Inv, Shape, Turn
<1>4. Careful(p)  BY <1>1, <1>2, Inserting DEF Careful, Inv, Made
<1> QED  BY <1>2, <1>3, <1>4, CarefulStep DEF Turn

LEMMA InsertRowStep ==
    ASSUME Inv, NEW p \in Recomputers, InsertRow(p)
    PROVE  Inv'
<1> DEFINE new == RowOf(Wanted(p))
<1>1. /\ row' = [b \in BlockIds |-> IF b \in proc[p].target THEN new ELSE row[b]]
      /\ UNCHANGED <<block, lost>> /\ Done(p, {})
  BY DEF InsertRow
<1>n. new.kept  BY DEF RowOf
<1> HIDE DEF new
<1>2. /\ Turn(p) /\ proc'[p].pc = "applying" /\ proc'[p].target = {} /\ proc'[p].rows = proc[p].rows
  BY <1>1, DoneDoes DEF Inv, Shape
<1>3. Shape'  BY <1>1, <1>2 DEF Inv, Shape, Turn
<1>4. Unborn \subseteq BlockIds /\ Live \subseteq BlockIds /\ Unborn' = Unborn /\ Live' = Live
  BY <1>1 DEF Unborn, Live
<1>5. Careful(p)  BY <1>1, <1>n, <1>2, <1>4 DEF Careful, Inv, Made
<1> QED  BY <1>2, <1>3, <1>5, CarefulStep DEF Turn

(* An event that is moved was there, and stays.                            *)
LEMMA Moving ==
    ASSUME Shape, NEW p \in Recomputers, NEW b \in Live, block' = [block EXCEPT ![b] = Event(p)]
    PROVE  /\ block' = [c \in BlockIds |-> block'[c]] /\ \A c \in BlockIds : BlockShape(block'[c])
           /\ Unborn' = Unborn /\ Live' = Live
           /\ block'[b] = Event(p) /\ \A c \in BlockIds \ {b} : block'[c] = block[c]
<1>1. BlockShape(Event(p)) /\ Event(p).state = "live"  BY DEF Event, BlockShape
<1>2. b \in BlockIds /\ block[b].state = "live"  BY DEF Live
<1>3. /\ block' = [c \in BlockIds |-> block'[c]] /\ block'[b] = Event(p)
      /\ \A c \in BlockIds \ {b} : block'[c] = block[c]
  BY <1>2 DEF Shape
<1> QED  BY <1>1, <1>2, <1>3 DEF Shape, Unborn, Live

LEMMA UpdateEventStep ==
    ASSUME Inv, NEW p \in Recomputers, UpdateEvent(p)
    PROVE  Inv'
<1> DEFINE b == Match(p)
<1>1. /\ Writes(p, "moving", {b})
      /\ block' = [block EXCEPT ![b] = Event(p)] /\ b \in Live
      /\ UNCHANGED <<row, lost>> /\ proc[p].pc = "applying"
  BY DEF UpdateEvent, Updates, Applies, Found, Writes
<1> HIDE DEF b
<1>2. Turn(p) /\ proc'[p].pc = "moving" /\ proc'[p].target = {b} /\ proc'[p].rows = proc[p].rows
  BY <1>1, WritesDoes DEF Inv, Shape
<1>3. Shape'  BY <1>1, <1>2, Moving DEF Inv, Shape, Turn
<1>4. Unborn' = Unborn /\ Live' = Live /\ b \notin Unborn
  BY <1>1, Moving DEF Inv, Live, Unborn
<1>5. Careful(p)  BY <1>1, <1>2, <1>4 DEF Careful, Inv, Made
<1> QED  BY <1>2, <1>3, <1>5, CarefulStep DEF Turn

LEMMA UpdateRowStep ==
    ASSUME Inv, NEW p \in Recomputers, UpdateRow(p)
    PROVE  Inv'
<1> DEFINE new == RowOf(Wanted(p))
<1>1. /\ row' = [b \in BlockIds |-> IF b \in proc[p].target /\ row[b].kept THEN new ELSE row[b]]
      /\ lost \subseteq lost' /\ UNCHANGED block /\ Done(p, proc[p].target) /\ proc[p].pc = "moving"
  BY DEF UpdateRow
<1>n. new.kept  BY DEF RowOf
<1> HIDE DEF new
<1>2. Turn(p) /\ proc'[p].pc = "applying" /\ proc'[p].target = {} /\ proc'[p].rows = proc[p].rows
  BY <1>1, DoneDoes DEF Inv, Shape
<1>3. Shape'  BY <1>1, <1>2 DEF Inv, Shape, Turn
<1>4. Unborn \subseteq BlockIds /\ Live \subseteq BlockIds /\ Unborn' = Unborn /\ Live' = Live
  BY <1>1 DEF Unborn, Live
<1>5. Careful(p)  BY <1>1, <1>n, <1>2, <1>4 DEF Careful, Inv, Made
<1> QED  BY <1>2, <1>3, <1>5, CarefulStep DEF Turn

(* The ways in which a recomputation fails: it leaves everything as it is, *)
(* or an event it had in hand, a new one, or one it has moved.             *)
LEMMA FailsDoes ==
    ASSUME Procs, NEW p \in Recomputers, Fails(p)
    PROVE  /\ Turn(p) /\ proc'[p] = NoProc /\ alone' = {} /\ UNCHANGED <<given, row, inStep>>
           /\ proc[p].pc \in {"begun", "asked", "applying", "saving", "moving"}
           /\ upsets' = upsets \/ Upset
           /\ \/ UNCHANGED <<block, lost>> /\ proc[p].pc \notin {"saving", "moving"}
              \/ lost' = lost \cup proc[p].target /\ UNCHANGED block /\ proc[p].pc \in {"saving", "moving"}
              \/ /\ Unborn # {} /\ block' = [block EXCEPT ![FreshId] = Event(p)]
                 /\ lost' = lost \cup {FreshId} /\ proc[p].pc = "applying" /\ proc[p].wants # <<>>
              \/ /\ Match(p) \in Live /\ block' = [block EXCEPT ![Match(p)] = Event(p)]
                 /\ lost' = lost \cup {Match(p)} /\ proc[p].pc = "applying" /\ proc[p].wants # <<>>
                 /\ Matches(p) # {}
<1>1. Turn(p) /\ proc'[p] = NoProc  BY EndsDoes DEF Fails
<1>2. alone' = {} /\ UNCHANGED <<given, row, inStep>>  BY DEF Fails
<1>3. \/ UNCHANGED <<block, lost>> /\ proc[p].pc \in {"begun", "asked", "applying"}
      \/ lost' = lost \cup proc[p].target /\ UNCHANGED block /\ proc[p].pc \in {"saving", "moving"}
      \/ /\ Unborn # {} /\ block' = [block EXCEPT ![FreshId] = Event(p)]
         /\ lost' = lost \cup {FreshId} /\ proc[p].pc = "applying" /\ proc[p].wants # <<>>
      \/ /\ Match(p) \in Live /\ block' = [block EXCEPT ![Match(p)] = Event(p)]
         /\ lost' = lost \cup {Match(p)} /\ proc[p].pc = "applying" /\ proc[p].wants # <<>>
         /\ Matches(p) # {}
  BY DEF Fails, Applies, Inserts, Updates, Found
<1>4. upsets' = upsets \/ Upset  BY DEF Fails, Upset
<1> QED  BY <1>1, <1>2, <1>3, <1>4

LEMMA FailsStep ==
    ASSUME Inv, NEW p \in Recomputers, Fails(p)
    PROVE  Inv'
<1>e. Turn(p) /\ proc'[p] = NoProc /\ UNCHANGED row  BY FailsDoes DEF Inv, Shape
<1>1. CASE UNCHANGED <<block, lost>> /\ proc[p].pc # "saving"
  <2>1. Shape'  BY <1>e, <1>1 DEF Inv, Shape, Turn
  <2>2. Careful(p)  BY <1>e, <1>1, NoProcIsOne DEF Careful, Live, Unborn, Inv, Made
  <2> QED  BY <1>e, <2>1, <2>2, CarefulStep DEF Turn
<1>2. CASE lost' = lost \cup proc[p].target /\ UNCHANGED block
  <2>1. Shape'  BY <1>e, <1>2 DEF Inv, Shape, Turn
  <2>2. Careful(p)  BY <1>e, <1>2, NoProcIsOne DEF Careful, Live, Unborn, Inv, Made
  <2> QED  BY <1>e, <2>1, <2>2, CarefulStep DEF Turn
<1>3. CASE /\ Unborn # {} /\ block' = [block EXCEPT ![FreshId] = Event(p)] /\ lost' = lost \cup {FreshId}
           /\ proc[p].pc = "applying"
  <2>1. Shape'  BY <1>e, <1>3, Inserting DEF Inv, Shape, Turn
  <2>2. Careful(p)  BY <1>e, <1>3, Inserting, NoProcIsOne DEF Careful, Inv, Made, Unborn
  <2> QED  BY <1>e, <2>1, <2>2, CarefulStep DEF Turn
<1>4. CASE /\ Match(p) \in Live /\ block' = [block EXCEPT ![Match(p)] = Event(p)]
           /\ lost' = lost \cup {Match(p)} /\ proc[p].pc = "applying"
  <2>1. Unborn' = Unborn /\ Live' = Live  BY <1>4, Moving DEF Inv
  <2>2. Shape'  BY <1>e, <1>4, Moving DEF Inv, Shape, Turn
  <2>3. Careful(p)  BY <1>e, <1>4, <2>1, NoProcIsOne DEF Careful, Inv, Made, Unborn
  <2> QED  BY <1>e, <2>2, <2>3, CarefulStep DEF Turn
<1> QED  BY <1>1, <1>2, <1>3, <1>4, FailsDoes DEF Inv, Shape

(* The events no window took: first the event is deleted, or is known to   *)
(* be left behind, then the row.                                           *)
LEMMA Removing ==
    ASSUME Shape, NEW b \in BlockIds, b \notin Unborn, block' = Removed(b)
    PROVE  /\ block' = [c \in BlockIds |-> block'[c]] /\ \A c \in BlockIds : BlockShape(block'[c])
           /\ Live' = Live \ {b} /\ Unborn' = Unborn
           /\ block'[b].window = block[b].window /\ block'[b].cal = block[b].cal
           /\ block'[b].state = "deleted"
           /\ \A c \in BlockIds \ {b} : block'[c] = block[c]
<1> DEFINE e == [block[b] EXCEPT !.state = "deleted"]
<1>1. block' = [block EXCEPT ![b] = e]  BY DEF Removed
<1>2. BlockShape(block[b])  BY DEF Shape
<1>3. BlockShape(e) /\ e.state = "deleted" /\ e.window = block[b].window /\ e.cal = block[b].cal
  BY <1>2 DEF BlockShape
<1> HIDE DEF e
<1>4. /\ block' = [c \in BlockIds |-> block'[c]] /\ block'[b] = e
      /\ \A c \in BlockIds \ {b} : block'[c] = block[c]
  BY <1>1 DEF Shape
<1>5. Live' = Live \ {b} /\ Unborn' = Unborn  BY <1>3, <1>4 DEF Live, Unborn
<1> QED  BY <1>3, <1>4, <1>5 DEF Shape

LEMMA DeleteEventStep ==
    ASSUME Inv, NEW p \in Recomputers, DeleteEvent(p)
    PROVE  Inv'
<1> DEFINE b == Leftover(p)
<1>1. Goes(p, "forgetting") /\ UNCHANGED row /\ proc[p].pc = "applying" /\ Leftovers(p) # {}
  BY DEF DeleteEvent, Removes
<1>2. b \in BlockIds /\ b \notin Unborn  BY <1>1, LeftoverIsOne DEF Inv, Made
<1>3. /\ Turn(p) /\ proc'[p].pc = "forgetting" /\ proc'[p].rows = proc[p].rows
      /\ proc'[p].target = proc[p].target
      /\ Leftovers(p)' = Leftovers(p) /\ Leftover(p)' = b
  BY <1>1, GoesDoes DEF Inv, Shape
<1> HIDE DEF b
<1>4. proc[p].target = {}  BY <1>1 DEF Inv, Handed
<1>5. CASE block' = Removed(b) /\ UNCHANGED lost
  <2>1. Shape'  BY <1>1, <1>2, <1>3, <1>5, Removing DEF Inv, Shape, Turn
  <2>2. Live' = Live \ {b} /\ Unborn' = Unborn  BY <1>2, <1>5, Removing DEF Inv
  <2>3. Careful(p)  BY <1>1, <1>3, <1>4, <1>5, <2>2 DEF Careful, Inv, Made
  <2> QED  BY <1>3, <2>1, <2>3, CarefulStep DEF Turn
<1>6. CASE UNCHANGED block /\ lost' = lost \cup {b}
  <2>1. Shape'  BY <1>1, <1>3, <1>6 DEF Inv, Shape, Turn
  <2>2. Live' = Live /\ Unborn' = Unborn  BY <1>6 DEF Live, Unborn
  <2>3. Careful(p)  BY <1>1, <1>3, <1>4, <1>6, <2>2 DEF Careful, Inv, Made
  <2> QED  BY <1>3, <2>1, <2>3, CarefulStep DEF Turn
<1> QED  BY <1>5, <1>6 DEF DeleteEvent, b

LEMMA DeleteRowStep ==
    ASSUME Inv, NEW p \in Recomputers, DeleteRow(p)
    PROVE  Inv'
<1> DEFINE b == Leftover(p)
<1>1. /\ UNCHANGED block
      /\ \/ row' = [row EXCEPT ![b] = NoRow] /\ UNCHANGED lost
         \/ UNCHANGED row /\ lost' = lost \cup {b}
      /\ proc[p].pc = "forgetting"
  BY DEF DeleteRow
<1>2. b \in BlockIds /\ b \notin Live \ lost  BY <1>1, LeftoverIsOne DEF Inv, Dropped
<1>3. /\ Turn(p) /\ proc'[p].pc = "applying" /\ proc'[p].target = proc[p].target
      /\ \A c \in BlockIds : proc'[p].rows[c].kept => proc[p].rows[c].kept
  BY <1>2, DeleteRowDoes DEF Inv, Shape, NoRow
<1> HIDE DEF b
<1>4. /\ row' = [c \in BlockIds |-> row'[c]]
      /\ \A c \in BlockIds : (row'[c].kept => row[c].kept) /\ (c # b => row'[c] = row[c])
  BY <1>1, <1>2 DEF Inv, Shape, NoRow
<1>5. Shape'  BY <1>1, <1>3, <1>4 DEF Inv, Shape, Turn
<1>6. Live' = Live /\ Unborn' = Unborn /\ Live \subseteq BlockIds /\ Unborn \subseteq BlockIds
  BY <1>1 DEF Live, Unborn
<1>7. proc[p].target = {}  BY <1>1 DEF Inv, Handed
<1>8. Careful(p)  BY <1>1, <1>2, <1>3, <1>4, <1>6, <1>7 DEF Careful, Inv, Made
<1> QED  BY <1>3, <1>5, <1>8, CarefulStep DEF Turn

LEMMA FinishStep ==
    ASSUME Inv, NEW p \in Recomputers, Finish(p)
    PROVE  Inv'
<1>1. UNCHANGED <<block, row, lost>> /\ Ends(p) /\ proc[p].pc = "applying"  BY DEF Finish
<1>2. Turn(p) /\ proc'[p] = NoProc  BY <1>1, EndsDoes DEF Inv, Shape
<1>3. Shape'  BY <1>1, <1>2 DEF Inv, Shape, Turn
<1>4. Careful(p)  BY <1>1, <1>2, NoProcIsOne DEF Careful, Live, Unborn, Inv, Made
<1> QED  BY <1>2, <1>3, <1>4, CarefulStep DEF Turn

-------------------------------------------------------------------------------
(* What is not a recomputation's.                                          *)
LEMMA IdleStep == Inv /\ UNCHANGED <<block, row, proc, lost>> => Inv'
<1> SUFFICES ASSUME Inv, UNCHANGED <<block, row, proc, lost>>  PROVE Inv'  OBVIOUS
<1>1. Live' = Live /\ Unborn' = Unborn  BY DEF Live, Unborn
<1>2. Shape' /\ Handed'  BY DEF Inv, Shape, Procs, Handed
<1>3. Made'  BY <1>1 DEF Inv, Made
<1>4. Saved'  BY <1>1 DEF Inv, Saved
<1>5. Dropped'  BY <1>1 DEF Inv, Dropped, Leftovers, Leftover
<1> QED  BY <1>2, <1>3, <1>4, <1>5 DEF Inv

LEMMA DeleteBlockStep ==
    ASSUME Inv, DeleteBlock
    PROVE  Inv'
<1>1. /\ row' = [b \in BlockIds |-> NoRow] /\ lost' = lost \cup {b \in BlockIds : row[b].kept}
      /\ UNCHANGED <<block, proc>>
  BY DEF DeleteBlock, Edit
<1>2. Live' = Live /\ Unborn' = Unborn /\ Live \subseteq BlockIds /\ Unborn \subseteq BlockIds
  BY <1>1 DEF Live, Unborn
<1>3. Shape' /\ Handed'  BY <1>1 DEF Inv, Shape, Procs, Handed
<1>4. Made'  BY <1>1, <1>2 DEF Inv, Made, NoRow
<1>5. Saved'  BY <1>1, <1>2 DEF Inv, Saved
<1>6. Dropped'  BY <1>1, <1>2 DEF Inv, Dropped, Leftovers, Leftover
<1> QED  BY <1>3, <1>4, <1>5, <1>6 DEF Inv

(* What the stopped had in hand counts as lost.                            *)
LEMMA StopStep ==
    ASSUME Inv, NEW gone \in SUBSET Recomputers, Stop(gone)
    PROVE  Inv'
<1>1. /\ proc' = [p \in Recomputers |-> IF p \in gone THEN NoProc ELSE proc[p]]
      /\ lost' = lost \cup Unsaved(gone) /\ UNCHANGED <<block, row>>
  BY DEF Stop
<1>2. Live' = Live /\ Unborn' = Unborn /\ Live \subseteq BlockIds /\ Unborn \subseteq BlockIds
  BY <1>1 DEF Live, Unborn
<1>3. \A p \in Recomputers : proc'[p] \in {NoProc, proc[p]} /\ (p \notin gone => proc'[p] = proc[p])
  BY <1>1
<1>4. Shape' /\ Handed'  BY <1>1, <1>3, NoProcIsOne DEF Inv, Shape, Procs, Handed
<1>5. Made'  BY <1>1, <1>2, <1>3, NoProcIsOne DEF Inv, Made
<1>6. Saved'
  <2> SUFFICES ASSUME NEW b \in (Live \ lost)', ~row'[b].kept
               PROVE  \E p \in Recomputers : proc'[p].pc = "saving" /\ b \in proc'[p].target
    BY DEF Saved
  <2>1. PICK p \in Recomputers : proc[p].pc = "saving" /\ b \in proc[p].target
    BY <1>1, <1>2 DEF Inv, Saved
  <2>2. p \notin gone  BY <1>1, <2>1 DEF Unsaved
  <2> QED  BY <1>3, <2>1, <2>2
<1>7. Dropped'
  <2> SUFFICES ASSUME NEW p \in Recomputers, proc'[p].pc = "forgetting"
               PROVE  Leftovers(p)' # {} /\ Leftover(p)' \notin (Live \ lost)'
    BY DEF Dropped
  <2>1. proc'[p] = proc[p]  BY <1>3, NoProcIsOne
  <2>2. Leftovers(p)' = Leftovers(p) /\ Leftover(p)' = Leftover(p)  BY <2>1 DEF Leftovers, Leftover
  <2> QED  BY <1>1, <1>2, <2>1, <2>2 DEF Inv, Dropped
<1> QED  BY <1>4, <1>5, <1>6, <1>7 DEF Inv
-------------------------------------------------------------------------------
LEMMA InitInv == Init => Inv
<1> SUFFICES ASSUME Init  PROVE Inv  OBVIOUS
<1>1. Live = {} /\ \A b \in BlockIds : ~row[b].kept  BY DEF Init, Live, NoRow
<1>2. \A p \in Recomputers : proc[p] = NoProc  BY DEF Init
<1>3. Shape
  <2>1. block = [b \in BlockIds |-> [state |-> "unborn", window |-> NoRow, cal |-> AnyTarget]]  BY DEF Init
  <2>2. \A b \in BlockIds : BlockShape(block[b])  BY <2>1 DEF BlockShape
  <2>3. block = [b \in BlockIds |-> block[b]]  BY <2>1
  <2> QED  BY <1>2, <2>2, <2>3, NoProcIsOne DEF Init, Shape, Procs
<1>4. Made  BY <1>1, <1>2, NoProcIsOne DEF Made, Unborn
<1>5. Handed /\ Saved /\ Dropped  BY <1>1, <1>2, NoProcIsOne DEF Handed, Saved, Dropped
<1> QED  BY <1>3, <1>4, <1>5 DEF Inv

LEMMA NextInv == Inv /\ [Next]_vars => Inv'
<1> SUFFICES ASSUME Inv, [Next]_vars  PROVE Inv'  OBVIOUS
<1>1. CASE EditMeetings \/ EditBlock \/ Toggle \/ Midnight
  BY <1>1, IdleStep DEF EditMeetings, EditBlock, Toggle, Midnight, Edit
<1>2. CASE DeleteBlock  BY <1>2, DeleteBlockStep
<1>3. ASSUME NEW p \in Recomputers, Begin(p)  PROVE Inv'  BY <1>3, BeginStep
<1>4. ASSUME NEW p \in Recomputers, Recompute(p)  PROVE Inv'
  BY <1>4, AskBusyStep, ListRowsStep, UnchangedStep, InsertEventStep, InsertRowStep, UpdateEventStep,
     UpdateRowStep, FailsStep, DeleteEventStep, DeleteRowStep, FinishStep
     DEF Recompute
<1>5. ASSUME NEW p \in Recomputers, Stop({p})  PROVE Inv'
  <2>1. {p} \in SUBSET Recomputers  OBVIOUS
  <2> QED  BY <1>5, <2>1, StopStep
<1>6. CASE Stop(Recomputers)
  <2>1. Recomputers \in SUBSET Recomputers  OBVIOUS
  <2> QED  BY <1>6, <2>1, StopStep
<1>7. CASE UNCHANGED vars  BY <1>7, IdleStep DEF vars
<1> QED  BY <1>1, <1>2, <1>3, <1>4, <1>5, <1>6, <1>7 DEF Next

(* Whatever recomputations overlap, fail or are cut off, and whatever the  *)
(* user edits meanwhile: every event of Recompute is named by a            *)
(* managed_block row, or is about to be, except those that a lost answer,  *)
(* a failed write or deletion, a stop, a change of the target calendar or  *)
(* the deletion of the smart block has left behind, or that one            *)
(* recomputation has moved under another.                                  *)
THEOREM BlocksAreKnown == Spec => []EveryBlockKnown
<1>1. Inv => EveryBlockKnown  BY DEF Inv, Saved, EveryBlockKnown
<1> QED  BY <1>1, InitInv, NextInv, PTL DEF Spec
-------------------------------------------------------------------------------
(* What an undisturbed recomputation shows.  Of the window arithmetic this *)
(* takes only that the plans are apart, which TLC evaluates; the target    *)
(* calendar must not be its own source.                                    *)
Plans == ~OwnSource /\ PlansApart

IsPlan(slots, day) ==
    /\ slots \in Seq(Windows)
    /\ \A i \in DOMAIN slots : InRange(slots[i], day)
    /\ \A i, j \in DOMAIN slots : Overlap(slots[i], slots[j]) => i = j

(* All but the first k windows are still to be placed.                     *)
Left(wants, slots, k) ==
    /\ k \in 0..Len(slots) /\ Len(wants) = Len(slots) - k
    /\ \A i \in 1..Len(wants) : wants[i] = slots[k + i]

(* The rows of these events are those of the first k windows, each once.   *)
Fit(rows, slots, shown, k) ==
    /\ \A b \in shown : \E i \in 1..k : rows[b] = RowOf(slots[i])
    /\ \A i \in 1..k : \E b \in shown : rows[b] = RowOf(slots[i])
    /\ \A b1, b2 \in shown : rows[b1] = rows[b2] => b1 = b2

Current == {b \in BlockIds : row[b].kept /\ InRange(row[b], today)}
Placed(p) == Current \ Leftovers(p)

(* What a recomputation writes, it was asked to.                           *)
Holding ==
    \A p \in Recomputers : proc[p].pc \in {"saving", "moving"} =>
        /\ proc[p].wants # <<>>
        /\ \E b \in BlockIds : proc[p].target = {b} /\ (proc[p].pc = "moving" => b \in Leftovers(p))

(* A new event is known only to the one who inserted it.                   *)
Hidden(p, b) ==
    /\ block[b].state = "live" /\ block[b].window = Wanted(p) /\ ~row[b].kept
    /\ \A q \in Recomputers : ~proc[q].rows[b].kept /\ (q # p => b \notin proc[q].target)
Secret == \A p \in Recomputers : proc[p].pc = "saving" => \A b \in proc[p].target : Hidden(p, b)

(* As long as no event is lost, the rows say where the events are.         *)
Forgets(q, b) == proc[q].pc = "forgetting" /\ Leftover(q) = b
Moves(q, b) == proc[q].pc = "moving" /\ b \in proc[q].target
Truthful(b) ==
    /\ b \in Live \/ \E q \in Recomputers : Forgets(q, b)
    /\ b \in Live => row[b] = RowOf(block[b].window) \/ \E q \in Recomputers : Moves(q, b)
InPlace == lost = {} => \A b \in BlockIds : row[b].kept => Truthful(b)

Lone ==
    /\ \A p \in alone : ~Idle(p) /\ \A q \in Recomputers \ {p} : Idle(q)
    /\ inStep => \A q \in Recomputers : Idle(q)

(* An undisturbed recomputation: of the rows of the coming days those it   *)
(* has placed are as planned, and the others as it read them.              *)
Course(p) ==
    /\ proc[p].pc = "begun" =>
          proc[p].using = settings /\ proc[p].day = today /\ proc[p].matched = {}
    /\ proc[p].pc = "asked" =>
          proc[p].day = today /\ proc[p].matched = {} /\ Left(proc[p].wants, Slots, 0)
    /\ proc[p].pc \in {"applying", "saving", "moving", "forgetting"} =>
          /\ \E k \in 0..Len(Slots) : Left(proc[p].wants, Slots, k) /\ Fit(row, Slots, Placed(p), k)
          /\ \A b \in Leftovers(p) : row[b] = proc[p].rows[b] /\ InRange(row[b], today)
OnCourse == \A p \in alone : Course(p)

(* One that began in step finds the rows as it wants them.                 *)
Tuned(p) ==
    proc[p].settled => /\ proc[p].pc \in {"begun", "asked", "applying"}
                       /\ Fit(row, Slots, Current, Len(Slots))
InTune == \A p \in alone : Tuned(p)
Settled == inStep => Fit(row, Slots, Current, Len(Slots))

Ordered == TypeOK /\ Holding /\ Secret /\ InPlace /\ Lone /\ OnCourse /\ InTune /\ Settled
-------------------------------------------------------------------------------
(* Windows, plans and matches.                                             *)
LEMMA TimesAre == Times \subseteq Nat  BY DEF Times

LEMMA WindowFacts ==
    ASSUME NEW w \in Windows
    PROVE  /\ w.start \in Nat /\ w.end \in Nat /\ w.start < w.end
           /\ RowOf(w) \in Rows /\ RowOf(w).kept /\ RowOf(w).start = w.start /\ RowOf(w).end = w.end
  BY TimesAre DEF Windows, RowOf, Rows

LEMMA RowFacts ==
    ASSUME NEW r \in Rows, r.kept
    PROVE  /\ r.start \in Times /\ r.end \in Times /\ r.start \in Nat /\ r.end \in Nat /\ r.start < r.end
           /\ \A w : Same(r, w) => r = RowOf(w)
<1>n. ~NoRow.kept  BY DEF NoRow
<1>1. r \in [kept : {TRUE}, start : Times, end : Times] /\ r.start < r.end  BY <1>n DEF Rows
<1>2. r = [kept |-> TRUE, start |-> r.start, end |-> r.end]  BY <1>1
<1> QED  BY <1>1, <1>2, TimesAre DEF Same, RowOf

(* (tlapm does not find the library's theorems by their names beside a     *)
(* LOCAL INSTANCE of SequencesExt, as SmartBlocks has one.)                *)
WF == INSTANCE WellFoundedInduction

LEMMA LeastExists ==
    ASSUME NEW S \in SUBSET Nat, S # {}
    PROVE  \E m \in S : \A n \in S : m <= n
<1>1. S \subseteq Nat  OBVIOUS
<1>2. PICK m \in S : \A n \in S : <<n, m>> \notin WF!OpToRel(<, Nat)
  BY <1>1, WF!WFMin, WF!NatLessThanWellFounded, Zenon
<1>3. \A n \in S : ~(n < m)  BY <1>1, <1>2, Zenon DEF WF!OpToRel
<1>4. \A n \in S : n \in Nat /\ m \in Nat  BY <1>1
<1> QED  BY <1>3, <1>4

LEMMA MatchIs ==
    ASSUME TypeOK, NEW p \in Recomputers, Matches(p) # {}
    PROVE  /\ Match(p) \in Matches(p) /\ Match(p) \in Leftovers(p) /\ Match(p) \in BlockIds
           /\ proc[p].rows[Match(p)].kept
<1> DEFINE starts == {proc[p].rows[b].start : b \in Matches(p)}
<1>1. \A b \in Matches(p) : /\ b \in BlockIds /\ b \in Leftovers(p)
                            /\ proc[p].rows[b].kept /\ proc[p].rows[b] \in Rows
  BY DEF Matches, Leftovers, TypeOK
<1>2. starts \subseteq Times /\ starts # {}  BY <1>1, RowFacts
<1>3. starts \in SUBSET Nat  BY <1>2, TimesAre
<1> HIDE DEF starts
<1>4. PICK m \in starts : \A n \in starts : m <= n  BY <1>2, <1>3, LeastExists
<1>5. PICK b \in Matches(p) : m = proc[p].rows[b].start  BY DEF starts
<1>6. \A x \in Matches(p) : proc[p].rows[b].start <= proc[p].rows[x].start  BY <1>4, <1>5 DEF starts
<1>7. Match(p) \in Matches(p)  BY <1>6 DEF Match
<1> QED  BY <1>1, <1>7

LEMMA LeftNext ==
    ASSUME NEW slots \in Seq(Windows), NEW wants \in Seq(Windows), wants # <<>>, NEW k, Left(wants, slots, k)
    PROVE  /\ k \in Nat /\ k + 1 \in 1..Len(slots) /\ k + 1 \in DOMAIN slots
           /\ Head(wants) = slots[k + 1] /\ Left(Tail(wants), slots, k + 1)
<1>1. k \in Nat /\ Len(wants) > 0 /\ Len(wants) = Len(slots) - k  BY DEF Left
<1>2. k + 1 \in 1..Len(slots) /\ Head(wants) = slots[k + 1]  BY <1>1 DEF Left
<1>3. Len(Tail(wants)) = Len(wants) - 1  BY <1>1
<1>4. \A i \in 1..Len(Tail(wants)) : Tail(wants)[i] = slots[(k + 1) + i]
  <2> TAKE i \in 1..Len(Tail(wants))
  <2>1. i + 1 \in 1..Len(wants) /\ Tail(wants)[i] = wants[i + 1]  BY <1>1, <1>3
  <2>2. wants[i + 1] = slots[k + (i + 1)]  BY <2>1 DEF Left
  <2>3. k + (i + 1) = (k + 1) + i  BY <1>1
  <2> QED  BY <2>1, <2>2, <2>3
<1> QED  BY <1>1, <1>2, <1>3, <1>4 DEF Left

LEMMA LeftNone ==
    ASSUME NEW slots \in Seq(Windows), NEW k, Left(<<>>, slots, k)
    PROVE  k = Len(slots)
  BY DEF Left

(* Windows of a plan with the same row are the same.                       *)
LEMMA PlanApart ==
    ASSUME NEW slots, NEW day, IsPlan(slots, day), NEW i \in DOMAIN slots, NEW j \in DOMAIN slots,
           Overlap(RowOf(slots[i]), RowOf(slots[j])) \/ Overlap(slots[i], RowOf(slots[j]))
              \/ RowOf(slots[i]) = RowOf(slots[j])
    PROVE  i = j
<1>1. slots[i] \in Windows /\ slots[j] \in Windows  BY DEF IsPlan
<1>2. Overlap(slots[i], slots[j])  BY <1>1, WindowFacts DEF Overlap
<1> QED  BY <1>2 DEF IsPlan

LEMMA FitNext ==
    ASSUME NEW slots, NEW day, IsPlan(slots, day), NEW k \in Nat, k + 1 \in DOMAIN slots,
           NEW rows, NEW rows2, NEW shown, Fit(rows, slots, shown, k), NEW b, b \notin shown,
           \A c \in shown : rows2[c] = rows[c], rows2[b] = RowOf(slots[k + 1])
    PROVE  Fit(rows2, slots, shown \cup {b}, k + 1)
<1>1. 1..(k + 1) = (1..k) \cup {k + 1} /\ 1..k \subseteq DOMAIN slots /\ k + 1 \notin 1..k  BY DEF IsPlan
<1>2. \A c \in shown : rows2[c] # rows2[b]
  <2> SUFFICES ASSUME NEW c \in shown, rows2[c] = rows2[b]  PROVE FALSE  OBVIOUS
  <2>1. PICK i \in 1..k : rows[c] = RowOf(slots[i])  BY DEF Fit
  <2>2. RowOf(slots[i]) = RowOf(slots[k + 1]) /\ i \in DOMAIN slots  BY <2>1, <1>1
  <2>3. i = k + 1  BY <2>2, PlanApart
  <2> QED  BY <2>1, <2>3, <1>1
<1>3. \A c \in shown \cup {b} : \E i \in 1..(k + 1) : rows2[c] = RowOf(slots[i])  BY <1>1 DEF Fit
<1>4. \A i \in 1..(k + 1) : \E c \in shown \cup {b} : rows2[c] = RowOf(slots[i])  BY <1>1 DEF Fit
<1>5. \A c1, c2 \in shown \cup {b} : rows2[c1] = rows2[c2] => c1 = c2  BY <1>2 DEF Fit
<1> QED  BY <1>3, <1>4, <1>5 DEF Fit

LEMMA FitSame ==
    ASSUME NEW slots, NEW k, NEW rows, NEW rows2, NEW shown, Fit(rows, slots, shown, k),
           \A c \in shown : rows2[c] = rows[c]
    PROVE  Fit(rows2, slots, shown, k)
  BY DEF Fit

LEMMA PlanIs == Plans /\ TypeOK => IsPlan(Slots, today)
  BY DEF Plans, PlansApart, TypeOK, IsPlan, Slots

LEMMA WantsIs ==
    ASSUME Plans, TypeOK, NEW s \in Settings, NEW day \in 0..LastDay
    PROVE  /\ IsPlan(Desired(BusyTime, s, day), day)
           /\ s = settings /\ day = today => Desired(BusyTime, s, day) = Slots
<1>1. meetings \in SUBSET Meetings  BY DEF TypeOK
<1>2. (meetings \cup IF OwnSource THEN {block[b].window : b \in Live} ELSE {}) = meetings  BY DEF Plans
<1> QED  BY <1>1, <1>2 DEF BusyTime, Plans, PlansApart, IsPlan, Slots
-------------------------------------------------------------------------------
(* What a step of one recomputation must do, and not do.                   *)
ProcTyped(x) ==
    /\ x.pc \in {"idle", "begun", "asked", "applying", "saving", "moving", "forgetting"}
    /\ x.pc = "idle" => x = NoProc
    /\ x.day \in 0..LastDay /\ x.using \in Settings /\ x.cal \in Targets
    /\ x.wants \in Seq(Windows) /\ x.rows \in [BlockIds -> Rows]
    /\ x.matched \subseteq BlockIds /\ x.target \subseteq BlockIds

LEMMA NoProcTyped == ProcTyped(NoProc)
<1>1. AnySettings \in Settings /\ AnyTarget \in Targets /\ 0 \in 0..LastDay
  BY BlockAssumption DEF AnySettings, AnyTarget, BlockAssumption
<1>2. <<>> \in Seq(Windows) /\ NoRow \in Rows  BY DEF Rows
<1>3. NoProc.rows \in [BlockIds -> Rows]  BY <1>2 DEF NoProc
<1> QED  BY <1>1, <1>2, <1>3, NoProcIsOne DEF ProcTyped

LEMMA TypeStep ==
    ASSUME TypeOK, NEW p \in Recomputers, Turn(p), ProcTyped(proc'[p]), UNCHANGED given,
           block' \in [BlockIds -> [state : {"unborn", "live", "deleted"},
                                    window : {NoRow} \cup Windows, cal : Targets]],
           row' \in [BlockIds -> Rows],
           lost' \subseteq BlockIds, alone' \subseteq Recomputers, inStep' \in BOOLEAN,
           upsets' = upsets \/ Upset
    PROVE  TypeOK'
<1>1. \A q \in Recomputers : ProcTyped(proc'[q])  BY DEF Turn, TypeOK, ProcTyped
<1>2. upsets' \in 0..MaxUpsets  BY BlockAssumption DEF TypeOK, Upset, BlockAssumption
<1> QED  BY <1>1, <1>2 DEF TypeOK, ProcTyped, given, saved

LEMMA SecretStep ==
    ASSUME Secret, NEW p \in Recomputers, Turn(p),
           proc'[p].pc = "saving" => \A b \in proc'[p].target : Hidden(p, b)',
           \A b \in Live : ~row[b].kept /\ ~proc[p].rows[b].kept /\ b \notin proc[p].target =>
               /\ block'[b] = block[b] /\ ~row'[b].kept
               /\ ~proc'[p].rows[b].kept /\ b \notin proc'[p].target,
           Holding
    PROVE  Secret'
<1> SUFFICES ASSUME NEW q \in Recomputers, q # p, proc'[q].pc = "saving", NEW b \in proc'[q].target
             PROVE  Hidden(q, b)'
  BY DEF Secret
<1>1. proc'[q] = proc[q]  BY DEF Turn
<1>2. Hidden(q, b) /\ b \in BlockIds  BY <1>1 DEF Secret, Holding
<1>3. b \in Live /\ ~proc[p].rows[b].kept /\ b \notin proc[p].target  BY <1>2 DEF Hidden, Live
<1>4. /\ block'[b] = block[b] /\ ~row'[b].kept
      /\ ~proc'[p].rows[b].kept /\ b \notin proc'[p].target
  BY <1>2, <1>3 DEF Hidden
<1>5. Wanted(q)' = Wanted(q)  BY <1>1 DEF Wanted
<1> QED  BY <1>1, <1>2, <1>4, <1>5 DEF Hidden, Turn

LEMMA InPlaceStep ==
    ASSUME InPlace, NEW p \in Recomputers, Turn(p), lost \subseteq lost',
           lost' = {} => \A b \in BlockIds : row'[b].kept =>
               /\ b \in Live' \/ Forgets(p, b)' \/ (row[b].kept /\ b \notin Live /\ ~Forgets(p, b))
               /\ b \in Live' =>
                     \/ row'[b] = RowOf(block'[b].window) \/ Moves(p, b)'
                     \/ /\ row[b].kept /\ b \in Live /\ ~Moves(p, b)
                        /\ row'[b] = row[b] /\ block'[b] = block[b]
    PROVE  InPlace'
<1> SUFFICES ASSUME lost' = {}, NEW b \in BlockIds, row'[b].kept
             PROVE  Truthful(b)'
  BY DEF InPlace
<1>1. \A q \in Recomputers \ {p} : /\ Forgets(q, b) => Forgets(q, b)'
                                   /\ Moves(q, b) => Moves(q, b)'
  BY DEF Turn, Forgets, Moves, Leftover, Leftovers
<1>2. row[b].kept => Truthful(b)  BY DEF InPlace
<1>3. b \in Live' \/ \E q \in Recomputers : Forgets(q, b)'  BY <1>1, <1>2 DEF Truthful
<1>4. b \in Live' => row'[b] = RowOf(block'[b].window) \/ \E q \in Recomputers : Moves(q, b)'
  BY <1>1, <1>2 DEF Truthful
<1> QED  BY <1>3, <1>4 DEF Truthful

LEMMA LoneStep ==
    ASSUME Lone, NEW p \in Recomputers, Turn(p), ~Idle(p), alone' \subseteq alone,
           p \in alone' => proc'[p].pc # "idle",
           inStep' => proc'[p].pc = "idle" /\ p \in alone,
           alone \subseteq Recomputers
    PROVE  Lone' /\ alone \subseteq {p} /\ ~inStep
<1>1. alone \subseteq {p} /\ ~inStep  BY DEF Lone
<1>2. \A q \in Recomputers \ {p} : proc'[q] = proc[q]  BY DEF Turn
<1>3. \A a \in alone' : a = p /\ ~Idle(p)' /\ \A q \in Recomputers \ {p} : Idle(q)'
  BY <1>1, <1>2 DEF Lone, Idle
<1>4. inStep' => \A q \in Recomputers : Idle(q)'  BY <1>2 DEF Lone, Idle
<1> QED  BY <1>1, <1>3, <1>4 DEF Lone

LEMMA HoldingStep ==
    ASSUME Holding, NEW p \in Recomputers, Turn(p),
           proc'[p].pc \in {"saving", "moving"} =>
               /\ proc'[p].wants # <<>>
               /\ \E b \in BlockIds : proc'[p].target = {b} /\ (proc'[p].pc = "moving" => b \in Leftovers(p)')
    PROVE  Holding'
<1> SUFFICES ASSUME NEW q \in Recomputers, q # p, proc'[q].pc \in {"saving", "moving"}
             PROVE  /\ proc'[q].wants # <<>>
                    /\ \E b \in BlockIds : /\ proc'[q].target = {b}
                                           /\ (proc'[q].pc = "moving" => b \in Leftovers(q)')
  BY DEF Holding
<1>1. proc'[q] = proc[q] /\ Leftovers(q)' = Leftovers(q)  BY DEF Turn, Leftovers
<1> QED  BY <1>1 DEF Holding

LEMMA SlotsStay == UNCHANGED given => Slots' = Slots /\ today' = today /\ settings' = settings
  BY DEF given, saved, Slots

(* A step of a recomputation under way, put together.                      *)
Orderly(p) ==
    /\ Turn(p) /\ ~Idle(p) /\ UNCHANGED given /\ alone' \subseteq alone
    /\ p \in alone' => proc'[p].pc # "idle"
    /\ inStep' => proc'[p].pc = "idle" /\ p \in alone
    /\ TypeOK' /\ Holding' /\ Secret' /\ InPlace'
    /\ p \in alone' => Course(p)' /\ Tuned(p)'
    /\ Settled'

LEMMA OrderlyStep ==
    ASSUME Ordered, NEW p \in Recomputers, Orderly(p)
    PROVE  Ordered'
<1>1. Lone' /\ alone \subseteq {p}  BY LoneStep DEF Ordered, Orderly, TypeOK
<1>2. alone' \subseteq {p}  BY <1>1 DEF Orderly
<1> QED  BY <1>1, <1>2 DEF Ordered, Orderly, OnCourse, InTune
-------------------------------------------------------------------------------
(* One more window is placed.                                              *)
LEMMA PlacedNext ==
    ASSUME Plans, TypeOK, NEW p \in Recomputers, UNCHANGED given, NEW k,
           Left(proc[p].wants, Slots, k), Fit(row, Slots, Placed(p), k),
           proc[p].wants # <<>>, proc'[p].wants = Tail(proc[p].wants),
           NEW b, row'[b] = RowOf(Wanted(p)), b \notin Placed(p), \A c \in Placed(p) : row'[c] = row[c],
           Placed(p)' = Placed(p) \cup {b}
    PROVE  \E n \in 0..Len(Slots') : Left(proc'[p].wants, Slots', n) /\ Fit(row', Slots', Placed(p)', n)
<1>1. Slots' = Slots  BY SlotsStay
<1>2. IsPlan(Slots, today)  BY PlanIs
<1>3. Slots \in Seq(Windows) /\ proc[p].wants \in Seq(Windows)  BY <1>2 DEF IsPlan, TypeOK
<1>4. /\ k \in Nat /\ k + 1 \in 1..Len(Slots) /\ k + 1 \in DOMAIN Slots
      /\ Wanted(p) = Slots[k + 1] /\ Left(Tail(proc[p].wants), Slots, k + 1)
  BY <1>3, LeftNext DEF Wanted
<1> HIDE DEF Slots
<1>5. Fit(row', Slots, Placed(p) \cup {b}, k + 1)  BY <1>2, <1>4, FitNext
<1>6. k + 1 \in 0..Len(Slots)  BY <1>4
<1> QED  BY <1>1, <1>4, <1>5, <1>6

(* The wanted window, and its row, are of the coming days.                 *)
LEMMA WantedIs ==
    ASSUME Plans, TypeOK, NEW p \in Recomputers, proc[p].wants # <<>>
    PROVE  /\ Wanted(p) \in Windows /\ Tail(proc[p].wants) \in Seq(Windows)
           /\ RowOf(Wanted(p)) \in Rows /\ RowOf(Wanted(p)).kept
           /\ \A k : Left(proc[p].wants, Slots, k) => InRange(RowOf(Wanted(p)), today)
<1>1. proc[p].wants \in Seq(Windows)  BY DEF TypeOK
<1>2. Wanted(p) \in Windows /\ Tail(proc[p].wants) \in Seq(Windows)  BY <1>1 DEF Wanted
<1>3. ASSUME NEW k, Left(proc[p].wants, Slots, k)  PROVE InRange(RowOf(Wanted(p)), today)
  <2>1. IsPlan(Slots, today)  BY PlanIs
  <2>2. Slots \in Seq(Windows)  BY <2>1 DEF IsPlan
  <2>3. k + 1 \in DOMAIN Slots /\ Wanted(p) = Slots[k + 1]  BY <1>1, <1>3, <2>2, LeftNext DEF Wanted
  <2>4. InRange(Wanted(p), today)  BY <2>1, <2>3 DEF IsPlan
  <2> QED  BY <1>2, <2>4, WindowFacts DEF InRange
<1> QED  BY <1>2, <1>3, WindowFacts

(* One that began in step has nothing to write.                            *)
LEMMA TunedQuiet ==
    ASSUME Plans, TypeOK, NEW p \in Recomputers, Course(p), Tuned(p), proc[p].settled
    PROVE  ~Inserts(p) /\ ~Updates(p) /\ ~Removes(p)
<1> SUFFICES ASSUME proc[p].pc = "applying"  PROVE ~Inserts(p) /\ ~Updates(p) /\ ~Removes(p)
  BY DEF Inserts, Updates, Removes, Applies
<1>1. IsPlan(Slots, today) /\ Fit(row, Slots, Current, Len(Slots))  BY PlanIs DEF Tuned
<1>2. PICK k \in 0..Len(Slots) : Left(proc[p].wants, Slots, k) /\ Fit(row, Slots, Placed(p), k)
  BY DEF Course
<1>3. \A b \in Leftovers(p) : row[b] = proc[p].rows[b] /\ b \in Current
  BY DEF Course, Leftovers, Current
<1>4. Slots \in Seq(Windows) /\ proc[p].wants \in Seq(Windows)  BY <1>1 DEF IsPlan, TypeOK
<1> HIDE DEF Slots
<1>5. ASSUME proc[p].wants # <<>>  PROVE Matches(p) # {} /\ Same(proc[p].rows[Match(p)], Wanted(p))
  <2>1. k \in Nat /\ k + 1 \in 1..Len(Slots) /\ k + 1 \in DOMAIN Slots /\ Wanted(p) = Slots[k + 1]
    BY <1>2, <1>4, <1>5, LeftNext DEF Wanted
  <2>2. PICK b \in Current : row[b] = RowOf(Wanted(p))  BY <1>1, <2>1 DEF Fit
  <2>3. b \in Leftovers(p)
    <3> SUFFICES ASSUME b \in Placed(p)  PROVE FALSE  BY DEF Placed
    <3>1. PICK i \in 1..k : row[b] = RowOf(Slots[i])  BY <1>2 DEF Fit
    <3>2. i \in DOMAIN Slots  BY <1>2, <1>4, <2>1
    <3>3. i = k + 1  BY <1>1, <2>1, <2>2, <3>1, <3>2, PlanApart
    <3> QED  BY <2>1, <3>3
  <2>4. Wanted(p) \in Windows  BY <1>4, <2>1
  <2>5. Overlap(Wanted(p), row[b])  BY <2>2, <2>4, WindowFacts DEF Overlap
  <2>6. b \in Matches(p)  BY <1>3, <2>3, <2>5 DEF Matches, Leftovers
  <2>7. Match(p) \in Matches(p) /\ Match(p) \in Leftovers(p)  BY <2>6, MatchIs
  <2>8. row[Match(p)] = proc[p].rows[Match(p)] /\ Match(p) \in Current  BY <1>3, <2>7
  <2>9. PICK i \in 1..Len(Slots) : row[Match(p)] = RowOf(Slots[i])  BY <1>1, <2>8 DEF Fit
  <2>m. Overlap(Wanted(p), proc[p].rows[Match(p)])  BY <2>7 DEF Matches
  <2>10. i \in DOMAIN Slots /\ Overlap(Slots[k + 1], RowOf(Slots[i]))  BY <1>4, <2>1, <2>m, <2>8, <2>9
  <2>11. i = k + 1  BY <1>1, <2>1, <2>10, PlanApart
  <2>12. proc[p].rows[Match(p)] = RowOf(Wanted(p))  BY <2>1, <2>8, <2>9, <2>11
  <2> QED  BY <2>4, <2>6, <2>12, WindowFacts DEF Same
<1>6. ASSUME proc[p].wants = <<>>, Leftovers(p) # {}  PROVE FALSE
  <2>1. k = Len(Slots)  BY <1>2, <1>4, <1>6, LeftNone
  <2>2. PICK b \in Leftovers(p) : b \in Current  BY <1>3, <1>6
  <2>3. PICK i \in 1..Len(Slots) : row[b] = RowOf(Slots[i])  BY <1>1, <2>2 DEF Fit
  <2>4. PICK c \in Placed(p) : row[c] = RowOf(Slots[i])  BY <1>2, <2>1, <2>3 DEF Fit
  <2>5. c \in Current /\ c \notin Leftovers(p)  BY <2>4 DEF Placed
  <2>6. b = c  BY <1>1, <2>2, <2>3, <2>4, <2>5 DEF Fit
  <2> QED  BY <2>5, <2>6
<1> QED  BY <1>5, <1>6 DEF Inserts, Updates, Removes, Applies
-------------------------------------------------------------------------------
(* Each step of a recomputation is orderly.                                *)
LEMMA BeginOrdered ==
    ASSUME Plans, Inv, Ordered, NEW p \in Recomputers, Begin(p)
    PROVE  Ordered'
<1>1. /\ Idle(p) /\ UNCHANGED <<given, block, row, lost, upsets>> /\ inStep' = FALSE
      /\ alone' = IF \A q \in Recomputers : Idle(q) THEN {p} ELSE {}
  BY DEF Begin
<1>2. /\ Turn(p) /\ proc'[p].pc = "begun" /\ proc'[p].day = today /\ proc'[p].using = settings
      /\ proc'[p].cal = target /\ proc'[p].wants = <<>> /\ proc'[p].rows = NoProc.rows
      /\ proc'[p].matched = {} /\ proc'[p].target = {} /\ proc'[p].settled = inStep
  BY BeginDoes DEF Inv, Shape
<1>3. TypeOK'
  <2>1. ProcTyped(proc'[p])
    <3>1. NoProc.rows \in [BlockIds -> Rows]  BY NoProcTyped DEF ProcTyped
    <3> QED  BY <1>2, <3>1 DEF ProcTyped, Ordered, TypeOK
  <2>2. block' = block /\ row' = row /\ lost' = lost /\ upsets' = upsets /\ alone' \subseteq Recomputers
    BY <1>1
  <2> QED  BY <1>1, <1>2, <2>1, <2>2, TypeStep DEF Ordered, TypeOK
<1>4. Holding'  BY <1>2, HoldingStep DEF Ordered
<1>5. Secret'  BY <1>1, <1>2, NoProcIsOne, SecretStep DEF Ordered, Live
<1>6. InPlace'
  <2>1. Live' = Live /\ block' = block /\ row' = row /\ lost' = lost  BY <1>1 DEF Live
  <2>2. \A b \in BlockIds : ~Forgets(p, b) /\ ~Moves(p, b)  BY <1>1 DEF Idle, Forgets, Moves
  <2>3. lost = {} => \A b \in BlockIds : row[b].kept => Truthful(b)  BY DEF Ordered, InPlace
  <2> QED  BY <1>1, <1>2, <2>1, <2>2, InPlaceStep DEF Ordered
<1>7. Lone'  BY <1>1, <1>2 DEF Lone, Idle, Turn
<1>8. Slots' = Slots /\ Current' = Current /\ settings' = settings /\ today' = today
  BY <1>1, SlotsStay DEF given, Current
<1>9. Course(p)'  BY <1>2, <1>8 DEF Course
<1>10. Tuned(p)'  BY <1>1, <1>2, <1>8 DEF Tuned, Ordered, Settled
<1> QED  BY <1>1, <1>3, <1>4, <1>5, <1>6, <1>7, <1>9, <1>10 DEF Ordered, OnCourse, InTune, Settled

(* A step that only changes what its recomputation knows.                  *)
LEMMA QuietStep ==
    ASSUME Ordered, NEW p \in Recomputers, Turn(p),
           UNCHANGED <<given, block, row, lost, alone, inStep, upsets>>,
           proc[p].pc \in {"begun", "asked", "applying"}, proc'[p].pc \in {"asked", "applying"},
           proc'[p].target = {} \/ proc'[p].target = proc[p].target, ProcTyped(proc'[p]),
           \A b \in BlockIds : proc'[p].rows[b].kept => proc[p].rows[b].kept \/ row[b].kept,
           p \in alone => Course(p)' /\ Tuned(p)'
    PROVE  Ordered'
<1>1. TypeOK'  BY TypeStep DEF Ordered, TypeOK
<1>2. Holding'  BY HoldingStep DEF Ordered
<1>3. Live' = Live /\ Live \subseteq BlockIds /\ block' = block /\ row' = row /\ lost' = lost  BY DEF Live
<1>4. Secret'  BY <1>3, SecretStep DEF Ordered
<1>5. InPlace'
  <2>1. \A b \in BlockIds : ~Forgets(p, b) /\ ~Moves(p, b)  BY DEF Forgets, Moves
  <2> QED  BY <1>3, <2>1, InPlaceStep DEF Ordered
<1>6. ~Idle(p) /\ ~inStep  BY DEF Idle, Ordered, Lone
<1> QED  BY <1>1, <1>2, <1>4, <1>5, <1>6, OrderlyStep DEF Orderly, Settled

LEMMA AskBusyOrdered ==
    ASSUME Plans, Inv, Ordered, NEW p \in Recomputers, AskBusy(p)
    PROVE  Ordered'
<1>1. UNCHANGED <<given, block, row, lost, alone, inStep, upsets>> /\ proc[p].pc = "begun"  BY DEF AskBusy
<1> DEFINE wants == Desired(BusyTime, proc[p].using, proc[p].day)
<1>2. /\ Turn(p) /\ proc'[p].pc = "asked" /\ proc'[p].using = AnySettings
      /\ proc'[p].wants = wants
      /\ proc'[p].day = proc[p].day /\ proc'[p].cal = proc[p].cal /\ proc'[p].rows = proc[p].rows
      /\ proc'[p].matched = proc[p].matched /\ proc'[p].target = proc[p].target
      /\ proc'[p].settled = proc[p].settled
  BY AskBusyDoes DEF Inv, Shape
<1>3. ProcTyped(proc[p])  BY DEF Ordered, TypeOK, ProcTyped
<1>4. /\ wants \in Seq(Windows)
      /\ proc[p].using = settings /\ proc[p].day = today => wants = Slots
  BY <1>3, WantsIs DEF ProcTyped, Ordered, IsPlan
<1> HIDE DEF wants
<1>5. ProcTyped(proc'[p])
  BY <1>2, <1>3, <1>4, BlockAssumption DEF ProcTyped, AnySettings, BlockAssumption
<1>6. Slots' = Slots /\ Current' = Current /\ today' = today
  BY <1>1, SlotsStay DEF Current
<1>7. ASSUME p \in alone  PROVE Course(p)' /\ Tuned(p)'
  <2>1. wants = Slots /\ proc[p].day = today /\ proc[p].matched = {}
    BY <1>1, <1>4, <1>7 DEF Ordered, OnCourse, Course
  <2>2. IsPlan(Slots, today)  BY PlanIs DEF Ordered
  <2>3. Left(Slots, Slots, 0)  BY <2>2 DEF Left, IsPlan
  <2>4. Course(p)'  BY <1>2, <1>6, <2>1, <2>3 DEF Course
  <2>5. Tuned(p)'  BY <1>1, <1>2, <1>6, <1>7 DEF Tuned, Ordered, InTune
  <2> QED  BY <2>4, <2>5
<1> QED  BY <1>1, <1>2, <1>5, <1>7, QuietStep

LEMMA ListRowsOrdered ==
    ASSUME Plans, Inv, Ordered, NEW p \in Recomputers, ListRows(p)
    PROVE  Ordered'
<1>1. UNCHANGED <<given, block, row, lost, alone, inStep, upsets>> /\ proc[p].pc = "asked"  BY DEF ListRows
<1>2. /\ Turn(p) /\ proc'[p].pc = "applying" /\ proc'[p].day = 0
      /\ \A b \in BlockIds : proc'[p].rows[b] = IF row[b].kept /\ InRange(row[b], proc[p].day)
                                                THEN row[b] ELSE NoRow
      /\ proc'[p].using = proc[p].using /\ proc'[p].cal = proc[p].cal /\ proc'[p].wants = proc[p].wants
      /\ proc'[p].matched = proc[p].matched /\ proc'[p].target = proc[p].target
      /\ proc'[p].settled = proc[p].settled
  BY ListRowsDoes DEF Inv, Shape
<1>3. ProcTyped(proc[p]) /\ row \in [BlockIds -> Rows] /\ NoRow \in Rows
  BY DEF Ordered, TypeOK, ProcTyped, Rows
<1>4. proc'[p].rows \in [BlockIds -> Rows]
  <2>1. proc'[p].rows = [b \in BlockIds |-> proc'[p].rows[b]]  BY <1>2 DEF Turn, Procs, ProcShape
  <2>2. \A b \in BlockIds : proc'[p].rows[b] \in Rows  BY <1>2, <1>3
  <2> QED  BY <2>1, <2>2
<1>5. ProcTyped(proc'[p])  BY <1>2, <1>3, <1>4, BlockAssumption DEF ProcTyped, BlockAssumption
<1>6. \A b \in BlockIds : proc'[p].rows[b].kept => row[b].kept  BY <1>2 DEF NoRow
<1>7. Slots' = Slots /\ Current' = Current /\ today' = today /\ row' = row
  BY <1>1, SlotsStay DEF Current
<1>8. ASSUME p \in alone  PROVE Course(p)' /\ Tuned(p)'
  <2>1. proc[p].day = today /\ proc[p].matched = {} /\ Left(proc[p].wants, Slots, 0)
    BY <1>1, <1>8 DEF Ordered, OnCourse, Course
  <2>2. Leftovers(p)' = Current  BY <1>2, <2>1 DEF Leftovers, Current, NoRow
  <2>3. Placed(p)' = {}  BY <1>7, <2>2 DEF Placed
  <2>4. Fit(row, Slots, {}, 0) /\ 0 \in 0..Len(Slots)  BY <2>1 DEF Fit, Left
  <2>5. \A b \in Current : proc'[p].rows[b] = row[b] /\ InRange(row[b], today)  BY <1>2, <2>1 DEF Current
  <2> HIDE DEF Slots
  <2>6. \E k \in 0..Len(Slots') : Left(proc'[p].wants, Slots', k) /\ Fit(row', Slots', Placed(p)', k)
    BY <1>2, <1>7, <2>1, <2>3, <2>4
  <2>7. Course(p)'  BY <1>2, <1>7, <2>2, <2>5, <2>6 DEF Course
  <2>8. Tuned(p)'  BY <1>1, <1>2, <1>7, <1>8 DEF Tuned, Ordered, InTune
  <2> QED  BY <2>7, <2>8
<1> QED  BY <1>1, <1>2, <1>5, <1>6, <1>8, QuietStep

LEMMA UnchangedOrdered ==
    ASSUME Plans, Inv, Ordered, NEW p \in Recomputers, Unchanged(p)
    PROVE  Ordered'
<1> DEFINE b == Match(p)
<1>1. /\ UNCHANGED <<given, block, row, lost, alone, inStep, upsets>> /\ proc[p].pc = "applying"
      /\ Done(p, {b}) /\ proc[p].wants # <<>> /\ Matches(p) # {} /\ Same(proc[p].rows[b], Wanted(p))
  BY DEF Unchanged, Unchanging, Applies
<1>2. b \in Matches(p) /\ b \in Leftovers(p) /\ b \in BlockIds /\ proc[p].rows[b].kept
  BY <1>1, MatchIs DEF Ordered
<1> HIDE DEF b
<1>3. /\ Turn(p) /\ proc'[p].pc = "applying" /\ proc'[p].target = {}
      /\ proc'[p].wants = Tail(proc[p].wants) /\ proc'[p].matched = proc[p].matched \cup {b}
      /\ proc'[p].day = proc[p].day /\ proc'[p].using = proc[p].using /\ proc'[p].cal = proc[p].cal
      /\ proc'[p].rows = proc[p].rows /\ proc'[p].settled = proc[p].settled
  BY <1>1, DoneDoes DEF Inv, Shape
<1>4. ProcTyped(proc[p])  BY DEF Ordered, TypeOK, ProcTyped
<1>5. ProcTyped(proc'[p])  BY <1>1, <1>2, <1>3, <1>4, WantedIs DEF ProcTyped, Ordered
<1>6. /\ Slots' = Slots /\ Current' = Current /\ today' = today /\ row' = row
      /\ Leftovers(p)' = Leftovers(p) \ {b}
  BY <1>1, <1>3, SlotsStay DEF Current, Leftovers
<1>7. ASSUME p \in alone  PROVE Course(p)' /\ Tuned(p)'
  <2>1. Course(p) /\ Tuned(p)  BY <1>7 DEF Ordered, OnCourse, InTune
  <2>2. PICK k \in 0..Len(Slots) : Left(proc[p].wants, Slots, k) /\ Fit(row, Slots, Placed(p), k)
    BY <1>1, <2>1 DEF Course
  <2>3. \A c \in Leftovers(p) : row[c] = proc[p].rows[c] /\ InRange(row[c], today)
    BY <1>1, <2>1 DEF Course
  <2>4. row[b] = RowOf(Wanted(p)) /\ b \in Current
    <3>1. proc[p].rows[b] \in Rows  BY <1>2, <1>4 DEF ProcTyped
    <3> QED  BY <1>1, <1>2, <2>3, <3>1, RowFacts DEF Current
  <2>5. Placed(p)' = Placed(p) \cup {b} /\ b \notin Placed(p)  BY <1>2, <1>6, <2>4 DEF Placed
  <2>6. \E n \in 0..Len(Slots') : Left(proc'[p].wants, Slots', n) /\ Fit(row', Slots', Placed(p)', n)
    BY <1>1, <1>3, <1>6, <2>2, <2>4, <2>5, PlacedNext DEF Ordered
  <2>7. \A c \in Leftovers(p)' : row'[c] = proc'[p].rows[c] /\ InRange(row'[c], today')
    BY <1>3, <1>6, <2>3
  <2>8. Course(p)'  BY <1>3, <2>6, <2>7 DEF Course
  <2>9. Tuned(p)'  BY <1>1, <1>3, <1>6, <2>1 DEF Tuned
  <2> QED  BY <2>8, <2>9
<1> QED  BY <1>1, <1>3, <1>5, <1>7, QuietStep
-------------------------------------------------------------------------------
BlockTyped(f) == f \in [BlockIds -> [state : {"unborn", "live", "deleted"},
                                     window : {NoRow} \cup Windows, cal : Targets]]

LEMMA EventTyped ==
    ASSUME Plans, TypeOK, NEW p \in Recomputers, proc[p].wants # <<>>, NEW b,
           block' = [block EXCEPT ![b] = Event(p)]
    PROVE  BlockTyped(block') /\ Event(p).window = Wanted(p) /\ Event(p).state = "live"
<1>1. Wanted(p) \in Windows /\ proc[p].cal \in Targets  BY WantedIs DEF TypeOK
<1>2. Event(p) \in [state : {"unborn", "live", "deleted"}, window : {NoRow} \cup Windows, cal : Targets]
  BY <1>1 DEF Event
<1> QED  BY <1>2 DEF TypeOK, BlockTyped, Event

LEMMA InsertEventOrdered ==
    ASSUME Plans, Inv, Ordered, NEW p \in Recomputers, InsertEvent(p)
    PROVE  Ordered'
<1>b. PICK b : b = FreshId  OBVIOUS
<1>1. /\ Writes(p, "saving", {b}) /\ block' = [block EXCEPT ![b] = Event(p)] /\ Unborn # {}
      /\ UNCHANGED <<given, row, lost, alone, inStep, upsets>>
      /\ proc[p].pc = "applying" /\ proc[p].wants # <<>> /\ Inserts(p)
  BY <1>b DEF InsertEvent, Inserts, Applies, Writes
<1>2. /\ b \in BlockIds /\ b \in Unborn /\ b \notin Live /\ Live' = Live \cup {b}
      /\ block'[b] = Event(p) /\ \A c \in BlockIds \ {b} : block'[c] = block[c]
  BY <1>b, <1>1, Inserting DEF Inv
<1>3. /\ ~row[b].kept
      /\ \A q \in Recomputers : ~proc[q].rows[b].kept /\ b \notin proc[q].target
  BY <1>2 DEF Inv, Made
<1>4. /\ Turn(p) /\ proc'[p].pc = "saving" /\ proc'[p].target = {b}
      /\ proc'[p].wants = proc[p].wants /\ proc'[p].matched = proc[p].matched
      /\ proc'[p].day = proc[p].day /\ proc'[p].using = proc[p].using /\ proc'[p].cal = proc[p].cal
      /\ proc'[p].rows = proc[p].rows /\ proc'[p].settled = proc[p].settled
  BY <1>1, WritesDoes DEF Inv, Shape
<1>5. TypeOK'
  <2>1. BlockTyped(block')  BY <1>1, EventTyped DEF Ordered
  <2>2. ProcTyped(proc'[p])  BY <1>2, <1>4 DEF Ordered, TypeOK, ProcTyped
  <2> QED  BY <1>1, <1>4, <2>1, <2>2, TypeStep DEF Ordered, TypeOK, BlockTyped
<1>6. Holding'  BY <1>1, <1>2, <1>4, HoldingStep DEF Ordered
<1>7. Wanted(p)' = Wanted(p)  BY <1>4 DEF Wanted
<1>8. Secret'
  <2>1. Event(p).window = Wanted(p) /\ Event(p).state = "live"  BY <1>1, EventTyped DEF Ordered
  <2>2. \A q \in Recomputers : ~proc'[q].rows[b].kept /\ (q # p => b \notin proc'[q].target)
    BY <1>3, <1>4 DEF Turn
  <2>3. Hidden(p, b)'  BY <1>1, <1>2, <1>3, <1>7, <2>1, <2>2 DEF Hidden
  <2>4. Live \subseteq BlockIds  BY DEF Live
  <2> QED  BY <1>1, <1>2, <1>4, <2>3, <2>4, SecretStep DEF Ordered
<1>9. InPlace'
  <2>1. \A c \in BlockIds : ~Forgets(p, c) /\ ~Moves(p, c)  BY <1>1 DEF Forgets, Moves
  <2>2. row' = row /\ lost' = lost  BY <1>1
  <2>3. lost = {} => \A c \in BlockIds : row[c].kept => Truthful(c)  BY DEF Ordered, InPlace
  <2> QED  BY <1>2, <1>3, <1>4, <2>1, <2>2, <2>3, InPlaceStep DEF Ordered, Truthful
<1>10. Slots' = Slots /\ Current' = Current /\ today' = today /\ row' = row
       /\ Leftovers(p)' = Leftovers(p) /\ Placed(p)' = Placed(p)
  BY <1>1, <1>4, SlotsStay DEF Current, Leftovers, Placed
<1>11. ASSUME p \in alone  PROVE Course(p)' /\ Tuned(p)'
  <2>1. Course(p) /\ Tuned(p)  BY <1>11 DEF Ordered, OnCourse, InTune
  <2>2. Course(p)'  BY <1>1, <1>4, <1>10, <2>1 DEF Course
  <2>3. ~proc[p].settled  BY <1>1, <2>1, TunedQuiet DEF Ordered
  <2> QED  BY <1>4, <2>2, <2>3 DEF Tuned
<1>12. ~Idle(p) /\ ~inStep  BY <1>1 DEF Idle, Ordered, Lone
<1> QED  BY <1>1, <1>4, <1>5, <1>6, <1>8, <1>9, <1>11, <1>12, OrderlyStep DEF Orderly, Settled

LEMMA InsertRowOrdered ==
    ASSUME Plans, Inv, Ordered, NEW p \in Recomputers, InsertRow(p)
    PROVE  Ordered'
<1> DEFINE new == RowOf(Wanted(p))
<1>1. /\ row' = [c \in BlockIds |-> IF c \in proc[p].target THEN new ELSE row[c]]
      /\ UNCHANGED <<given, block, lost, alone, inStep, upsets>>
      /\ Done(p, {}) /\ proc[p].pc = "saving"
  BY DEF InsertRow
<1>2. PICK b \in BlockIds : proc[p].target = {b} /\ proc[p].wants # <<>>
  BY <1>1 DEF Ordered, Holding
<1>3. Hidden(p, b)  BY <1>1, <1>2 DEF Ordered, Secret
<1>4. new \in Rows /\ new.kept  BY <1>2, WantedIs DEF Ordered
<1>5. row'[b] = new /\ \A c \in BlockIds \ {b} : row'[c] = row[c]  BY <1>1, <1>2
<1>6. /\ Turn(p) /\ proc'[p].pc = "applying" /\ proc'[p].target = {}
      /\ proc'[p].wants = Tail(proc[p].wants) /\ proc'[p].matched = proc[p].matched \cup {}
      /\ proc'[p].day = proc[p].day /\ proc'[p].using = proc[p].using /\ proc'[p].cal = proc[p].cal
      /\ proc'[p].rows = proc[p].rows /\ proc'[p].settled = proc[p].settled
  BY <1>1, DoneDoes DEF Inv, Shape
<1>7. TypeOK'
  <2>1. ProcTyped(proc'[p])  BY <1>2, <1>6, WantedIs DEF Ordered, TypeOK, ProcTyped
  <2>2. row' \in [BlockIds -> Rows]  BY <1>1, <1>4 DEF Ordered, TypeOK
  <2> QED  BY <1>1, <1>6, <2>1, <2>2, TypeStep DEF Ordered, TypeOK
<1>8. Holding'  BY <1>6, HoldingStep DEF Ordered
<1>9. Live' = Live /\ Live \subseteq BlockIds /\ block' = block /\ lost' = lost  BY <1>1 DEF Live
<1>10. Secret'  BY <1>2, <1>5, <1>6, <1>9, SecretStep DEF Ordered
<1>11. InPlace'
  <2>1. \A c \in BlockIds : ~Forgets(p, c) /\ ~Moves(p, c)  BY <1>1 DEF Forgets, Moves
  <2>2. b \in Live /\ new = RowOf(block[b].window)  BY <1>3 DEF Hidden, Live
  <2>3. lost = {} => \A c \in BlockIds : row[c].kept => Truthful(c)  BY DEF Ordered, InPlace
  <2> QED  BY <1>5, <1>6, <1>9, <2>1, <2>2, <2>3, InPlaceStep DEF Ordered, Truthful
<1>12. Slots' = Slots /\ today' = today /\ Leftovers(p)' = Leftovers(p)
  BY <1>1, <1>6, SlotsStay DEF Leftovers
<1>13. ASSUME p \in alone  PROVE Course(p)' /\ Tuned(p)'
  <2>1. Course(p) /\ ~proc[p].settled  BY <1>1, <1>13 DEF Ordered, OnCourse, InTune, Tuned
  <2>2. PICK k \in 0..Len(Slots) : Left(proc[p].wants, Slots, k) /\ Fit(row, Slots, Placed(p), k)
    BY <1>1, <2>1 DEF Course
  <2>3. InRange(new, today)  BY <1>2, <2>2, WantedIs DEF Ordered
  <2>4. b \notin Leftovers(p) /\ b \notin Current  BY <1>3 DEF Hidden, Leftovers, Current
  <2>5. Current' = Current \cup {b}  BY <1>4, <1>5, <1>12, <2>3, <2>4 DEF Current
  <2>6. Placed(p)' = Placed(p) \cup {b} /\ b \notin Placed(p)  BY <1>12, <2>4, <2>5 DEF Placed
  <2>7. \A c \in Placed(p) : row'[c] = row[c]  BY <1>5, <2>4 DEF Placed, Current
  <2> HIDE DEF new
  <2>8. \E n \in 0..Len(Slots') : Left(proc'[p].wants, Slots', n) /\ Fit(row', Slots', Placed(p)', n)
    BY <1>1, <1>2, <1>5, <1>6, <2>2, <2>6, <2>7, PlacedNext DEF Ordered, new
  <2>9. \A c \in Leftovers(p)' : row'[c] = proc'[p].rows[c] /\ InRange(row'[c], today')
    <3>1. \A c \in Leftovers(p) : c \in BlockIds \ {b}  BY <2>4 DEF Leftovers
    <3> QED  BY <1>1, <1>5, <1>6, <1>12, <2>1, <3>1 DEF Course
  <2>10. Course(p)'  BY <1>6, <2>8, <2>9 DEF Course
  <2> QED  BY <1>6, <2>1, <2>10 DEF Tuned
<1>14. ~Idle(p) /\ ~inStep  BY <1>1 DEF Idle, Ordered, Lone
<1> QED  BY <1>1, <1>6, <1>7, <1>8, <1>10, <1>11, <1>13, <1>14, OrderlyStep DEF Orderly, Settled

LEMMA UpdateEventOrdered ==
    ASSUME Plans, Inv, Ordered, NEW p \in Recomputers, UpdateEvent(p)
    PROVE  Ordered'
<1>b. PICK b : b = Match(p)  OBVIOUS
<1>1. /\ Writes(p, "moving", {b}) /\ block' = [block EXCEPT ![b] = Event(p)] /\ b \in Live
      /\ UNCHANGED <<given, row, lost, alone, inStep, upsets>>
      /\ proc[p].pc = "applying" /\ proc[p].wants # <<>> /\ Matches(p) # {} /\ Updates(p)
  BY <1>b DEF UpdateEvent, Updates, Applies, Found, Writes
<1>2. b \in Leftovers(p) /\ b \in BlockIds /\ proc[p].rows[b].kept  BY <1>b, <1>1, MatchIs DEF Ordered
<1>3. Live' = Live /\ \A c \in BlockIds \ {b} : block'[c] = block[c]  BY <1>1, Moving DEF Inv
<1>4. /\ Turn(p) /\ proc'[p].pc = "moving" /\ proc'[p].target = {b}
      /\ proc'[p].wants = proc[p].wants /\ proc'[p].matched = proc[p].matched
      /\ proc'[p].day = proc[p].day /\ proc'[p].using = proc[p].using /\ proc'[p].cal = proc[p].cal
      /\ proc'[p].rows = proc[p].rows /\ proc'[p].settled = proc[p].settled
  BY <1>1, WritesDoes DEF Inv, Shape
<1>5. TypeOK'
  <2>1. BlockTyped(block')  BY <1>1, EventTyped DEF Ordered
  <2>2. ProcTyped(proc'[p])  BY <1>2, <1>4 DEF Ordered, TypeOK, ProcTyped
  <2> QED  BY <1>1, <1>4, <2>1, <2>2, TypeStep DEF Ordered, TypeOK, BlockTyped
<1>6. /\ Slots' = Slots /\ Current' = Current /\ today' = today /\ row' = row
      /\ Leftovers(p)' = Leftovers(p) /\ Placed(p)' = Placed(p)
  BY <1>1, <1>4, SlotsStay DEF Current, Leftovers, Placed
<1>7. Holding'  BY <1>1, <1>2, <1>4, <1>6, HoldingStep DEF Ordered
<1>8. Secret'
  <2>1. Live \subseteq BlockIds  BY DEF Live
  <2> QED  BY <1>1, <1>2, <1>3, <1>4, <2>1, SecretStep DEF Ordered
<1>9. InPlace'
  <2>1. \A c \in BlockIds : ~Forgets(p, c) /\ ~Moves(p, c)  BY <1>1 DEF Forgets, Moves
  <2>2. row' = row /\ lost' = lost /\ Moves(p, b)'  BY <1>1, <1>4 DEF Moves
  <2>3. lost = {} => \A c \in BlockIds : row[c].kept => Truthful(c)  BY DEF Ordered, InPlace
  <2> QED  BY <1>3, <1>4, <2>1, <2>2, <2>3, InPlaceStep DEF Ordered, Truthful
<1>10. ASSUME p \in alone  PROVE Course(p)' /\ Tuned(p)'
  <2>1. Course(p) /\ Tuned(p)  BY <1>10 DEF Ordered, OnCourse, InTune
  <2>2. Course(p)'  BY <1>1, <1>4, <1>6, <2>1 DEF Course
  <2>3. ~proc[p].settled  BY <1>1, <2>1, TunedQuiet DEF Ordered
  <2> QED  BY <1>4, <2>2, <2>3 DEF Tuned
<1>11. ~Idle(p) /\ ~inStep  BY <1>1 DEF Idle, Ordered, Lone
<1> QED  BY <1>1, <1>4, <1>5, <1>7, <1>8, <1>9, <1>10, <1>11, OrderlyStep DEF Orderly, Settled

LEMMA UpdateRowOrdered ==
    ASSUME Plans, Inv, Ordered, NEW p \in Recomputers, UpdateRow(p)
    PROVE  Ordered'
<1> DEFINE new == RowOf(Wanted(p))
<1>1. /\ row' = [c \in BlockIds |-> IF c \in proc[p].target /\ row[c].kept THEN new ELSE row[c]]
      /\ lost' = lost \cup {c \in proc[p].target : block[c].window # Wanted(p)}
      /\ UNCHANGED <<given, block, alone, inStep, upsets>>
      /\ Done(p, proc[p].target) /\ proc[p].pc = "moving"
  BY DEF UpdateRow
<1>2. PICK b \in BlockIds : proc[p].target = {b} /\ b \in Leftovers(p) /\ proc[p].wants # <<>>
  BY <1>1 DEF Ordered, Holding
<1>3. new \in Rows /\ new.kept  BY <1>2, WantedIs DEF Ordered
<1>4. /\ row'[b] = (IF row[b].kept THEN new ELSE row[b]) /\ \A c \in BlockIds \ {b} : row'[c] = row[c]
      /\ lost \subseteq lost' /\ (lost' = {} => block[b].window = Wanted(p))
      /\ lost' \subseteq lost \cup {b}
  BY <1>1, <1>2
<1>5. /\ Turn(p) /\ proc'[p].pc = "applying" /\ proc'[p].target = {}
      /\ proc'[p].wants = Tail(proc[p].wants) /\ proc'[p].matched = proc[p].matched \cup {b}
      /\ proc'[p].day = proc[p].day /\ proc'[p].using = proc[p].using /\ proc'[p].cal = proc[p].cal
      /\ proc'[p].rows = proc[p].rows /\ proc'[p].settled = proc[p].settled
  BY <1>1, <1>2, DoneDoes DEF Inv, Shape
<1>6. TypeOK'
  <2>1. ProcTyped(proc'[p])  BY <1>2, <1>5, WantedIs DEF Ordered, TypeOK, ProcTyped
  <2>2. row' \in [BlockIds -> Rows]  BY <1>1, <1>3 DEF Ordered, TypeOK
  <2>3. lost' \subseteq BlockIds  BY <1>4 DEF Ordered, TypeOK
  <2> QED  BY <1>1, <1>5, <2>1, <2>2, <2>3, TypeStep DEF Ordered, TypeOK
<1>7. Holding'  BY <1>5, HoldingStep DEF Ordered
<1>8. Live' = Live /\ Live \subseteq BlockIds /\ block' = block  BY <1>1 DEF Live
<1>9. Secret'  BY <1>2, <1>4, <1>5, <1>8, SecretStep DEF Ordered
<1>10. InPlace'
  <2>1. \A c \in BlockIds : ~Forgets(p, c) /\ (c # b => ~Moves(p, c))  BY <1>1, <1>2 DEF Forgets, Moves
  <2>2. \A c \in BlockIds : row'[c].kept => row[c].kept  BY <1>4
  <2>3. lost' = {} /\ row'[b].kept => row'[b] = RowOf(block'[b].window)  BY <1>4, <1>8
  <2>4. lost = {} => \A c \in BlockIds : row[c].kept => Truthful(c)  BY DEF Ordered, InPlace
  <2> QED  BY <1>4, <1>5, <1>8, <2>1, <2>2, <2>3, <2>4, InPlaceStep DEF Ordered, Truthful
<1>11. Slots' = Slots /\ today' = today /\ Leftovers(p)' = Leftovers(p) \ {b}
  BY <1>1, <1>5, SlotsStay DEF Leftovers
<1>12. ASSUME p \in alone  PROVE Course(p)' /\ Tuned(p)'
  <2>1. Course(p) /\ ~proc[p].settled  BY <1>1, <1>12 DEF Ordered, OnCourse, InTune, Tuned
  <2>2. PICK k \in 0..Len(Slots) : Left(proc[p].wants, Slots, k) /\ Fit(row, Slots, Placed(p), k)
    BY <1>1, <2>1 DEF Course
  <2>3. InRange(new, today)  BY <1>2, <2>2, WantedIs DEF Ordered
  <2>4. row[b].kept /\ InRange(row[b], today)  BY <1>1, <1>2, <2>1 DEF Course, Leftovers
  <2>5. Current' = Current /\ b \in Current  BY <1>3, <1>4, <1>11, <2>3, <2>4 DEF Current
  <2>6. Placed(p)' = Placed(p) \cup {b} /\ b \notin Placed(p)  BY <1>2, <1>11, <2>5 DEF Placed
  <2>7. \A c \in Placed(p) : row'[c] = row[c]  BY <1>4, <2>6 DEF Placed, Current
  <2>a. row'[b] = RowOf(Wanted(p))  BY <1>4, <2>4
  <2> HIDE DEF new
  <2>8. \E n \in 0..Len(Slots') : Left(proc'[p].wants, Slots', n) /\ Fit(row', Slots', Placed(p)', n)
    BY <1>1, <1>2, <1>5, <2>2, <2>6, <2>7, <2>a, PlacedNext DEF Ordered
  <2>9. \A c \in Leftovers(p)' : row'[c] = proc'[p].rows[c] /\ InRange(row'[c], today')
    <3>1. \A c \in Leftovers(p)' : c \in Leftovers(p) /\ c \in BlockIds \ {b}  BY <1>11 DEF Leftovers
    <3> QED  BY <1>1, <1>4, <1>5, <1>11, <2>1, <3>1 DEF Course
  <2>10. Course(p)'  BY <1>5, <2>8, <2>9 DEF Course
  <2> QED  BY <1>5, <2>1, <2>10 DEF Tuned
<1>13. ~Idle(p) /\ ~inStep  BY <1>1 DEF Idle, Ordered, Lone
<1> QED  BY <1>1, <1>5, <1>6, <1>7, <1>9, <1>10, <1>12, <1>13, OrderlyStep DEF Orderly, Settled
-------------------------------------------------------------------------------
LEMMA FailsOrdered ==
    ASSUME Plans, Inv, Ordered, NEW p \in Recomputers, Fails(p)
    PROVE  Ordered'
<1>1. /\ Turn(p) /\ proc'[p] = NoProc /\ alone' = {} /\ UNCHANGED <<given, row, inStep>>
      /\ upsets' = upsets \/ Upset
      /\ proc[p].pc \in {"begun", "asked", "applying", "saving", "moving"}
  BY FailsDoes DEF Inv, Shape
<1>2. /\ proc'[p].pc = "idle" /\ proc'[p].target = {} /\ ProcTyped(proc'[p])
      /\ \A b \in BlockIds : ~proc'[p].rows[b].kept
  BY <1>1, NoProcIsOne, NoProcTyped
<1>3. /\ BlockTyped(block') /\ lost \subseteq lost' /\ lost' \subseteq BlockIds
      /\ \A b \in Live : ~proc[p].rows[b].kept => block'[b] = block[b]
      /\ lost' = {} => UNCHANGED block /\ proc[p].target = {}
  <2>1. CASE UNCHANGED <<block, lost>> /\ proc[p].pc \notin {"saving", "moving"}
    <3>1. proc[p].target = {}  BY <2>1 DEF Inv, Handed
    <3> QED  BY <2>1, <3>1 DEF Ordered, TypeOK, BlockTyped
  <2>2. CASE lost' = lost \cup proc[p].target /\ UNCHANGED block
    BY <2>2 DEF Ordered, TypeOK, BlockTyped
  <2>3. CASE /\ Unborn # {} /\ block' = [block EXCEPT ![FreshId] = Event(p)]
             /\ lost' = lost \cup {FreshId} /\ proc[p].wants # <<>>
    <3>1. BlockTyped(block')  BY <2>3, EventTyped DEF Ordered
    <3>2. /\ FreshId \in BlockIds /\ FreshId \notin Live
          /\ \A b \in BlockIds \ {FreshId} : block'[b] = block[b]
      BY <2>3, Inserting DEF Inv
    <3>3. Live \subseteq BlockIds  BY DEF Live
    <3> QED  BY <2>3, <3>1, <3>2, <3>3 DEF Ordered, TypeOK
  <2>4. CASE /\ Match(p) \in Live /\ block' = [block EXCEPT ![Match(p)] = Event(p)]
             /\ lost' = lost \cup {Match(p)} /\ proc[p].wants # <<>> /\ Matches(p) # {}
    <3>1. BlockTyped(block')  BY <2>4, EventTyped DEF Ordered
    <3>2. Match(p) \in BlockIds /\ proc[p].rows[Match(p)].kept  BY <2>4, MatchIs DEF Ordered
    <3>3. \A b \in BlockIds \ {Match(p)} : block'[b] = block[b]  BY <2>4, Moving DEF Inv
    <3>4. Live \subseteq BlockIds  BY DEF Live
    <3> QED  BY <2>4, <3>1, <3>2, <3>3, <3>4 DEF Ordered, TypeOK
  <2> QED  BY <2>1, <2>2, <2>3, <2>4, FailsDoes DEF Inv, Shape
<1>4. row' = row  BY <1>1
<1>5. TypeOK'  BY <1>1, <1>2, <1>3, <1>4, TypeStep DEF Ordered, TypeOK, BlockTyped
<1>6. Holding'  BY <1>1, <1>2, HoldingStep DEF Ordered
<1>7. Secret'
  <2>1. Live \subseteq BlockIds  BY DEF Live
  <2> QED  BY <1>1, <1>2, <1>3, <1>4, <2>1, SecretStep DEF Ordered
<1>8. InPlace'
  <2>1. proc[p].target = {} => \A b \in BlockIds : ~Forgets(p, b) /\ ~Moves(p, b)
    BY <1>1 DEF Forgets, Moves
  <2>2. UNCHANGED block => Live' = Live  BY DEF Live
  <2>3. lost = {} => \A b \in BlockIds : row[b].kept => Truthful(b)  BY DEF Ordered, InPlace
  <2> QED  BY <1>1, <1>3, <1>4, <2>1, <2>2, <2>3, InPlaceStep DEF Ordered, Truthful
<1>9. ~Idle(p) /\ ~inStep  BY <1>1 DEF Idle, Ordered, Lone
<1> QED  BY <1>1, <1>5, <1>6, <1>7, <1>8, <1>9, OrderlyStep DEF Orderly, Settled

LEMMA DeleteEventOrdered ==
    ASSUME Plans, Inv, Ordered, NEW p \in Recomputers, DeleteEvent(p)
    PROVE  Ordered'
<1>b. PICK b : b = Leftover(p)  OBVIOUS
<1>1. /\ Removes(p) /\ Goes(p, "forgetting") /\ UNCHANGED <<given, row, inStep>>
      /\ proc[p].pc = "applying" /\ Leftovers(p) # {} /\ alone' \subseteq alone
      /\ upsets' = upsets \/ Upset
      /\ \/ block' = Removed(b) /\ UNCHANGED lost
         \/ UNCHANGED block /\ lost' = lost \cup {b}
  BY <1>b DEF DeleteEvent, Removes
<1>2. b \in BlockIds /\ proc[p].rows[b].kept  BY <1>b, <1>1, LeftoverIsOne
<1>3. /\ Turn(p) /\ proc'[p].pc = "forgetting" /\ proc'[p].target = proc[p].target
      /\ proc'[p].wants = proc[p].wants /\ proc'[p].matched = proc[p].matched
      /\ proc'[p].day = proc[p].day /\ proc'[p].using = proc[p].using /\ proc'[p].cal = proc[p].cal
      /\ proc'[p].rows = proc[p].rows /\ proc'[p].settled = proc[p].settled
      /\ Leftovers(p)' = Leftovers(p) /\ Leftover(p)' = b
  BY <1>b, <1>1, GoesDoes DEF Inv, Shape
<1>4. /\ BlockTyped(block') /\ lost \subseteq lost' /\ lost' \subseteq BlockIds
      /\ \A c \in BlockIds \ {b} : block'[c] = block[c]
      /\ Live \ {b} \subseteq Live' /\ Live' \subseteq Live
      /\ lost' = {} => b \notin Live'
  <2>1. CASE block' = Removed(b) /\ UNCHANGED lost
    <3>1. b \notin Unborn  BY <1>2 DEF Inv, Made
    <3>2. Live' = Live \ {b} /\ \A c \in BlockIds \ {b} : block'[c] = block[c]
      BY <1>2, <2>1, <3>1, Removing DEF Inv
    <3>3. BlockTyped(block')  BY <1>2, <2>1 DEF Removed, BlockTyped, Ordered, TypeOK
    <3> QED  BY <2>1, <3>2, <3>3 DEF Ordered, TypeOK
  <2>2. CASE UNCHANGED block /\ lost' = lost \cup {b}
    <3>1. Live' = Live  BY <2>2 DEF Live
    <3> QED  BY <1>2, <2>2, <3>1 DEF Ordered, TypeOK, BlockTyped
  <2> QED  BY <1>1, <2>1, <2>2
<1>5. row' = row /\ Live \subseteq BlockIds /\ proc[p].target = {}  BY <1>1 DEF Live, Inv, Handed
<1>6. TypeOK'
  <2>1. ProcTyped(proc'[p])  BY <1>3 DEF Ordered, TypeOK, ProcTyped
  <2> QED  BY <1>1, <1>3, <1>4, <1>5, <2>1, TypeStep DEF Ordered, TypeOK, BlockTyped
<1>7. Holding'  BY <1>3, HoldingStep DEF Ordered
<1>8. Secret'  BY <1>2, <1>3, <1>4, <1>5, SecretStep DEF Ordered
<1>9. InPlace'
  <2>1. \A c \in BlockIds : ~Forgets(p, c) /\ ~Moves(p, c)  BY <1>1 DEF Forgets, Moves
  <2>2. Forgets(p, b)'  BY <1>3 DEF Forgets
  <2>3. lost = {} => \A c \in BlockIds : row[c].kept => Truthful(c)  BY DEF Ordered, InPlace
  <2> QED  BY <1>3, <1>4, <1>5, <2>1, <2>2, <2>3, InPlaceStep DEF Ordered, Truthful
<1>10. Slots' = Slots /\ Current' = Current /\ today' = today /\ Placed(p)' = Placed(p)
  BY <1>1, <1>3, SlotsStay DEF Current, Placed
<1>11. ASSUME p \in alone  PROVE Course(p)' /\ Tuned(p)'
  <2>1. Course(p) /\ Tuned(p)  BY <1>11 DEF Ordered, OnCourse, InTune
  <2>2. Course(p)'  BY <1>1, <1>3, <1>5, <1>10, <2>1 DEF Course
  <2>3. ~proc[p].settled  BY <1>1, <2>1, TunedQuiet DEF Ordered
  <2> QED  BY <1>3, <2>2, <2>3 DEF Tuned
<1>12. ~Idle(p) /\ ~inStep  BY <1>1 DEF Idle, Ordered, Lone
<1> QED  BY <1>1, <1>3, <1>6, <1>7, <1>8, <1>9, <1>11, <1>12, OrderlyStep DEF Orderly, Settled

LEMMA DeleteRowOrdered ==
    ASSUME Plans, Inv, Ordered, NEW p \in Recomputers, DeleteRow(p)
    PROVE  Ordered'
<1>b. PICK b : b = Leftover(p)  OBVIOUS
<1>1. /\ \/ row' = [row EXCEPT ![b] = NoRow] /\ UNCHANGED lost
         \/ UNCHANGED row /\ lost' = lost \cup {b} /\ alone' = {}
      /\ UNCHANGED <<given, block, inStep>> /\ proc[p].pc = "forgetting"
      /\ alone' \subseteq alone
      /\ upsets' = upsets \/ Upset
  BY <1>b DEF DeleteRow
<1>2. b \in BlockIds /\ b \in Leftovers(p) /\ proc[p].rows[b].kept
  BY <1>b, <1>1, LeftoverIsOne DEF Inv, Dropped
<1>3. /\ Turn(p) /\ proc'[p].pc = "applying" /\ proc'[p].rows[b] = NoRow
      /\ \A c \in BlockIds \ {b} : proc'[p].rows[c] = proc[p].rows[c]
      /\ proc'[p].target = proc[p].target
      /\ proc'[p].wants = proc[p].wants /\ proc'[p].matched = proc[p].matched
      /\ proc'[p].day = proc[p].day /\ proc'[p].using = proc[p].using /\ proc'[p].cal = proc[p].cal
      /\ proc'[p].settled = proc[p].settled
  BY <1>b, <1>2, DeleteRowDoes DEF Inv, Shape
<1>n. ~NoRow.kept /\ NoRow \in Rows  BY DEF NoRow, Rows
<1>4. /\ row' \in [BlockIds -> Rows] /\ lost \subseteq lost' /\ lost' \subseteq BlockIds
      /\ \A c \in BlockIds \ {b} : row'[c] = row[c]
      /\ row'[b].kept => row[b].kept /\ b \in lost' /\ alone' = {}
  BY <1>1, <1>2, <1>n DEF Ordered, TypeOK
<1>5. Live' = Live /\ Live \subseteq BlockIds /\ block' = block /\ proc[p].target = {}
  BY <1>1 DEF Live, Inv, Handed
<1>6. TypeOK'
  <2>1. proc'[p].rows = [c \in BlockIds |-> proc'[p].rows[c]]  BY <1>3 DEF Turn, Procs, ProcShape
  <2>2. proc'[p].rows \in [BlockIds -> Rows]  BY <1>3, <1>n, <2>1 DEF Ordered, TypeOK
  <2>3. ProcTyped(proc'[p])  BY <1>3, <2>2 DEF Ordered, TypeOK, ProcTyped
  <2> QED  BY <1>1, <1>3, <1>4, <1>5, <2>3, TypeStep DEF Ordered, TypeOK
<1>7. Holding'  BY <1>3, HoldingStep DEF Ordered
<1>8. Secret'  BY <1>2, <1>3, <1>4, <1>5, <1>n, SecretStep DEF Ordered
<1>9. InPlace'
  <2>1. \A c \in BlockIds : (c # b => ~Forgets(p, c)) /\ ~Moves(p, c)  BY <1>b, <1>1 DEF Forgets, Moves
  <2>2. lost = {} => \A c \in BlockIds : row[c].kept => Truthful(c)  BY DEF Ordered, InPlace
  <2> QED  BY <1>3, <1>4, <1>5, <2>1, <2>2, InPlaceStep DEF Ordered, Truthful
<1>10. Slots' = Slots /\ today' = today /\ Leftovers(p)' = Leftovers(p) \ {b}
  BY <1>1, <1>3, <1>n, SlotsStay DEF Leftovers
<1>11. ASSUME p \in alone'  PROVE Course(p)' /\ Tuned(p)'
  <2>1. Course(p) /\ ~proc[p].settled  BY <1>1, <1>11 DEF Ordered, OnCourse, InTune, Tuned
  <2>2. PICK k \in 0..Len(Slots) : Left(proc[p].wants, Slots, k) /\ Fit(row, Slots, Placed(p), k)
    BY <1>1, <2>1 DEF Course
  <2>3. Current' = Current \ {b}  BY <1>4, <1>10, <1>11 DEF Current
  <2>4. Placed(p)' = Placed(p)  BY <1>2, <1>10, <2>3 DEF Placed
  <2>5. \A c \in Placed(p) : row'[c] = row[c]  BY <1>2, <1>4 DEF Placed, Current
  <2> HIDE DEF Slots
  <2>6. Fit(row', Slots, Placed(p), k)  BY <2>2, <2>5, FitSame
  <2>7. \E n \in 0..Len(Slots') : Left(proc'[p].wants, Slots', n) /\ Fit(row', Slots', Placed(p)', n)
    BY <1>3, <1>10, <2>2, <2>4, <2>6
  <2>8. \A c \in Leftovers(p)' : row'[c] = proc'[p].rows[c] /\ InRange(row'[c], today')
    <3>1. \A c \in Leftovers(p)' : c \in Leftovers(p) /\ c \in BlockIds \ {b}  BY <1>10 DEF Leftovers
    <3> QED  BY <1>1, <1>3, <1>4, <1>10, <2>1, <3>1 DEF Course
  <2>9. Course(p)'  BY <1>3, <2>7, <2>8 DEF Course
  <2> QED  BY <1>3, <2>1, <2>9 DEF Tuned
<1>12. ~Idle(p) /\ ~inStep  BY <1>1 DEF Idle, Ordered, Lone
<1> QED  BY <1>1, <1>3, <1>6, <1>7, <1>8, <1>9, <1>11, <1>12, OrderlyStep DEF Orderly, Settled

LEMMA FinishOrdered ==
    ASSUME Plans, Inv, Ordered, NEW p \in Recomputers, Finish(p)
    PROVE  Ordered'
<1>1. /\ proc[p].pc = "applying" /\ proc[p].wants = <<>> /\ Leftovers(p) = {} /\ Ends(p)
      /\ inStep' = (p \in alone) /\ alone' = alone \ {p}
      /\ UNCHANGED <<given, block, row, lost, upsets>>
  BY DEF Finish
<1>2. Turn(p) /\ proc'[p] = NoProc  BY <1>1, EndsDoes DEF Inv, Shape
<1>3. /\ proc'[p].pc = "idle" /\ proc'[p].target = {} /\ ProcTyped(proc'[p])
      /\ \A b \in BlockIds : ~proc'[p].rows[b].kept
  BY <1>2, NoProcIsOne, NoProcTyped
<1>4. Live' = Live /\ Live \subseteq BlockIds /\ block' = block /\ row' = row /\ lost' = lost
  BY <1>1 DEF Live
<1>5. TypeOK'
  <2>1. alone' \subseteq Recomputers /\ inStep' \in BOOLEAN  BY <1>1 DEF Ordered, TypeOK
  <2> QED  BY <1>1, <1>2, <1>3, <1>4, <2>1, TypeStep DEF Ordered, TypeOK
<1>6. Holding'  BY <1>2, <1>3, HoldingStep DEF Ordered
<1>7. Secret'  BY <1>2, <1>3, <1>4, SecretStep DEF Ordered
<1>8. InPlace'
  <2>1. \A b \in BlockIds : ~Forgets(p, b) /\ ~Moves(p, b)  BY <1>1 DEF Forgets, Moves
  <2>2. lost = {} => \A b \in BlockIds : row[b].kept => Truthful(b)  BY DEF Ordered, InPlace
  <2> QED  BY <1>2, <1>4, <2>1, <2>2, InPlaceStep DEF Ordered, Truthful
<1>9. Settled'
  <2> SUFFICES ASSUME p \in alone  PROVE Fit(row', Slots', Current', Len(Slots'))
    BY <1>1 DEF Settled
  <2>1. PICK k \in 0..Len(Slots) : Left(<<>>, Slots, k) /\ Fit(row, Slots, Placed(p), k)
    BY <1>1 DEF Ordered, OnCourse, Course
  <2>2. IsPlan(Slots, today)  BY PlanIs DEF Ordered
  <2>3. Slots \in Seq(Windows)  BY <2>2 DEF IsPlan
  <2>4. k = Len(Slots)  BY <2>1, <2>3, LeftNone
  <2>5. Placed(p) = Current  BY <1>1 DEF Placed
  <2>6. Slots' = Slots /\ Current' = Current  BY <1>1, SlotsStay DEF Current
  <2> QED  BY <1>4, <2>1, <2>4, <2>5, <2>6
<1>10. ~Idle(p)  BY <1>1 DEF Idle
<1> QED  BY <1>1, <1>2, <1>3, <1>5, <1>6, <1>7, <1>8, <1>9, <1>10, OrderlyStep DEF Orderly
-------------------------------------------------------------------------------
(* The steps of others.                                                    *)
LEMMA DisturbedOrdered ==
    ASSUME Ordered, TypeOK', UNCHANGED <<block, row, proc, lost>>, alone' = {}, inStep' = FALSE
    PROVE  Ordered'
<1>1. Live' = Live /\ \A p \in Recomputers : Leftovers(p)' = Leftovers(p) /\ Leftover(p)' = Leftover(p)
  BY DEF Live, Leftovers, Leftover
<1>2. Holding'  BY <1>1 DEF Ordered, Holding
<1>3. Secret'  BY DEF Ordered, Secret, Hidden, Wanted
<1>4. InPlace'
  <2> SUFFICES ASSUME lost' = {}, NEW b \in BlockIds, row'[b].kept  PROVE Truthful(b)'
    BY DEF InPlace
  <2>1. Truthful(b)  BY DEF Ordered, InPlace
  <2>2. \A q \in Recomputers : Forgets(q, b)' = Forgets(q, b) /\ Moves(q, b)' = Moves(q, b)
    BY <1>1 DEF Forgets, Moves
  <2> QED  BY <1>1, <2>1, <2>2 DEF Truthful
<1> QED  BY <1>2, <1>3, <1>4 DEF Ordered, Lone, OnCourse, InTune, Settled

LEMMA EditOrdered ==
    ASSUME Ordered, EditMeetings \/ EditBlock \/ Toggle \/ Midnight
    PROVE  Ordered'
<1>1. UNCHANGED <<block, row, proc, lost, upsets>> /\ alone' = {} /\ inStep' = FALSE
  BY DEF EditMeetings, EditBlock, Toggle, Midnight, Edit, Disturb
<1>2. CASE EditMeetings \/ EditBlock \/ Toggle
  <2>1. edits' \in 0..MaxEdits /\ today' = today
    BY <1>2, BlockAssumption DEF EditMeetings, EditBlock, Toggle, Edit, Ordered, TypeOK, BlockAssumption
  <2>2. /\ meetings' \subseteq Meetings /\ settings' \in Settings /\ target' \in Targets
        /\ exists' \in BOOLEAN /\ enabled' \in BOOLEAN
    BY <1>2 DEF EditMeetings, EditBlock, Toggle, Ordered, TypeOK, saved
  <2>3. TypeOK'  BY <1>1, <2>1, <2>2 DEF Ordered, TypeOK
  <2> QED  BY <1>1, <2>3, DisturbedOrdered
<1>3. CASE Midnight
  <2>1. today' \in 0..LastDay  BY <1>3, BlockAssumption DEF Midnight, Ordered, TypeOK, BlockAssumption
  <2>2. TypeOK'  BY <1>1, <1>3, <2>1 DEF Midnight, saved, Ordered, TypeOK
  <2> QED  BY <1>1, <2>2, DisturbedOrdered
<1> QED  BY <1>2, <1>3

LEMMA DeleteBlockOrdered ==
    ASSUME Ordered, DeleteBlock
    PROVE  Ordered'
<1>1. /\ row' = [b \in BlockIds |-> NoRow] /\ lost' = lost \cup {b \in BlockIds : row[b].kept}
      /\ UNCHANGED <<today, block, proc, upsets, meetings, settings, target, enabled>>
      /\ alone' = {} /\ inStep' = FALSE /\ exists' = FALSE
  BY DEF DeleteBlock, Edit, Disturb
<1>2. edits' \in 0..MaxEdits
  BY BlockAssumption DEF DeleteBlock, Edit, Ordered, TypeOK, BlockAssumption
<1>3. \A b \in BlockIds : row'[b] = NoRow /\ ~row'[b].kept  BY <1>1 DEF NoRow
<1>4. row' \in [BlockIds -> Rows]  BY <1>1 DEF Rows
<1>5. TypeOK'  BY <1>1, <1>2, <1>4 DEF Ordered, TypeOK
<1>6. Holding'  BY <1>1 DEF Ordered, Holding, Leftovers
<1>7. Secret'
  <2>1. \A p \in Recomputers : proc[p].pc = "saving" => \A b \in proc[p].target : b \in BlockIds
    BY DEF Ordered, Holding
  <2> QED  BY <1>1, <1>3, <2>1 DEF Ordered, Secret, Hidden, Wanted
<1>8. InPlace'  BY <1>3 DEF InPlace
<1> QED  BY <1>1, <1>5, <1>6, <1>7, <1>8 DEF Ordered, Lone, OnCourse, InTune, Settled

LEMMA StopOrdered ==
    ASSUME Inv, Ordered, NEW gone \in SUBSET Recomputers, Stop(gone)
    PROVE  Ordered'
<1>1. /\ proc' = [p \in Recomputers |-> IF p \in gone THEN NoProc ELSE proc[p]]
      /\ lost' = lost \cup Unsaved(gone) /\ UNCHANGED <<given, block, row>>
      /\ alone' = {} /\ inStep' = FALSE /\ Upset
  BY DEF Stop, Disturb
<1>2. /\ Live' = Live
      /\ \A p \in Recomputers : IF p \in gone THEN proc'[p] = NoProc
                                ELSE proc'[p] = proc[p] /\ Leftovers(p)' = Leftovers(p)
                                     /\ Leftover(p)' = Leftover(p)
  BY <1>1 DEF Live, Leftovers, Leftover
<1>3. TypeOK'
  <2>1. \A p \in Recomputers : ProcTyped(proc'[p])  BY <1>2, NoProcTyped DEF Ordered, TypeOK, ProcTyped
  <2>2. Unsaved(gone) \subseteq BlockIds
    <3>1. \A p \in gone : proc[p].pc = "forgetting" => Leftover(p) \in BlockIds
      BY LeftoverIsOne DEF Inv, Dropped
    <3> QED  BY <3>1 DEF Unsaved, Ordered, TypeOK
  <2>3. upsets' \in 0..MaxUpsets  BY <1>1, BlockAssumption DEF Upset, Ordered, TypeOK, BlockAssumption
  <2> QED  BY <1>1, <2>1, <2>2, <2>3 DEF Ordered, TypeOK, ProcTyped, given, saved
<1>4. Holding'  BY <1>2, NoProcIsOne DEF Ordered, Holding
<1>5. Secret'
  <2> SUFFICES ASSUME NEW p \in Recomputers, proc'[p].pc = "saving", NEW b \in proc'[p].target
               PROVE  Hidden(p, b)'
    BY DEF Secret
  <2>1. proc'[p] = proc[p]  BY <1>2, NoProcIsOne
  <2>2. Hidden(p, b) /\ b \in BlockIds  BY <2>1 DEF Ordered, Secret, Holding
  <2>3. \A q \in Recomputers : ~proc'[q].rows[b].kept /\ (q # p => b \notin proc'[q].target)
    BY <1>2, <2>2, NoProcIsOne DEF Hidden
  <2>4. Wanted(p)' = Wanted(p)  BY <2>1 DEF Wanted
  <2> QED  BY <1>1, <2>2, <2>3, <2>4 DEF Hidden
<1>6. InPlace'
  <2> SUFFICES ASSUME lost' = {}, NEW b \in BlockIds, row'[b].kept  PROVE Truthful(b)'
    BY DEF InPlace
  <2>1. Truthful(b)  BY <1>1 DEF Ordered, InPlace
  <2>2. \A q \in gone : ~Forgets(q, b) /\ ~Moves(q, b)
    BY <1>1 DEF Unsaved, Forgets, Moves
  <2>3. \A q \in Recomputers : (Forgets(q, b) => Forgets(q, b)') /\ (Moves(q, b) => Moves(q, b)')
    BY <1>2, <2>2 DEF Forgets, Moves
  <2> QED  BY <1>1, <1>2, <2>1, <2>3 DEF Truthful
<1> QED  BY <1>1, <1>3, <1>4, <1>5, <1>6 DEF Ordered, Lone, OnCourse, InTune, Settled

LEMMA InitOrdered == Init => Ordered
<1> SUFFICES ASSUME Init  PROVE Ordered  OBVIOUS
<1>1. \A p \in Recomputers : proc[p] = NoProc  BY DEF Init
<1>2. TypeOK
  <2>1. \A p \in Recomputers : ProcTyped(proc[p])  BY <1>1, NoProcTyped
  <2>2. AnyTarget \in Targets /\ 0 \in 0..LastDay /\ 0 \in 0..MaxEdits /\ 0 \in 0..MaxUpsets
    BY BlockAssumption DEF BlockAssumption, AnyTarget
  <2>3. block \in [BlockIds -> [state : {"unborn", "live", "deleted"},
                               window : {NoRow} \cup Windows, cal : Targets]]
    BY <2>2 DEF Init
  <2>4. row \in [BlockIds -> Rows]  BY DEF Init, Rows
  <2> QED  BY <2>1, <2>2, <2>3, <2>4 DEF Init, TypeOK, ProcTyped
<1>3. Holding /\ Secret /\ Lone  BY <1>1, NoProcIsOne DEF Holding, Secret, Lone, Init
<1>4. InPlace  BY DEF Init, InPlace, NoRow
<1> QED  BY <1>2, <1>3, <1>4 DEF Init, Ordered, OnCourse, InTune, Settled

LEMMA NextOrdered == Plans /\ Inv /\ Ordered /\ [Next]_vars => Ordered'
<1> SUFFICES ASSUME Plans, Inv, Ordered, [Next]_vars  PROVE Ordered'  OBVIOUS
<1>1. CASE EditMeetings \/ EditBlock \/ Toggle \/ Midnight  BY <1>1, EditOrdered
<1>2. CASE DeleteBlock  BY <1>2, DeleteBlockOrdered
<1>3. ASSUME NEW p \in Recomputers, Begin(p)  PROVE Ordered'  BY <1>3, BeginOrdered
<1>4. ASSUME NEW p \in Recomputers, Recompute(p)  PROVE Ordered'
  BY <1>4, AskBusyOrdered, ListRowsOrdered, UnchangedOrdered, InsertEventOrdered, InsertRowOrdered,
     UpdateEventOrdered, UpdateRowOrdered, FailsOrdered, DeleteEventOrdered, DeleteRowOrdered, FinishOrdered
     DEF Recompute
<1>5. ASSUME NEW p \in Recomputers, Stop({p})  PROVE Ordered'
  <2>1. {p} \in SUBSET Recomputers  OBVIOUS
  <2> QED  BY <1>5, <2>1, StopOrdered
<1>6. CASE Stop(Recomputers)
  <2>1. Recomputers \in SUBSET Recomputers  OBVIOUS
  <2> QED  BY <1>6, <2>1, StopOrdered
<1>7. CASE UNCHANGED vars
  <2>1. /\ today' = today /\ meetings' = meetings /\ settings' = settings /\ target' = target
        /\ exists' = exists /\ enabled' = enabled /\ edits' = edits /\ block' = block /\ row' = row
        /\ proc' = proc /\ lost' = lost /\ alone' = alone /\ inStep' = inStep /\ upsets' = upsets
    BY <1>7 DEF vars, given, saved
  <2>2. TypeOK'  BY <2>1 DEF Ordered, TypeOK
  <2>3. Holding' /\ Secret'  BY <2>1 DEF Ordered, Holding, Secret, Hidden, Wanted, Leftovers
  <2>4. Lone'  BY <2>1 DEF Ordered, Lone, Idle
  <2>5. /\ Slots' = Slots /\ Current' = Current
        /\ \A p \in Recomputers : /\ Placed(p)' = Placed(p) /\ Leftovers(p)' = Leftovers(p)
                                  /\ Leftover(p)' = Leftover(p)
    BY <2>1 DEF Slots, Current, Placed, Leftovers, Leftover
  <2>6. OnCourse' /\ InTune' /\ Settled'
    BY <2>1, <2>5 DEF Ordered, TypeOK, OnCourse, InTune, Settled, Course, Tuned
  <2>7. InPlace'
    <3>1. Live' = Live  BY <2>1 DEF Live
    <3> QED  BY <2>1, <2>5, <3>1 DEF Ordered, InPlace, Truthful, Forgets, Moves
  <2> QED  BY <2>2, <2>3, <2>4, <2>6, <2>7 DEF Ordered
<1> QED  BY <1>1, <1>2, <1>3, <1>4, <1>5, <1>6, <1>7 DEF Next
-------------------------------------------------------------------------------
(* In step, the events of the coming days are those the rows tell of.      *)
LEMMA InStepShows ==
    ASSUME Plans, Inv, Ordered
    PROVE  FocusInEmptySlots
<1> SUFFICES ASSUME inStep, lost = {}, ~Moved  PROVE FocusInEmptySlots  BY DEF FocusInEmptySlots
<1> DEFINE shown == {b \in Live : block[b].cal = target /\ InRange(block[b].window, today)}
<1>1. \A q \in Recomputers : proc[q].pc = "idle"  BY DEF Ordered, Lone, Idle
<1>2. \A b \in BlockIds : row[b].kept <=> b \in Live
  <2>1. \A b \in Live : row[b].kept  BY <1>1 DEF Inv, Saved
  <2>2. \A b \in BlockIds : row[b].kept => b \in Live  BY <1>1 DEF Ordered, InPlace, Truthful, Forgets
  <2> QED  BY <2>1, <2>2
<1>3. \A b \in Live : /\ b \in BlockIds /\ row[b] = RowOf(block[b].window)
                      /\ row[b].start = block[b].window.start /\ row[b].end = block[b].window.end
  BY <1>1, <1>2 DEF Ordered, InPlace, Truthful, Moves, Live, RowOf
<1>4. \A b \in Live : InRange(row[b], today) <=> InRange(block[b].window, today)
  BY <1>3 DEF InRange
<1>5. shown = Current
  BY <1>2, <1>3, <1>4 DEF Current, Moved
<1>6. Fit(row, Slots, Current, Len(Slots)) /\ IsPlan(Slots, today)
  BY PlanIs DEF Ordered, Settled
<1>7. Slots \in Seq(Windows) /\ DOMAIN Slots = 1..Len(Slots)  BY <1>6 DEF IsPlan
<1>8. \A b \in Live : block[b].window \in Windows
  <2> TAKE b \in Live
  <2>1. row[b].kept /\ row[b] \in Rows  BY <1>2, <1>3 DEF Ordered, TypeOK
  <2>2. row[b].start < row[b].end  BY <2>1, RowFacts
  <2>3. block[b].window # NoRow  BY <1>3, <2>2 DEF NoRow
  <2> QED  BY <1>3, <2>3 DEF Ordered, TypeOK
<1>9. ASSUME NEW v \in Windows, NEW w \in Windows, RowOf(v) = RowOf(w)  PROVE v = w
  <2>1. v.start = w.start /\ v.end = w.end  BY <1>9, WindowFacts
  <2> QED  BY <2>1 DEF Windows
<1>10. \A i \in DOMAIN Slots : Slots[i] \in Windows  BY <1>7
<1> HIDE DEF Slots, shown
<1>11. \A b \in shown : \E i \in DOMAIN Slots : block[b].window = Slots[i]
  <2> TAKE b \in shown
  <2>1. b \in Live /\ b \in Current  BY <1>5 DEF shown
  <2>2. PICK i \in 1..Len(Slots) : row[b] = RowOf(Slots[i])  BY <1>6, <2>1 DEF Fit
  <2> QED  BY <1>3, <1>7, <1>8, <1>9, <1>10, <2>1, <2>2
<1>12. \A i \in DOMAIN Slots : \E b \in shown : block[b].window = Slots[i]
  <2> TAKE i \in DOMAIN Slots
  <2>1. PICK b \in Current : row[b] = RowOf(Slots[i])  BY <1>6, <1>7 DEF Fit
  <2>2. b \in Live /\ b \in shown  BY <1>2, <1>5, <2>1 DEF Current
  <2> QED  BY <1>3, <1>8, <1>9, <1>10, <2>1, <2>2
<1>13. \A b1, b2 \in shown : block[b1].window = block[b2].window => b1 = b2
  <2> SUFFICES ASSUME NEW b1 \in shown, NEW b2 \in shown, block[b1].window = block[b2].window
               PROVE  b1 = b2
    OBVIOUS
  <2>1. b1 \in Live /\ b2 \in Live /\ b1 \in Current /\ b2 \in Current  BY <1>5 DEF shown
  <2>2. row[b1] = row[b2]  BY <1>3, <2>1
  <2> QED  BY <1>6, <2>1, <2>2 DEF Fit
<1>14. {block[b].window : b \in shown} = {Slots[i] : i \in DOMAIN Slots}  BY <1>11, <1>12
<1> QED  BY <1>13, <1>14 DEF FocusInEmptySlots, shown

(* A step of one that began in step writes nothing, and nobody else is at  *)
(* work.                                                                   *)
LEMMA InStepQuiet ==
    ASSUME Plans, Inv, Ordered, Next, NEW p \in alone, proc[p].settled
    PROVE  Writing' = {}
<1> DEFINE Quiet(x) == x.pc \notin {"saving", "moving", "forgetting"}
<1>1. p \in Recomputers /\ Course(p) /\ Tuned(p)  BY DEF Ordered, TypeOK, OnCourse, InTune
<1>2. Quiet(proc[p]) /\ \A q \in Recomputers \ {p} : Idle(q)  BY <1>1 DEF Ordered, Lone, Tuned
<1>3. \A q \in Recomputers : Quiet(proc[q])  BY <1>2 DEF Idle
<1>4. ~Inserts(p) /\ ~Updates(p) /\ ~Removes(p)  BY <1>1, TunedQuiet DEF Ordered
<1>5. Procs /\ Quiet(NoProc)  BY NoProcIsOne DEF Inv, Shape
<1> SUFFICES \A q \in Recomputers : Quiet(proc'[q])  BY DEF Writing
<1>6. ASSUME NEW q \in Recomputers, Turn(q), Quiet(proc'[q])  PROVE \A r \in Recomputers : Quiet(proc'[r])
  BY <1>3, <1>6 DEF Turn
<1> HIDE DEF Quiet
<1>7. CASE EditMeetings \/ EditBlock \/ Toggle \/ DeleteBlock \/ Midnight
  BY <1>3, <1>7 DEF EditMeetings, EditBlock, Toggle, DeleteBlock, Midnight, Edit
<1>8. ASSUME NEW q \in Recomputers, Begin(q)  PROVE \A r \in Recomputers : Quiet(proc'[r])
  <2>1. Turn(q) /\ proc'[q].pc = "begun"  BY <1>5, <1>8, BeginDoes
  <2> QED  BY <1>6, <2>1 DEF Quiet
<1>9. ASSUME NEW q \in Recomputers, Recompute(q)  PROVE \A r \in Recomputers : Quiet(proc'[r])
  <2>1. q = p
    <3>1. proc[q].pc # "idle"
      BY <1>5, <1>9, FailsDoes
         DEF Recompute, AskBusy, ListRows, Unchanged, Unchanging, InsertEvent, Inserts, InsertRow, UpdateEvent,
             Updates, Applies, UpdateRow, DeleteEvent, Removes, DeleteRow, Finish
    <3> QED  BY <1>2, <3>1 DEF Idle
  <2>2. ~InsertEvent(p) /\ ~UpdateEvent(p) /\ ~DeleteEvent(p)
    BY <1>4 DEF InsertEvent, UpdateEvent, DeleteEvent
  <2>3. ~InsertRow(p) /\ ~UpdateRow(p) /\ ~DeleteRow(p)
    BY <1>2 DEF InsertRow, UpdateRow, DeleteRow, Quiet
  <2>4. CASE AskBusy(p)
    <3>1. Turn(p) /\ proc'[p].pc = "asked"  BY <1>1, <1>5, <2>4, AskBusyDoes
    <3> QED  BY <1>1, <1>6, <3>1 DEF Quiet
  <2>5. CASE ListRows(p)
    <3>1. Turn(p) /\ proc'[p].pc = "applying"  BY <1>1, <1>5, <2>5, ListRowsDoes
    <3> QED  BY <1>1, <1>6, <3>1 DEF Quiet
  <2>6. CASE Unchanged(p)
    <3>1. Done(p, {Match(p)})  BY <2>6 DEF Unchanged
    <3>2. Turn(p) /\ proc'[p].pc = "applying"  BY <1>1, <1>5, <3>1, DoneDoes
    <3> QED  BY <1>1, <1>6, <3>2 DEF Quiet
  <2>7. CASE Fails(p) \/ Finish(p)
    <3>1. Turn(p) /\ proc'[p] = NoProc  BY <1>1, <1>5, <2>7, EndsDoes DEF Fails, Finish
    <3> QED  BY <1>1, <1>5, <1>6, <3>1
  <2> QED  BY <1>9, <2>1, <2>2, <2>3, <2>4, <2>5, <2>6, <2>7 DEF Recompute
<1>10. ASSUME NEW gone \in SUBSET Recomputers, Stop(gone)  PROVE \A r \in Recomputers : Quiet(proc'[r])
  <2>1. \A r \in Recomputers : proc'[r] \in {NoProc, proc[r]}  BY <1>10 DEF Stop
  <2> QED  BY <1>3, <1>5, <2>1
<1>11. \A q \in Recomputers : {q} \in SUBSET Recomputers  OBVIOUS
<1>12. Recomputers \in SUBSET Recomputers  OBVIOUS
<1> QED  BY <1>7, <1>8, <1>9, <1>10, <1>11, <1>12 DEF Next

(* Every variable keeps its type, if the target calendar is not its own    *)
(* source.                                                                 *)
THEOREM TypeCorrect ==
    ASSUME ~OwnSource, PlansApart
    PROVE  Spec => []TypeOK
<1>1. Plans  BY DEF Plans
<1>2. Ordered => TypeOK  BY DEF Ordered
<1>3. Inv /\ Ordered /\ [Next]_vars => Ordered'  BY <1>1, NextOrdered
<1> QED  BY <1>2, <1>3, InitInv, InitOrdered, NextInv, PTL DEF Spec

(* After a recomputation that nothing disturbed, the target calendar shows *)
(* a block in every wanted window of the coming days, each once, and no    *)
(* other block there: whatever earlier recomputations that overlapped,     *)
(* failed or were cut off have left in the rows is moved or cleared up.    *)
(* (As long as no event has lost its row, and the target is neither its    *)
(* own source nor new to rows of the coming days.)                         *)
THEOREM FocusFollows ==
    ASSUME ~OwnSource, PlansApart
    PROVE  Spec => []FocusInEmptySlots
<1>1. Plans  BY DEF Plans
<1>2. Inv /\ Ordered => FocusInEmptySlots  BY <1>1, InStepShows
<1>3. Inv /\ Ordered /\ [Next]_vars => Ordered'  BY <1>1, NextOrdered
<1> QED  BY <1>2, <1>3, InitInv, InitOrdered, NextInv, PTL DEF Spec

(* A recomputation that begins when everything is in step makes no writing *)
(* call to Google and no write to the rows.                                *)
THEOREM QuietInStep ==
    ASSUME ~OwnSource, PlansApart
    PROVE  Spec => NoChurn
<1>1. Plans  BY DEF Plans
<1>2. Inv /\ Ordered /\ [Next]_vars => [(\E p \in alone : proc[p].settled) => Writing' = {}]_vars
  BY <1>1, InStepQuiet
<1>3. Inv /\ Ordered /\ [Next]_vars => Ordered'  BY <1>1, NextOrdered
<1> QED  BY <1>2, <1>3, InitInv, InitOrdered, NextInv, PTL DEF Spec, NoChurn
===============================================================================
