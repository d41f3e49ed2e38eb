------------------------------ MODULE TasksProofs ------------------------------
(***************************************************************************)
(* Proofs about module Tasks, for all calendars, goroutines, slots, sizes  *)
(* and bounds.                                                             *)
(*                                                                         *)
(* That no block is lost sight of is a matter of who knows of it: a new    *)
(* one is its placement's alone until its row is written (Secret), and     *)
(* whoever is about to remove a row has removed the event (Gone).          *)
(*                                                                         *)
(* That a task is placed as a whole is a matter of one placement nobody    *)
(* disturbs: what it has read is still so (OnCourse), and the rows are in  *)
(* line with its plan as far as it has come (Filed).                       *)
(***************************************************************************)
EXTENDS Tasks, FiniteSetTheorems, WellFoundedInduction, TLAPS

(* What placement or deletion p has listed of the task's blocks.           *)
Held(p) == {proc[p].held[i] : i \in DOMAIN proc[p].held}

(* A goroutine has in hand what its place requires.                        *)
Equipped(p) ==
    /\ proc[p].at \in {"put", "noting"} => proc[p].done < Len(proc[p].plan)
    /\ proc[p].at \in {"drop", "dropped"} =>
          Len(proc[p].plan) <= proc[p].done /\ proc[p].done < Len(proc[p].held)
    /\ proc[p].at = "save" => Len(proc[p].plan) <= proc[p].done /\ Len(proc[p].held) <= proc[p].done
    /\ \A i, j \in DOMAIN proc[p].plan : i < j => proc[p].plan[i] < proc[p].plan[j]
    /\ proc[p].at \notin {"noting", "dropped"} => proc[p].hand = NoBlock
    /\ proc[p].at = "noting" => proc[p].hand # NoBlock /\ (Moves(p) => proc[p].hand = Mine(p))
    /\ proc[p].at = "dropped" => proc[p].hand = Mine(p)

AtHand == \A p \in Placers : Equipped(p)

(* What is named anywhere is an event that Google has made.                *)
Born ==
    /\ Noted \cap Unborn = {} /\ task.first \notin Unborn
    /\ \A p \in Placers :
          Held(p) \cap Unborn = {} /\ proc[p].hand \notin Unborn /\ proc[p].row.first \notin Unborn

(* A new block whose row is yet to be written is on the calendar, where    *)
(* the plan has it, and nobody else knows of it.                           *)
Brings(p, b) == proc[p].at = "noting" /\ ~Moves(p) /\ proc[p].hand = b
Unheard(p, b) ==
    /\ b \in Live \ Noted /\ block[b].slot = proc[p].plan[Turn(p)]
    /\ task.first # b
    /\ \A q \in Placers : b \notin Held(q) /\ proc[q].row.first # b /\ (q # p => proc[q].hand # b)
Secret == \A p \in Placers : \A b \in BlockIds : Brings(p, b) => Unheard(p, b)

(* The blocks of the task have different numbers.                          *)
Numbers == \A a, b \in Noted : chunk[a].seq = chunk[b].seq => a = b

(* Who deletes block b has deleted its event.                              *)
Removes(p, b) ==
    \/ proc[p].at = "dropped" /\ proc[p].hand = b
    \/ proc[p].at = "erased" /\ b \in Held(p)
Gone == \A p \in Placers : \A b \in BlockIds \ lost : Removes(p, b) => b \notin Live

(* The event of the summary has its row among those listed, if it has one. *)
Sums == \A p \in Placers :
    proc[p].at = "erase" /\ proc[p].row.first \in Noted => proc[p].row.first \in Held(p)

(* An event without its row is new, a row without its event is about to    *)
(* go, and a row that misstates its event is about to be rewritten.        *)
Accounted ==
    \A b \in BlockIds \ lost :
        /\ b \in Live \ Noted => \E p \in Placers : Brings(p, b)
        /\ b \in Noted \ Live => \E p \in Placers : Removes(p, b)
        /\ b \in Noted \cap Live =>
              \/ block[b].slot = chunk[b].slot
              \/ \E p \in Placers : proc[p].at = "noting" /\ proc[p].hand = b

Books == TypeOK /\ AtHand /\ Born /\ Secret /\ Numbers /\ Gone /\ Sums /\ Accounted

(* While a placement that nothing disturbed is at work, or nothing was     *)
(* ever out of order, nobody else is at work.                              *)
Working == {"idle", "read", "look", "list", "put", "noting", "drop", "dropped", "save"}
Placing == {"put", "noting", "drop", "dropped", "save"}
OneAtWork ==
    /\ \A p \in alone :
          proc[p].at \in Working /\ alone = {p} /\ \A q \in Placers \ {p} : Idle(q)
    /\ orderly => \A p, q \in Placers : Idle(p) \/ Idle(q) \/ p = q

(* What the undisturbed placement knows is still so.                       *)
Room == {s \in hours : s > now /\ s \notin busy}
UpToDate(p) ==
    /\ task.kept /\ task.status \notin Ended
    /\ proc[p].at \in {"look", "list"} => proc[p].row = task
    /\ proc[p].at = "list" => proc[p].from = now /\ proc[p].hours = hours /\ proc[p].taken = Taken
    /\ proc[p].at \in Placing /\ proc[p].plan # <<>> =>
          Len(proc[p].plan) = task.size /\ \A i \in DOMAIN proc[p].plan : proc[p].plan[i] \in hours
    /\ proc[p].at \in Placing /\ proc[p].plan = <<>> /\ lost = {} => Cardinality(Room) < task.size
OnCourse == \A p \in alone : proc[p].at \notin {"idle", "read"} => UpToDate(p)

(* The rows while one placement brings them in line with its plan.         *)
Still(p, i) == i <= Len(proc[p].plan) \/ i > proc[p].done
Filed(p) ==
    /\ \A i, j \in DOMAIN proc[p].held : i # j => proc[p].held[i] # proc[p].held[j]
    /\ \A i, j \in DOMAIN proc[p].held : i < j /\ Still(p, i) /\ Still(p, j) =>
          chunk[proc[p].held[i]].seq < chunk[proc[p].held[j]].seq
    /\ \A i \in DOMAIN proc[p].held : proc[p].held[i] \in Noted <=> Still(p, i)
    /\ \A i \in DOMAIN proc[p].held : i <= Len(proc[p].plan) /\ i <= proc[p].done =>
          chunk[proc[p].held[i]].slot = proc[p].plan[i]
    /\ \A b \in Noted \ Held(p) :
          /\ Len(proc[p].held) < chunk[b].seq /\ chunk[b].seq <= proc[p].done
          /\ chunk[b].seq <= Len(proc[p].plan) /\ chunk[b].slot = proc[p].plan[chunk[b].seq]
    /\ \A i \in DOMAIN proc[p].plan : Len(proc[p].held) < i /\ i <= proc[p].done =>
          \E b \in Noted \ Held(p) : chunk[b].seq = i

Undisturbed(p) == p \in alone \/ (orderly /\ ~Idle(p))
InOrder == lost = {} => \A p \in Placers : Undisturbed(p) /\ proc[p].at \in Placing => Filed(p)

(* As long as nothing was ever out of order, the numbers have no gap and   *)
(* the task's row sums up the first block.                                 *)
InSequence(p) == \A i \in DOMAIN proc[p].held : Still(p, i) => chunk[proc[p].held[i]].seq = i
Summed(b, s) == b \in Noted /\ chunk[b] = [seq |-> 1, slot |-> s]
Lined(p) ==
    /\ InSequence(p)
    /\ proc[p].done > 0 /\ proc[p].plan # <<>> => Summed(proc[p].row.first, proc[p].plan[1])
Plain ==
    /\ {chunk[b].seq : b \in Noted} = 1..Cardinality(Noted)
    /\ IF Noted = {} THEN task.first = NoBlock ELSE Summed(task.first, task.ends)
Tidy == orderly /\ lost = {} /\ task.kept =>
    /\ \A p \in Placers : proc[p].at \in Placing => Lined(p)
    /\ (\A p \in Placers : proc[p].at \notin Placing) => Plain

(* Once it is done, nobody is at work and the task is placed or told why.  *)
Settled == inStep => alone = {} /\ (\A p \in Placers : Idle(p)) /\ AllOrNothing

Course == OneAtWork /\ OnCourse /\ InOrder /\ Tidy /\ Settled
Inv == Books /\ Course
-------------------------------------------------------------------------------
(* A finite set of numbers has a least and a greatest one.                 *)

LEMMA LeastExists ==
    ASSUME NEW S \in SUBSET Nat, S # {}, IsFiniteSet(S)
    PROVE  \E m \in S : \A n \in S : m <= n
<1> DEFINE Upto(x) == {y \in S : y <= x}
           R == StrictSubsetOrdering(S)
           T == {Upto(x) : x \in S}
<1>1. \A x \in S : Upto(x) \in FiniteSubsetsOf(S)
  <2> TAKE x \in S
  <2> Upto(x) \in SUBSET S  OBVIOUS
  <2> QED  BY FS_Subset DEF FiniteSubsetsOf
<1>2. IsWellFoundedOn(R, FiniteSubsetsOf(S))  BY FS_StrictSubsetOrderingWellFounded
<1>3. T \subseteq FiniteSubsetsOf(S) /\ T # {}  BY <1>1
<1> HIDE DEF T, R
<1>4. PICK t \in T : \A u \in T : <<u, t>> \notin R  BY <1>2, <1>3, WFMin, Zenon
<1>5. PICK m \in S : t = Upto(m)  BY DEF T
<1>6. ASSUME NEW n \in S, ~(m <= n) PROVE FALSE
  <2>1. n \in Nat /\ m \in Nat /\ n < m  BY <1>6
  <2>2. \A y \in S : y \in Nat  OBVIOUS
  <2>3. \A y \in S : y <= n => y <= m  BY <2>1, <2>2
  <2>4. Upto(n) \subseteq Upto(m)  BY <2>3
  <2>5. m \in Upto(m) /\ m \notin Upto(n)  BY <2>1
  <2>6. <<Upto(n), t>> \in R  BY <1>5, <2>4, <2>5 DEF R, StrictSubsetOrdering
  <2>7. Upto(n) \in T  BY DEF T
  <2> QED  BY <1>4, <2>6, <2>7
<1> QED  BY <1>6

LEMMA GreatestExists ==
    ASSUME NEW S \in SUBSET Nat, S # {}, IsFiniteSet(S)
    PROVE  \E m \in S : \A n \in S : n <= m
<1> DEFINE Onward(x) == {y \in S : x <= y}
           R == StrictSubsetOrdering(S)
           T == {Onward(x) : x \in S}
<1>1. \A x \in S : Onward(x) \in FiniteSubsetsOf(S)
  <2> TAKE x \in S
  <2> Onward(x) \in SUBSET S  OBVIOUS
  <2> QED  BY FS_Subset DEF FiniteSubsetsOf
<1>2. IsWellFoundedOn(R, FiniteSubsetsOf(S))  BY FS_StrictSubsetOrderingWellFounded
<1>3. T \subseteq FiniteSubsetsOf(S) /\ T # {}  BY <1>1
<1> HIDE DEF T, R
<1>4. PICK t \in T : \A u \in T : <<u, t>> \notin R  BY <1>2, <1>3, WFMin, Zenon
<1>5. PICK m \in S : t = Onward(m)  BY DEF T
<1>6. ASSUME NEW n \in S, ~(n <= m) PROVE FALSE
  <2>1. n \in Nat /\ m \in Nat /\ m < n  BY <1>6
  <2>2. \A y \in S : y \in Nat  OBVIOUS
  <2>3. \A y \in S : n <= y => m <= y  BY <2>1, <2>2
  <2>4. Onward(n) \subseteq Onward(m)  BY <2>3
  <2>5. m \in Onward(m) /\ m \notin Onward(n)  BY <2>1
  <2>6. <<Onward(n), t>> \in R  BY <1>5, <2>4, <2>5 DEF R, StrictSubsetOrdering
  <2>7. Onward(n) \in T  BY DEF T
  <2> QED  BY <1>4, <2>6, <2>7
<1> QED  BY <1>6

(* How many members of a set of numbers there are up to one.               *)
Upto(S, x) == {y \in S : y <= x}

LEMMA UptoFinite ==
    ASSUME NEW S \in SUBSET Nat, IsFiniteSet(S), NEW x
    PROVE  /\ IsFiniteSet(Upto(S, x)) /\ Cardinality(Upto(S, x)) \in 0..Cardinality(S)
           /\ Cardinality(S) \in Nat
<1>1. Upto(S, x) \in SUBSET S  BY DEF Upto
<1>2. /\ IsFiniteSet(Upto(S, x)) /\ Cardinality(Upto(S, x)) <= Cardinality(S)
  BY <1>1, FS_Subset
<1>3. Cardinality(Upto(S, x)) \in Nat /\ Cardinality(S) \in Nat  BY <1>2, FS_CardinalityType
<1> QED  BY <1>2, <1>3

LEMMA UptoGrows ==
    ASSUME NEW S \in SUBSET Nat, IsFiniteSet(S), NEW x \in S, NEW y \in S, x < y
    PROVE  Cardinality(Upto(S, x)) < Cardinality(Upto(S, y))
<1>1. \A z \in S : z \in Nat  OBVIOUS
<1>2. Upto(S, x) \subseteq Upto(S, y)
  <2>1. x \in Nat /\ y \in Nat  OBVIOUS
  <2>2. \A z \in Nat : z <= x => z <= y  BY <2>1
  <2> QED  BY <1>1, <2>2 DEF Upto
<1>3. y \in Upto(S, y) /\ y \notin Upto(S, x)  BY <1>1 DEF Upto
<1>4. IsFiniteSet(Upto(S, y)) /\ IsFiniteSet(Upto(S, x))  BY UptoFinite
<1>5. /\ Cardinality(Upto(S, x)) <= Cardinality(Upto(S, y))
      /\ Cardinality(Upto(S, y)) = Cardinality(Upto(S, x)) => Upto(S, y) = Upto(S, x)
  BY <1>2, <1>4, FS_Subset
<1>6. Cardinality(Upto(S, x)) \in Nat /\ Cardinality(Upto(S, y)) \in Nat
  BY <1>4, FS_CardinalityType
<1> QED  BY <1>3, <1>5, <1>6

(* The i-th smallest member exists, and is what Nth says.                  *)
LEMMA NthIs ==
    ASSUME NEW S \in SUBSET Nat, IsFiniteSet(S), NEW i \in 1..Cardinality(S)
    PROVE  Nth(S, i) \in S /\ Cardinality(Upto(S, Nth(S, i))) = i
<1> DEFINE T == {x \in S : Cardinality(Upto(S, x)) >= i}
<1>0. Cardinality(S) \in Nat /\ i \in Nat /\ i >= 1  BY FS_CardinalityType
<1>1. T # {}
  <2>1. S # {}  BY <1>0, FS_EmptySet
  <2>2. PICK g \in S : \A n \in S : n <= g  BY <2>1, GreatestExists
  <2>3. Upto(S, g) = S  BY <2>2 DEF Upto
  <2> QED  BY <1>0, <2>3
<1>2. T \in SUBSET Nat /\ IsFiniteSet(T)
  <2>1. T \in SUBSET S  OBVIOUS
  <2> QED  BY <2>1, FS_Subset
<1> HIDE DEF T
<1>3. PICK m \in T : \A n \in T : m <= n  BY <1>1, <1>2, LeastExists
<1>4. m \in S /\ Cardinality(Upto(S, m)) >= i  BY DEF T
<1>5. Cardinality(Upto(S, m)) = i
  <2> SUFFICES ASSUME Cardinality(Upto(S, m)) # i PROVE FALSE  OBVIOUS
  <2>1. IsFiniteSet(Upto(S, m)) /\ Cardinality(Upto(S, m)) \in Nat  BY UptoFinite
  <2> DEFINE L == Upto(S, m) \ {m}
  <2>2. m \in Upto(S, m)  BY <1>4 DEF Upto
  <2>3. IsFiniteSet(L) /\ Cardinality(L) = Cardinality(Upto(S, m)) - 1
    BY <2>1, <2>2, FS_RemoveElement
  <2>4. Cardinality(L) >= i  BY <1>0, <1>4, <2>1, <2>3
  <2>5. L # {}  BY <1>0, <2>3, <2>4, FS_EmptySet
  <2>6. L \in SUBSET Nat  BY DEF Upto
  <2>7. PICK g \in L : \A n \in L : n <= g  BY <2>3, <2>5, <2>6, GreatestExists
  <2>8. \A y \in S : y \in Nat  OBVIOUS
  <2>9. g \in S /\ g < m  BY <1>4, <2>8 DEF Upto
  <2>10. Upto(S, g) = L
    <3>1. \A y \in S : y <= g <=> y <= m /\ y # m
      <4> SUFFICES ASSUME NEW y \in S PROVE y <= g <=> y <= m /\ y # m  OBVIOUS
      <4>1. y <= g => y <= m /\ y # m  BY <1>4, <2>8, <2>9
      <4>2. y <= m /\ y # m => y <= g  BY <2>7 DEF Upto
      <4> QED  BY <4>1, <4>2
    <3> QED  BY <3>1 DEF Upto
  <2>11. g \in T  BY <2>4, <2>9, <2>10 DEF T
  <2> QED  BY <1>3, <1>4, <2>8, <2>9, <2>11
<1>6. \E x \in S : Cardinality({y \in S : y <= x}) = i  BY <1>4, <1>5 DEF Upto
<1> QED  BY <1>6 DEF Nth, Upto

LEMMA NthGrows ==
    ASSUME NEW S \in SUBSET Nat, IsFiniteSet(S),
           NEW i \in 1..Cardinality(S), NEW j \in 1..Cardinality(S), i < j
    PROVE  Nth(S, i) < Nth(S, j)
<1>0. Cardinality(S) \in Nat /\ i \in Nat /\ j \in Nat  BY FS_CardinalityType
<1>1. Nth(S, i) \in S /\ Cardinality(Upto(S, Nth(S, i))) = i  BY NthIs
<1>2. Nth(S, j) \in S /\ Cardinality(Upto(S, Nth(S, j))) = j  BY NthIs
<1>3. Nth(S, j) < Nth(S, i) => j < i  BY <1>1, <1>2, UptoGrows
<1>4. Nth(S, j) # Nth(S, i)  BY <1>0, <1>1, <1>2
<1>5. ~(Nth(S, j) < Nth(S, i))  BY <1>0, <1>3
<1>6. Nth(S, i) \in Nat /\ Nth(S, j) \in Nat  BY <1>1, <1>2
<1> QED  BY <1>4, <1>5, <1>6

LEMMA NthAll ==
    ASSUME NEW S \in SUBSET Nat, IsFiniteSet(S), NEW x \in S
    PROVE  \E i \in 1..Cardinality(S) : Nth(S, i) = x /\ i = Cardinality(Upto(S, x))
<1> DEFINE i == Cardinality(Upto(S, x))
<1>1. i \in 0..Cardinality(S) /\ Cardinality(S) \in Nat /\ IsFiniteSet(Upto(S, x))  BY UptoFinite
<1>2. x \in Upto(S, x)  BY DEF Upto
<1>3. i \in 1..Cardinality(S)  BY <1>1, <1>2, FS_EmptySet
<1> HIDE DEF i
<1>4. Nth(S, i) \in S /\ Cardinality(Upto(S, Nth(S, i))) = i  BY <1>3, NthIs
<1>5. Cardinality(Upto(S, x)) = i  BY DEF i
<1>6. ~(Nth(S, i) < x)
  <2> SUFFICES ASSUME Nth(S, i) < x PROVE FALSE  OBVIOUS
  <2>1. Cardinality(Upto(S, Nth(S, i))) < Cardinality(Upto(S, x))  BY <1>4, UptoGrows
  <2> QED  BY <1>1, <1>4, <1>5, <2>1
<1>7. ~(x < Nth(S, i))
  <2> SUFFICES ASSUME x < Nth(S, i) PROVE FALSE  OBVIOUS
  <2>1. Cardinality(Upto(S, x)) < Cardinality(Upto(S, Nth(S, i)))  BY <1>4, UptoGrows
  <2> QED  BY <1>1, <1>4, <1>5, <2>1
<1>8. Nth(S, i) = x
  <2>1. Nth(S, i) \in Nat /\ x \in Nat  BY <1>4
  <2> QED  BY <1>6, <1>7, <2>1
<1> QED  BY <1>3, <1>5, <1>8

LEMMA NthOfRange ==
    ASSUME NEW n \in Nat, NEW i \in 1..n
    PROVE  Nth(1..n, i) = i
<1>1. IsFiniteSet(1..n) /\ 1..n \in SUBSET Nat  BY FS_Interval
<1>2. Upto(1..n, i) = 1..i  BY DEF Upto
<1>3. Cardinality(1..i) = i  BY FS_Interval
<1> QED  BY <1>1, <1>2, <1>3, NthAll
-------------------------------------------------------------------------------
(* What ListByTask returns: each block with a row, once, in the order of   *)
(* the numbers.                                                            *)
Nums == {chunk[b].seq : b \in Noted}

LEMMA NotedFinite ==
    ASSUME TaskAssumption, TypeOK, Numbers
    PROVE  /\ IsFiniteSet(Noted) /\ Cardinality(Noted) \in 0..MaxSize
           /\ IsFiniteSet(Nums) /\ Cardinality(Nums) = Cardinality(Noted) /\ Nums \in SUBSET Nat
<1> DEFINE f == [b \in Noted |-> chunk[b].seq]
<1>1. \A b \in Noted : chunk[b].seq \in 1..MaxSize  BY DEF TypeOK, Noted, TaskAssumption
<1>2. Nums \subseteq 1..MaxSize  BY <1>1 DEF Nums
<1>3. IsFiniteSet(1..MaxSize) /\ Cardinality(1..MaxSize) = MaxSize
  BY FS_Interval DEF TaskAssumption
<1>4. IsFiniteSet(Nums) /\ Cardinality(Nums) <= MaxSize  BY <1>2, <1>3, FS_Subset
<1>5. f \in Injection(Noted, Nums) /\ f \in Surjection(Noted, Nums)
  BY DEF Numbers, Nums, Injection, IsInjective, Surjection
<1>6. IsFiniteSet(Noted) /\ Cardinality(Noted) = Cardinality(Nums)
  BY <1>4, <1>5, FS_Injection
<1>7. Cardinality(Noted) \in Nat  BY <1>6, FS_CardinalityType
<1> QED  BY <1>2, <1>4, <1>6, <1>7 DEF TaskAssumption

LEMMA ListedIs ==
    ASSUME TaskAssumption, TypeOK, Numbers
    PROVE  /\ Listed \in Seq(BlockIds) /\ Len(Listed) = Cardinality(Noted) /\ Len(Listed) <= MaxSize
           /\ \A i \in DOMAIN Listed : Listed[i] \in Noted /\ chunk[Listed[i]].seq = Nth(Nums, i)
           /\ \A i, j \in DOMAIN Listed : i < j => chunk[Listed[i]].seq < chunk[Listed[j]].seq
           /\ \A b \in Noted : \E i \in DOMAIN Listed : Listed[i] = b
           /\ Listed = <<>> <=> Noted = {}
<1> DEFINE n == Cardinality(Noted)
<1>1. /\ IsFiniteSet(Noted) /\ n \in 0..MaxSize
      /\ IsFiniteSet(Nums) /\ Cardinality(Nums) = n /\ Nums \in SUBSET Nat
  BY NotedFinite
<1>2. n \in Nat /\ n <= MaxSize  BY <1>1 DEF TaskAssumption
<1>3. \A i \in 1..n : \E b \in Noted : chunk[b].seq = Nth(Nums, i)
  <2>1. \A i \in 1..n : Nth(Nums, i) \in Nums  BY <1>1, NthIs
  <2> QED  BY <2>1 DEF Nums
<1> HIDE DEF n
<1>4. Listed = [i \in 1..n |-> CHOOSE b \in Noted : chunk[b].seq = Nth(Nums, i)]
  BY DEF Listed, Nums, n
<1>5. \A i \in 1..n : Listed[i] \in Noted /\ chunk[Listed[i]].seq = Nth(Nums, i)
  BY <1>3, <1>4
<1>6. Noted \subseteq BlockIds  BY DEF Noted
<1>7. Listed \in Seq(BlockIds) /\ Len(Listed) = n /\ DOMAIN Listed = 1..n
  BY <1>2, <1>4, <1>5, <1>6
<1>8. \A i, j \in 1..n : i < j => chunk[Listed[i]].seq < chunk[Listed[j]].seq
  BY <1>1, <1>5, NthGrows
<1>9. ASSUME NEW b \in Noted PROVE \E i \in 1..n : Listed[i] = b
  <2>1. chunk[b].seq \in Nums  BY DEF Nums
  <2>2. PICK i \in 1..n : Nth(Nums, i) = chunk[b].seq  BY <1>1, <2>1, NthAll
  <2> QED  BY <1>5, <2>2 DEF Numbers
<1>10. Listed = <<>> <=> Noted = {}
  <2>1. Listed = <<>> <=> n = 0  BY <1>7
  <2>2. n = 0 <=> Noted = {}  BY <1>1, FS_EmptySet DEF n
  <2> QED  BY <2>1, <2>2
<1> QED  BY <1>2, <1>5, <1>7, <1>8, <1>9, <1>10 DEF n

(* As many of the free slots as are wanted, in order.                      *)
LEMMA FirstsIs ==
    ASSUME TaskAssumption, NEW free \in SUBSET Slots, NEW n \in 1..MaxSize, n <= Cardinality(free)
    PROVE  /\ Firsts(free, n) \in Seq(Slots) /\ Len(Firsts(free, n)) = n /\ Firsts(free, n) # <<>>
           /\ \A i \in DOMAIN Firsts(free, n) : Firsts(free, n)[i] \in free
           /\ \A i, j \in DOMAIN Firsts(free, n) : i < j => Firsts(free, n)[i] < Firsts(free, n)[j]
<1>1. IsFiniteSet(Slots)  BY FS_Interval DEF Slots, TaskAssumption
<1>2. IsFiniteSet(free)  BY <1>1, FS_Subset
<1>3. free \in SUBSET Nat  BY DEF Slots
<1>4. n \in Nat /\ n >= 1 /\ Cardinality(free) \in Nat
  BY <1>2, FS_CardinalityType DEF TaskAssumption
<1>5. 1..n \subseteq 1..Cardinality(free)  BY <1>4
<1>6. \A i \in 1..n : Nth(free, i) \in free  BY <1>2, <1>3, <1>5, NthIs
<1>7. \A i, j \in 1..n : i < j => Nth(free, i) < Nth(free, j)  BY <1>2, <1>3, <1>5, NthGrows
<1>8. /\ Firsts(free, n) \in Seq(Slots) /\ Len(Firsts(free, n)) = n
      /\ DOMAIN Firsts(free, n) = 1..n /\ \A i \in 1..n : Firsts(free, n)[i] = Nth(free, i)
  BY <1>4, <1>6 DEF Firsts
<1> QED  BY <1>4, <1>6, <1>7, <1>8
-------------------------------------------------------------------------------
(* Types and shapes.                                                       *)

LEMMA AtRest ==
    ASSUME TaskAssumption
    PROVE  /\ NoProc \in ProcStates /\ NoProc.at = "idle" /\ NoProc.hand = NoBlock
           /\ NoProc.held = <<>> /\ NoProc.plan = <<>> /\ NoProc.done = 0
           /\ NoProc.row.first = NoBlock
           /\ \A c \in Cals, n \in 1..MaxSize : NewTask(c, n) \in Rows
<1>1. AnyCal \in Cals  BY DEF AnyCal, TaskAssumption
<1>2. 1 \in 1..MaxSize /\ 0 \in 0..Last /\ 0 \in 0..(MaxSize + 1)  BY DEF TaskAssumption
<1>3. \A c \in Cals, n \in 1..MaxSize : NewTask(c, n) \in Rows
  BY <1>2 DEF NewTask, Rows, Statuses
<1>4. <<>> \in Seq(BlockIds) /\ <<>> \in Seq(Slots)  OBVIOUS
<1>5. NoProc \in ProcStates  BY <1>1, <1>2, <1>3, <1>4 DEF NoProc, ProcStates
<1> QED  BY <1>3, <1>5 DEF NoProc, NewTask

LEMMA Bounds ==
    ASSUME TaskAssumption, TypeOK
    PROVE  /\ Ask \/ asks' = asks => asks' \in 0..MaxAsks
           /\ Upset \/ upsets' = upsets => upsets' \in 0..MaxUpsets
  BY DEF TypeOK, Ask, Upset, TaskAssumption

(* One goroutine goes on, and the others stay where they are.              *)
Goes(p, q) ==
    /\ proc'[p] = q
    /\ \A r \in Placers \ {p} : proc'[r] = proc[r]
    /\ proc' \in [Placers -> ProcStates]
    /\ \A r \in Placers : Len(proc'[r].held) <= MaxSize /\ Len(proc'[r].plan) <= MaxSize

LEMMA Going ==
    ASSUME TypeOK, NEW p \in Placers, NEW q \in ProcStates, proc' = [proc EXCEPT ![p] = q],
           Len(q.held) <= MaxSize, Len(q.plan) <= MaxSize
    PROVE  Goes(p, q)
  BY DEF TypeOK, Goes

LEMMA EndsIs ==
    ASSUME TaskAssumption, TypeOK, NEW p \in Placers, Ends(p)
    PROVE  Goes(p, NoProc)
<1>1. Len(NoProc.held) <= MaxSize /\ Len(NoProc.plan) <= MaxSize  BY AtRest DEF TaskAssumption
<1> QED  BY <1>1, AtRest, Going DEF Ends

LEMMA RestEquipped ==
    ASSUME TaskAssumption, NEW p \in Placers, proc'[p] = NoProc
    PROVE  Equipped(p)' /\ Held(p)' = {}
  BY AtRest DEF Equipped, Held

LEMMA SeenType ==
    ASSUME TypeOK,
           \/ UNCHANGED seen \/ Disturb \/ CutOff \/ \E p \in Placers : Starts(p)
    PROVE  alone' \subseteq Placers /\ inStep' \in BOOLEAN /\ orderly' \in BOOLEAN
<1>1. alone \subseteq Placers /\ inStep \in BOOLEAN /\ orderly \in BOOLEAN  BY DEF TypeOK
<1>2. CASE UNCHANGED seen  BY <1>1, <1>2 DEF seen
<1>3. CASE Disturb \/ CutOff  BY <1>1, <1>3 DEF Disturb, CutOff
<1>4. CASE \E p \in Placers : Starts(p)
  <2>1. PICK p \in Placers : Starts(p)  BY <1>4
  <2>2. (orderly /\ Alone) \in BOOLEAN  OBVIOUS
  <2>3. orderly' = (orderly /\ Alone)  BY <2>1 DEF Starts
  <2>4. alone' = (IF Alone THEN {p} ELSE {}) /\ inStep' = FALSE  BY <2>1 DEF Starts
  <2> QED  BY <2>2, <2>3, <2>4
<1> QED  BY <1>2, <1>3, <1>4
-------------------------------------------------------------------------------
(* Steps that change neither rows nor events: whoever moves lets go of     *)
(* what is in hand, knows nothing new but what has a row, and of the       *)
(* summary what the task's row says.                                       *)
Calm(p) ==
    /\ Equipped(p)' /\ proc'[p].at \notin {"noting", "dropped", "erased"}
    /\ Held(p)' \subseteq Noted \cup Held(p)
    /\ proc'[p].row.first \in {NoBlock, task.first, proc[p].row.first}
    /\ proc'[p].at = "erase" => (proc'[p].row.first \in Noted => proc'[p].row.first \in Held(p)')
    /\ InHand(proc[p]) \subseteq lost'

LEMMA SameBlocks ==
    ASSUME UNCHANGED <<chunk, block>>
    PROVE  Noted' = Noted /\ Live' = Live /\ Unborn' = Unborn
  BY DEF Noted, Live, Unborn

LEMMA SameAtHand ==
    ASSUME NEW p \in Placers, proc'[p] = proc[p]
    PROVE  /\ (Equipped(p)' <=> Equipped(p)) /\ Held(p)' = Held(p)
           /\ \A b : (Brings(p, b)' <=> Brings(p, b)) /\ (Removes(p, b)' <=> Removes(p, b))
  BY DEF Equipped, Held, Brings, Removes, Moves, Mine, Turn

LEMMA Calmly ==
    ASSUME TaskAssumption, Books, TypeOK', UNCHANGED <<chunk, block>>, lost \subseteq lost',
           \A p \in Placers : proc'[p] = proc[p] \/ Calm(p),
           task'.first \in {NoBlock, task.first} \cup {proc[p].row.first : p \in Placers}
    PROVE  Books'
<1>0. Noted' = Noted /\ Live' = Live /\ Unborn' = Unborn  BY SameBlocks
<1>1. NoBlock \notin BlockIds /\ Noted \subseteq BlockIds /\ Live \subseteq BlockIds
      /\ Unborn \subseteq BlockIds
  BY DEF TaskAssumption, Noted, Live, Unborn
<1>2. \A p \in Placers : ~Calm(p) => proc'[p] = proc[p]  OBVIOUS
<1>3. \A p \in Placers : Calm(p) => proc'[p].hand = NoBlock  BY DEF Calm, Equipped
<1>4. ASSUME NEW p \in Placers, NEW b \in BlockIds, Brings(p, b)
      PROVE  b \in InHand(proc[p])
  BY <1>1, <1>4 DEF Brings, InHand
<1>5. ASSUME NEW p \in Placers, NEW b \in BlockIds, Removes(p, b)
      PROVE  b \in InHand(proc[p])
  BY <1>1, <1>5 DEF Removes, InHand, Held
<1>6. AtHand'  BY <1>2, SameAtHand DEF AtHand, Calm, Books
<1>7. Born'
  <2>1. task'.first \notin Unborn  BY <1>1 DEF Books, Born
  <2>2. ASSUME NEW p \in Placers
        PROVE  /\ Held(p)' \cap Unborn = {} /\ proc'[p].hand \notin Unborn
               /\ proc'[p].row.first \notin Unborn
    <3>1. CASE Calm(p)  BY <1>1, <1>3, <3>1 DEF Calm, Books, Born
    <3>2. CASE ~Calm(p)  BY <1>2, <3>2, SameAtHand DEF Books, Born
    <3> QED  BY <3>1, <3>2
  <2> QED  BY <1>0, <2>1, <2>2 DEF Books, Born
<1>8. Secret'
  <2> SUFFICES ASSUME NEW p \in Placers, NEW b \in BlockIds, Brings(p, b)' PROVE Unheard(p, b)'
    BY DEF Secret
  <2>1. ~Calm(p)  BY DEF Calm, Brings
  <2>2. proc'[p] = proc[p] /\ Brings(p, b)  BY <1>2, <2>1, SameAtHand
  <2>3. Unheard(p, b)  BY <2>2 DEF Books, Secret
  <2>4. task'.first # b  BY <1>1, <2>3 DEF Unheard
  <2>5. ASSUME NEW q \in Placers
        PROVE  b \notin Held(q)' /\ proc'[q].row.first # b /\ (q # p => proc'[q].hand # b)
    <3>1. CASE Calm(q)  BY <1>1, <1>3, <2>3, <3>1 DEF Calm, Unheard
    <3>2. CASE ~Calm(q)  BY <1>2, <2>3, <3>2, SameAtHand DEF Unheard
    <3> QED  BY <3>1, <3>2
  <2>6. (block[b].slot = proc[p].plan[Turn(p)])'  BY <2>2, <2>3 DEF Unheard, Turn
  <2> QED  BY <1>0, <2>3, <2>4, <2>5, <2>6 DEF Unheard
<1>9. Numbers'  BY <1>0 DEF Books, Numbers
<1>10. Gone'
  <2> SUFFICES ASSUME NEW p \in Placers, NEW b \in BlockIds \ lost', Removes(p, b)' PROVE b \notin Live
    BY <1>0 DEF Gone
  <2>1. ~Calm(p)  BY DEF Calm, Removes
  <2>2. Removes(p, b)  BY <1>2, <2>1, SameAtHand
  <2> QED  BY <2>2 DEF Books, Gone
<1>11. Sums'
  <2> SUFFICES ASSUME NEW p \in Placers, proc'[p].at = "erase", proc'[p].row.first \in Noted
               PROVE  proc'[p].row.first \in Held(p)'
    BY <1>0 DEF Sums
  <2>1. CASE Calm(p)  BY <2>1 DEF Calm
  <2>2. CASE ~Calm(p)  BY <1>2, <2>2, SameAtHand DEF Books, Sums
  <2> QED  BY <2>1, <2>2
<1>12. Accounted'
  <2> SUFFICES ASSUME NEW b \in BlockIds \ lost'
               PROVE  /\ b \in Live \ Noted => \E p \in Placers : Brings(p, b)'
                      /\ b \in Noted \ Live => \E p \in Placers : Removes(p, b)'
                      /\ b \in Noted \cap Live =>
                            \/ block[b].slot = chunk[b].slot
                            \/ \E p \in Placers : proc'[p].at = "noting" /\ proc'[p].hand = b
    BY <1>0 DEF Accounted
  <2>0. b \notin lost  OBVIOUS
  <2>1. ASSUME NEW p \in Placers, Brings(p, b) PROVE Brings(p, b)'
    BY <1>2, <1>4, <2>1, SameAtHand DEF Calm
  <2>2. ASSUME NEW p \in Placers, Removes(p, b) PROVE Removes(p, b)'
    BY <1>2, <1>5, <2>2, SameAtHand DEF Calm
  <2>3. ASSUME NEW p \in Placers, proc[p].at = "noting", proc[p].hand = b
        PROVE  proc'[p] = proc[p]
    BY <1>1, <1>2, <2>3 DEF Calm, InHand
  <2> QED  BY <2>0, <2>1, <2>2, <2>3 DEF Books, Accounted
<1> QED  BY <1>6, <1>7, <1>8, <1>9, <1>10, <1>11, <1>12 DEF Books

LEMMA EmptyHanded ==
    ASSUME NEW p \in Placers, Equipped(p), proc[p].at \notin {"noting", "dropped", "erased"}
    PROVE  InHand(proc[p]) = {}
  BY DEF Equipped, InHand

(* A goroutine that ends, and what it had in hand is lost.                 *)
LEMMA EndBooks ==
    ASSUME TaskAssumption, Books, NEW p \in Placers, Goes(p, NoProc), TypeOK',
           UNCHANGED <<chunk, block>>, lost \subseteq lost', InHand(proc[p]) \subseteq lost',
           task'.first \in {NoBlock, task.first, proc[p].row.first}
    PROVE  Books'
<1>1. \A q \in Placers \ {p} : proc'[q] = proc[q]  BY DEF Goes
<1>2. proc'[p] = NoProc  BY DEF Goes
<1>3. Calm(p)  BY <1>2, AtRest, RestEquipped DEF Calm
<1> QED  BY <1>1, <1>3, Calmly

LEMMA WorldBooks ==
    ASSUME TaskAssumption, Books, Meet \/ EditHours \/ Pass \/ Complete
    PROVE  Books'
<1>1. TypeOK  BY DEF Books
<1>2. UNCHANGED <<chunk, block, proc, lost, upsets>> /\ Disturb
  BY DEF Meet, EditHours, Pass, Complete
<1>3. task' \in Rows /\ task'.first = task.first
  BY <1>1 DEF TypeOK, Meet, EditHours, Pass, Complete, Rows, Statuses
<1>4. busy' \subseteq Slots /\ hours' \subseteq Slots
  BY <1>1 DEF TypeOK, Meet, EditHours, Pass, Complete
<1>5. now' \in 0..Last
  BY <1>1, TaskAssumption DEF TypeOK, Meet, EditHours, Pass, Complete, TaskAssumption
<1>6. asks' \in 0..MaxAsks  BY <1>1, Bounds DEF Meet, EditHours, Pass, Complete
<1>7. alone' \subseteq Placers /\ inStep' \in BOOLEAN /\ orderly' \in BOOLEAN
  BY <1>1, <1>2, SeenType
<1>8. TypeOK'  BY <1>1, <1>2, <1>3, <1>4, <1>5, <1>6, <1>7 DEF TypeOK
<1> QED  BY <1>2, <1>3, <1>8, Calmly

(* A goroutine begins to place the task.                                   *)
LEMMA StartBooks ==
    ASSUME TaskAssumption, Books, NEW p \in Placers, Starts(p), Ask \/ asks' = asks,
           task' \in Rows, task'.first = task.first,
           UNCHANGED <<chunk, block, busy, hours, now, lost, upsets>>
    PROVE  Books' /\ Goes(p, [proc[p] EXCEPT !.at = "read"])
<1>0. TypeOK /\ Equipped(p) /\ Idle(p)  BY DEF Books, AtHand, Starts
<1> DEFINE q == [proc[p] EXCEPT !.at = "read"]
<1>1. /\ q \in ProcStates /\ Len(q.held) <= MaxSize /\ Len(q.plan) <= MaxSize
      /\ q.hand = proc[p].hand /\ q.plan = proc[p].plan /\ q.held = proc[p].held
      /\ q.row = proc[p].row /\ q.at = "read"
  <2>1. proc[p] \in ProcStates /\ Len(proc[p].held) <= MaxSize /\ Len(proc[p].plan) <= MaxSize
    BY <1>0 DEF TypeOK
  <2>2. /\ q.hand = proc[p].hand /\ q.plan = proc[p].plan /\ q.held = proc[p].held
        /\ q.row = proc[p].row /\ q.at = "read"
    BY <2>1 DEF ProcStates
  <2>3. q \in ProcStates  BY <2>1 DEF ProcStates
  <2> QED  BY <2>1, <2>2, <2>3
<1>2. proc' = [proc EXCEPT ![p] = q]  BY <1>0 DEF Starts, TypeOK
<1> HIDE DEF q
<1>3. Goes(p, q)  BY <1>0, <1>1, <1>2, Going
<1>4. proc'[p] = q  BY <1>3 DEF Goes
<1>5. InHand(proc[p]) = {}  BY <1>0, EmptyHanded DEF Idle
<1>6. Calm(p)
  <2>1. Equipped(p)'  BY <1>0, <1>1, <1>4 DEF Equipped, Idle
  <2>2. Held(p)' = Held(p)  BY <1>1, <1>4 DEF Held
  <2> QED  BY <1>1, <1>4, <1>5, <2>1, <2>2 DEF Calm
<1>7. TypeOK'
  <2>1. asks' \in 0..MaxAsks  BY <1>0, Bounds
  <2>2. alone' \subseteq Placers /\ inStep' \in BOOLEAN /\ orderly' \in BOOLEAN
    BY <1>0, SeenType
  <2> QED  BY <1>0, <1>3, <2>1, <2>2 DEF TypeOK, Goes
<1>8. \A r \in Placers \ {p} : proc'[r] = proc[r]  BY <1>3 DEF Goes
<1>9. Books'  BY <1>6, <1>7, <1>8, Calmly
<1> QED  BY <1>3, <1>9 DEF q

LEMMA SaveTaskBooks ==
    ASSUME TaskAssumption, Books, NEW p \in Placers,
           SaveTask(p) \/ PlaceNow(p) \/ (Maintain /\ p = Ticker)
    PROVE  Books' /\ Goes(p, [proc[p] EXCEPT !.at = "read"]) /\ Starts(p)
<1>1. Starts(p) /\ (Ask \/ asks' = asks)
  BY DEF SaveTask, PlaceNow, Maintain, given
<1>2. UNCHANGED <<chunk, block, busy, hours, now, lost, upsets>>
  BY DEF SaveTask, PlaceNow, Maintain, given
<1>3. task \in Rows  BY DEF Books, TypeOK
<1>4. task' \in Rows /\ task'.first = task.first
  <2>1. CASE SaveTask(p)
    <3>1. PICK c \in Cals, n \in 1..MaxSize, st \in Statuses :
             task' = [task EXCEPT !.cal = c, !.size = n, !.status = st]
      BY <2>1 DEF SaveTask
    <3> QED  BY <1>3, <3>1 DEF Rows
  <2>2. CASE ~SaveTask(p)  BY <1>3, <2>2 DEF PlaceNow, Maintain
  <2> QED  BY <2>1, <2>2
<1> QED  BY <1>1, <1>2, <1>4, StartBooks

LEMMA DeleteBooks ==
    ASSUME TaskAssumption, Books, NEW p \in Placers, DeleteTask(p)
    PROVE  /\ Books' /\ proc'[p].at = "erase"
           /\ \A r \in Placers \ {p} : proc'[r] = proc[r]
<1>0. TypeOK /\ Equipped(p) /\ Idle(p) /\ Numbers  BY DEF Books, AtHand, DeleteTask
<1> DEFINE q == [proc[p] EXCEPT !.at = "erase", !.row = task, !.held = Listed]
<1>1. /\ q.hand = proc[p].hand /\ q.plan = proc[p].plan /\ q.held = Listed
      /\ q.row = task /\ q.at = "erase" /\ q \in ProcStates
  <2>1. proc[p] \in ProcStates /\ task \in Rows  BY <1>0 DEF TypeOK
  <2>2. Listed \in Seq(BlockIds)  BY <1>0, ListedIs
  <2> QED  BY <2>1, <2>2 DEF ProcStates
<1>2. Len(q.held) <= MaxSize /\ Len(q.plan) <= MaxSize  BY <1>0, <1>1, ListedIs DEF TypeOK
<1>3. proc' = [proc EXCEPT ![p] = q]  BY <1>0 DEF DeleteTask, TypeOK
<1> HIDE DEF q
<1>4. Goes(p, q)  BY <1>0, <1>1, <1>2, <1>3, Going
<1>5. proc'[p] = q /\ \A r \in Placers \ {p} : proc'[r] = proc[r]  BY <1>4 DEF Goes
<1>6. InHand(proc[p]) = {}  BY <1>0, EmptyHanded DEF Idle
<1>7. Calm(p)
  <2>1. Equipped(p)'  BY <1>0, <1>1, <1>5 DEF Equipped, Idle
  <2>2. Held(p)' = Noted
    <3>1. Held(p)' = {Listed[i] : i \in DOMAIN Listed}  BY <1>1, <1>5 DEF Held
    <3> QED  BY <1>0, <3>1, ListedIs
  <2> QED  BY <1>1, <1>5, <1>6, <2>1, <2>2 DEF Calm
<1>8. TypeOK'
  <2>1. asks' \in 0..MaxAsks  BY <1>0, Bounds DEF DeleteTask
  <2>2. (orderly /\ Alone) \in BOOLEAN  OBVIOUS
  <2>3. orderly' = (orderly /\ Alone) /\ alone' = {} /\ inStep' = FALSE  BY DEF DeleteTask
  <2>4. UNCHANGED <<task, chunk, block, busy, hours, now, lost, upsets>>  BY DEF DeleteTask
  <2> QED  BY <1>0, <1>4, <2>1, <2>2, <2>3, <2>4 DEF TypeOK, Goes
<1>9. UNCHANGED <<task, chunk, block, lost>>  BY DEF DeleteTask
<1> QED  BY <1>1, <1>5, <1>7, <1>8, <1>9, Calmly

(* Steps that change what the goroutine knows, and nothing else.           *)
LEMMA KnowBooks ==
    ASSUME TaskAssumption, Books, NEW p \in Placers, NEW q \in ProcStates, Goes(p, q),
           UNCHANGED <<task, chunk, block, given, lost, upsets>>,
           alone' \subseteq Placers, inStep' \in BOOLEAN, orderly' \in BOOLEAN,
           proc[p].at \notin {"noting", "dropped", "erased"}, Equipped(p)',
           q.at \notin {"noting", "dropped", "erase", "erased"},
           q.row.first \in {NoBlock, task.first, proc[p].row.first},
           Held(p)' \subseteq Noted \cup Held(p)
    PROVE  Books'
<1>1. TypeOK /\ Equipped(p)  BY DEF Books, AtHand
<1>2. proc'[p] = q /\ \A r \in Placers \ {p} : proc'[r] = proc[r]  BY DEF Goes
<1>3. InHand(proc[p]) = {}  BY <1>1, EmptyHanded
<1>4. Calm(p)  BY <1>2, <1>3 DEF Calm
<1>5. TypeOK'  BY <1>1 DEF TypeOK, Goes, given
<1> QED  BY <1>2, <1>4, <1>5, Calmly

LEMMA ReadIs ==
    ASSUME TaskAssumption, TypeOK, NEW p \in Placers, Read(p)
    PROVE  \/ Goes(p, NoProc)
           \/ /\ task.kept /\ task.status \notin Ended
              /\ Goes(p, [proc[p] EXCEPT !.at = "look", !.row = task])
              /\ [proc[p] EXCEPT !.at = "look", !.row = task] \in ProcStates
<1> DEFINE q == [proc[p] EXCEPT !.at = "look", !.row = task]
<1>1. proc[p] \in ProcStates /\ Len(proc[p].held) <= MaxSize /\ Len(proc[p].plan) <= MaxSize
  BY DEF TypeOK
<1>2. q \in ProcStates /\ q.held = proc[p].held /\ q.plan = proc[p].plan
  <2>1. task \in Rows  BY DEF TypeOK
  <2> QED  BY <1>1, <2>1 DEF ProcStates
<1>3. CASE Ends(p)  BY <1>3, EndsIs
<1>4. CASE task.kept /\ task.status \notin Ended /\ ~Ends(p)
  <2>1. proc' = [proc EXCEPT ![p].at = "look", ![p].row = task]  BY <1>4 DEF Read
  <2>2. proc' = [proc EXCEPT ![p] = q]  BY <2>1 DEF TypeOK
  <2> HIDE DEF q
  <2>3. Goes(p, q)  BY <1>1, <1>2, <2>2, Going
  <2> QED  BY <1>2, <1>4, <2>3 DEF q
<1> QED  BY <1>3, <1>4 DEF Read

LEMMA ReadBooks ==
    ASSUME TaskAssumption, Books, NEW p \in Placers, Read(p)
    PROVE  Books'
<1> DEFINE q == [proc[p] EXCEPT !.at = "look", !.row = task]
<1>0. TypeOK /\ Equipped(p) /\ proc[p].at = "read"  BY DEF Books, AtHand, Read
<1>1. UNCHANGED <<task, chunk, block, given, lost, upsets>> /\ UNCHANGED seen  BY DEF Read
<1>2. alone' \subseteq Placers /\ inStep' \in BOOLEAN /\ orderly' \in BOOLEAN
  BY <1>0, <1>1, SeenType
<1>3. CASE Goes(p, NoProc)
  <2>1. Equipped(p)' /\ Held(p)' = {}  BY <1>3, RestEquipped DEF Goes
  <2> QED  BY <1>0, <1>1, <1>2, <1>3, <2>1, AtRest, KnowBooks
<1>4. CASE Goes(p, q) /\ q \in ProcStates
  <2>1. /\ q.at = "look" /\ q.row = task /\ q.hand = proc[p].hand
        /\ q.plan = proc[p].plan /\ q.held = proc[p].held
    BY <1>0 DEF TypeOK, ProcStates
  <2>2. proc'[p] = q  BY <1>4 DEF Goes
  <2> HIDE DEF q
  <2>3. Equipped(p)'  BY <1>0, <2>1, <2>2 DEF Equipped
  <2>4. Held(p)' = Held(p)  BY <2>1, <2>2 DEF Held
  <2> QED  BY <1>0, <1>1, <1>2, <1>4, <2>1, <2>3, <2>4, KnowBooks
<1> QED  BY <1>0, <1>3, <1>4, ReadIs

LEMMA LookIs ==
    ASSUME TaskAssumption, TypeOK, NEW p \in Placers, Look(p)
    PROVE  \/ Goes(p, NoProc)
           \/ \E q \in ProcStates :
                 /\ Goes(p, q) /\ q.at = "list" /\ q.from = now /\ q.hours = hours /\ q.taken = Taken
                 /\ q.row = proc[p].row /\ q.held = proc[p].held /\ q.plan = proc[p].plan
                 /\ q.hand = proc[p].hand /\ q.done = proc[p].done
<1> DEFINE q == [proc[p] EXCEPT !.at = "list", !.from = now, !.hours = hours, !.taken = Taken]
<1>1. proc[p] \in ProcStates /\ Len(proc[p].held) <= MaxSize /\ Len(proc[p].plan) <= MaxSize
  BY DEF TypeOK
<1>2. Taken \subseteq 0..Last
  <2>1. \A b \in Live : block[b].slot \in 0..Last  BY DEF Live, TypeOK
  <2>2. busy \subseteq 0..Last  BY DEF TypeOK, Slots, TaskAssumption
  <2> QED  BY <2>1, <2>2 DEF Taken
<1>3. /\ q \in ProcStates /\ q.at = "list" /\ q.from = now /\ q.hours = hours /\ q.taken = Taken
      /\ q.row = proc[p].row /\ q.held = proc[p].held /\ q.plan = proc[p].plan
      /\ q.hand = proc[p].hand /\ q.done = proc[p].done
  <2>1. now \in 0..Last /\ hours \in SUBSET Slots /\ Taken \in SUBSET (0..Last)
    BY <1>2 DEF TypeOK
  <2> QED  BY <1>1, <2>1 DEF ProcStates
<1>4. CASE Ends(p)  BY <1>4, EndsIs
<1>5. CASE ~Ends(p)
  <2>1. proc' = [proc EXCEPT ![p].at = "list", ![p].from = now, ![p].hours = hours,
                             ![p].taken = Taken]
    BY <1>5 DEF Look
  <2>2. proc' = [proc EXCEPT ![p] = q]  BY <2>1 DEF TypeOK
  <2> HIDE DEF q
  <2>3. Goes(p, q)  BY <1>1, <1>3, <2>2, Going
  <2> QED  BY <1>3, <2>3
<1> QED  BY <1>4, <1>5

LEMMA LookBooks ==
    ASSUME TaskAssumption, Books, NEW p \in Placers, Look(p)
    PROVE  Books'
<1>0. TypeOK /\ Equipped(p) /\ proc[p].at = "look"  BY DEF Books, AtHand, Look
<1>1. UNCHANGED <<task, chunk, block, given, lost, upsets>> /\ UNCHANGED seen  BY DEF Look
<1>2. alone' \subseteq Placers /\ inStep' \in BOOLEAN /\ orderly' \in BOOLEAN
  BY <1>0, <1>1, SeenType
<1>3. CASE Goes(p, NoProc)
  <2>1. Equipped(p)' /\ Held(p)' = {}  BY <1>3, RestEquipped DEF Goes
  <2> QED  BY <1>0, <1>1, <1>2, <1>3, <2>1, AtRest, KnowBooks
<1>4. ASSUME NEW q \in ProcStates, Goes(p, q), q.at = "list", q.row = proc[p].row,
             q.held = proc[p].held, q.plan = proc[p].plan, q.hand = proc[p].hand
      PROVE  Books'
  <2>1. proc'[p] = q  BY <1>4 DEF Goes
  <2>2. Equipped(p)'  BY <1>0, <1>4, <2>1 DEF Equipped
  <2>3. Held(p)' = Held(p)  BY <1>4, <2>1 DEF Held
  <2> QED  BY <1>0, <1>1, <1>2, <1>4, <2>2, <2>3, KnowBooks
<1> QED  BY <1>0, <1>3, <1>4, LookIs

(* What the placement concludes from what it has read.                     *)
FitsNow(p) == Cardinality(FreeFor(p)) >= proc[p].row.size
PlanOf(p) == IF FitsNow(p) THEN Firsts(FreeFor(p), proc[p].row.size) ELSE <<>>
Stays(p) ==
    /\ \/ Holds(p, Listed)
       \/ FitsNow(p) /\ [i \in DOMAIN Listed |-> chunk[Listed[i]].slot] = PlanOf(p)
    /\ InPlace(p)
Quiet(p) ==
    ~FitsNow(p) /\ Listed = <<>> /\ proc[p].row.first = NoBlock /\ proc[p].row.note

LEMMA PlanIs ==
    ASSUME TaskAssumption, TypeOK, NEW p \in Placers
    PROVE  /\ FreeFor(p) \subseteq proc[p].hours /\ FreeFor(p) \subseteq Slots
           /\ PlanOf(p) \in Seq(Slots) /\ Len(PlanOf(p)) <= MaxSize
           /\ \A i \in DOMAIN PlanOf(p) : PlanOf(p)[i] \in FreeFor(p)
           /\ \A i, j \in DOMAIN PlanOf(p) : i < j => PlanOf(p)[i] < PlanOf(p)[j]
           /\ FitsNow(p) => PlanOf(p) # <<>> /\ Len(PlanOf(p)) = proc[p].row.size
           /\ ~FitsNow(p) => PlanOf(p) = <<>>
<1>1. proc[p] \in ProcStates  BY DEF TypeOK
<1>2. proc[p].hours \subseteq Slots /\ proc[p].row.size \in 1..MaxSize
  BY <1>1 DEF ProcStates, Rows
<1>3. FreeFor(p) \subseteq proc[p].hours  BY DEF FreeFor
<1>4. CASE FitsNow(p)
  <2>1. proc[p].row.size <= Cardinality(FreeFor(p))
    <3>1. IsFiniteSet(Slots)  BY FS_Interval DEF Slots, TaskAssumption
    <3>2. Cardinality(FreeFor(p)) \in Nat  BY <1>2, <1>3, <3>1, FS_Subset, FS_CardinalityType
    <3> QED  BY <1>2, <1>4, <3>2 DEF FitsNow
  <2>2. PlanOf(p) = Firsts(FreeFor(p), proc[p].row.size)  BY <1>4 DEF PlanOf
  <2>3. proc[p].row.size <= MaxSize  BY <1>2 DEF TaskAssumption
  <2>4. FreeFor(p) \in SUBSET Slots  BY <1>2, <1>3
  <2> HIDE DEF FreeFor
  <2> QED  BY <1>2, <1>3, <1>4, <2>1, <2>2, <2>3, <2>4, FirstsIs
<1>5. CASE ~FitsNow(p)
  <2>1. PlanOf(p) = <<>>  BY <1>5 DEF PlanOf
  <2> QED  BY <1>2, <1>3, <1>5, <2>1 DEF TaskAssumption
<1> QED  BY <1>4, <1>5

LEMMA ListIs ==
    ASSUME TaskAssumption, Books, NEW p \in Placers, List(p)
    PROVE  /\ proc[p].at = "list"
           /\ UNCHANGED <<task, chunk, block, given, lost, orderly, upsets>>
           /\ IF Stays(p) \/ Quiet(p)
              THEN /\ Goes(p, NoProc) /\ inStep' = (p \in alone) /\ alone' = alone \ {p}
              ELSE /\ \E q \in ProcStates :
                         /\ Goes(p, q) /\ q.held = Listed /\ q.plan = PlanOf(p) /\ q.done = 0
                         /\ q.hand = NoBlock /\ q.row.first = NoBlock
                         /\ q.at = IF FitsNow(p) THEN "put"
                                   ELSE IF Listed = <<>> THEN "save" ELSE "drop"
                   /\ inStep' = FALSE /\ alone' = alone
<1>0. TypeOK /\ Numbers  BY DEF Books
<1> DEFINE at == IF FitsNow(p) THEN "put" ELSE IF Listed = <<>> THEN "save" ELSE "drop"
           q == [NoProc EXCEPT !.row = NewTask(proc[p].row.cal, 1), !.held = Listed,
                               !.plan = PlanOf(p), !.at = at]
<1>1. /\ proc[p].at = "list" /\ UNCHANGED <<task, chunk, block, given, lost, orderly, upsets>>
      /\ IF Stays(p) \/ Quiet(p) THEN Ends(p) ELSE proc' = [proc EXCEPT ![p] = q]
      /\ inStep' = (p \in alone /\ (Stays(p) \/ Quiet(p)))
      /\ alone' = IF Stays(p) \/ Quiet(p) THEN alone \ {p} ELSE alone
  BY DEF List, Stays, Quiet, PlanOf, FitsNow
<1>2. CASE Stays(p) \/ Quiet(p)  BY <1>0, <1>1, <1>2, EndsIs
<1>3. CASE ~(Stays(p) \/ Quiet(p))
  <2>1. at \in {"put", "save", "drop"}  OBVIOUS
  <2>2. NewTask(proc[p].row.cal, 1) \in Rows
    <3>1. proc[p].row.cal \in Cals  BY <1>0 DEF TypeOK, ProcStates, Rows
    <3>2. 1 \in 1..MaxSize  BY DEF TaskAssumption
    <3> QED  BY <3>1, <3>2, AtRest
  <2>3. Listed \in Seq(BlockIds) /\ Len(Listed) <= MaxSize  BY <1>0, ListedIs
  <2>4. PlanOf(p) \in Seq(Slots) /\ Len(PlanOf(p)) <= MaxSize  BY <1>0, PlanIs
  <2> HIDE DEF at
  <2>5. /\ q \in ProcStates /\ q.held = Listed /\ q.plan = PlanOf(p) /\ q.done = 0
        /\ q.hand = NoBlock /\ q.row = NewTask(proc[p].row.cal, 1) /\ q.at = at
    BY <2>1, <2>2, <2>3, <2>4, AtRest DEF ProcStates
  <2>6. q.row.first = NoBlock  BY <2>5 DEF NewTask
  <2> HIDE DEF q
  <2>7. Goes(p, q)  BY <1>0, <1>1, <1>3, <2>3, <2>4, <2>5, Going
  <2> QED  BY <1>1, <1>3, <2>5, <2>6, <2>7 DEF at
<1> QED  BY <1>1, <1>2, <1>3

LEMMA ListBooks ==
    ASSUME TaskAssumption, Books, NEW p \in Placers, List(p)
    PROVE  Books'
<1>0. TypeOK /\ Equipped(p) /\ Numbers  BY DEF Books, AtHand
<1>1. proc[p].at = "list" /\ UNCHANGED <<task, chunk, block, given, lost, orderly, upsets>>
  BY ListIs
<1>2. alone' \subseteq Placers /\ inStep' \in BOOLEAN /\ orderly' \in BOOLEAN
  <2>1. alone \subseteq Placers /\ orderly \in BOOLEAN  BY <1>0 DEF TypeOK
  <2>2. (p \in alone) \in BOOLEAN  OBVIOUS
  <2>3. alone' \subseteq alone  BY ListIs
  <2>4. inStep' = (p \in alone) \/ inStep' = FALSE  BY ListIs
  <2> QED  BY <1>1, <2>1, <2>2, <2>3, <2>4
<1>3. CASE Stays(p) \/ Quiet(p)
  <2>1. Goes(p, NoProc)  BY <1>3, ListIs
  <2>2. Equipped(p)' /\ Held(p)' = {}  BY <2>1, RestEquipped DEF Goes
  <2> QED  BY <1>0, <1>1, <1>2, <2>1, <2>2, AtRest, KnowBooks
<1>4. CASE ~(Stays(p) \/ Quiet(p))
  <2>1. PICK q \in ProcStates :
           /\ Goes(p, q) /\ q.held = Listed /\ q.plan = PlanOf(p) /\ q.done = 0
           /\ q.hand = NoBlock /\ q.row.first = NoBlock
           /\ q.at = IF FitsNow(p) THEN "put" ELSE IF Listed = <<>> THEN "save" ELSE "drop"
    BY <1>4, ListIs
  <2>2. proc'[p] = q  BY <2>1 DEF Goes
  <2>3. /\ \A i, j \in DOMAIN q.plan : i < j => q.plan[i] < q.plan[j]
        /\ FitsNow(p) => 0 < Len(q.plan)
        /\ ~FitsNow(p) => Len(q.plan) = 0
    BY <1>0, <2>1, PlanIs
  <2>4. Listed # <<>> => 0 < Len(Listed)  BY <1>0, ListedIs
  <2>5. Listed = <<>> => Len(Listed) = 0  OBVIOUS
  <2>6. Equipped(p)'  BY <2>1, <2>2, <2>3, <2>4, <2>5 DEF Equipped
  <2>7. Held(p)' \subseteq Noted
    <3>1. Held(p)' = {Listed[i] : i \in DOMAIN Listed}  BY <2>1, <2>2 DEF Held
    <3> QED  BY <1>0, <3>1, ListedIs
  <2>8. q.at \in {"put", "save", "drop"}  BY <2>1
  <2> QED  BY <1>0, <1>1, <1>2, <2>1, <2>6, <2>7, <2>8, KnowBooks
<1> QED  BY <1>3, <1>4

LEMMA SaveRowBooks ==
    ASSUME TaskAssumption, Books, NEW p \in Placers, SaveRow(p)
    PROVE  Books' /\ Goes(p, NoProc)
<1>0. TypeOK /\ Equipped(p) /\ proc[p] \in ProcStates  BY DEF Books, AtHand, TypeOK
<1>1. /\ UNCHANGED <<chunk, block, given, lost, orderly, upsets>>
      /\ inStep' = (p \in alone) /\ alone' = alone \ {p} /\ proc[p].at = "save" /\ Ends(p)
  BY DEF SaveRow
<1>2. InHand(proc[p]) = {}  BY <1>0, <1>1, EmptyHanded
<1>3. task' \in Rows /\ task'.first \in {NoBlock, task.first, proc[p].row.first}
  <2>1. task \in Rows /\ proc[p].row.first \in BlockIds \cup {NoBlock}
    BY <1>0 DEF TypeOK, ProcStates, Rows
  <2>2. CASE ~task.kept  BY <2>1, <2>2 DEF SaveRow
  <2>3. CASE task.kept /\ proc[p].plan = <<>>
    <3>1. task' = [task EXCEPT !.status = "pending", !.first = NoBlock, !.ends = 0, !.note = TRUE]
      BY <2>3 DEF SaveRow
    <3>2. 0 \in 0..Last  BY DEF TaskAssumption
    <3> QED  BY <2>1, <3>1, <3>2 DEF Rows, Statuses
  <2>4. CASE task.kept /\ proc[p].plan # <<>>
    <3>1. task' = [task EXCEPT !.status = "scheduled", !.first = proc[p].row.first,
                               !.ends = proc[p].plan[1], !.note = FALSE]
      BY <2>4 DEF SaveRow
    <3>2. proc[p].plan[1] \in Slots
      <4>1. proc[p].plan \in Seq(Slots)  BY <1>0 DEF ProcStates
      <4> QED  BY <2>4, <4>1
    <3>3. proc[p].plan[1] \in 0..Last  BY <3>2 DEF Slots, TaskAssumption
    <3> QED  BY <2>1, <3>1, <3>3 DEF Rows, Statuses
  <2> QED  BY <2>2, <2>3, <2>4
<1>4. Goes(p, NoProc)  BY <1>0, <1>1, EndsIs
<1>5. TypeOK'
  <2>1. (p \in alone) \in BOOLEAN  OBVIOUS
  <2> QED  BY <1>0, <1>1, <1>3, <1>4, <2>1 DEF TypeOK, Goes, given
<1> QED  BY <1>1, <1>2, <1>3, <1>4, <1>5, EndBooks

LEMMA StopBooks ==
    ASSUME TaskAssumption, Books, NEW gone \in SUBSET Placers, Stop(gone)
    PROVE  Books'
<1>0. TypeOK  BY DEF Books
<1>1. UNCHANGED <<task, chunk, block, given>> /\ CutOff /\ Upset  BY DEF Stop
<1>2. \A p \in Placers : proc'[p] = IF p \in gone THEN NoProc ELSE proc[p]  BY DEF Stop
<1>3. proc' \in [Placers -> ProcStates]  BY <1>0, AtRest DEF Stop, TypeOK
<1>4. \A p \in Placers : Len(proc'[p].held) <= MaxSize /\ Len(proc'[p].plan) <= MaxSize
  <2>1. Len(NoProc.held) <= MaxSize /\ Len(NoProc.plan) <= MaxSize
    BY AtRest DEF TaskAssumption
  <2> QED  BY <1>0, <1>2, <2>1 DEF TypeOK
<1>5. ASSUME NEW p \in gone PROVE Calm(p)
  <2>1. proc'[p] = NoProc  BY <1>2
  <2>2. InHand(proc[p]) \subseteq lost'  BY DEF Stop
  <2> QED  BY <2>1, <2>2, AtRest, RestEquipped DEF Calm
<1>6. lost \subseteq lost' /\ lost' \subseteq BlockIds
  <2>1. ASSUME NEW p \in Placers PROVE InHand(proc[p]) \subseteq BlockIds
    <3>1. proc[p].hand \in BlockIds \cup {NoBlock}  BY <1>0 DEF TypeOK, ProcStates
    <3>2. proc[p].held \in Seq(BlockIds)  BY <1>0 DEF TypeOK, ProcStates
    <3>3. \A i \in DOMAIN proc[p].held : proc[p].held[i] \in BlockIds  BY <3>2
    <3> QED  BY <3>1, <3>3 DEF InHand
  <2>2. lost' = lost \cup UNION {InHand(proc[p]) : p \in gone}  BY DEF Stop
  <2> QED  BY <1>0, <2>1, <2>2 DEF TypeOK
<1>7. TypeOK'
  <2>1. upsets' \in 0..MaxUpsets  BY <1>0, <1>1, Bounds
  <2>2. alone' \subseteq Placers /\ inStep' \in BOOLEAN /\ orderly' \in BOOLEAN
    BY <1>0, <1>1, SeenType
  <2> QED  BY <1>0, <1>1, <1>3, <1>4, <1>6, <2>1, <2>2 DEF TypeOK, given
<1>8. \A p \in Placers : proc'[p] = proc[p] \/ Calm(p)  BY <1>2, <1>5
<1> QED  BY <1>1, <1>6, <1>7, <1>8, Calmly
-------------------------------------------------------------------------------
(* Steps that move, make and remove events and rows.                       *)

(* The block a goroutine is at is one it has listed.                       *)
LEMMA MineIs ==
    ASSUME TypeOK, NEW p \in Placers, Moves(p)
    PROVE  Mine(p) \in BlockIds /\ Mine(p) \in Held(p) /\ Turn(p) \in DOMAIN proc[p].held
<1>1. proc[p].held \in Seq(BlockIds) /\ proc[p].done \in Nat
  BY DEF TypeOK, ProcStates
<1>2. Turn(p) \in DOMAIN proc[p].held  BY <1>1 DEF Moves, Turn
<1> QED  BY <1>1, <1>2 DEF Mine, Held

LEMMA PlanSlot ==
    ASSUME TaskAssumption, TypeOK, NEW p \in Placers, proc[p].done < Len(proc[p].plan)
    PROVE  /\ Turn(p) \in DOMAIN proc[p].plan /\ Turn(p) \in 1..MaxSize
           /\ proc[p].plan[Turn(p)] \in Slots /\ proc[p].plan[Turn(p)] \in 0..Last
<1>1. proc[p].plan \in Seq(Slots) /\ proc[p].done \in Nat /\ Len(proc[p].plan) <= MaxSize
  BY DEF TypeOK, ProcStates
<1>2. Turn(p) \in DOMAIN proc[p].plan /\ Turn(p) \in 1..MaxSize
  BY <1>1 DEF Turn, TaskAssumption
<1>3. proc[p].plan[Turn(p)] \in Slots  BY <1>1, <1>2
<1> QED  BY <1>2, <1>3 DEF Slots, TaskAssumption

(* The others know what they knew.                                         *)
Others(p) == \A q \in Placers \ {p} :
    /\ (Equipped(q)' <=> Equipped(q)) /\ Held(q)' = Held(q)
    /\ proc'[q] = proc[q]
    /\ \A b : (Brings(q, b)' <=> Brings(q, b)) /\ (Removes(q, b)' <=> Removes(q, b))

LEMMA OthersSame ==
    ASSUME NEW p \in Placers, NEW q, Goes(p, q)
    PROVE  Others(p)
  BY SameAtHand DEF Others, Goes

(* What the parts of the books ask of a step of goroutine p.               *)
LEMMA AtHandAfter ==
    ASSUME Books, NEW p \in Placers, Others(p), Equipped(p)'
    PROVE  AtHand'
  BY DEF AtHand, Others, Books

LEMMA BornAfter ==
    ASSUME Books, NEW p \in Placers, Others(p), Unborn' \subseteq Unborn,
           Noted' \cap Unborn' = {}, task'.first \notin Unborn', Held(p)' \cap Unborn' = {},
           proc'[p].hand \notin Unborn', proc'[p].row.first \notin Unborn'
    PROVE  Born'
<1>1. ASSUME NEW q \in Placers
      PROVE  /\ Held(q)' \cap Unborn' = {} /\ proc'[q].hand \notin Unborn'
             /\ proc'[q].row.first \notin Unborn'
  <2>1. CASE q = p  BY <2>1
  <2>2. CASE q # p
    <3>1. Held(q)' = Held(q) /\ proc'[q] = proc[q]  BY <2>2 DEF Others
    <3> QED  BY <3>1 DEF Books, Born
  <2> QED  BY <2>1, <2>2
<1> QED  BY <1>1 DEF Born

LEMMA SecretAfter ==
    ASSUME Books, NEW p \in Placers, Others(p),
           \A q \in Placers \ {p} : \A c \in BlockIds : Brings(q, c) /\ Unheard(q, c) =>
              /\ c \in Live' \ Noted' /\ block'[c].slot = block[c].slot /\ task'.first # c
              /\ c \notin Held(p)' /\ proc'[p].row.first # c /\ proc'[p].hand # c,
           \A c \in BlockIds : Brings(p, c)' => Unheard(p, c)'
    PROVE  Secret'
<1> SUFFICES ASSUME NEW q \in Placers \ {p}, NEW c \in BlockIds, Brings(q, c)' PROVE Unheard(q, c)'
  BY DEF Secret
<1>1. Brings(q, c) /\ proc'[q] = proc[q]  BY DEF Others
<1>2. Unheard(q, c)  BY <1>1 DEF Books, Secret
<1>3. (block[c].slot = proc[q].plan[Turn(q)])'  BY <1>1, <1>2 DEF Unheard, Turn
<1>4. ASSUME NEW r \in Placers
      PROVE  c \notin Held(r)' /\ proc'[r].row.first # c /\ (r # q => proc'[r].hand # c)
  <2>1. CASE r = p  BY <1>1, <1>2, <2>1
  <2>2. CASE r # p
    <3>1. Held(r)' = Held(r) /\ proc'[r] = proc[r]  BY <2>2 DEF Others
    <3> QED  BY <1>2, <3>1 DEF Unheard
  <2> QED  BY <2>1, <2>2
<1> QED  BY <1>1, <1>2, <1>3, <1>4 DEF Unheard

LEMMA GoneAfter ==
    ASSUME TaskAssumption, Books, NEW p \in Placers, Others(p), lost \subseteq lost',
           Live' \subseteq Live \cup Unborn,
           \A c \in BlockIds \ lost' : Removes(p, c)' => c \notin Live'
    PROVE  Gone'
<1> SUFFICES ASSUME NEW q \in Placers \ {p}, NEW c \in BlockIds \ lost', Removes(q, c)'
             PROVE  c \notin Live'
  BY DEF Gone
<1>1. Removes(q, c)  BY DEF Others
<1>2. c \notin Live  BY <1>1 DEF Books, Gone
<1>3. c \notin Unborn  BY <1>1 DEF Books, Born, Removes
<1> QED  BY <1>2, <1>3

LEMMA SumsAfter ==
    ASSUME Books, NEW p \in Placers, Others(p), proc'[p].at # "erase",
           \A q \in Placers \ {p} : \A c \in Noted' \ Noted : proc[q].row.first # c
    PROVE  Sums'
<1> SUFFICES ASSUME NEW q \in Placers \ {p}, proc'[q].at = "erase", proc'[q].row.first \in Noted'
             PROVE  proc'[q].row.first \in Held(q)'
  BY DEF Sums
<1>1. proc'[q] = proc[q] /\ Held(q)' = Held(q)  BY DEF Others
<1> QED  BY <1>1 DEF Books, Sums

LEMMA AccountedAfter ==
    ASSUME Books, NEW p \in Placers, Others(p), lost \subseteq lost',
           \A c \in BlockIds \ lost' :
              \/ /\ c \in Live <=> c \in Live'
                 /\ c \in Noted <=> c \in Noted'
                 /\ block'[c].slot = block[c].slot /\ chunk'[c].slot = chunk[c].slot
                 /\ Brings(p, c) => Brings(p, c)'
                 /\ Removes(p, c) => Removes(p, c)'
                 /\ proc[p].at = "noting" /\ proc[p].hand = c =>
                       proc'[p].at = "noting" /\ proc'[p].hand = c
              \/ /\ c \in Live' \ Noted' => \E r \in Placers : Brings(r, c)'
                 /\ c \in Noted' \ Live' => \E r \in Placers : Removes(r, c)'
                 /\ c \in Noted' \cap Live' =>
                       block'[c].slot = chunk'[c].slot \/ (proc'[p].at = "noting" /\ proc'[p].hand = c)
    PROVE  Accounted'
<1> SUFFICES ASSUME NEW c \in BlockIds \ lost'
             PROVE  /\ c \in Live' \ Noted' => \E r \in Placers : Brings(r, c)'
                    /\ c \in Noted' \ Live' => \E r \in Placers : Removes(r, c)'
                    /\ c \in Noted' \cap Live' =>
                          \/ block'[c].slot = chunk'[c].slot
                          \/ \E r \in Placers : proc'[r].at = "noting" /\ proc'[r].hand = c
  BY DEF Accounted
<1>1. CASE /\ c \in Live' \ Noted' => \E r \in Placers : Brings(r, c)'
           /\ c \in Noted' \ Live' => \E r \in Placers : Removes(r, c)'
           /\ c \in Noted' \cap Live' =>
                 block'[c].slot = chunk'[c].slot \/ (proc'[p].at = "noting" /\ proc'[p].hand = c)
  BY <1>1
<1>2. CASE /\ c \in Live <=> c \in Live'
           /\ c \in Noted <=> c \in Noted'
           /\ block'[c].slot = block[c].slot /\ chunk'[c].slot = chunk[c].slot
           /\ Brings(p, c) => Brings(p, c)'
           /\ Removes(p, c) => Removes(p, c)'
           /\ proc[p].at = "noting" /\ proc[p].hand = c =>
                 proc'[p].at = "noting" /\ proc'[p].hand = c
  <2>0. c \notin lost  OBVIOUS
  <2>1. ASSUME NEW r \in Placers, Brings(r, c) PROVE Brings(r, c)'
    BY <1>2, <2>1 DEF Others
  <2>2. ASSUME NEW r \in Placers, Removes(r, c) PROVE Removes(r, c)'
    BY <1>2, <2>2 DEF Others
  <2>3. ASSUME NEW r \in Placers, proc[r].at = "noting", proc[r].hand = c
        PROVE  proc'[r].at = "noting" /\ proc'[r].hand = c
    BY <1>2, <2>3 DEF Others
  <2>4. /\ c \in Live \ Noted => \E r \in Placers : Brings(r, c)
        /\ c \in Noted \ Live => \E r \in Placers : Removes(r, c)
        /\ c \in Noted \cap Live =>
              \/ block[c].slot = chunk[c].slot
              \/ \E r \in Placers : proc[r].at = "noting" /\ proc[r].hand = c
    BY <2>0 DEF Books, Accounted
  <2> QED  BY <1>2, <2>1, <2>2, <2>3, <2>4
<1> QED  BY <1>1, <1>2

(* A goroutine takes a block in hand, and its event is written or deleted. *)
LEMMA PutIs ==
    ASSUME TaskAssumption, TypeOK, NEW p \in Placers, NEW b \in BlockIds,
           NEW at \in {"noting", "dropped"},
           proc' = [proc EXCEPT ![p].at = at, ![p].hand = b]
    PROVE  /\ Goes(p, [proc[p] EXCEPT !.at = at, !.hand = b])
           /\ proc'[p].at = at /\ proc'[p].hand = b /\ proc'[p].row = proc[p].row
           /\ proc'[p].held = proc[p].held /\ proc'[p].plan = proc[p].plan
           /\ proc'[p].done = proc[p].done
<1> DEFINE q == [proc[p] EXCEPT !.at = at, !.hand = b]
<1>1. proc[p] \in ProcStates /\ Len(proc[p].held) <= MaxSize /\ Len(proc[p].plan) <= MaxSize
  BY DEF TypeOK
<1>2. q \in ProcStates  BY <1>1 DEF ProcStates
<1>3. /\ q.at = at /\ q.hand = b /\ q.row = proc[p].row
      /\ q.held = proc[p].held /\ q.plan = proc[p].plan /\ q.done = proc[p].done
  BY <1>1 DEF ProcStates
<1>4. proc' = [proc EXCEPT ![p] = q]  BY DEF TypeOK
<1> HIDE DEF q
<1>5. Goes(p, q)  BY <1>1, <1>2, <1>3, <1>4, Going
<1> QED  BY <1>3, <1>5 DEF Goes, q

LEMMA MoveBooks ==
    ASSUME TaskAssumption, Books, NEW p \in Placers, MoveEvent(p)
    PROVE  Books'
<1> DEFINE b == Mine(p)
           s == proc[p].plan[Turn(p)]
<1>0. TypeOK /\ Equipped(p)  BY DEF Books, AtHand
<1>1. /\ proc[p].at = "put" /\ Moves(p) /\ b \in Live /\ block' = [block EXCEPT ![b].slot = s]
      /\ proc' = [proc EXCEPT ![p].at = "noting", ![p].hand = b]
      /\ UNCHANGED <<task, chunk, given, lost, seen, upsets>>
  BY DEF MoveEvent, There
<1>2. b \in BlockIds /\ b \in Held(p)  BY <1>0, <1>1, MineIs
<1>3. s \in 0..Last  BY <1>0, <1>1, PlanSlot DEF Equipped
<1> DEFINE bb == b
           q == [proc[p] EXCEPT !.at = "noting", !.hand = b]
<1>4. /\ Goes(p, q)
      /\ proc'[p].at = "noting" /\ proc'[p].hand = b /\ proc'[p].row = proc[p].row
      /\ proc'[p].held = proc[p].held /\ proc'[p].plan = proc[p].plan
      /\ proc'[p].done = proc[p].done
  BY <1>0, <1>1, <1>2, PutIs
<1>5. Others(p)  BY <1>4, OthersSame
<1>6. Held(p)' = Held(p) /\ Mine(p)' = Mine(p) /\ (Moves(p)' <=> Moves(p))
  BY <1>4 DEF Held, Mine, Moves, Turn
<1>7. /\ block' \in [BlockIds -> [state : {"unborn", "live", "gone"}, cal : Cals, slot : 0..Last]]
      /\ \A c \in BlockIds : /\ block'[c].state = block[c].state
                             /\ c # b => block'[c] = block[c]
  BY <1>0, <1>1, <1>2, <1>3 DEF TypeOK
<1>8. Live' = Live /\ Unborn' = Unborn /\ Noted' = Noted  BY <1>1, <1>7 DEF Live, Unborn, Noted
<1> HIDE DEF b, s, q
<1>9. TypeOK'  BY <1>0, <1>1, <1>4, <1>7 DEF TypeOK, Goes, given, seen
<1>10. NoBlock \notin BlockIds  BY DEF TaskAssumption
<1>11. Equipped(p)'  BY <1>0, <1>1, <1>2, <1>4, <1>6, <1>10 DEF Equipped, b
<1>12. b \notin Unborn /\ proc[p].row.first \notin Unborn /\ Held(p) \cap Unborn = {}
       /\ task.first \notin Unborn /\ Noted \cap Unborn = {}
  BY <1>1 DEF Live, Unborn, Books, Born
<1>13. Born'
  <2>1. task' = task  BY <1>1
  <2>2. proc'[p].hand \notin Unborn' /\ proc'[p].row.first \notin Unborn'  BY <1>4, <1>8, <1>12
  <2>3. Held(p)' \cap Unborn' = {} /\ Noted' \cap Unborn' = {}  BY <1>6, <1>8, <1>12
  <2> QED  BY <1>5, <1>8, <1>12, <2>1, <2>2, <2>3, BornAfter
<1>14. Secret'
  <2>1. ASSUME NEW q1 \in Placers \ {p}, NEW c \in BlockIds, Brings(q1, c), Unheard(q1, c)
        PROVE  /\ c \in Live' \ Noted' /\ block'[c].slot = block[c].slot /\ task'.first # c
               /\ c \notin Held(p)' /\ proc'[p].row.first # c /\ proc'[p].hand # c
    <3>1. c # b  BY <1>2, <2>1 DEF Unheard
    <3> QED  BY <1>1, <1>4, <1>6, <1>7, <1>8, <2>1, <3>1 DEF Unheard
  <2>2. \A c \in BlockIds : ~Brings(p, c)'  BY <1>1, <1>6 DEF Brings
  <2> QED  BY <1>5, <2>1, <2>2, SecretAfter
<1>15. Numbers'  BY <1>1, <1>8 DEF Books, Numbers
<1>16. \A c : ~Removes(p, c)'  BY <1>4 DEF Removes
<1>17. Gone'  BY <1>1, <1>5, <1>8, <1>16, GoneAfter
<1>18. Sums'  BY <1>4, <1>5, <1>8, SumsAfter
<1>19. \A c : ~Brings(p, c) /\ ~Removes(p, c)  BY <1>1 DEF Brings, Removes
<1>20. Accounted'
  <2>1. ASSUME NEW c \in BlockIds \ lost', c # b
        PROVE  block'[c].slot = block[c].slot /\ chunk'[c].slot = chunk[c].slot
    BY <1>1, <1>7, <2>1
  <2>2. b \in Live  BY <1>1
  <2>3. b \notin lost' /\ b \notin Noted => FALSE
    <3> SUFFICES ASSUME b \notin lost, b \notin Noted PROVE FALSE  BY <1>1
    <3>1. PICK r \in Placers : Brings(r, b)  BY <1>2, <2>2 DEF Books, Accounted
    <3> QED  BY <1>2, <3>1 DEF Books, Secret, Unheard
  <2> QED  BY <1>1, <1>4, <1>5, <1>8, <1>19, <2>1, <2>2, <2>3, AccountedAfter
<1> QED  BY <1>9, <1>5, <1>11, <1>13, <1>14, <1>15, <1>17, <1>18, <1>20, AtHandAfter DEF Books

(* Google makes an event under an id that nobody knows.                    *)
LEMMA InsertedIs ==
    ASSUME TaskAssumption, Books, NEW p \in Placers, Unborn # {}, block' = Inserted(p, Fresh),
           proc[p].done < Len(proc[p].plan)
    PROVE  /\ Fresh \in Unborn /\ Fresh \in BlockIds
           /\ block' \in [BlockIds -> [state : {"unborn", "live", "gone"}, cal : Cals, slot : 0..Last]]
           /\ Live' = Live \cup {Fresh} /\ Unborn' = Unborn \ {Fresh}
           /\ \A c \in BlockIds \ {Fresh} : block'[c] = block[c]
           /\ block'[Fresh].slot = proc[p].plan[Turn(p)]
           /\ Fresh \notin Noted /\ task.first # Fresh
           /\ \A q \in Placers : Fresh \notin Held(q) /\ proc[q].hand # Fresh /\ proc[q].row.first # Fresh
<1>0. TypeOK  BY DEF Books
<1>1. Fresh \in Unborn  BY DEF Fresh
<1>2. Fresh \in BlockIds /\ block[Fresh].state = "unborn"  BY <1>1 DEF Unborn
<1>3. proc[p].plan[Turn(p)] \in 0..Last  BY <1>0, PlanSlot
<1>4. proc[p].row.cal \in Cals  BY <1>0 DEF TypeOK, ProcStates, Rows
<1> DEFINE f == Fresh
           e == [state |-> "live", cal |-> proc[p].row.cal, slot |-> proc[p].plan[Turn(p)]]
<1> HIDE DEF f
<1>5. e \in [state : {"unborn", "live", "gone"}, cal : Cals, slot : 0..Last]  BY <1>3, <1>4
<1>6. e.state = "live" /\ e.slot = proc[p].plan[Turn(p)]  OBVIOUS
<1>7. block' = [block EXCEPT ![f] = e]  BY DEF Inserted, f
<1> HIDE DEF e
<1>8. /\ block' \in [BlockIds -> [state : {"unborn", "live", "gone"}, cal : Cals, slot : 0..Last]]
      /\ block'[f] = e /\ \A c \in BlockIds \ {f} : block'[c] = block[c]
  BY <1>0, <1>2, <1>5, <1>7 DEF TypeOK, f
<1>9. Live' = Live \cup {f} /\ Unborn' = Unborn \ {f}
  BY <1>2, <1>6, <1>8 DEF Live, Unborn, f
<1>10. /\ Fresh \notin Noted /\ task.first # Fresh
       /\ \A q \in Placers : Fresh \notin Held(q) /\ proc[q].hand # Fresh /\ proc[q].row.first # Fresh
  BY <1>1 DEF Books, Born
<1> QED  BY <1>1, <1>2, <1>6, <1>8, <1>9, <1>10 DEF f

LEMMA InsertBooks ==
    ASSUME TaskAssumption, Books, NEW p \in Placers, InsertEvent(p)
    PROVE  Books'
<1> DEFINE b == Fresh
<1>0. TypeOK /\ Equipped(p)  BY DEF Books, AtHand
<1>1. /\ proc[p].at = "put" /\ ~Moves(p) /\ Unborn # {} /\ block' = Inserted(p, b)
      /\ proc' = [proc EXCEPT ![p].at = "noting", ![p].hand = b]
      /\ UNCHANGED <<task, chunk, given, lost, seen, upsets>>
  BY DEF InsertEvent
<1>2. proc[p].done < Len(proc[p].plan)  BY <1>0, <1>1 DEF Equipped
<1>3. /\ b \in Unborn /\ b \in BlockIds
      /\ block' \in [BlockIds -> [state : {"unborn", "live", "gone"}, cal : Cals, slot : 0..Last]]
      /\ Live' = Live \cup {b} /\ Unborn' = Unborn \ {b}
      /\ \A c \in BlockIds \ {b} : block'[c] = block[c]
      /\ block'[b].slot = proc[p].plan[Turn(p)]
      /\ b \notin Noted /\ task.first # b
      /\ \A q \in Placers : b \notin Held(q) /\ proc[q].hand # b /\ proc[q].row.first # b
  BY <1>1, <1>2, InsertedIs
<1> DEFINE q == [proc[p] EXCEPT !.at = "noting", !.hand = b]
<1>4. /\ Goes(p, q)
      /\ proc'[p].at = "noting" /\ proc'[p].hand = b /\ proc'[p].row = proc[p].row
      /\ proc'[p].held = proc[p].held /\ proc'[p].plan = proc[p].plan
      /\ proc'[p].done = proc[p].done
  BY <1>0, <1>1, <1>3, PutIs
<1>5. Others(p)  BY <1>4, OthersSame
<1>6. Held(p)' = Held(p) /\ Turn(p)' = Turn(p) /\ (Moves(p)' <=> Moves(p))
  BY <1>4 DEF Held, Moves, Turn
<1>7. Noted' = Noted  BY <1>1 DEF Noted
<1> HIDE DEF b, q
<1>8. TypeOK'  BY <1>0, <1>1, <1>3, <1>4 DEF TypeOK, Goes, given, seen
<1>9. b # NoBlock  BY <1>3 DEF TaskAssumption
<1>10. Equipped(p)'  BY <1>0, <1>1, <1>2, <1>4, <1>6, <1>9 DEF Equipped
<1>11. task' = task /\ chunk' = chunk /\ lost' = lost  BY <1>1
<1>12. Born'
  <2>1. /\ task.first \notin Unborn /\ proc[p].row.first \notin Unborn
        /\ Held(p) \cap Unborn = {} /\ Noted \cap Unborn = {}
    BY DEF Books, Born
  <2>2. proc'[p].hand \notin Unborn' /\ proc'[p].row.first \notin Unborn'  BY <1>3, <1>4, <2>1
  <2>3. Held(p)' \cap Unborn' = {} /\ Noted' \cap Unborn' = {} /\ Unborn' \subseteq Unborn
    BY <1>3, <1>6, <1>7, <2>1
  <2> QED  BY <1>5, <1>11, <2>1, <2>2, <2>3, BornAfter
<1>13. Secret'
  <2>1. ASSUME NEW r \in Placers \ {p}, NEW c \in BlockIds, Brings(r, c), Unheard(r, c)
        PROVE  /\ c \in Live' \ Noted' /\ block'[c].slot = block[c].slot /\ task'.first # c
               /\ c \notin Held(p)' /\ proc'[p].row.first # c /\ proc'[p].hand # c
    <3>1. c # b  BY <1>3, <2>1 DEF Brings
    <3> QED  BY <1>3, <1>4, <1>6, <1>7, <1>11, <2>1, <3>1 DEF Unheard
  <2>2. ASSUME NEW c \in BlockIds, Brings(p, c)' PROVE Unheard(p, c)'
    <3>1. c = b  BY <1>4, <2>2 DEF Brings
    <3>2. (block[c].slot = proc[p].plan[Turn(p)])'  BY <1>3, <1>4, <1>6, <3>1
    <3>3. ASSUME NEW r \in Placers
          PROVE  c \notin Held(r)' /\ proc'[r].row.first # c /\ (r # p => proc'[r].hand # c)
      <4>1. CASE r = p  BY <1>3, <1>4, <1>6, <3>1, <4>1
      <4>2. CASE r # p  BY <1>3, <1>5, <3>1, <4>2 DEF Others
      <4> QED  BY <4>1, <4>2
    <3> QED  BY <1>3, <1>7, <1>11, <3>1, <3>2, <3>3 DEF Unheard
  <2> QED  BY <1>5, <2>1, <2>2, SecretAfter
<1>14. Numbers'  BY <1>7, <1>11 DEF Books, Numbers
<1>15. \A c : ~Removes(p, c)'  BY <1>4 DEF Removes
<1>16. Gone'  BY <1>3, <1>5, <1>11, <1>15, GoneAfter
<1>17. Sums'  BY <1>4, <1>5, <1>7, SumsAfter
<1>18. Accounted'
  <2>1. \A c : ~Brings(p, c) /\ ~Removes(p, c)  BY <1>1 DEF Brings, Removes
  <2>2. ASSUME NEW c, c = b PROVE Brings(p, c)'
    <3>1. ~Moves(p)'  BY <1>1, <1>6
    <3>2. proc'[p].at = "noting" /\ proc'[p].hand = c  BY <1>4, <2>2
    <3> QED  BY <3>1, <3>2 DEF Brings
  <2>3. ASSUME NEW c \in BlockIds, c # b
        PROVE  /\ (c \in Live <=> c \in Live') /\ (c \in Noted <=> c \in Noted')
               /\ block'[c].slot = block[c].slot /\ chunk'[c].slot = chunk[c].slot
    BY <1>3, <1>7, <1>11, <2>3
  <2>4. b \notin Noted'  BY <1>3, <1>7
  <2>5. ASSUME NEW c \in BlockIds, c = b
        PROVE  /\ c \in Live' \ Noted' => \E r \in Placers : Brings(r, c)'
               /\ c \notin Noted'
    BY <2>2, <2>4, <2>5
  <2>6. proc[p].at # "noting"  BY <1>1
  <2> QED  BY <1>5, <1>11, <2>1, <2>3, <2>5, <2>6, AccountedAfter
<1> QED  BY <1>5, <1>8, <1>10, <1>12, <1>13, <1>14, <1>16, <1>17, <1>18, AtHandAfter DEF Books

(* On to the next block.                                                   *)
LEMMA AdvancedIs ==
    ASSUME TaskAssumption, Books, NEW p \in Placers, proc[p].at = "noting", proc' = Advanced(p)
    PROVE  /\ \E q \in ProcStates : Goes(p, q)
           /\ proc'[p].at = After(proc[p]) /\ proc'[p].at \in {"put", "drop", "save"}
           /\ proc'[p].hand = NoBlock /\ proc'[p].done = Turn(p)
           /\ proc'[p].held = proc[p].held /\ proc'[p].plan = proc[p].plan
           /\ proc'[p].row.first = IF proc[p].done = 0 THEN proc[p].hand ELSE proc[p].row.first
           /\ Equipped(p)' /\ Held(p)' = Held(p)
<1> DEFINE first == IF proc[p].done = 0 /\ proc[p].plan # <<>> THEN proc[p].hand ELSE proc[p].row.first
           at == After(proc[p])
           r == [proc[p].row EXCEPT !.first = first]
           q == [proc[p] EXCEPT !.done = @ + 1, !.at = at, !.hand = NoBlock, !.row.first = first]
<1>0. TypeOK /\ Equipped(p) /\ proc[p] \in ProcStates  BY DEF Books, AtHand, TypeOK
<1>1. /\ Len(proc[p].held) <= MaxSize /\ Len(proc[p].plan) <= MaxSize
      /\ proc[p].done < Len(proc[p].plan) /\ proc[p].done \in Nat
      /\ Len(proc[p].held) \in Nat /\ Len(proc[p].plan) \in Nat
  BY <1>0 DEF TypeOK, Equipped, ProcStates
<1>2. r \in Rows /\ r.first = first
  <2>1. proc[p].row \in Rows /\ proc[p].hand \in BlockIds \cup {NoBlock}  BY <1>0 DEF ProcStates
  <2>2. first \in BlockIds \cup {NoBlock}  BY <2>1 DEF Rows
  <2> HIDE DEF first
  <2> QED  BY <2>1, <2>2 DEF Rows
<1>3. at \in {"put", "drop", "save"}  BY DEF After
<1>4. proc[p].done + 1 \in 0..(MaxSize + 1)  BY <1>1 DEF TaskAssumption
<1>5. proc' = [proc EXCEPT ![p] = q]
  <2>1. proc \in [Placers -> ProcStates]  BY <1>0 DEF TypeOK
  <2>2. proc' = [proc EXCEPT ![p].done = @ + 1, ![p].at = at, ![p].hand = NoBlock, ![p].row.first = first]
    BY DEF Advanced
  <2> HIDE DEF first, at
  <2> QED  BY <2>1, <2>2
<1>6. first = IF proc[p].done = 0 THEN proc[p].hand ELSE proc[p].row.first
  <2>1. proc[p].plan # <<>>  BY <1>1
  <2> QED  BY <2>1
<1> HIDE DEF first, at
<1>7. /\ q \in ProcStates /\ q.done = proc[p].done + 1 /\ q.at = at /\ q.hand = NoBlock
      /\ q.held = proc[p].held /\ q.plan = proc[p].plan /\ q.row = r
  <2>1. /\ q.done = proc[p].done + 1 /\ q.at = at /\ q.hand = NoBlock
        /\ q.held = proc[p].held /\ q.plan = proc[p].plan /\ q.row = r
    BY <1>0 DEF ProcStates
  <2> HIDE DEF r
  <2>2. q \in ProcStates  BY <1>0, <1>2, <1>3, <1>4, <2>1 DEF ProcStates
  <2> QED  BY <2>1, <2>2
<1> HIDE DEF q, r
<1>8. Goes(p, q)  BY <1>0, <1>1, <1>5, <1>7, Going
<1>9. proc'[p] = q  BY <1>8 DEF Goes
<1>10. Held(p)' = Held(p)  BY <1>7, <1>9 DEF Held
<1>11. Equipped(p)'
  <2>1. /\ at = "put" => proc[p].done + 1 < Len(proc[p].plan)
        /\ at = "drop" => Len(proc[p].plan) <= proc[p].done + 1 /\ proc[p].done + 1 < Len(proc[p].held)
        /\ at = "save" => Len(proc[p].plan) <= proc[p].done + 1 /\ Len(proc[p].held) <= proc[p].done + 1
    BY <1>1 DEF at, After
  <2>2. \A i, j \in DOMAIN proc[p].plan : i < j => proc[p].plan[i] < proc[p].plan[j]
    BY <1>0 DEF Equipped
  <2> QED  BY <1>3, <1>7, <1>9, <2>1, <2>2 DEF Equipped
<1> QED  BY <1>2, <1>3, <1>6, <1>7, <1>8, <1>9, <1>10, <1>11 DEF Turn, at

LEMMA NoteMovedBooks ==
    ASSUME TaskAssumption, Books, NEW p \in Placers, NoteMoved(p)
    PROVE  Books'
<1> DEFINE b == proc[p].hand
           s == proc[p].plan[Turn(p)]
<1>0. TypeOK /\ Equipped(p)  BY DEF Books, AtHand
<1>1. /\ proc[p].at = "noting" /\ Moves(p) /\ chunk' = NoteSlot(b, s)
      /\ lost' = (IF b \in Live /\ block[b].slot # s THEN lost \cup {b} ELSE lost)
      /\ proc' = Advanced(p) /\ UNCHANGED <<task, block, given, seen, upsets>>
  BY DEF NoteMoved
<1>2. b = Mine(p) /\ b \in BlockIds /\ b \in Held(p)  BY <1>0, <1>1, MineIs DEF Equipped
<1>3. s \in 0..Last  BY <1>0, <1>1, PlanSlot DEF Equipped
<1>4. /\ proc'[p].at \in {"put", "drop", "save"} /\ proc'[p].hand = NoBlock
      /\ proc'[p].row.first = IF proc[p].done = 0 THEN b ELSE proc[p].row.first
      /\ Equipped(p)' /\ Held(p)' = Held(p)
  BY <1>1, AdvancedIs
<1>5. PICK q \in ProcStates : Goes(p, q)  BY <1>1, AdvancedIs
<1>6. Others(p)  BY <1>5, OthersSame
<1> HIDE DEF b, s
<1>7. /\ chunk' \in [BlockIds -> [seq : 0..MaxSize, slot : 0..Last]]
      /\ \A c \in BlockIds : chunk'[c].seq = chunk[c].seq
      /\ \A c \in BlockIds \ {b} : chunk'[c] = chunk[c]
      /\ b \in Noted => chunk'[b].slot = s
  BY <1>0, <1>1, <1>2, <1>3 DEF TypeOK, NoteSlot
<1>8. Noted' = Noted /\ Live' = Live /\ Unborn' = Unborn
  BY <1>1, <1>7 DEF Noted, Live, Unborn
<1>9. lost \subseteq lost' /\ lost' \subseteq BlockIds  BY <1>0, <1>1, <1>2 DEF TypeOK
<1>10. TypeOK'  BY <1>0, <1>1, <1>5, <1>7, <1>9 DEF TypeOK, Goes, given, seen
<1>11. NoBlock \notin Unborn  BY DEF Unborn, TaskAssumption
<1>12. Born'
  <2>1. /\ task.first \notin Unborn /\ b \notin Unborn /\ proc[p].row.first \notin Unborn
        /\ Held(p) \cap Unborn = {} /\ Noted \cap Unborn = {}
    BY DEF Books, Born, b
  <2>2. proc'[p].hand \notin Unborn' /\ proc'[p].row.first \notin Unborn'  BY <1>4, <1>8, <1>11, <2>1
  <2>3. Held(p)' \cap Unborn' = {} /\ Noted' \cap Unborn' = {}  BY <1>4, <1>8, <2>1
  <2>4. task' = task  BY <1>1
  <2> QED  BY <1>6, <1>8, <2>1, <2>2, <2>3, <2>4, BornAfter
<1>13. NoBlock \notin BlockIds  BY DEF TaskAssumption
<1>14. Secret'
  <2>1. ASSUME NEW r \in Placers \ {p}, NEW c \in BlockIds, Brings(r, c), Unheard(r, c)
        PROVE  /\ c \in Live' \ Noted' /\ block'[c].slot = block[c].slot /\ task'.first # c
               /\ c \notin Held(p)' /\ proc'[p].row.first # c /\ proc'[p].hand # c
    <3>1. c # b  BY <1>2, <2>1 DEF Unheard
    <3> QED  BY <1>1, <1>4, <1>8, <1>13, <2>1, <3>1 DEF Unheard
  <2>2. \A c \in BlockIds : ~Brings(p, c)'  BY <1>4 DEF Brings
  <2> QED  BY <1>6, <2>1, <2>2, SecretAfter
<1>15. Numbers'
  <2>1. Noted \subseteq BlockIds  BY DEF Noted
  <2> QED  BY <1>7, <1>8, <2>1 DEF Books, Numbers
<1>16. \A c : ~Removes(p, c)'  BY <1>4 DEF Removes
<1>17. Gone'  BY <1>6, <1>8, <1>9, <1>16, GoneAfter
<1>18. Sums'
  <2>1. proc'[p].at # "erase"  BY <1>4
  <2> QED  BY <1>6, <1>8, <2>1, SumsAfter
<1>19. \A c : ~Brings(p, c) /\ ~Removes(p, c)  BY <1>1 DEF Brings, Removes
<1>20. Accounted'
  <2>1. ASSUME NEW c \in BlockIds, c # b
        PROVE  /\ block'[c].slot = block[c].slot /\ chunk'[c].slot = chunk[c].slot
               /\ proc[p].hand # c
    BY <1>1, <1>7, <2>1 DEF b
  <2>2. ASSUME NEW c \in BlockIds, c = b, c \notin lost'
        PROVE  /\ c \in Live' \ Noted' => \E r \in Placers : Brings(r, c)'
               /\ c \in Noted' \ Live' => \E r \in Placers : Removes(r, c)'
               /\ c \in Noted' \cap Live' => block'[c].slot = chunk'[c].slot
    <3>1. /\ c \in Live \ Noted => \E r \in Placers : Brings(r, c)
          /\ c \in Noted \ Live => \E r \in Placers : Removes(r, c)
      BY <1>9, <2>2 DEF Books, Accounted
    <3>2. c \in Live' \ Noted' => \E r \in Placers : Brings(r, c)'
      BY <1>6, <1>8, <1>19, <3>1 DEF Others
    <3>3. c \in Noted' \ Live' => \E r \in Placers : Removes(r, c)'
      BY <1>6, <1>8, <1>19, <3>1 DEF Others
    <3>4. c \in Noted' \cap Live' => block'[c].slot = chunk'[c].slot
      <4>1. c \in Live => block[c].slot = s  BY <1>1, <2>2
      <4> QED  BY <1>1, <1>7, <1>8, <2>2, <4>1
    <3> QED  BY <3>2, <3>3, <3>4
  <2> QED  BY <1>6, <1>8, <1>9, <1>19, <2>1, <2>2, AccountedAfter
<1> QED  BY <1>4, <1>6, <1>10, <1>12, <1>14, <1>15, <1>17, <1>18, <1>20, AtHandAfter DEF Books

LEMMA NoteNewBooks ==
    ASSUME TaskAssumption, Books, NEW p \in Placers, NoteNew(p)
    PROVE  Books'
<1> DEFINE b == proc[p].hand
           s == proc[p].plan[Turn(p)]
<1>0. TypeOK /\ Equipped(p)  BY DEF Books, AtHand
<1>1. proc[p].at = "noting" /\ ~Moves(p) /\ UNCHANGED <<task, block, given, upsets>>  BY DEF NoteNew
<1>2. b \in BlockIds
  <2>1. b \in BlockIds \cup {NoBlock}  BY <1>0 DEF TypeOK, ProcStates
  <2>2. b # NoBlock  BY <1>0, <1>1 DEF Equipped
  <2> QED  BY <2>1, <2>2
<1>3. s \in 0..Last /\ Turn(p) \in 1..MaxSize  BY <1>0, <1>1, PlanSlot DEF Equipped
<1>4. Brings(p, b)  BY <1>1 DEF Brings
<1>5. Unheard(p, b)  BY <1>2, <1>4 DEF Books, Secret
<1>6. CASE ~(task.kept /\ ~Numbered(Turn(p)))
  <2>1. lost' = lost \cup {b} /\ Ends(p) /\ CutOff /\ chunk' = chunk  BY <1>6 DEF NoteNew
  <2>2. Goes(p, NoProc)  BY <1>0, <2>1, EndsIs
  <2>3. InHand(proc[p]) \subseteq lost'  BY <1>1, <2>1 DEF InHand
  <2>4. TypeOK'
    <3>1. alone' \subseteq Placers /\ inStep' \in BOOLEAN /\ orderly' \in BOOLEAN
      BY <1>0, <2>1, SeenType
    <3>2. lost' \subseteq BlockIds  BY <1>0, <1>2, <2>1 DEF TypeOK
    <3> QED  BY <1>0, <1>1, <2>1, <2>2, <3>1, <3>2 DEF TypeOK, Goes, given
  <2> QED  BY <1>1, <2>1, <2>2, <2>3, <2>4, EndBooks
<1>7. CASE task.kept /\ ~Numbered(Turn(p))
  <2>1. /\ chunk' = [chunk EXCEPT ![b] = [seq |-> Turn(p), slot |-> s]]
        /\ proc' = Advanced(p) /\ UNCHANGED <<lost, seen>>
    BY <1>7 DEF NoteNew
  <2>2. /\ proc'[p].at \in {"put", "drop", "save"} /\ proc'[p].hand = NoBlock
        /\ proc'[p].row.first = IF proc[p].done = 0 THEN b ELSE proc[p].row.first
        /\ Equipped(p)' /\ Held(p)' = Held(p)
    BY <1>1, <2>1, AdvancedIs
  <2>3. PICK q \in ProcStates : Goes(p, q)  BY <1>1, <2>1, AdvancedIs
  <2>4. Others(p)  BY <2>3, OthersSame
  <2> HIDE DEF b, s
  <2>5. /\ chunk' \in [BlockIds -> [seq : 0..MaxSize, slot : 0..Last]]
        /\ chunk'[b].seq = Turn(p) /\ chunk'[b].slot = s
        /\ \A c \in BlockIds \ {b} : chunk'[c] = chunk[c]
    <3>1. Turn(p) \in 0..MaxSize  BY <1>3 DEF TaskAssumption
    <3> QED  BY <1>0, <1>2, <1>3, <2>1, <3>1 DEF TypeOK
  <2>6. Noted' = Noted \cup {b}  BY <1>2, <1>3, <2>5 DEF Noted
  <2>7. Live' = Live /\ Unborn' = Unborn  BY <1>1 DEF Live, Unborn
  <2>8. TypeOK'  BY <1>0, <1>1, <2>1, <2>3, <2>5 DEF TypeOK, Goes, given, seen
  <2>9. NoBlock \notin Unborn /\ NoBlock \notin BlockIds  BY DEF Unborn, TaskAssumption
  <2>10. task' = task /\ block' = block /\ lost' = lost  BY <1>1, <2>1
  <2>11. Born'
    <3>1. /\ task.first \notin Unborn /\ b \notin Unborn /\ proc[p].row.first \notin Unborn
          /\ Held(p) \cap Unborn = {} /\ Noted \cap Unborn = {}
      BY DEF Books, Born, b
    <3>2. proc'[p].hand \notin Unborn' /\ proc'[p].row.first \notin Unborn'  BY <2>2, <2>7, <2>9, <3>1
    <3>3. Held(p)' \cap Unborn' = {} /\ Noted' \cap Unborn' = {}  BY <2>2, <2>6, <2>7, <3>1
    <3> QED  BY <2>4, <2>7, <2>10, <3>1, <3>2, <3>3, BornAfter
  <2>12. Secret'
    <3>1. ASSUME NEW r \in Placers \ {p}, NEW c \in BlockIds, Brings(r, c), Unheard(r, c)
          PROVE  /\ c \in Live' \ Noted' /\ block'[c].slot = block[c].slot /\ task'.first # c
                 /\ c \notin Held(p)' /\ proc'[p].row.first # c /\ proc'[p].hand # c
      <4>1. c # b  BY <3>1 DEF Unheard, b
      <4> QED  BY <2>2, <2>6, <2>7, <2>9, <2>10, <3>1, <4>1 DEF Unheard
    <3>2. \A c \in BlockIds : ~Brings(p, c)'  BY <2>2 DEF Brings
    <3> QED  BY <2>4, <3>1, <3>2, SecretAfter
  <2>13. Numbers'
    <3>1. \A c \in Noted : c \in BlockIds /\ c # b  BY <1>5 DEF Unheard, Noted
    <3>2. \A c \in Noted : chunk[c].seq # Turn(p)  BY <1>7 DEF Numbered
    <3>3. \A c \in Noted : chunk'[c].seq = chunk[c].seq  BY <2>5, <3>1
    <3>4. \A c, d \in Noted : chunk[c].seq = chunk[d].seq => c = d  BY DEF Books, Numbers
    <3> QED  BY <2>5, <2>6, <3>2, <3>3, <3>4 DEF Numbers
  <2>14. \A c : ~Removes(p, c)'  BY <2>2 DEF Removes
  <2>15. Gone'  BY <2>4, <2>7, <2>10, <2>14, GoneAfter
  <2>16. Sums'
    <3>1. proc'[p].at # "erase"  BY <2>2
    <3>2. \A r \in Placers \ {p} : \A c \in Noted' \ Noted : proc[r].row.first # c
      BY <1>5, <2>6 DEF Unheard
    <3> QED  BY <2>4, <3>1, <3>2, SumsAfter
  <2>17. Accounted'
    <3>1. ASSUME NEW c \in BlockIds, c # b
          PROVE  /\ (c \in Live <=> c \in Live') /\ (c \in Noted <=> c \in Noted')
                 /\ block'[c].slot = block[c].slot /\ chunk'[c].slot = chunk[c].slot
                 /\ ~Brings(p, c) /\ proc[p].hand # c
      BY <2>5, <2>6, <2>7, <2>10, <3>1 DEF Brings, b
    <3>2. b \in Noted' /\ b \in Live' /\ block'[b].slot = chunk'[b].slot
      BY <1>5, <2>5, <2>6, <2>7, <2>10 DEF Unheard, s
    <3>3. \A c : ~Removes(p, c)  BY <1>1 DEF Removes
    <3> QED  BY <2>4, <2>10, <3>1, <3>2, <3>3, AccountedAfter
  <2> QED  BY <2>2, <2>4, <2>8, <2>11, <2>12, <2>13, <2>15, <2>16, <2>17, AtHandAfter DEF Books
<1> QED  BY <1>6, <1>7

(* Deleting the event of block b, if it is where it is looked for.         *)
LEMMA DroppedIs ==
    ASSUME TypeOK, NEW b \in BlockIds, NEW c
    PROVE  /\ Dropped(b, c) \in [BlockIds -> [state : {"unborn", "live", "gone"}, cal : Cals, slot : 0..Last]]
           /\ \A d \in BlockIds : /\ Dropped(b, c)[d].slot = block[d].slot
                                  /\ d # b => Dropped(b, c)[d] = block[d]
           /\ Dropped(b, c)[b].state =
                 IF b \in Live /\ block[b].cal = c THEN "gone" ELSE block[b].state
<1>1. CASE There(b, c)
  <2>1. Dropped(b, c) = [block EXCEPT ![b].state = "gone"]  BY <1>1 DEF Dropped
  <2>2. b \in Live /\ block[b].cal = c  BY <1>1 DEF There
  <2> QED  BY <2>1, <2>2 DEF TypeOK
<1>2. CASE ~There(b, c)
  <2>1. Dropped(b, c) = block  BY <1>2 DEF Dropped
  <2> QED  BY <1>2, <2>1 DEF TypeOK, There
<1> QED  BY <1>1, <1>2

LEMMA DropEventBooks ==
    ASSUME TaskAssumption, Books, NEW p \in Placers, DropEvent(p)
    PROVE  Books'
<1> DEFINE b == Mine(p)
           c == proc[p].row.cal
           q == [proc[p] EXCEPT !.at = "dropped", !.hand = b]
<1>0. TypeOK /\ Equipped(p)  BY DEF Books, AtHand
<1>1. /\ proc[p].at = "drop" /\ proc' = [proc EXCEPT ![p].at = "dropped", ![p].hand = b]
      /\ UNCHANGED <<task, chunk, given, seen>>
      /\ \/ /\ block' = Dropped(b, c)
            /\ lost' = (IF b \in Live /\ block[b].cal # c THEN lost \cup {b} ELSE lost)
            /\ UNCHANGED upsets
         \/ Upset /\ lost' = lost \cup {b} /\ UNCHANGED block
  BY DEF DropEvent
<1>2. Moves(p)
  <2>1. proc[p].held \in Seq(BlockIds) /\ proc[p].done \in Nat  BY <1>0 DEF TypeOK, ProcStates
  <2> QED  BY <1>0, <1>1, <2>1 DEF Equipped, Moves, Turn
<1>3. b \in BlockIds /\ b \in Held(p)  BY <1>0, <1>2, MineIs
<1>4. /\ Goes(p, q)
      /\ proc'[p].at = "dropped" /\ proc'[p].hand = b /\ proc'[p].row = proc[p].row
      /\ proc'[p].held = proc[p].held /\ proc'[p].plan = proc[p].plan
      /\ proc'[p].done = proc[p].done
  BY <1>0, <1>1, <1>3, PutIs
<1>5. Others(p)  BY <1>4, OthersSame
<1>6. Held(p)' = Held(p) /\ Mine(p)' = Mine(p)  BY <1>4 DEF Held, Mine, Turn
<1>7. Equipped(p)'  BY <1>0, <1>1, <1>4, <1>6 DEF Equipped
<1> HIDE DEF b, c, q
<1>8. /\ block' \in [BlockIds -> [state : {"unborn", "live", "gone"}, cal : Cals, slot : 0..Last]]
      /\ \A d \in BlockIds : /\ block'[d].slot = block[d].slot
                             /\ d # b => block'[d] = block[d]
      /\ block'[b].state \in {block[b].state, "gone"}
      /\ block'[b].state = "gone" => block[b].state \in {"live", "gone"}
      /\ b \in Live => block'[b].state = "gone" \/ b \in lost'
  <2>1. CASE block' = block /\ lost' = lost \cup {b}  BY <1>0, <1>3, <2>1 DEF TypeOK
  <2>2. CASE /\ block' = Dropped(b, c)
             /\ lost' = (IF b \in Live /\ block[b].cal # c THEN lost \cup {b} ELSE lost)
    <3>1. /\ Dropped(b, c) \in [BlockIds -> [state : {"unborn", "live", "gone"}, cal : Cals, slot : 0..Last]]
          /\ \A d \in BlockIds : /\ Dropped(b, c)[d].slot = block[d].slot
                                 /\ d # b => Dropped(b, c)[d] = block[d]
          /\ Dropped(b, c)[b].state =
                IF b \in Live /\ block[b].cal = c THEN "gone" ELSE block[b].state
      BY <1>0, <1>3, DroppedIs
    <3> QED  BY <1>3, <2>2, <3>1 DEF Live
  <2> QED  BY <1>1, <2>1, <2>2
<1>9. lost \subseteq lost' /\ lost' \subseteq BlockIds  BY <1>0, <1>1, <1>3 DEF TypeOK
<1>10. /\ Noted' = Noted /\ Unborn' = Unborn /\ Live' \subseteq Live
       /\ Live \subseteq Live' \cup {b} /\ (b \in Live' => b \in lost')
  <2>1. Noted' = Noted  BY <1>1 DEF Noted
  <2>2. Unborn' = Unborn  BY <1>3, <1>8 DEF Unborn
  <2>3. Live' \subseteq Live /\ Live \subseteq Live' \cup {b}  BY <1>3, <1>8 DEF Live
  <2>4. b \in Live' => b \in lost'  BY <1>3, <1>8 DEF Live
  <2> QED  BY <2>1, <2>2, <2>3, <2>4
<1>11. TypeOK'
  <2>1. upsets' \in 0..MaxUpsets  BY <1>0, <1>1, Bounds
  <2> QED  BY <1>0, <1>1, <1>4, <1>8, <1>9, <2>1 DEF TypeOK, Goes, given, seen
<1>12. Born'
  <2>1. /\ task.first \notin Unborn /\ b \notin Unborn /\ proc[p].row.first \notin Unborn
        /\ Held(p) \cap Unborn = {} /\ Noted \cap Unborn = {}
    BY <1>3 DEF Books, Born
  <2>2. proc'[p].hand \notin Unborn' /\ proc'[p].row.first \notin Unborn'  BY <1>4, <1>10, <2>1
  <2>3. Held(p)' \cap Unborn' = {} /\ Noted' \cap Unborn' = {}  BY <1>6, <1>10, <2>1
  <2>4. task' = task  BY <1>1
  <2> QED  BY <1>5, <1>10, <2>1, <2>2, <2>3, <2>4, BornAfter
<1>13. Secret'
  <2>1. ASSUME NEW r \in Placers \ {p}, NEW d \in BlockIds, Brings(r, d), Unheard(r, d)
        PROVE  /\ d \in Live' \ Noted' /\ block'[d].slot = block[d].slot /\ task'.first # d
               /\ d \notin Held(p)' /\ proc'[p].row.first # d /\ proc'[p].hand # d
    <3>1. d # b  BY <1>3, <2>1 DEF Unheard
    <3> QED  BY <1>1, <1>4, <1>6, <1>8, <1>10, <2>1, <3>1 DEF Unheard
  <2>2. \A d \in BlockIds : ~Brings(p, d)'  BY <1>4 DEF Brings
  <2> QED  BY <1>5, <2>1, <2>2, SecretAfter
<1>14. Numbers'  BY <1>1, <1>10 DEF Books, Numbers
<1>15. \A d : Removes(p, d)' <=> d = proc'[p].hand  BY <1>4 DEF Removes
<1>16. Gone'  BY <1>4, <1>5, <1>9, <1>10, <1>15, GoneAfter
<1>17. Sums'
  <2>1. proc'[p].at # "erase"  BY <1>4
  <2> QED  BY <1>5, <1>10, <2>1, SumsAfter
<1>18. Accounted'
  <2>1. \A d : ~Brings(p, d) /\ ~Removes(p, d)  BY <1>1 DEF Brings, Removes
  <2>2. ASSUME NEW d \in BlockIds, d # b
        PROVE  /\ (d \in Live <=> d \in Live') /\ (d \in Noted <=> d \in Noted')
               /\ block'[d].slot = block[d].slot /\ chunk'[d].slot = chunk[d].slot
    BY <1>1, <1>8, <1>10, <2>2
  <2>3. ASSUME NEW d \in BlockIds, d = b, d \notin lost' PROVE d \notin Live' /\ Removes(p, d)'
    BY <1>4, <1>10, <1>15, <2>3
  <2>4. proc[p].at # "noting"  BY <1>1
  <2> QED  BY <1>5, <1>9, <2>1, <2>2, <2>3, <2>4, AccountedAfter
<1> QED  BY <1>5, <1>7, <1>11, <1>12, <1>13, <1>14, <1>16, <1>17, <1>18, AtHandAfter DEF Books

LEMMA DropRowIs ==
    ASSUME TaskAssumption, Books, NEW p \in Placers, DropRow(p)
    PROVE  /\ proc[p].at = "dropped" /\ Moves(p) /\ proc[p].hand = Mine(p)
           /\ proc[p].hand \in BlockIds /\ proc[p].hand \in Held(p)
           /\ \E q \in ProcStates : Goes(p, q)
           /\ proc'[p].at = IF Turn(p) < Len(proc[p].held) THEN "drop" ELSE "save"
           /\ proc'[p].hand = NoBlock /\ proc'[p].done = Turn(p)
           /\ proc'[p].held = proc[p].held /\ proc'[p].plan = proc[p].plan
           /\ proc'[p].row = proc[p].row
           /\ Equipped(p)' /\ Held(p)' = Held(p)
<1> DEFINE at == IF Turn(p) < Len(proc[p].held) THEN "drop" ELSE "save"
           q == [proc[p] EXCEPT !.done = @ + 1, !.hand = NoBlock, !.at = at]
<1>0. TypeOK /\ Equipped(p) /\ proc[p] \in ProcStates  BY DEF Books, AtHand, TypeOK
<1>1. proc[p].at = "dropped"  BY DEF DropRow
<1>2. /\ Len(proc[p].held) <= MaxSize /\ Len(proc[p].plan) <= MaxSize
      /\ Len(proc[p].plan) <= proc[p].done /\ proc[p].done < Len(proc[p].held)
      /\ proc[p].done \in Nat /\ Len(proc[p].held) \in Nat /\ Len(proc[p].plan) \in Nat
  <2>1. proc[p].done \in Nat  BY <1>0 DEF ProcStates
  <2>2. proc[p].held \in Seq(BlockIds) /\ proc[p].plan \in Seq(Slots)  BY <1>0 DEF ProcStates
  <2>3. Len(proc[p].held) \in Nat /\ Len(proc[p].plan) \in Nat  BY <2>2
  <2>4. Len(proc[p].plan) <= proc[p].done /\ proc[p].done < Len(proc[p].held)
    BY <1>0, <1>1 DEF Equipped
  <2>5. Len(proc[p].held) <= MaxSize /\ Len(proc[p].plan) <= MaxSize  BY <1>0 DEF TypeOK
  <2> QED  BY <2>1, <2>3, <2>4, <2>5
<1>3. Moves(p)  BY <1>2 DEF Moves, Turn
<1>4. proc[p].hand = Mine(p) /\ proc[p].hand \in BlockIds /\ proc[p].hand \in Held(p)
  BY <1>0, <1>1, <1>3, MineIs DEF Equipped
<1>5. proc' = [proc EXCEPT ![p] = q]
  <2>1. proc \in [Placers -> ProcStates]  BY <1>0 DEF TypeOK
  <2>2. proc' = [proc EXCEPT ![p].done = @ + 1, ![p].hand = NoBlock, ![p].at = at]
    BY DEF DropRow
  <2> HIDE DEF at
  <2> QED  BY <2>1, <2>2
<1>6. at \in {"drop", "save"}  OBVIOUS
<1>7. proc[p].done + 1 \in 0..(MaxSize + 1)  BY <1>2 DEF TaskAssumption
<1> HIDE DEF at
<1>8. /\ q.done = proc[p].done + 1 /\ q.at = at /\ q.hand = NoBlock
      /\ q.held = proc[p].held /\ q.plan = proc[p].plan /\ q.row = proc[p].row
  BY <1>0 DEF ProcStates
<1>9. q \in ProcStates  BY <1>0, <1>6, <1>7, <1>8 DEF ProcStates
<1> HIDE DEF q
<1>10. Goes(p, q)  BY <1>0, <1>2, <1>5, <1>8, <1>9, Going
<1>11. proc'[p] = q  BY <1>10 DEF Goes
<1>12. Held(p)' = Held(p)  BY <1>8, <1>11 DEF Held
<1>13. Equipped(p)'
  <2>1. /\ Len(proc[p].plan) <= proc[p].done + 1
        /\ at = "drop" => proc[p].done + 1 < Len(proc[p].held)
        /\ at = "save" => Len(proc[p].held) <= proc[p].done + 1
    BY <1>2 DEF at, Turn
  <2>2. \A i, j \in DOMAIN proc[p].plan : i < j => proc[p].plan[i] < proc[p].plan[j]
    BY <1>0 DEF Equipped
  <2> QED  BY <1>6, <1>8, <1>11, <2>1, <2>2 DEF Equipped
<1> QED  BY <1>1, <1>3, <1>4, <1>8, <1>9, <1>10, <1>11, <1>12, <1>13 DEF Turn, at

LEMMA DropRowBooks ==
    ASSUME TaskAssumption, Books, NEW p \in Placers, DropRow(p)
    PROVE  Books'
<1> DEFINE b == proc[p].hand
<1>0. TypeOK  BY DEF Books
<1>1. /\ UNCHANGED <<task, block, given, seen>>
      /\ \/ chunk' = [chunk EXCEPT ![b] = NoChunk] /\ UNCHANGED <<lost, upsets>>
         \/ Upset /\ lost' = lost \cup {b} /\ UNCHANGED chunk
  BY DEF DropRow
<1>2. /\ proc[p].at = "dropped" /\ b \in BlockIds /\ b \in Held(p)
      /\ proc'[p].at \in {"drop", "save"} /\ proc'[p].hand = NoBlock /\ proc'[p].row = proc[p].row
      /\ Equipped(p)' /\ Held(p)' = Held(p)
  BY DropRowIs
<1>3. PICK q \in ProcStates : Goes(p, q)  BY DropRowIs
<1>4. Others(p)  BY <1>3, OthersSame
<1> HIDE DEF b
<1>5. /\ chunk' \in [BlockIds -> [seq : 0..MaxSize, slot : 0..Last]]
      /\ \A d \in BlockIds \ {b} : chunk'[d] = chunk[d]
      /\ b \notin lost' => chunk'[b].seq = 0
      /\ chunk'[b] = chunk[b] \/ chunk'[b].seq = 0
  <2>1. CASE chunk' = chunk /\ b \in lost'  BY <1>0, <2>1 DEF TypeOK
  <2>2. CASE chunk' = [chunk EXCEPT ![b] = NoChunk]
    <3>1. NoChunk \in [seq : 0..MaxSize, slot : 0..Last] /\ NoChunk.seq = 0
      BY DEF NoChunk, TaskAssumption
    <3> QED  BY <1>0, <1>2, <2>2, <3>1 DEF TypeOK
  <2> QED  BY <1>1, <2>1, <2>2
<1>6. lost \subseteq lost' /\ lost' \subseteq BlockIds  BY <1>0, <1>1, <1>2 DEF TypeOK
<1>7. /\ Noted' \subseteq Noted /\ Noted \subseteq Noted' \cup {b}
      /\ (b \in Noted' => b \in lost') /\ \A d \in Noted' : chunk'[d] = chunk[d]
  BY <1>2, <1>5 DEF Noted
<1>8. Live' = Live /\ Unborn' = Unborn  BY <1>1 DEF Live, Unborn
<1>9. TypeOK'
  <2>1. upsets' \in 0..MaxUpsets  BY <1>0, <1>1, Bounds
  <2> QED  BY <1>0, <1>1, <1>3, <1>5, <1>6, <2>1 DEF TypeOK, Goes, given, seen
<1>10. NoBlock \notin Unborn /\ NoBlock \notin BlockIds  BY DEF Unborn, TaskAssumption
<1>11. Born'
  <2>1. /\ task.first \notin Unborn /\ proc[p].row.first \notin Unborn
        /\ Held(p) \cap Unborn = {} /\ Noted \cap Unborn = {}
    BY DEF Books, Born
  <2>2. proc'[p].hand \notin Unborn' /\ proc'[p].row.first \notin Unborn'  BY <1>2, <1>8, <1>10, <2>1
  <2>3. Held(p)' \cap Unborn' = {} /\ Noted' \cap Unborn' = {}  BY <1>2, <1>7, <1>8, <2>1
  <2>4. task' = task  BY <1>1
  <2> QED  BY <1>4, <1>8, <2>1, <2>2, <2>3, <2>4, BornAfter
<1>12. Secret'
  <2>1. ASSUME NEW r \in Placers \ {p}, NEW d \in BlockIds, Brings(r, d), Unheard(r, d)
        PROVE  /\ d \in Live' \ Noted' /\ block'[d].slot = block[d].slot /\ task'.first # d
               /\ d \notin Held(p)' /\ proc'[p].row.first # d /\ proc'[p].hand # d
    BY <1>1, <1>2, <1>7, <1>8, <1>10, <2>1 DEF Unheard
  <2>2. \A d \in BlockIds : ~Brings(p, d)'  BY <1>2 DEF Brings
  <2> QED  BY <1>4, <2>1, <2>2, SecretAfter
<1>13. Numbers'  BY <1>7 DEF Books, Numbers
<1>14. \A d : ~Removes(p, d)'  BY <1>2 DEF Removes
<1>15. Gone'  BY <1>4, <1>6, <1>8, <1>14, GoneAfter
<1>16. Sums'
  <2>1. proc'[p].at # "erase"  BY <1>2
  <2> QED  BY <1>4, <1>7, <2>1, SumsAfter
<1>17. Accounted'
  <2>1. ASSUME NEW d \in BlockIds, d # b
        PROVE  /\ (d \in Live <=> d \in Live') /\ (d \in Noted <=> d \in Noted')
               /\ block'[d].slot = block[d].slot /\ chunk'[d].slot = chunk[d].slot
               /\ ~Brings(p, d) /\ ~Removes(p, d)
    BY <1>1, <1>2, <1>5, <1>7, <1>8, <2>1 DEF Brings, Removes, b
  <2>2. ASSUME NEW d \in BlockIds, d = b, d \notin lost' PROVE d \notin Live' /\ d \notin Noted'
    <3>1. Removes(p, d)  BY <1>2, <2>2 DEF Removes, b
    <3>2. d \notin Live  BY <1>6, <2>2, <3>1 DEF Books, Gone
    <3> QED  BY <1>7, <1>8, <2>2, <3>2
  <2>3. proc[p].at # "noting"  BY <1>2
  <2> QED  BY <1>4, <1>6, <2>1, <2>2, <2>3, AccountedAfter
<1> QED  BY <1>2, <1>4, <1>9, <1>11, <1>12, <1>13, <1>15, <1>16, <1>17, AtHandAfter DEF Books

(* A call ends the goroutine, whatever became of block b.                  *)
LEMMA BreakBooks ==
    ASSUME TaskAssumption, Books, NEW p \in Placers, NEW b \in BlockIds,
           Goes(p, NoProc), TypeOK', UNCHANGED <<task, chunk>>, lost' = lost \cup {b},
           InHand(proc[p]) = {}, \A r \in Placers : ~Brings(r, b),
           \A c \in BlockIds \ {b} : block'[c] = block[c],
           Unborn' \subseteq Unborn, Live' \subseteq Live \cup Unborn
    PROVE  Books'
<1>0. proc'[p] = NoProc  BY DEF Goes
<1>1. Others(p)  BY OthersSame
<1>2. Equipped(p)' /\ Held(p)' = {}  BY <1>0, RestEquipped
<1>3. /\ proc'[p].at = "idle" /\ proc'[p].hand = NoBlock /\ proc'[p].row.first = NoBlock
  BY <1>0, AtRest
<1>4. Noted' = Noted /\ \A c \in BlockIds \ {b} : c \in Live <=> c \in Live'  BY DEF Noted, Live
<1>5. NoBlock \notin Unborn /\ NoBlock \notin BlockIds  BY DEF Unborn, TaskAssumption
<1>6. Born'
  <2>1. /\ task.first \notin Unborn /\ Noted \cap Unborn = {}
    BY DEF Books, Born
  <2>2. Noted' \cap Unborn' = {} /\ Held(p)' \cap Unborn' = {} /\ task'.first \notin Unborn'
    BY <1>2, <1>4, <2>1
  <2>3. NoBlock \notin Unborn'  BY <1>5
  <2> QED  BY <1>1, <1>3, <2>2, <2>3, BornAfter
<1>7. Secret'
  <2>1. ASSUME NEW r \in Placers \ {p}, NEW c \in BlockIds, Brings(r, c), Unheard(r, c)
        PROVE  /\ c \in Live' \ Noted' /\ block'[c].slot = block[c].slot /\ task'.first # c
               /\ c \notin Held(p)' /\ proc'[p].row.first # c /\ proc'[p].hand # c
    <3>1. c # b  BY <2>1
    <3> QED  BY <1>2, <1>3, <1>4, <1>5, <2>1, <3>1 DEF Unheard
  <2>2. \A c \in BlockIds : ~Brings(p, c)'  BY <1>3 DEF Brings
  <2> QED  BY <1>1, <2>1, <2>2, SecretAfter
<1>8. Numbers'  BY <1>4 DEF Books, Numbers
<1>9. \A c : ~Removes(p, c)'  BY <1>3 DEF Removes
<1>10. Gone'  BY <1>1, <1>9, GoneAfter
<1>11. Sums'
  <2>1. proc'[p].at # "erase"  BY <1>3
  <2> QED  BY <1>1, <1>4, <2>1, SumsAfter
<1>12. Accounted'
  <2>1. ASSUME NEW c \in BlockIds \ lost'
        PROVE  /\ c \in Live <=> c \in Live'
               /\ c \in Noted <=> c \in Noted'
               /\ block'[c].slot = block[c].slot /\ chunk'[c].slot = chunk[c].slot
               /\ ~Brings(p, c) /\ ~Removes(p, c)
               /\ ~(proc[p].at = "noting" /\ proc[p].hand = c)
    <3>1. c # b  OBVIOUS
    <3>2. c \notin InHand(proc[p]) /\ c # NoBlock  BY <1>5
    <3> QED  BY <1>4, <3>1, <3>2 DEF Brings, Removes, InHand, Held
  <2> QED  BY <1>1, <2>1, AccountedAfter
<1> QED  BY <1>1, <1>2, <1>6, <1>7, <1>8, <1>10, <1>11, <1>12, AtHandAfter DEF Books

LEMMA FailsBooks ==
    ASSUME TaskAssumption, Books, NEW p \in Placers, Fails(p)
    PROVE  Books' /\ Goes(p, NoProc)
<1>0. TypeOK /\ Equipped(p)  BY DEF Books, AtHand
<1>1. proc[p].at = "put" /\ Ends(p) /\ CutOff /\ UNCHANGED <<task, chunk, given>>  BY DEF Fails
<1>2. Goes(p, NoProc)  BY <1>0, <1>1, EndsIs
<1>3. InHand(proc[p]) = {}  BY <1>0, <1>1, EmptyHanded
<1>4. alone' \subseteq Placers /\ inStep' \in BOOLEAN /\ orderly' \in BOOLEAN
  BY <1>0, <1>1, SeenType
<1>5. proc[p].done < Len(proc[p].plan)  BY <1>0, <1>1 DEF Equipped
<1>6. CASE UNCHANGED <<block, lost, upsets>>
  <2>1. TypeOK'  BY <1>0, <1>1, <1>2, <1>4, <1>6 DEF TypeOK, Goes, given
  <2> QED  BY <1>1, <1>2, <1>3, <1>6, <2>1, EndBooks
<1>7. CASE /\ Moves(p) /\ There(Mine(p), proc[p].row.cal) /\ Upset
           /\ block' = [block EXCEPT ![Mine(p)].slot = proc[p].plan[Turn(p)]]
           /\ lost' = lost \cup {Mine(p)}
  <2> DEFINE b == Mine(p)
             s == proc[p].plan[Turn(p)]
  <2>1. b \in BlockIds /\ b \in Held(p)  BY <1>0, <1>7, MineIs
  <2>2. s \in 0..Last  BY <1>0, <1>5, PlanSlot
  <2>3. block' = [block EXCEPT ![b].slot = s] /\ lost' = lost \cup {b}  BY <1>7
  <2> HIDE DEF b, s
  <2>4. /\ block' \in [BlockIds -> [state : {"unborn", "live", "gone"}, cal : Cals, slot : 0..Last]]
        /\ \A c \in BlockIds : /\ block'[c].state = block[c].state
                               /\ c # b => block'[c] = block[c]
    BY <1>0, <2>1, <2>2, <2>3 DEF TypeOK
  <2>5. Live' = Live /\ Unborn' = Unborn  BY <2>4 DEF Live, Unborn
  <2>6. TypeOK'
    <3>1. upsets' \in 0..MaxUpsets  BY <1>0, <1>7, Bounds
    <3> QED  BY <1>0, <1>1, <1>2, <1>4, <2>1, <2>3, <2>4, <3>1 DEF TypeOK, Goes, given
  <2>7. \A r \in Placers : ~Brings(r, b)  BY <2>1 DEF Books, Secret, Unheard
  <2> QED  BY <1>1, <1>2, <1>3, <2>1, <2>3, <2>4, <2>5, <2>6, <2>7, BreakBooks
<1>8. CASE ~Moves(p) /\ Unborn # {} /\ Upset /\ block' = Inserted(p, Fresh) /\ lost' = lost \cup {Fresh}
  <2> DEFINE b == Fresh
  <2>1. /\ b \in Unborn /\ b \in BlockIds
        /\ block' \in [BlockIds -> [state : {"unborn", "live", "gone"}, cal : Cals, slot : 0..Last]]
        /\ Live' = Live \cup {b} /\ Unborn' = Unborn \ {b}
        /\ \A c \in BlockIds \ {b} : block'[c] = block[c]
        /\ \A r \in Placers : proc[r].hand # b
    BY <1>5, <1>8, InsertedIs
  <2>2. lost' = lost \cup {b}  BY <1>8
  <2> HIDE DEF b
  <2>3. TypeOK'
    <3>1. upsets' \in 0..MaxUpsets  BY <1>0, <1>8, Bounds
    <3> QED  BY <1>0, <1>1, <1>2, <1>4, <2>1, <2>2, <3>1 DEF TypeOK, Goes, given
  <2>4. \A r \in Placers : ~Brings(r, b)  BY <2>1 DEF Brings
  <2> QED  BY <1>1, <1>2, <1>3, <2>1, <2>2, <2>3, <2>4, BreakBooks
<1>9. Books'  BY <1>6, <1>7, <1>8 DEF Fails
<1> QED  BY <1>2, <1>9

(* Deleting the events of all blocks that are known, or of some.           *)
LEMMA EraseIs ==
    ASSUME TaskAssumption, TypeOK, NEW p \in Placers, Erase(p)
    PROVE  /\ \A b \in Known(proc[p]) : b \in Held(p) \/ b = proc[p].row.first
           /\ Held(p) \subseteq Known(proc[p])
           /\ block' \in [BlockIds -> [state : {"unborn", "live", "gone"}, cal : Cals, slot : 0..Last]]
           /\ lost \subseteq lost' /\ lost' \subseteq BlockIds
           /\ Unborn' = Unborn /\ Live' \subseteq Live
           /\ \A b \in BlockIds : block'[b].slot = block[b].slot
           /\ \A b \in BlockIds \ Known(proc[p]) : block'[b] = block[b]
           /\ \A b \in Known(proc[p]) \ lost' : b \notin Live'
<1> DEFINE known == Known(proc[p])
           c == proc[p].row.cal
           Cut(some) == [b \in BlockIds |-> IF b \in some THEN Dropped(b, c)[b] ELSE block[b]]
<1>1. \A b \in known : b \in Held(p) \/ b = proc[p].row.first  BY DEF Known, Held
<1>2. Held(p) \subseteq known  BY DEF Known, Held
<1>3. known \subseteq BlockIds
  <2>1. proc[p].held \in Seq(BlockIds) /\ proc[p].row.first \in BlockIds \cup {NoBlock}
    BY DEF TypeOK, ProcStates, Rows
  <2> QED  BY <2>1 DEF Known
<1>4. \/ block' = Cut(known) /\ lost' = lost \cup {b \in known \cap Live : block[b].cal # c}
      \/ (\E some \in SUBSET known : block' = Cut(some)) /\ lost' = lost \cup known
  BY DEF Erase
<1>5. ASSUME NEW some \in SUBSET known
      PROVE  /\ Cut(some) \in [BlockIds -> [state : {"unborn", "live", "gone"}, cal : Cals, slot : 0..Last]]
             /\ \A b \in BlockIds :
                   /\ Cut(some)[b].slot = block[b].slot
                   /\ b \notin some => Cut(some)[b] = block[b]
                   /\ b \in some => Cut(some)[b].state =
                         IF b \in Live /\ block[b].cal = c THEN "gone" ELSE block[b].state
  <2> HIDE DEF known, c
  <2>1. \A b \in BlockIds : Cut(some)[b] = IF b \in some THEN Dropped(b, c)[b] ELSE block[b]
    OBVIOUS
  <2>2. ASSUME NEW b \in BlockIds
        PROVE  /\ Dropped(b, c)[b] \in [state : {"unborn", "live", "gone"}, cal : Cals, slot : 0..Last]
               /\ Dropped(b, c)[b].slot = block[b].slot
               /\ Dropped(b, c)[b].state =
                     IF b \in Live /\ block[b].cal = c THEN "gone" ELSE block[b].state
    BY DroppedIs
  <2>3. \A b \in BlockIds : block[b] \in [state : {"unborn", "live", "gone"}, cal : Cals, slot : 0..Last]
    BY DEF TypeOK
  <2> QED  BY <2>1, <2>2, <2>3
<1> HIDE DEF known, c
<1>6. PICK some \in SUBSET known : block' = Cut(some) /\ (some = known \/ known \subseteq lost')
  BY <1>4
<1>7. lost \subseteq lost' /\ lost' \subseteq BlockIds  BY <1>3, <1>4 DEF TypeOK
<1> DEFINE cut == Cut(some)
<1>8. block' = cut  BY <1>6
<1>9. /\ cut \in [BlockIds -> [state : {"unborn", "live", "gone"}, cal : Cals, slot : 0..Last]]
      /\ \A b \in BlockIds :
            /\ cut[b].slot = block[b].slot
            /\ b \notin some => cut[b] = block[b]
            /\ b \in some => cut[b].state = IF b \in Live /\ block[b].cal = c THEN "gone" ELSE block[b].state
  BY <1>5
<1> HIDE DEF cut
<1>10. Unborn' = Unborn  BY <1>8, <1>9 DEF Unborn, Live
<1>11. Live' \subseteq Live  BY <1>8, <1>9 DEF Live
<1>12. ASSUME NEW b \in known \ lost' PROVE b \notin Live'
  <2>1. some = known  BY <1>6, <1>12
  <2>2. b \in BlockIds  BY <1>3
  <2>3. b \in Live => block[b].cal = c  BY <1>4, <1>12
  <2> QED  BY <1>8, <1>9, <2>1, <2>2, <2>3 DEF Live
<1> QED  BY <1>1, <1>2, <1>7, <1>8, <1>9, <1>10, <1>11, <1>12 DEF known

LEMMA EraseBooks ==
    ASSUME TaskAssumption, Books, NEW p \in Placers, Erase(p)
    PROVE  Books'
<1> DEFINE q == [proc[p] EXCEPT !.at = "erased"]
           known == Known(proc[p])
<1>0. TypeOK /\ Equipped(p) /\ proc[p] \in ProcStates  BY DEF Books, AtHand, TypeOK
<1>1. /\ proc[p].at = "erase" /\ proc' = [proc EXCEPT ![p].at = "erased"]
      /\ UNCHANGED <<task, chunk, given, seen>> /\ (Upset \/ UNCHANGED upsets)
  BY DEF Erase
<1>2. /\ \A b \in known : b \in Held(p) \/ b = proc[p].row.first
      /\ Held(p) \subseteq known
      /\ block' \in [BlockIds -> [state : {"unborn", "live", "gone"}, cal : Cals, slot : 0..Last]]
      /\ lost \subseteq lost' /\ lost' \subseteq BlockIds
      /\ Unborn' = Unborn /\ Live' \subseteq Live
      /\ \A b \in BlockIds : block'[b].slot = block[b].slot
      /\ \A b \in BlockIds \ known : block'[b] = block[b]
      /\ \A b \in known \ lost' : b \notin Live'
  BY <1>0, EraseIs
<1>3. /\ q.at = "erased" /\ q.hand = proc[p].hand /\ q.row = proc[p].row /\ q.held = proc[p].held
      /\ q.plan = proc[p].plan /\ q.done = proc[p].done /\ q \in ProcStates
  BY <1>0 DEF ProcStates
<1>4. proc' = [proc EXCEPT ![p] = q]  BY <1>0, <1>1 DEF TypeOK
<1> HIDE DEF q, known
<1>5. Goes(p, q)  BY <1>0, <1>3, <1>4, Going DEF TypeOK
<1>6. Others(p)  BY <1>5, OthersSame
<1>7. proc'[p] = q  BY <1>5 DEF Goes
<1>8. Held(p)' = Held(p)  BY <1>3, <1>7 DEF Held
<1>9. Equipped(p)'  BY <1>0, <1>1, <1>3, <1>7 DEF Equipped
<1>10. Noted' = Noted  BY <1>1 DEF Noted
<1>11. TypeOK'
  <2>1. upsets' \in 0..MaxUpsets  BY <1>0, <1>1, Bounds
  <2> QED  BY <1>0, <1>1, <1>2, <1>5, <2>1 DEF TypeOK, Goes, given, seen
<1>12. proc[p].hand = NoBlock /\ NoBlock \notin BlockIds  BY <1>0, <1>1 DEF Equipped, TaskAssumption
<1>13. Born'
  <2>1. /\ task.first \notin Unborn /\ proc[p].row.first \notin Unborn /\ proc[p].hand \notin Unborn
        /\ Held(p) \cap Unborn = {} /\ Noted \cap Unborn = {}
    BY DEF Books, Born
  <2>2. proc'[p].hand \notin Unborn' /\ proc'[p].row.first \notin Unborn'  BY <1>2, <1>3, <1>7, <2>1
  <2>3. Held(p)' \cap Unborn' = {} /\ Noted' \cap Unborn' = {}  BY <1>2, <1>8, <1>10, <2>1
  <2>4. task' = task  BY <1>1
  <2> QED  BY <1>2, <1>6, <2>1, <2>2, <2>3, <2>4, BornAfter
<1>14. Secret'
  <2>1. ASSUME NEW r \in Placers \ {p}, NEW d \in BlockIds, Brings(r, d), Unheard(r, d)
        PROVE  /\ d \in Live' \ Noted' /\ block'[d].slot = block[d].slot /\ task'.first # d
               /\ d \notin Held(p)' /\ proc'[p].row.first # d /\ proc'[p].hand # d
    <3>1. d \notin known  BY <1>2, <2>1 DEF Unheard
    <3>2. d \in Live'  BY <1>2, <2>1, <3>1 DEF Unheard, Live
    <3> QED  BY <1>1, <1>2, <1>3, <1>7, <1>8, <1>10, <1>12, <2>1, <3>2 DEF Unheard
  <2>2. \A d \in BlockIds : ~Brings(p, d)'  BY <1>3, <1>7 DEF Brings
  <2> QED  BY <1>6, <2>1, <2>2, SecretAfter
<1>15. Numbers'  BY <1>1, <1>10 DEF Books, Numbers
<1>16. \A d \in BlockIds : Removes(p, d)' <=> d \in Held(p)
  BY <1>3, <1>7, <1>8 DEF Removes
<1>17. Gone'  BY <1>2, <1>6, <1>16, GoneAfter
<1>18. Sums'
  <2>1. proc'[p].at # "erase"  BY <1>3, <1>7
  <2> QED  BY <1>6, <1>10, <2>1, SumsAfter
<1>19. Accounted'
  <2>1. \A d : ~Brings(p, d) /\ ~Removes(p, d)  BY <1>1 DEF Brings, Removes
  <2>2. ASSUME NEW d \in BlockIds \ known
        PROVE  /\ (d \in Live <=> d \in Live') /\ (d \in Noted <=> d \in Noted')
               /\ block'[d].slot = block[d].slot /\ chunk'[d].slot = chunk[d].slot
    BY <1>1, <1>2, <1>10 DEF Live
  <2>3. ASSUME NEW d \in BlockIds \ lost', d \in known
        PROVE  d \notin Live' /\ (d \in Noted' => Removes(p, d)')
    <3>1. d \notin Live'  BY <1>2, <2>3
    <3>2. d \in Noted => d \in Held(p)  BY <1>1, <1>2, <2>3 DEF Books, Sums
    <3> QED  BY <1>10, <1>16, <3>1, <3>2
  <2>4. proc[p].at # "noting"  BY <1>1
  <2> QED  BY <1>2, <1>6, <2>1, <2>2, <2>3, <2>4, AccountedAfter
<1> QED  BY <1>6, <1>9, <1>11, <1>13, <1>14, <1>15, <1>17, <1>18, <1>19, AtHandAfter DEF Books

LEMMA EraseRowBooks ==
    ASSUME TaskAssumption, Books, NEW p \in Placers, EraseRow(p)
    PROVE  Books' /\ Goes(p, NoProc)
<1>0. TypeOK  BY DEF Books
<1>1. /\ proc[p].at = "erased" /\ Ends(p) /\ UNCHANGED <<block, given, seen, upsets>>
      /\ task' = [task EXCEPT !.kept = FALSE] /\ chunk' = [b \in BlockIds |-> NoChunk]
      /\ lost' = lost \cup (Noted \ Held(p))
  <2>1. {b \in Noted : \A i \in DOMAIN proc[p].held : proc[p].held[i] # b} = Noted \ Held(p)
    BY DEF Held
  <2> QED  BY <2>1 DEF EraseRow
<1>2. Goes(p, NoProc)  BY <1>0, <1>1, EndsIs
<1>3. proc'[p] = NoProc  BY <1>2 DEF Goes
<1>4. Others(p)  BY <1>2, OthersSame
<1>5. Equipped(p)' /\ Held(p)' = {}  BY <1>3, RestEquipped
<1>6. proc'[p].at = "idle" /\ proc'[p].hand = NoBlock /\ proc'[p].row.first = NoBlock
  BY <1>3, AtRest
<1>7. Noted' = {} /\ Live' = Live /\ Unborn' = Unborn
  <2>1. NoChunk.seq = 0  BY DEF NoChunk
  <2> QED  BY <1>1, <2>1 DEF Noted, Live, Unborn
<1>8. lost \subseteq lost' /\ lost' \subseteq BlockIds  BY <1>0, <1>1 DEF TypeOK, Noted
<1>9. task' \in Rows /\ task'.first = task.first  BY <1>0, <1>1 DEF TypeOK, Rows
<1>10. TypeOK'
  <2>1. NoChunk \in [seq : 0..MaxSize, slot : 0..Last]  BY DEF NoChunk, TaskAssumption
  <2>2. chunk' \in [BlockIds -> [seq : 0..MaxSize, slot : 0..Last]]  BY <1>1, <2>1
  <2> QED  BY <1>0, <1>1, <1>2, <1>8, <1>9, <2>2 DEF TypeOK, Goes, given, seen
<1>11. NoBlock \notin Unborn /\ NoBlock \notin BlockIds  BY DEF Unborn, TaskAssumption
<1>12. Born'  BY <1>4, <1>5, <1>6, <1>7, <1>9, <1>11, BornAfter DEF Books, Born
<1>13. Secret'
  <2>1. ASSUME NEW r \in Placers \ {p}, NEW d \in BlockIds, Brings(r, d), Unheard(r, d)
        PROVE  /\ d \in Live' \ Noted' /\ block'[d].slot = block[d].slot /\ task'.first # d
               /\ d \notin Held(p)' /\ proc'[p].row.first # d /\ proc'[p].hand # d
    BY <1>1, <1>5, <1>6, <1>7, <1>9, <1>11, <2>1 DEF Unheard
  <2>2. \A d \in BlockIds : ~Brings(p, d)'  BY <1>6 DEF Brings
  <2> QED  BY <1>4, <2>1, <2>2, SecretAfter
<1>14. Numbers'  BY <1>7 DEF Numbers
<1>15. \A d : ~Removes(p, d)'  BY <1>6 DEF Removes
<1>16. Gone'  BY <1>4, <1>7, <1>8, <1>15, GoneAfter
<1>17. Sums'
  <2>1. proc'[p].at # "erase"  BY <1>6
  <2> QED  BY <1>4, <1>7, <2>1, SumsAfter
<1>18. Accounted'
  <2>1. ASSUME NEW d \in BlockIds \ lost', d \in Live
        PROVE  \E r \in Placers : Brings(r, d)'
    <3>1. d \notin Noted
      <4> SUFFICES ASSUME d \in Noted PROVE FALSE  OBVIOUS
      <4>1. d \in Held(p)  BY <1>1
      <4>2. Removes(p, d)  BY <1>1, <4>1 DEF Removes
      <4> QED  BY <1>8, <2>1, <4>2 DEF Books, Gone
    <3>2. PICK r \in Placers : Brings(r, d)  BY <1>8, <2>1, <3>1 DEF Books, Accounted
    <3>3. r # p  BY <1>1, <3>2 DEF Brings
    <3> QED  BY <1>4, <3>2, <3>3 DEF Others
  <2> QED  BY <1>4, <1>7, <1>8, <2>1, AccountedAfter
<1>19. Books'
  BY <1>4, <1>5, <1>10, <1>12, <1>13, <1>14, <1>16, <1>17, <1>18, AtHandAfter DEF Books
<1> QED  BY <1>2, <1>19

(* The program starts with an empty calendar.                              *)
LEMMA InitBooks ==
    ASSUME TaskAssumption, Init
    PROVE  Books
<1>1. PICK n \in 1..MaxSize : task = NewTask(AnyCal, n)  BY DEF Init
<1>2. AnyCal \in Cals  BY DEF AnyCal, TaskAssumption
<1>3. task \in Rows /\ task.first = NoBlock  BY <1>1, <1>2, AtRest DEF NewTask
<1>4. /\ NoChunk \in [seq : 0..MaxSize, slot : 0..Last] /\ NoChunk.seq = 0
      /\ Unused \in [state : {"unborn", "live", "gone"}, cal : Cals, slot : 0..Last]
      /\ Unused.state = "unborn"
  BY <1>2 DEF NoChunk, Unused, TaskAssumption
<1>5. \A p \in Placers : proc[p] = NoProc  BY DEF Init
<1>6. Noted = {} /\ Live = {}  BY <1>4 DEF Init, Noted, Live
<1>7. NoBlock \notin Unborn  BY DEF Unborn, TaskAssumption
<1>8. \A p \in Placers : Equipped(p) /\ Held(p) = {}  BY <1>5, AtRest DEF Equipped, Held
<1>9. TypeOK
  <2>1. proc \in [Placers -> ProcStates]  BY AtRest DEF Init
  <2>2. \A p \in Placers : Len(proc[p].held) <= MaxSize /\ Len(proc[p].plan) <= MaxSize
    BY <1>5, AtRest DEF TaskAssumption
  <2>3. /\ chunk \in [BlockIds -> [seq : 0..MaxSize, slot : 0..Last]]
        /\ block \in [BlockIds -> [state : {"unborn", "live", "gone"}, cal : Cals, slot : 0..Last]]
    BY <1>4 DEF Init
  <2>4. now \in 0..Last /\ asks \in 0..MaxAsks /\ upsets \in 0..MaxUpsets
    BY DEF Init, TaskAssumption
  <2>5. /\ busy = {} /\ hours = Slots /\ lost = {} /\ alone = {}
        /\ inStep = FALSE /\ orderly = TRUE
    BY DEF Init
  <2> QED  BY <1>3, <2>1, <2>2, <2>3, <2>4, <2>5 DEF TypeOK
<1>10. Born  BY <1>3, <1>5, <1>6, <1>7, <1>8, AtRest DEF Born
<1>11. Secret /\ Gone /\ Sums  BY <1>5, AtRest DEF Secret, Gone, Sums, Brings, Removes
<1>12. Numbers /\ Accounted  BY <1>6 DEF Numbers, Accounted
<1> QED  BY <1>8, <1>9, <1>10, <1>11, <1>12 DEF Books, AtHand

LEMMA NextBooks ==
    ASSUME TaskAssumption, Books, Next
    PROVE  Books'
<1>1. Ticker \in Placers /\ Handlers \subseteq Placers  BY DEF Placers
<1>2. CASE Meet \/ EditHours \/ Pass \/ Complete  BY <1>2, WorldBooks
<1>3. CASE Maintain  BY <1>1, <1>3, SaveTaskBooks
<1>4. ASSUME NEW h \in Handlers, SaveTask(h) \/ PlaceNow(h) \/ DeleteTask(h) PROVE Books'
  BY <1>1, <1>4, SaveTaskBooks, DeleteBooks
<1>5. ASSUME NEW p \in Placers, Step(p) PROVE Books'
  BY <1>5, ReadBooks, LookBooks, ListBooks, MoveBooks, InsertBooks, NoteMovedBooks, NoteNewBooks,
     DropEventBooks, DropRowBooks, SaveRowBooks, FailsBooks, EraseBooks, EraseRowBooks DEF Step
<1>6. ASSUME NEW p \in Placers, Stop({p}) PROVE Books'
  <2>1. {p} \in SUBSET Placers  OBVIOUS
  <2> QED  BY <1>6, <2>1, StopBooks
<1>7. CASE Stop(Placers)  BY <1>7, StopBooks
<1> QED  BY <1>2, <1>3, <1>4, <1>5, <1>6, <1>7 DEF Next

LEMMA SameBooks ==
    ASSUME Books, UNCHANGED vars
    PROVE  Books'
  BY DEF vars, given, seen, Books, TypeOK, AtHand, Equipped, Born, Secret, Brings, Unheard, Numbers,
         Gone, Removes, Sums, Accounted, Held, Moves, Mine, Turn, Noted, Live, Unborn
-------------------------------------------------------------------------------
(* The course of a placement.                                              *)

(* The others are idle while one is at work that nothing disturbed.        *)
LEMMA OnlyOne ==
    ASSUME OneAtWork, NEW p \in Placers, ~Idle(p), NEW q \in Placers
    PROVE  /\ q \in alone => q = p
           /\ orderly \/ p \in alone => q = p \/ Idle(q)
  BY DEF OneAtWork

(* What the parts of the course ask of a step of the goroutine at work.    *)
LEMMA CourseAfter ==
    ASSUME Inv, NEW p \in Placers, ~Idle(p), \A q \in Placers \ {p} : proc'[q] = proc[q],
           alone' \subseteq alone, orderly' => orderly, lost \subseteq lost',
           p \in alone' =>
              proc'[p].at \in Working /\ (proc'[p].at \notin {"idle", "read"} => UpToDate(p)'),
           lost' = {} /\ Undisturbed(p) /\ proc'[p].at \in Placing => Filed(p)',
           orderly' /\ lost' = {} /\ task'.kept =>
              IF proc'[p].at \in Placing THEN Lined(p)' ELSE Plain',
           inStep' => p \notin alone' /\ proc'[p].at = "idle" /\ p \in alone /\ AllOrNothing'
    PROVE  Course'
<1>0. OneAtWork /\ alone \subseteq Placers  BY DEF Inv, Course, Books, TypeOK
<1>1. /\ \A q \in alone : q = p
      /\ orderly \/ p \in alone => \A q \in Placers \ {p} : Idle(q)
  BY <1>0, OnlyOne
<1>2. orderly' \/ p \in alone => \A q \in Placers \ {p} : Idle(q)'  BY <1>1 DEF Idle
<1>3. OneAtWork'
  <2>1. ASSUME NEW q \in alone'
        PROVE  /\ proc'[q].at \in Working /\ alone' = {q} /\ \A r \in Placers \ {q} : Idle(r)'
    <3>1. q = p /\ alone' = {p}  BY <1>1
    <3> QED  BY <1>2, <3>1
  <2>2. ASSUME orderly', NEW q \in Placers, NEW r \in Placers PROVE Idle(q)' \/ Idle(r)' \/ q = r
    BY <1>2, <2>2
  <2> QED  BY <2>1, <2>2 DEF OneAtWork
<1>4. OnCourse'  BY <1>1 DEF OnCourse
<1>5. InOrder'
  <2> SUFFICES ASSUME lost' = {}, NEW q \in Placers, Undisturbed(q)', proc'[q].at \in Placing
               PROVE  Filed(q)'
    BY DEF InOrder
  <2>1. ~Idle(q)'  BY DEF Idle, Placing
  <2>2. q = p  BY <1>1, <1>2, <2>1 DEF Undisturbed
  <2>3. Undisturbed(p)  BY <2>2 DEF Undisturbed
  <2> QED  BY <2>2, <2>3
<1>6. Tidy'
  <2> SUFFICES ASSUME orderly', lost' = {}, task'.kept
               PROVE  /\ \A q \in Placers : proc'[q].at \in Placing => Lined(q)'
                      /\ (\A q \in Placers : proc'[q].at \notin Placing) => Plain'
    BY DEF Tidy
  <2>1. \A q \in Placers \ {p} : proc'[q].at \notin Placing  BY <1>2 DEF Idle, Placing
  <2> QED  BY <2>1
<1>7. Settled'
  <2> SUFFICES ASSUME inStep' PROVE alone' = {} /\ (\A q \in Placers : Idle(q)') /\ AllOrNothing'
    BY DEF Settled
  <2>1. alone' = {}  BY <1>1
  <2>2. \A q \in Placers : Idle(q)'  BY <1>2 DEF Idle
  <2> QED  BY <2>1, <2>2
<1> QED  BY <1>3, <1>4, <1>5, <1>6, <1>7 DEF Course

(* After a failure, or a crash, nothing is said of the course.             *)
LEMMA CutOffCourse ==
    ASSUME CutOff
    PROVE  Course'
<1>1. alone' = {} /\ inStep' = FALSE /\ orderly' = FALSE  BY DEF CutOff
<1> QED  BY <1>1 DEF Course, OneAtWork, OnCourse, InOrder, Undisturbed, Tidy, Settled

LEMMA SameRows ==
    ASSUME UNCHANGED chunk
    PROVE  Noted' = Noted /\ (\A b, s : Summed(b, s)' <=> Summed(b, s))
  BY DEF Noted, Summed

LEMMA SameFiled ==
    ASSUME NEW p \in Placers, UNCHANGED chunk, proc'[p].held = proc[p].held,
           proc'[p].plan = proc[p].plan, proc'[p].done = proc[p].done
    PROVE  /\ Filed(p)' <=> Filed(p)
           /\ InSequence(p)' <=> InSequence(p)
           /\ proc'[p].row = proc[p].row => (Lined(p)' <=> Lined(p))
<1>1. Noted' = Noted /\ Held(p)' = Held(p)  BY DEF Noted, Held
<1>2. \A i : Still(p, i)' <=> Still(p, i)  BY DEF Still
<1>3. Filed(p)' <=> Filed(p)  BY <1>1, <1>2 DEF Filed
<1>4. InSequence(p)' <=> InSequence(p)  BY <1>2 DEF InSequence
<1>5. proc'[p].row = proc[p].row => (Lined(p)' <=> Lined(p))  BY <1>1, <1>4 DEF Lined, Summed
<1> QED  BY <1>3, <1>4, <1>5

(* Other people, users, and time: an undisturbed placement no longer is.   *)
LEMMA WorldCourse ==
    ASSUME Inv, Meet \/ EditHours \/ Pass \/ Complete
    PROVE  Course'
<1>1. UNCHANGED <<chunk, proc, lost>> /\ alone' = {} /\ inStep' = FALSE /\ orderly' = orderly
  BY DEF Meet, EditHours, Pass, Complete, Disturb
<1>2. task'.kept = task.kept /\ task'.first = task.first /\ task'.ends = task.ends
  <2>1. task \in Rows  BY DEF Inv, Books, TypeOK
  <2> QED  BY <2>1 DEF Meet, EditHours, Pass, Complete, Rows
<1>3. Noted' = Noted  BY <1>1 DEF Noted
<1>4. OneAtWork'  BY <1>1 DEF Inv, Course, OneAtWork, Idle
<1>5. OnCourse' /\ Settled'  BY <1>1 DEF OnCourse, Settled
<1>6. InOrder'
  <2>1. \A p \in Placers : Undisturbed(p)' => Undisturbed(p)  BY <1>1 DEF Undisturbed, Idle
  <2>2. \A p \in Placers : Filed(p)' <=> Filed(p)  BY <1>1, SameFiled
  <2> QED  BY <1>1, <2>1, <2>2 DEF Inv, Course, InOrder
<1>7. Tidy'
  <2>1. \A p \in Placers : Lined(p)' <=> Lined(p)  BY <1>1, SameFiled
  <2>2. Plain' <=> Plain  BY <1>1, <1>2, <1>3 DEF Plain, Summed
  <2> QED  BY <1>1, <1>2, <2>1, <2>2 DEF Inv, Course, Tidy
<1> QED  BY <1>4, <1>5, <1>6, <1>7 DEF Course

(* An idle goroutine begins a placement or a deletion: undisturbed if it   *)
(* places and all are idle, and out of order if one is not.                *)
LEMMA BeginCourse ==
    ASSUME Inv, NEW p \in Placers, Idle(p), \A q \in Placers \ {p} : proc'[q] = proc[q],
           proc'[p].at \in {"read", "erase"},
           alone' = {} \/ (Alone /\ alone' = {p} /\ proc'[p].at = "read"),
           orderly' = (orderly /\ Alone), inStep' = FALSE, UNCHANGED <<chunk, lost>>,
           task'.kept => task.kept, task'.first = task.first, task'.ends = task.ends
    PROVE  Course'
<1>1. Noted' = Noted  BY DEF Noted
<1>2. Alone => \A q \in Placers : Idle(q) /\ (q # p => Idle(q)')  BY DEF Alone, Idle
<1>3. OneAtWork'
  <2>1. \A q \in alone' :
           proc'[q].at \in Working /\ alone' = {q} /\ \A r \in Placers \ {q} : Idle(r)'
    BY <1>2 DEF Working
  <2>2. orderly' => \A q, r \in Placers : Idle(q)' \/ Idle(r)' \/ q = r  BY <1>2
  <2> QED  BY <2>1, <2>2 DEF OneAtWork
<1>4. OnCourse' /\ Settled'  BY DEF OnCourse, Settled
<1>5. orderly' => \A q \in Placers : proc[q].at \notin Placing /\ proc'[q].at \notin Placing
  BY <1>2 DEF Idle, Placing
<1>6. InOrder'
  <2> SUFFICES ASSUME NEW q \in Placers, Undisturbed(q)', proc'[q].at \in Placing PROVE FALSE
    BY DEF InOrder
  <2>1. q \notin alone'  BY DEF Placing
  <2> QED  BY <1>5, <2>1 DEF Undisturbed
<1>7. Tidy'
  <2>1. Plain' <=> Plain  BY <1>1 DEF Plain, Summed
  <2> QED  BY <1>5, <2>1 DEF Inv, Course, Tidy
<1> QED  BY <1>3, <1>4, <1>6, <1>7 DEF Course

LEMMA StartCourse ==
    ASSUME TaskAssumption, Inv, NEW p \in Placers,
           SaveTask(p) \/ PlaceNow(p) \/ (Maintain /\ p = Ticker) \/ DeleteTask(p)
    PROVE  Course'
<1>0. task \in Rows /\ Books  BY DEF Inv, Books, TypeOK
<1>1. task'.kept = task.kept /\ task'.first = task.first /\ task'.ends = task.ends
  BY <1>0 DEF SaveTask, PlaceNow, Maintain, DeleteTask, Rows
<1>2. UNCHANGED <<chunk, lost>>  BY DEF SaveTask, PlaceNow, Maintain, DeleteTask
<1>3. CASE DeleteTask(p)
  <2>1. proc'[p].at = "erase" /\ \A r \in Placers \ {p} : proc'[r] = proc[r]
    BY <1>0, <1>3, DeleteBooks
  <2>2. Idle(p) /\ alone' = {} /\ inStep' = FALSE /\ orderly' = (orderly /\ Alone)
    BY <1>3 DEF DeleteTask
  <2> QED  BY <1>1, <1>2, <2>1, <2>2, BeginCourse
<1>4. CASE SaveTask(p) \/ PlaceNow(p) \/ (Maintain /\ p = Ticker)
  <2>1. Goes(p, [proc[p] EXCEPT !.at = "read"]) /\ Starts(p)  BY <1>0, <1>4, SaveTaskBooks
  <2>2. proc'[p].at = "read" /\ \A r \in Placers \ {p} : proc'[r] = proc[r]
    <3>1. proc[p] \in ProcStates  BY <1>0 DEF Books, TypeOK
    <3> QED  BY <2>1, <3>1 DEF Goes, ProcStates
  <2>3. /\ Idle(p) /\ inStep' = FALSE /\ orderly' = (orderly /\ Alone)
        /\ alone' = IF Alone THEN {p} ELSE {}
    BY <2>1 DEF Starts
  <2> QED  BY <1>1, <1>2, <2>2, <2>3, BeginCourse
<1> QED  BY <1>3, <1>4

(* A goroutine that does not place anything before or after its step.      *)
LEMMA BesideCourse ==
    ASSUME Inv, NEW p \in Placers, ~Idle(p), \A q \in Placers \ {p} : proc'[q] = proc[q],
           proc[p].at \notin Placing, proc'[p].at \notin Placing,
           UNCHANGED <<chunk, task, seen>>, lost \subseteq lost',
           p \in alone => proc'[p].at \in Working
                          /\ (proc'[p].at \notin {"idle", "read"} => UpToDate(p)')
    PROVE  Course'
<1>1. alone' = alone /\ orderly' = orderly /\ inStep' = inStep  BY DEF seen
<1>2. ~inStep  BY DEF Inv, Course, Settled
<1>3. orderly' /\ lost' = {} /\ task'.kept => Plain'
  <2> SUFFICES ASSUME orderly', lost' = {}, task'.kept PROVE Plain'  OBVIOUS
  <2>1. \A q \in Placers : proc[q].at \notin Placing
    <3>1. \A q \in Placers \ {p} : Idle(q)  BY <1>1, OnlyOne DEF Inv, Course
    <3> QED  BY <3>1 DEF Idle, Placing
  <2>2. Plain  BY <1>1, <2>1 DEF Inv, Course, Tidy
  <2> QED  BY <2>2 DEF Plain, Summed, Noted
<1> QED  BY <1>1, <1>2, <1>3, CourseAfter

LEMMA ReadCourse ==
    ASSUME TaskAssumption, Inv, NEW p \in Placers, Read(p)
    PROVE  Course'
<1> DEFINE q == [proc[p] EXCEPT !.at = "look", !.row = task]
<1>0. TypeOK /\ proc[p].at = "read" /\ UNCHANGED <<task, chunk, block, given, lost, seen, upsets>>
  BY DEF Inv, Books, Read
<1>1. ~Idle(p) /\ proc[p].at \notin Placing  BY <1>0 DEF Idle, Placing
<1>2. CASE Goes(p, NoProc)
  <2>1. proc'[p].at = "idle" /\ \A r \in Placers \ {p} : proc'[r] = proc[r]
    BY <1>2, AtRest DEF Goes
  <2> QED  BY <1>0, <1>1, <2>1, BesideCourse DEF Working, Placing
<1>3. CASE task.kept /\ task.status \notin Ended /\ Goes(p, q)
  <2>1. q.at = "look" /\ q.row = task  BY <1>0 DEF TypeOK, ProcStates
  <2>2. proc'[p] = q /\ \A r \in Placers \ {p} : proc'[r] = proc[r]  BY <1>3 DEF Goes
  <2> HIDE DEF q
  <2>3. UpToDate(p)'  BY <1>0, <1>3, <2>1, <2>2 DEF UpToDate, Placing
  <2> QED  BY <1>0, <1>1, <2>1, <2>2, <2>3, BesideCourse DEF Working, Placing
<1> QED  BY <1>0, <1>2, <1>3, ReadIs

LEMMA LookCourse ==
    ASSUME TaskAssumption, Inv, NEW p \in Placers, Look(p)
    PROVE  Course'
<1>0. TypeOK /\ proc[p].at = "look" /\ UNCHANGED <<task, chunk, block, given, lost, seen, upsets>>
  BY DEF Inv, Books, Look
<1>1. ~Idle(p) /\ proc[p].at \notin Placing  BY <1>0 DEF Idle, Placing
<1>2. CASE Goes(p, NoProc)
  <2>1. proc'[p].at = "idle" /\ \A r \in Placers \ {p} : proc'[r] = proc[r]
    BY <1>2, AtRest DEF Goes
  <2> QED  BY <1>0, <1>1, <2>1, BesideCourse DEF Working, Placing
<1>3. ASSUME NEW q \in ProcStates, Goes(p, q), q.at = "list", q.from = now, q.hours = hours,
             q.taken = Taken, q.row = proc[p].row
      PROVE  Course'
  <2>1. proc'[p] = q /\ \A r \in Placers \ {p} : proc'[r] = proc[r]  BY <1>3 DEF Goes
  <2>2. Taken' = Taken  BY <1>0 DEF Taken, Live, Noted, SlotsOf, given
  <2>3. ASSUME p \in alone PROVE UpToDate(p)'
    <3>1. UpToDate(p)  BY <1>0, <2>3 DEF Inv, Course, OnCourse
    <3>2. task.kept /\ task.status \notin Ended /\ proc[p].row = task  BY <1>0, <3>1 DEF UpToDate
    <3> QED  BY <1>0, <1>3, <2>1, <2>2, <3>2 DEF UpToDate, Placing, given
  <2> QED  BY <1>0, <1>1, <1>3, <2>1, <2>3, BesideCourse DEF Working, Placing
<1> QED  BY <1>0, <1>2, <1>3, LookIs

(* While nothing is lost and nobody has a block in hand, the rows are      *)
(* those of the blocks on the calendar, and state where they are.          *)
LEMMA RowsTrue ==
    ASSUME Books, lost = {},
           \A q \in Placers : proc[q].at \notin {"noting", "dropped", "erased"}
    PROVE  Noted = Live /\ \A b \in Noted : block[b].slot = chunk[b].slot
<1>1. \A q \in Placers : \A b : ~Brings(q, b) /\ ~Removes(q, b)  BY DEF Brings, Removes
<1>2. Noted \subseteq BlockIds /\ Live \subseteq BlockIds  BY DEF Noted, Live
<1>3. \A b \in BlockIds : b \in Noted <=> b \in Live  BY <1>1 DEF Books, Accounted
<1>4. \A b \in Noted \cap Live : block[b].slot = chunk[b].slot  BY <1>2 DEF Books, Accounted
<1> QED  BY <1>2, <1>3, <1>4

(* What is free at Google by what the placement knows, when it is right:   *)
(* a slot that is neither busy nor over, and what is open is free.         *)
LEMMA FreeIs ==
    ASSUME TaskAssumption, Books, NEW p \in Placers,
           proc[p].from = now, proc[p].hours = hours, proc[p].taken = Taken
    PROVE  /\ IsFiniteSet(FreeFor(p))
           /\ Open \subseteq FreeFor(p) /\ Cardinality(Open) <= Cardinality(FreeFor(p))
           /\ Noted = Live /\ (\A b \in Noted : block[b].slot = chunk[b].slot) =>
                 Room \subseteq FreeFor(p) /\ Cardinality(Room) <= Cardinality(FreeFor(p))
<1>1. IsFiniteSet(Slots)  BY FS_Interval DEF Slots, TaskAssumption
<1>2. FreeFor(p) \subseteq hours /\ hours \subseteq Slots  BY DEF FreeFor, Books, TypeOK
<1>3. IsFiniteSet(FreeFor(p))  BY <1>1, <1>2, FS_Subset
<1>4. Open \subseteq FreeFor(p)  BY DEF Open, FreeFor
<1>5. ASSUME Noted = Live, \A b \in Noted : block[b].slot = chunk[b].slot
      PROVE  Room \subseteq FreeFor(p)
  <2>1. Taken \subseteq busy  BY <1>5 DEF Taken, SlotsOf
  <2> QED  BY <2>1 DEF Room, FreeFor
<1> QED  BY <1>3, <1>4, <1>5, FS_Subset

(* The two outcomes of a placement.                                        *)
Whole ==
    /\ task.status = "scheduled" /\ ~task.note
    /\ {chunk[b].seq : b \in Noted} = 1..task.size
    /\ \A b \in Noted : block[b].slot = chunk[b].slot /\ chunk[b].slot \in hours
    /\ \A a, b \in Noted : chunk[a].seq < chunk[b].seq => chunk[a].slot < chunk[b].slot
    /\ orderly => task.first \in Noted /\ chunk[task.first] = [seq |-> 1, slot |-> task.ends]
None ==
    /\ task.status = "pending" \/ ByHand
    /\ task.note /\ Noted = {} /\ Cardinality(Open) < task.size

LEMMA OutcomeIs ==
    ASSUME Sound' /\ lost' = {} => task'.status \in Ended \/ ~task'.kept \/ Whole' \/ None'
    PROVE  AllOrNothing'
  BY DEF AllOrNothing, Whole, None

(* As long as the numbers have no gap, the blocks are listed by number.    *)
LEMMA ListedInSequence ==
    ASSUME TaskAssumption, TypeOK, Numbers, {chunk[b].seq : b \in Noted} = 1..Cardinality(Noted)
    PROVE  \A i \in DOMAIN Listed : chunk[Listed[i]].seq = i
<1>1. Listed \in Seq(BlockIds) /\ Len(Listed) = Cardinality(Noted)  BY ListedIs
<1>2. Nums = 1..Cardinality(Noted) /\ Cardinality(Noted) \in Nat  BY NotedFinite DEF Nums, TaskAssumption
<1>3. DOMAIN Listed = 1..Cardinality(Noted)  BY <1>1
<1>4. \A i \in 1..Cardinality(Noted) : Nth(Nums, i) = i  BY <1>2, NthOfRange
<1> QED  BY <1>3, <1>4, ListedIs

(* Blocks that an undisturbed placement leaves as they are, and a task it  *)
(* leaves without any.                                                     *)
LEMMA StayIsWhole ==
    ASSUME TaskAssumption, Inv, NEW p \in Placers, p \in alone, proc[p].at = "list",
           Stays(p), Sound, lost = {}
    PROVE  Whole
<1>0. TypeOK /\ Numbers /\ Books /\ OneAtWork /\ UpToDate(p)
  BY DEF Inv, Books, Course, OnCourse
<1>1. proc[p].row = task /\ proc[p].hours = hours  BY <1>0 DEF UpToDate
<1>2. \A q \in Placers \ {p} : Idle(q)  BY <1>0 DEF OneAtWork
<1>3. \A q \in Placers : proc[q].at \notin {"noting", "dropped", "erased"} \cup Placing
  BY <1>2 DEF Idle, Placing
<1>4. \A b \in Noted : block[b].slot = chunk[b].slot  BY <1>0, <1>3, RowsTrue
<1> DEFINE n == Cardinality(Noted)
<1>5. Listed \in Seq(BlockIds) /\ Len(Listed) = n /\ \A b \in Noted : \E i \in DOMAIN Listed : Listed[i] = b
  BY <1>0, ListedIs
<1>6. {chunk[b].seq : b \in Noted} = 1..n  BY DEF Sound
<1>7. \A i \in DOMAIN Listed : chunk[Listed[i]].seq = i  BY <1>0, <1>6, ListedInSequence
<1> HIDE DEF n
<1>8. /\ n = task.size
      /\ \A i \in DOMAIN Listed : chunk[Listed[i]].slot \in hours
      /\ \A i, j \in DOMAIN Listed : i < j => chunk[Listed[i]].slot < chunk[Listed[j]].slot
  <2>1. CASE Holds(p, Listed)  BY <1>1, <1>5, <2>1 DEF Holds
  <2>2. CASE FitsNow(p) /\ [i \in DOMAIN Listed |-> chunk[Listed[i]].slot] = PlanOf(p)
    <3>1. /\ FreeFor(p) \subseteq hours /\ PlanOf(p) \in Seq(Slots) /\ Len(PlanOf(p)) = task.size
          /\ \A i \in DOMAIN PlanOf(p) : PlanOf(p)[i] \in FreeFor(p)
          /\ \A i, j \in DOMAIN PlanOf(p) : i < j => PlanOf(p)[i] < PlanOf(p)[j]
      BY <1>0, <1>1, <2>2, PlanIs
    <3> DEFINE plan == PlanOf(p)
    <3> HIDE DEF plan
    <3>2. DOMAIN plan = DOMAIN Listed /\ \A i \in DOMAIN Listed : chunk[Listed[i]].slot = plan[i]
      BY <2>2 DEF plan
    <3>3. n = task.size
      <4>1. DOMAIN Listed = 1..n /\ DOMAIN plan = 1..task.size  BY <1>5, <3>1 DEF plan
      <4>2. n \in Nat /\ task.size \in Nat  BY <1>0, <1>5 DEF TypeOK, Rows
      <4> QED  BY <3>2, <4>1, <4>2
    <3> QED  BY <3>1, <3>2, <3>3 DEF plan
  <2> QED  BY <2>1, <2>2 DEF Stays
<1>9. \A b \in Noted : chunk[b].slot \in hours  BY <1>5, <1>8
<1>10. ASSUME NEW a \in Noted, NEW b \in Noted, chunk[a].seq < chunk[b].seq
       PROVE  chunk[a].slot < chunk[b].slot
  <2>1. PICK i \in DOMAIN Listed : Listed[i] = a  BY <1>5
  <2>2. PICK j \in DOMAIN Listed : Listed[j] = b  BY <1>5
  <2>3. i < j  BY <1>7, <1>10, <2>1, <2>2
  <2> QED  BY <1>8, <2>1, <2>2, <2>3
<1>11. ASSUME orderly PROVE task.first \in Noted /\ chunk[task.first] = [seq |-> 1, slot |-> task.ends]
  <2>1. Plain  BY <1>0, <1>3, <1>11 DEF Inv, Course, Tidy, UpToDate
  <2>2. Noted # {}
    <3>1. task.size >= 1 /\ task.size \in Nat  BY <1>0 DEF TypeOK, Rows
    <3> QED  BY <1>6, <1>8, <3>1
  <2> QED  BY <2>1, <2>2 DEF Plain, Summed
<1>12. task.status = "scheduled" /\ ~task.note  BY <1>1 DEF Stays, InPlace
<1> QED  BY <1>4, <1>6, <1>8, <1>9, <1>10, <1>11, <1>12 DEF Whole

LEMMA QuietIsNone ==
    ASSUME TaskAssumption, Inv, NEW p \in Placers, p \in alone, proc[p].at = "list", Quiet(p)
    PROVE  None
<1>0. TypeOK /\ Numbers /\ Books /\ UpToDate(p)  BY DEF Inv, Books, Course, OnCourse
<1>1. /\ proc[p].row = task /\ proc[p].from = now /\ proc[p].hours = hours /\ proc[p].taken = Taken
      /\ task.status \notin Ended
  BY <1>0 DEF UpToDate
<1>2. /\ IsFiniteSet(FreeFor(p)) /\ Cardinality(Open) <= Cardinality(FreeFor(p)) /\ Open \subseteq FreeFor(p)
  BY <1>0, <1>1, FreeIs
<1>3. Cardinality(Open) < task.size
  <2>1. Cardinality(FreeFor(p)) \in Nat /\ Cardinality(Open) \in Nat
    BY <1>2, FS_Subset, FS_CardinalityType
  <2>2. task.size \in Nat  BY <1>0 DEF TypeOK, Rows
  <2> QED  BY <1>1, <1>2, <2>1, <2>2 DEF Quiet, FitsNow
<1>4. Noted = {}  BY <1>0, ListedIs DEF Quiet
<1>5. task.note /\ task.first = NoBlock  BY <1>1 DEF Quiet
<1>6. task.status \in {"pending", "scheduled"}  BY <1>0, <1>1 DEF TypeOK, Rows, Statuses, Ended
<1> QED  BY <1>3, <1>4, <1>5, <1>6 DEF None, ByHand

LEMMA ListCourse ==
    ASSUME TaskAssumption, Inv, NEW p \in Placers, List(p)
    PROVE  Course'
<1>0. TypeOK /\ Numbers /\ Books /\ OneAtWork  BY DEF Inv, Books, Course
<1>1. proc[p].at = "list" /\ UNCHANGED <<task, chunk, block, given, lost, orderly, upsets>>
  BY <1>0, ListIs
<1>2. ~Idle(p)  BY <1>1 DEF Idle
<1>3. ASSUME orderly, lost = {}, task.kept PROVE Plain
  <2>1. \A q \in Placers \ {p} : Idle(q)  BY <1>0, <1>2, <1>3, OnlyOne
  <2>2. \A q \in Placers : proc[q].at \notin Placing  BY <1>1, <2>1 DEF Idle, Placing
  <2> QED  BY <1>3, <2>2 DEF Inv, Course, Tidy
<1>4. Noted' = Noted /\ Live' = Live  BY <1>1, SameBlocks
<1>5. CASE Stays(p) \/ Quiet(p)
  <2>1. Goes(p, NoProc) /\ inStep' = (p \in alone) /\ alone' = alone \ {p}  BY <1>0, <1>5, ListIs
  <2>2. proc'[p].at = "idle" /\ \A q \in Placers \ {p} : proc'[q] = proc[q]  BY <2>1, AtRest DEF Goes
  <2>3. orderly /\ lost = {} /\ task.kept => Plain'  BY <1>1, <1>3, <1>4 DEF Plain, Summed
  <2>4. ASSUME p \in alone PROVE AllOrNothing'
    <3> SUFFICES ASSUME Sound', lost' = {} PROVE Whole' \/ None'  BY OutcomeIs
    <3>1. Sound /\ lost = {}  BY <1>1, <1>4 DEF Sound, There
    <3>2. Whole \/ None  BY <1>1, <1>5, <2>4, <3>1, StayIsWhole, QuietIsNone
    <3>3. Whole => Whole'  BY <1>1, <1>4 DEF Whole, given
    <3>4. None => None'  BY <1>1, <1>4 DEF None, ByHand, Open, Taken, SlotsOf, given
    <3> QED  BY <3>2, <3>3, <3>4
  <2> QED  BY <1>1, <1>2, <2>1, <2>2, <2>3, <2>4, CourseAfter DEF Placing
<1>6. CASE ~(Stays(p) \/ Quiet(p))
  <2>1. PICK q \in ProcStates :
           /\ Goes(p, q) /\ q.held = Listed /\ q.plan = PlanOf(p) /\ q.done = 0
           /\ q.at = IF FitsNow(p) THEN "put" ELSE IF Listed = <<>> THEN "save" ELSE "drop"
    BY <1>0, <1>6, ListIs
  <2>2. inStep' = FALSE /\ alone' = alone  BY <1>0, <1>6, ListIs
  <2>3. proc'[p] = q /\ (\A r \in Placers \ {p} : proc'[r] = proc[r]) /\ q.at \in {"put", "save", "drop"}
    BY <2>1 DEF Goes
  <2>4. /\ Listed \in Seq(BlockIds)
        /\ \A i \in DOMAIN Listed : Listed[i] \in Noted
        /\ \A i, j \in DOMAIN Listed : i < j => chunk[Listed[i]].seq < chunk[Listed[j]].seq
        /\ \A b \in Noted : \E i \in DOMAIN Listed : Listed[i] = b
    BY <1>0, ListedIs
  <2>5. Len(q.plan) \in Nat /\ DOMAIN q.plan = 1..Len(q.plan)
    BY DEF ProcStates
  <2>6. \A i \in DOMAIN Listed : Still(p, i)'
    <3>1. \A i \in DOMAIN Listed : i > 0  BY <2>4
    <3> QED  BY <2>1, <2>3, <3>1 DEF Still
  <2>7. Held(p)' = Noted
    <3>1. Held(p)' = {Listed[i] : i \in DOMAIN Listed}  BY <2>1, <2>3 DEF Held
    <3> QED  BY <2>4, <3>1
  <2>8. Filed(p)'
    <3>1. \A i, j \in DOMAIN Listed : i # j => Listed[i] # Listed[j]
      <4>1. \A i \in DOMAIN Listed : i \in Nat /\ chunk[Listed[i]].seq \in Nat
        BY <1>0, <2>4 DEF TypeOK, Noted
      <4> QED  BY <2>4, <4>1
    <3>2. \A i \in DOMAIN Listed : ~(i <= 0)  BY <2>4
    <3>3. \A i \in DOMAIN q.plan : ~(i <= 0)  BY <2>5
    <3> QED  BY <1>1, <1>4, <2>1, <2>3, <2>4, <2>6, <2>7, <3>1, <3>2, <3>3 DEF Filed
  <2>9. ASSUME orderly, lost = {}, task.kept PROVE Lined(p)'
    <3>1. \A i \in DOMAIN Listed : chunk[Listed[i]].seq = i
      BY <1>0, <1>3, <2>9, ListedInSequence DEF Plain
    <3> QED  BY <1>1, <2>1, <2>3, <3>1 DEF Lined, InSequence
  <2>10. ASSUME p \in alone PROVE UpToDate(p)'
    <3>1. UpToDate(p)  BY <1>1, <2>10 DEF Inv, Course, OnCourse
    <3>2. /\ task.kept /\ task.status \notin Ended /\ proc[p].row = task
          /\ proc[p].from = now /\ proc[p].hours = hours /\ proc[p].taken = Taken
      BY <1>1, <3>1 DEF UpToDate
    <3>3. /\ FreeFor(p) \subseteq hours /\ \A i \in DOMAIN PlanOf(p) : PlanOf(p)[i] \in FreeFor(p)
          /\ FitsNow(p) => Len(PlanOf(p)) = task.size
          /\ ~FitsNow(p) => PlanOf(p) = <<>>
          /\ FitsNow(p) => PlanOf(p) # <<>>
      BY <1>0, <3>2, PlanIs
    <3>4. ASSUME PlanOf(p) = <<>>, lost = {} PROVE Cardinality(Room) < task.size
      <4>1. \A r \in Placers \ {p} : Idle(r)  BY <1>0, <1>2, <2>10, OnlyOne
      <4>2. \A r \in Placers : proc[r].at \notin {"noting", "dropped", "erased"}
        BY <1>1, <4>1 DEF Idle
      <4>3. Noted = Live /\ \A b \in Noted : block[b].slot = chunk[b].slot
        BY <1>0, <3>4, <4>2, RowsTrue
      <4>4. /\ IsFiniteSet(FreeFor(p)) /\ Room \subseteq FreeFor(p)
            /\ Cardinality(Room) <= Cardinality(FreeFor(p))
        BY <1>0, <3>2, <4>3, FreeIs
      <4>5. Cardinality(FreeFor(p)) \in Nat /\ Cardinality(Room) \in Nat
        BY <4>4, FS_Subset, FS_CardinalityType
      <4>6. task.size \in Nat  BY <1>0 DEF TypeOK, Rows
      <4>7. ~(Cardinality(FreeFor(p)) >= task.size)  BY <3>2, <3>3, <3>4 DEF FitsNow
      <4> QED  BY <4>4, <4>5, <4>6, <4>7
    <3>5. Room' = Room  BY <1>1 DEF Room, given
    <3> QED  BY <1>1, <2>1, <2>3, <3>2, <3>3, <3>4, <3>5 DEF UpToDate, given
  <2> QED  BY <1>1, <1>2, <2>2, <2>3, <2>8, <2>9, <2>10, CourseAfter DEF Working, Placing
<1> QED  BY <1>5, <1>6

(* As long as nothing else changes, what the placement knows stays so.     *)
LEMMA StaysUpToDate ==
    ASSUME Inv, NEW p \in Placers, p \in alone, proc[p].at \in Placing, proc'[p].at \in Placing,
           proc'[p].plan = proc[p].plan, UNCHANGED <<task, given>>, lost \subseteq lost'
    PROVE  proc'[p].at \in Working /\ UpToDate(p)'
<1>1. UpToDate(p)  BY DEF Inv, Course, OnCourse, Placing
<1>2. proc'[p].at \in Working  BY DEF Working, Placing
<1>3. Room' = Room  BY DEF Room, given
<1>4. lost' = {} => lost = {}  OBVIOUS
<1>5. hours' = hours /\ now' = now  BY DEF given
<1> QED  BY <1>1, <1>2, <1>3, <1>4, <1>5 DEF UpToDate, Placing

(* A block is taken in hand.                                               *)
LEMMA HandCourse ==
    ASSUME Inv, NEW p \in Placers, NEW q, Goes(p, q), proc[p].at \in Placing,
           proc'[p].at \in Placing, proc'[p].row = proc[p].row, proc'[p].held = proc[p].held,
           proc'[p].plan = proc[p].plan, proc'[p].done = proc[p].done,
           UNCHANGED <<task, chunk, given, seen>>, lost \subseteq lost'
    PROVE  Course'
<1>1. ~Idle(p) /\ \A r \in Placers \ {p} : proc'[r] = proc[r]  BY DEF Idle, Placing, Goes
<1>2. alone' = alone /\ orderly' = orderly /\ inStep' = inStep  BY DEF seen
<1>3. ~inStep  BY <1>1 DEF Inv, Course, Settled
<1>4. p \in alone => proc'[p].at \in Working /\ UpToDate(p)'  BY StaysUpToDate
<1>5. lost' = {} => lost = {}  OBVIOUS
<1>6. lost' = {} /\ Undisturbed(p) => Filed(p)'
  BY <1>5, SameFiled DEF Inv, Course, InOrder
<1>7. orderly' /\ lost' = {} /\ task'.kept => Lined(p)'
  BY <1>2, <1>5, SameFiled DEF Inv, Course, Tidy
<1> QED  BY <1>1, <1>2, <1>3, <1>4, <1>6, <1>7, CourseAfter

LEMMA EventCourse ==
    ASSUME TaskAssumption, Inv, NEW p \in Placers, MoveEvent(p) \/ InsertEvent(p) \/ DropEvent(p)
    PROVE  Course'
<1>0. TypeOK /\ Books /\ Equipped(p)  BY DEF Inv, Books, AtHand
<1>1. CASE MoveEvent(p)
  <2>1. /\ proc[p].at = "put" /\ Moves(p)
        /\ proc' = [proc EXCEPT ![p].at = "noting", ![p].hand = Mine(p)]
        /\ UNCHANGED <<task, chunk, given, lost, seen>>
    BY <1>1 DEF MoveEvent
  <2>2. Mine(p) \in BlockIds  BY <1>0, <2>1, MineIs
  <2>3. /\ Goes(p, [proc[p] EXCEPT !.at = "noting", !.hand = Mine(p)])
        /\ proc'[p].at = "noting" /\ proc'[p].row = proc[p].row /\ proc'[p].held = proc[p].held
        /\ proc'[p].plan = proc[p].plan /\ proc'[p].done = proc[p].done
    BY <1>0, <2>1, <2>2, PutIs
  <2> QED  BY <2>1, <2>3, HandCourse DEF Placing
<1>2. CASE InsertEvent(p)
  <2>1. /\ proc[p].at = "put" /\ Unborn # {}
        /\ proc' = [proc EXCEPT ![p].at = "noting", ![p].hand = Fresh]
        /\ UNCHANGED <<task, chunk, given, lost, seen>>
    BY <1>2 DEF InsertEvent
  <2>2. Fresh \in BlockIds  BY <2>1 DEF Fresh, Unborn
  <2>3. /\ Goes(p, [proc[p] EXCEPT !.at = "noting", !.hand = Fresh])
        /\ proc'[p].at = "noting" /\ proc'[p].row = proc[p].row /\ proc'[p].held = proc[p].held
        /\ proc'[p].plan = proc[p].plan /\ proc'[p].done = proc[p].done
    BY <1>0, <2>1, <2>2, PutIs
  <2> QED  BY <2>1, <2>3, HandCourse DEF Placing
<1>3. CASE DropEvent(p)
  <2>1. /\ proc[p].at = "drop"
        /\ proc' = [proc EXCEPT ![p].at = "dropped", ![p].hand = Mine(p)]
        /\ UNCHANGED <<task, chunk, given, seen>> /\ lost \subseteq lost'
    BY <1>3 DEF DropEvent
  <2>2. Mine(p) \in BlockIds
    <3>1. proc[p].held \in Seq(BlockIds) /\ proc[p].done \in Nat  BY <1>0 DEF TypeOK, ProcStates
    <3>2. Moves(p)  BY <1>0, <2>1, <3>1 DEF Equipped, Moves, Turn
    <3> QED  BY <1>0, <3>2, MineIs
  <2>3. /\ Goes(p, [proc[p] EXCEPT !.at = "dropped", !.hand = Mine(p)])
        /\ proc'[p].at = "dropped" /\ proc'[p].row = proc[p].row /\ proc'[p].held = proc[p].held
        /\ proc'[p].plan = proc[p].plan /\ proc'[p].done = proc[p].done
    BY <1>0, <2>1, <2>2, PutIs
  <2> QED  BY <2>1, <2>3, HandCourse DEF Placing
<1> QED  BY <1>1, <1>2, <1>3

LEMMA NoteMovedCourse ==
    ASSUME TaskAssumption, Inv, NEW p \in Placers, NoteMoved(p)
    PROVE  Course'
<1> DEFINE b == proc[p].hand
           s == proc[p].plan[Turn(p)]
           held == proc[p].held
           plan == proc[p].plan
           done == proc[p].done
<1>0. TypeOK /\ Books /\ Equipped(p)  BY DEF Inv, Books, AtHand
<1>1. /\ proc[p].at = "noting" /\ Moves(p) /\ chunk' = NoteSlot(b, s)
      /\ lost \subseteq lost'
      /\ proc' = Advanced(p) /\ UNCHANGED <<task, block, given, seen, upsets>>
  BY DEF NoteMoved
<1>2. /\ proc'[p].at \in {"put", "drop", "save"} /\ proc'[p].done = Turn(p)
      /\ proc'[p].held = held /\ proc'[p].plan = plan
      /\ proc'[p].row.first = IF done = 0 THEN b ELSE proc[p].row.first
      /\ Held(p)' = Held(p)
  BY <1>0, <1>1, AdvancedIs
<1>3. \A r \in Placers \ {p} : proc'[r] = proc[r]
  <2>1. PICK q \in ProcStates : Goes(p, q)  BY <1>0, <1>1, AdvancedIs
  <2> QED  BY <2>1 DEF Goes
<1>4. ~Idle(p) /\ alone' = alone /\ orderly' = orderly /\ inStep' = inStep
  BY <1>1 DEF Idle, seen
<1>5. ~inStep  BY <1>4 DEF Inv, Course, Settled
<1>6. p \in alone => proc'[p].at \in Working /\ UpToDate(p)'
  BY <1>1, <1>2, StaysUpToDate DEF Placing
<1>7. /\ held \in Seq(BlockIds) /\ done \in Nat /\ done < Len(plan) /\ Len(plan) \in Nat
      /\ Turn(p) = done + 1 /\ Turn(p) \in DOMAIN held /\ b = held[Turn(p)] /\ b \in BlockIds
      /\ b \in Held(p)
  <2>1. proc[p] \in ProcStates  BY <1>0 DEF TypeOK
  <2>2. held \in Seq(BlockIds) /\ plan \in Seq(Slots) /\ done \in Nat  BY <2>1 DEF ProcStates
  <2>3. Len(plan) \in Nat  BY <2>2
  <2>4. done < Len(plan)  BY <1>0, <1>1 DEF Equipped
  <2>5. b = Mine(p)  BY <1>0, <1>1 DEF Equipped
  <2>6. b \in BlockIds /\ b \in Held(p) /\ Turn(p) \in DOMAIN held  BY <1>0, <1>1, <2>5, MineIs
  <2>7. Turn(p) = done + 1 /\ b = held[Turn(p)]  BY <2>5 DEF Turn, Mine
  <2> QED  BY <2>2, <2>3, <2>4, <2>6, <2>7
<1>8. DOMAIN held = 1..Len(held) /\ Len(held) \in Nat /\ DOMAIN plan = 1..Len(plan)
  <2>1. proc[p] \in ProcStates  BY <1>0 DEF TypeOK
  <2>2. held \in Seq(BlockIds) /\ plan \in Seq(Slots)  BY <2>1 DEF ProcStates
  <2> QED  BY <2>2
<1>9. \A i \in DOMAIN held : Still(p, i)' <=> Still(p, i)
  BY <1>2, <1>7, <1>8 DEF Still
<1>10. Still(p, Turn(p))  BY <1>7 DEF Still
<1> DEFINE turn == Turn(p)
<1> HIDE DEF b, s, held, plan, done, turn
<1>11. /\ \A c \in BlockIds : chunk'[c].seq = chunk[c].seq
       /\ \A c \in BlockIds \ {b} : chunk'[c] = chunk[c]
       /\ b \in Noted => chunk'[b].slot = s
  BY <1>0, <1>1, <1>7 DEF TypeOK, NoteSlot
<1>12. Noted' = Noted /\ Noted \subseteq BlockIds  BY <1>11 DEF Noted
<1>13. \A i \in DOMAIN held : held[i] \in BlockIds /\ held[i] \in Held(p)
  BY <1>7, <1>8 DEF Held, held
<1>14. s = plan[turn] /\ b = held[turn] /\ turn \in DOMAIN held /\ turn = done + 1
  BY <1>7 DEF s, plan, turn
<1>15. ASSUME lost = {}, Undisturbed(p) PROVE Filed(p) /\ b \in Noted
  <2>1. Filed(p)  BY <1>1, <1>15 DEF Inv, Course, InOrder, Placing
  <2>2. b \in Noted  BY <1>7, <1>10, <2>1 DEF Filed, held
  <2> QED  BY <2>1, <2>2
<1>16. ASSUME lost' = {}, Undisturbed(p) PROVE Filed(p)'
  <2>1. Filed(p) /\ b \in Noted  BY <1>1, <1>15, <1>16
  <2>2. \A i, j \in DOMAIN held : i # j => held[i] # held[j]  BY <2>1 DEF Filed, held
  <2>3. ASSUME NEW i \in DOMAIN held, NEW j \in DOMAIN held, i < j, Still(p, i)', Still(p, j)'
        PROVE  chunk'[held[i]].seq < chunk'[held[j]].seq
    <3>1. chunk[held[i]].seq < chunk[held[j]].seq  BY <1>9, <2>1, <2>3 DEF Filed, held
    <3> QED  BY <1>11, <1>13, <3>1
  <2>4. \A i \in DOMAIN held : held[i] \in Noted' <=> Still(p, i)'
    BY <1>9, <1>12, <2>1 DEF Filed, held
  <2>5. ASSUME NEW i \in DOMAIN held, i <= Len(plan), i <= turn PROVE chunk'[held[i]].slot = plan[i]
    <3>1. CASE i = turn  BY <1>11, <1>14, <2>1, <3>1
    <3>2. CASE i # turn
      <4>1. held[i] # b  BY <1>14, <2>2, <3>2
      <4>2. i <= done  BY <1>7, <1>8, <1>14, <2>5, <3>2
      <4>3. chunk[held[i]].slot = plan[i]  BY <2>1, <2>5, <4>2 DEF Filed, held, plan, done
      <4> QED  BY <1>11, <1>13, <4>1, <4>3
    <3> QED  BY <3>1, <3>2
  <2>6. ASSUME NEW c \in Noted \ Held(p)
        PROVE  /\ Len(held) < chunk'[c].seq /\ chunk'[c].seq <= turn
               /\ chunk'[c].seq <= Len(plan) /\ chunk'[c].slot = plan[chunk'[c].seq]
    <3>1. chunk'[c] = chunk[c]  BY <1>7, <1>11, <1>12
    <3>2. /\ Len(held) < chunk[c].seq /\ chunk[c].seq <= done
          /\ chunk[c].seq <= Len(plan) /\ chunk[c].slot = plan[chunk[c].seq]
      BY <2>1 DEF Filed, held, plan, done
    <3>3. chunk[c].seq \in Nat  BY <1>0, <1>12 DEF TypeOK
    <3> QED  BY <1>7, <1>14, <3>1, <3>2, <3>3
  <2>7. \A i \in DOMAIN plan : ~(Len(held) < i /\ i <= turn)
    BY <1>8, <1>14
  <2> QED
    BY <1>2, <1>12, <2>2, <2>3, <2>4, <2>5, <2>6, <2>7 DEF Filed, held, plan, turn
<1>17. ASSUME orderly, lost' = {}, task.kept PROVE Lined(p)'
  <2>1. Lined(p)  BY <1>1, <1>17 DEF Inv, Course, Tidy, Placing
  <2>2. Undisturbed(p)  BY <1>4, <1>17 DEF Undisturbed
  <2>3. b \in Noted  BY <1>1, <1>15, <1>17, <2>2
  <2>4. InSequence(p)'
    <3>1. ASSUME NEW i \in DOMAIN held, Still(p, i)' PROVE chunk'[held[i]].seq = i
      BY <1>9, <1>11, <1>13, <2>1, <3>1 DEF Lined, InSequence, held
    <3> QED  BY <1>2, <3>1 DEF InSequence
  <2>5. chunk[b].seq = turn  BY <1>10, <1>14, <2>1 DEF Lined, InSequence, held, turn
  <2>6. CASE done = 0
    <3>1. chunk'[b] = [seq |-> 1, slot |-> plan[1]]
      <4>1. chunk'[b] \in [seq : Nat, slot : Nat] /\ chunk'[b].seq = 1 /\ chunk'[b].slot = plan[1]
        <5>1. chunk'[b] \in [seq : 0..MaxSize, slot : 0..Last]
          <6>1. TypeOK'  BY <1>0, NoteMovedBooks DEF Books
          <6> QED  BY <1>7, <6>1 DEF TypeOK
        <5>2. chunk'[b].seq = 1 /\ chunk'[b].slot = plan[1]  BY <1>7, <1>11, <1>14, <2>3, <2>5, <2>6
        <5> QED  BY <5>1, <5>2 DEF TaskAssumption
      <4> QED  BY <4>1
    <3>2. proc'[p].row.first = b  BY <1>2, <2>6
    <3> QED  BY <1>2, <1>12, <2>3, <2>4, <3>1, <3>2 DEF Lined, Summed, plan
  <2>7. CASE done # 0
    <3>1. Summed(proc[p].row.first, plan[1])  BY <1>7, <2>1, <2>7 DEF Lined, plan, done
    <3>2. proc[p].row.first # b
      <4>1. chunk[b].seq # 1  BY <1>7, <1>14, <2>5, <2>7
      <4> QED  BY <3>1, <4>1 DEF Summed
    <3>3. chunk'[proc[p].row.first] = chunk[proc[p].row.first]  BY <1>11, <1>12, <3>1, <3>2 DEF Summed
    <3>4. proc'[p].row.first = proc[p].row.first  BY <1>2, <2>7
    <3> QED  BY <1>2, <1>12, <2>4, <3>1, <3>3, <3>4 DEF Lined, Summed, plan
  <2> QED  BY <2>6, <2>7
<1> QED  BY <1>1, <1>2, <1>3, <1>4, <1>5, <1>6, <1>16, <1>17, CourseAfter DEF Placing

LEMMA NoteNewCourse ==
    ASSUME TaskAssumption, Inv, NEW p \in Placers, NoteNew(p)
    PROVE  Course'
<1> DEFINE b == proc[p].hand
           s == proc[p].plan[Turn(p)]
           held == proc[p].held
           plan == proc[p].plan
           done == proc[p].done
           turn == Turn(p)
<1>0. TypeOK /\ Books /\ Equipped(p)  BY DEF Inv, Books, AtHand
<1>1. proc[p].at = "noting" /\ ~Moves(p) /\ UNCHANGED <<task, block, given, upsets>>  BY DEF NoteNew
<1>2. CASE ~(task.kept /\ ~Numbered(turn))  BY <1>2, CutOffCourse DEF NoteNew
<1>3. CASE task.kept /\ ~Numbered(turn)
  <2>1. /\ chunk' = [chunk EXCEPT ![b] = [seq |-> turn, slot |-> s]]
        /\ proc' = Advanced(p) /\ UNCHANGED <<lost, seen>>
    BY <1>3 DEF NoteNew
  <2>2. /\ proc'[p].at \in {"put", "drop", "save"} /\ proc'[p].done = turn
        /\ proc'[p].held = held /\ proc'[p].plan = plan
        /\ proc'[p].row.first = IF done = 0 THEN b ELSE proc[p].row.first
        /\ Held(p)' = Held(p)
    BY <1>0, <1>1, <2>1, AdvancedIs
  <2>3. \A r \in Placers \ {p} : proc'[r] = proc[r]
    <3>1. PICK q \in ProcStates : Goes(p, q)  BY <1>0, <1>1, <2>1, AdvancedIs
    <3> QED  BY <3>1 DEF Goes
  <2>4. ~Idle(p) /\ alone' = alone /\ orderly' = orderly /\ inStep' = inStep
    BY <1>1, <2>1 DEF Idle, seen
  <2>5. ~inStep  BY <2>4 DEF Inv, Course, Settled
  <2>6. p \in alone => proc'[p].at \in Working /\ UpToDate(p)'
    BY <1>1, <2>1, <2>2, StaysUpToDate DEF Placing
  <2>7. b \in BlockIds
    <3>1. b \in BlockIds \cup {NoBlock}  BY <1>0 DEF TypeOK, ProcStates
    <3>2. b # NoBlock  BY <1>0, <1>1 DEF Equipped
    <3> QED  BY <3>1, <3>2
  <2>8. Unheard(p, b)  BY <1>0, <1>1, <2>7 DEF Books, Secret, Brings
  <2>9. b \notin Noted /\ b \notin Held(p) /\ proc[p].row.first # b  BY <2>8 DEF Unheard
  <2>10. /\ held \in Seq(BlockIds) /\ plan \in Seq(Slots)
         /\ done \in Nat /\ done < Len(plan) /\ Len(plan) \in Nat /\ Len(held) \in Nat
         /\ turn = done + 1 /\ Len(held) <= done /\ turn \in 1..MaxSize
         /\ DOMAIN held = 1..Len(held) /\ DOMAIN plan = 1..Len(plan)
    <3>1. proc[p].held \in Seq(BlockIds) /\ proc[p].plan \in Seq(Slots) /\ proc[p].done \in Nat
      BY <1>0 DEF TypeOK, ProcStates
    <3>2. proc[p].done < Len(proc[p].plan)  BY <1>0, <1>1 DEF Equipped
    <3>3. turn \in 1..MaxSize  BY <1>0, <3>2, PlanSlot
    <3> QED  BY <1>1, <3>1, <3>2, <3>3 DEF Moves, Turn
  <2>11. \A i \in DOMAIN held : Still(p, i)' /\ Still(p, i)
    BY <2>2, <2>10 DEF Still
  <2>12. s = plan[turn]  OBVIOUS
  <2> HIDE DEF b, s, held, plan, done, turn
  <2>13. chunk'[b] = [seq |-> turn, slot |-> s] /\ \A c \in BlockIds \ {b} : chunk'[c] = chunk[c]
    BY <1>0, <2>1, <2>7 DEF TypeOK
  <2>14. Noted' = Noted \cup {b} /\ Noted \subseteq BlockIds
    <3>1. turn # 0  BY <2>10
    <3> QED  BY <2>7, <2>13, <3>1 DEF Noted
  <2>15. \A i \in DOMAIN held : held[i] \in BlockIds /\ held[i] \in Held(p) /\ held[i] # b
    BY <2>9, <2>10 DEF Held, held
  <2>16. ASSUME lost' = {}, Undisturbed(p) PROVE Filed(p)'
    <3>1. Filed(p)  BY <1>1, <2>1, <2>16 DEF Inv, Course, InOrder, Placing
    <3>2. \A i, j \in DOMAIN held : i # j => held[i] # held[j]  BY <3>1 DEF Filed, held
    <3>3. ASSUME NEW i \in DOMAIN held, NEW j \in DOMAIN held, i < j
          PROVE  chunk'[held[i]].seq < chunk'[held[j]].seq
      <4>1. chunk[held[i]].seq < chunk[held[j]].seq  BY <2>11, <3>1, <3>3 DEF Filed, held
      <4> QED  BY <2>13, <2>15, <4>1
    <3>4. \A i \in DOMAIN held : held[i] \in Noted'
      BY <2>11, <2>14, <3>1 DEF Filed, held
    <3>5. ASSUME NEW i \in DOMAIN held, i <= Len(plan) PROVE chunk'[held[i]].slot = plan[i]
      <4>1. i <= done  BY <2>10
      <4>2. chunk[held[i]].slot = plan[i]  BY <3>1, <3>5, <4>1 DEF Filed, held, plan, done
      <4> QED  BY <2>13, <2>15, <4>2
    <3>6. ASSUME NEW c \in Noted' \ Held(p)
          PROVE  /\ Len(held) < chunk'[c].seq /\ chunk'[c].seq <= turn
                 /\ chunk'[c].seq <= Len(plan) /\ chunk'[c].slot = plan[chunk'[c].seq]
      <4>1. CASE c = b  BY <2>10, <2>12, <2>13, <4>1
      <4>2. CASE c # b
        <5>1. chunk'[c] = chunk[c] /\ c \in Noted  BY <2>13, <2>14, <4>2
        <5>2. /\ Len(held) < chunk[c].seq /\ chunk[c].seq <= done
              /\ chunk[c].seq <= Len(plan) /\ chunk[c].slot = plan[chunk[c].seq]
          BY <3>1, <5>1 DEF Filed, held, plan, done
        <5>3. chunk[c].seq \in Nat  BY <1>0, <2>14, <5>1 DEF TypeOK
        <5> QED  BY <2>10, <5>1, <5>2, <5>3
      <4> QED  BY <4>1, <4>2
    <3>7. ASSUME NEW i \in DOMAIN plan, Len(held) < i, i <= turn
          PROVE  \E c \in Noted' \ Held(p) : chunk'[c].seq = i
      <4>1. CASE i = turn  BY <2>9, <2>13, <2>14, <4>1
      <4>2. CASE i # turn
        <5>1. i <= done  BY <2>10, <3>7, <4>2
        <5>2. PICK c \in Noted \ Held(p) : chunk[c].seq = i
          BY <3>1, <3>7, <5>1 DEF Filed, held, plan, done
        <5>3. c # b  BY <2>9
        <5> QED  BY <2>13, <2>14, <5>2, <5>3
      <4> QED  BY <4>1, <4>2
    <3> QED
      BY <2>2, <2>11, <3>2, <3>3, <3>4, <3>5, <3>6, <3>7 DEF Filed, held, plan, turn
  <2>17. ASSUME orderly, lost' = {} PROVE Lined(p)'
    <3>1. Lined(p)  BY <1>1, <1>3, <2>1, <2>17 DEF Inv, Course, Tidy, Placing
    <3>2. InSequence(p)'
      <4>1. \A i \in DOMAIN held : chunk'[held[i]].seq = i
        BY <2>11, <2>13, <2>15, <3>1 DEF Lined, InSequence, held
      <4> QED  BY <2>2, <4>1 DEF InSequence
    <3>3. CASE done = 0
      <4>1. chunk'[b] = [seq |-> 1, slot |-> plan[1]]  BY <2>10, <2>12, <2>13, <3>3
      <4>2. proc'[p].row.first = b  BY <2>2, <3>3
      <4> QED  BY <2>2, <2>14, <3>2, <4>1, <4>2 DEF Lined, Summed, plan
    <3>4. CASE done # 0
      <4>1. plan # <<>> /\ done > 0  BY <2>10, <3>4
      <4>2. Summed(proc[p].row.first, plan[1])  BY <3>1, <4>1 DEF Lined, plan, done
      <4>3. chunk'[proc[p].row.first] = chunk[proc[p].row.first]
        BY <2>9, <2>13, <2>14, <4>2 DEF Summed
      <4>4. proc'[p].row.first = proc[p].row.first  BY <2>2, <3>4
      <4> QED  BY <2>2, <2>14, <3>2, <4>2, <4>3, <4>4 DEF Lined, Summed, plan
    <3> QED  BY <3>3, <3>4
  <2> QED
    BY <2>1, <2>2, <2>3, <2>4, <2>5, <2>6, <2>16, <2>17, CourseAfter DEF Placing
<1> QED  BY <1>2, <1>3

LEMMA DropRowCourse ==
    ASSUME TaskAssumption, Inv, NEW p \in Placers, DropRow(p)
    PROVE  Course'
<1> DEFINE b == proc[p].hand
           held == proc[p].held
           plan == proc[p].plan
           done == proc[p].done
           turn == Turn(p)
<1>0. TypeOK /\ Books /\ Equipped(p)  BY DEF Inv, Books, AtHand
<1>1. /\ UNCHANGED <<task, block, given, seen>>
      /\ \/ chunk' = [chunk EXCEPT ![b] = NoChunk] /\ UNCHANGED lost
         \/ lost' = lost \cup {b}
  BY DEF DropRow
<1>2. /\ proc[p].at = "dropped" /\ Moves(p) /\ b = Mine(p) /\ b \in BlockIds /\ b \in Held(p)
      /\ proc'[p].at \in {"drop", "save"} /\ proc'[p].done = turn
      /\ proc'[p].held = held /\ proc'[p].plan = plan /\ proc'[p].row = proc[p].row
      /\ Held(p)' = Held(p)
  BY <1>0, DropRowIs
<1>3. \A r \in Placers \ {p} : proc'[r] = proc[r]
  <2>1. PICK q \in ProcStates : Goes(p, q)  BY <1>0, DropRowIs
  <2> QED  BY <2>1 DEF Goes
<1>4. ~Idle(p) /\ alone' = alone /\ orderly' = orderly /\ inStep' = inStep /\ lost \subseteq lost'
  BY <1>1, <1>2 DEF Idle, seen
<1>5. ~inStep  BY <1>4 DEF Inv, Course, Settled
<1>6. p \in alone => proc'[p].at \in Working /\ UpToDate(p)'
  BY <1>1, <1>2, <1>4, StaysUpToDate DEF Placing
<1>7. /\ held \in Seq(BlockIds) /\ done \in Nat /\ Len(plan) <= done /\ Len(plan) \in Nat
      /\ Len(held) \in Nat /\ turn = done + 1 /\ turn \in DOMAIN held /\ b = held[turn]
      /\ DOMAIN held = 1..Len(held) /\ DOMAIN plan = 1..Len(plan)
  <2>1. /\ proc[p].held \in Seq(BlockIds) /\ proc[p].plan \in Seq(Slots) /\ proc[p].done \in Nat
        /\ Len(proc[p].plan) <= proc[p].done
    BY <1>0, <1>2 DEF TypeOK, ProcStates, Equipped
  <2>2. turn \in DOMAIN held  BY <1>0, <1>2, MineIs
  <2> QED  BY <1>2, <2>1, <2>2 DEF Turn, Mine
<1>8. \A i \in DOMAIN held : Still(p, i)' <=> (Still(p, i) /\ i # turn)
  BY <1>2, <1>7 DEF Still
<1>9. Still(p, turn)  BY <1>7 DEF Still
<1> HIDE DEF b, held, plan, done, turn
<1>10. ASSUME lost' = {}
       PROVE  /\ \A c \in BlockIds \ {b} : chunk'[c] = chunk[c]
              /\ Noted' = Noted \ {b} /\ lost = {}
  <2>1. chunk' = [chunk EXCEPT ![b] = NoChunk] /\ lost = {}  BY <1>1, <1>10
  <2>2. chunk'[b] = NoChunk /\ \A c \in BlockIds \ {b} : chunk'[c] = chunk[c]
    BY <1>0, <1>2, <2>1 DEF TypeOK
  <2>3. NoChunk.seq = 0  BY DEF NoChunk
  <2> QED  BY <1>2, <2>1, <2>2, <2>3 DEF Noted
<1>11. \A i \in DOMAIN held : held[i] \in BlockIds /\ held[i] \in Held(p)
  BY <1>7 DEF Held, held
<1>12. Noted \subseteq BlockIds  BY DEF Noted
<1>13. ASSUME lost' = {}, Undisturbed(p) PROVE Filed(p)'
  <2>1. Filed(p)  BY <1>2, <1>10, <1>13 DEF Inv, Course, InOrder, Placing
  <2>2. \A i, j \in DOMAIN held : i # j => held[i] # held[j]  BY <2>1 DEF Filed, held
  <2>3. \A i \in DOMAIN held : i # turn => held[i] # b  BY <1>7, <2>2
  <2>4. ASSUME NEW i \in DOMAIN held, NEW j \in DOMAIN held, i < j, Still(p, i)', Still(p, j)'
        PROVE  chunk'[held[i]].seq < chunk'[held[j]].seq
    <3>1. chunk[held[i]].seq < chunk[held[j]].seq  BY <1>8, <2>1, <2>4 DEF Filed, held
    <3>2. held[i] # b /\ held[j] # b  BY <1>8, <2>3, <2>4
    <3> QED  BY <1>10, <1>11, <1>13, <3>1, <3>2
  <2>5. ASSUME NEW i \in DOMAIN held PROVE held[i] \in Noted' <=> Still(p, i)'
    <3>1. held[i] \in Noted <=> Still(p, i)  BY <2>1 DEF Filed, held
    <3>2. i = turn <=> held[i] = b  BY <1>7, <2>3
    <3>3. Noted' = Noted \ {b}  BY <1>10, <1>13
    <3> QED  BY <1>8, <3>1, <3>2, <3>3
  <2>6. ASSUME NEW i \in DOMAIN held, i <= Len(plan), i <= turn PROVE chunk'[held[i]].slot = plan[i]
    <3>1. i # turn /\ i <= done  BY <1>7, <2>6
    <3>2. chunk[held[i]].slot = plan[i]  BY <2>1, <2>6, <3>1 DEF Filed, held, plan, done
    <3> QED  BY <1>10, <1>11, <1>13, <2>3, <3>1, <3>2
  <2>7. Noted' \ Held(p) = Noted \ Held(p) /\ \A c \in Noted \ Held(p) : chunk'[c] = chunk[c]
    BY <1>2, <1>10, <1>12, <1>13
  <2>8. ASSUME NEW c \in Noted \ Held(p)
        PROVE  /\ Len(held) < chunk[c].seq /\ chunk[c].seq <= turn
               /\ chunk[c].seq <= Len(plan) /\ chunk[c].slot = plan[chunk[c].seq]
    <3>1. /\ Len(held) < chunk[c].seq /\ chunk[c].seq <= done
          /\ chunk[c].seq <= Len(plan) /\ chunk[c].slot = plan[chunk[c].seq]
      BY <2>1 DEF Filed, held, plan, done
    <3>2. chunk[c].seq \in Nat  BY <1>0, <1>12 DEF TypeOK
    <3> QED  BY <1>7, <3>1, <3>2
  <2>9. ASSUME NEW i \in DOMAIN plan, Len(held) < i, i <= turn
        PROVE  \E c \in Noted \ Held(p) : chunk[c].seq = i
    <3>1. i <= done  BY <1>7
    <3> QED  BY <2>1, <2>9, <3>1 DEF Filed, held, plan, done
  <2> QED
    BY <1>2, <2>2, <2>4, <2>5, <2>6, <2>7, <2>8, <2>9 DEF Filed, held, plan, turn
<1>14. ASSUME orderly, lost' = {}, task.kept PROVE Lined(p)'
  <2>1. Lined(p)  BY <1>2, <1>10, <1>14 DEF Inv, Course, Tidy, Placing
  <2>2. Undisturbed(p)  BY <1>4, <1>14 DEF Undisturbed
  <2>3. Filed(p)  BY <1>2, <1>10, <1>14, <2>2 DEF Inv, Course, InOrder, Placing
  <2>4. InSequence(p)'
    <3>1. ASSUME NEW i \in DOMAIN held, Still(p, i)' PROVE chunk'[held[i]].seq = i
      <4>1. Still(p, i) /\ i # turn  BY <1>8, <3>1
      <4>2. held[i] # b  BY <1>7, <2>3, <4>1 DEF Filed, held
      <4>3. chunk[held[i]].seq = i  BY <2>1, <4>1 DEF Lined, InSequence, held
      <4> QED  BY <1>10, <1>11, <1>14, <4>2, <4>3
    <3> QED  BY <1>2, <3>1 DEF InSequence
  <2>5. ASSUME plan # <<>> PROVE Summed(proc[p].row.first, plan[1])'
    <3>1. Len(plan) >= 1
      <4>1. Len(plan) # 0
        <5>1. plan \in Seq(Slots)  BY <1>0 DEF TypeOK, ProcStates, plan
        <5> QED  BY <2>5, <5>1
      <4> QED  BY <1>7, <4>1
    <3>2. done > 0  BY <1>7, <3>1
    <3>3. Summed(proc[p].row.first, plan[1])  BY <2>1, <2>5, <3>2 DEF Lined, plan, done
    <3>4. chunk[b].seq = turn  BY <1>7, <1>9, <2>1 DEF Lined, InSequence, held, turn
    <3>5. proc[p].row.first # b
      <4>1. chunk[b].seq # 1  BY <1>7, <3>2, <3>4
      <4> QED  BY <3>3, <4>1 DEF Summed
    <3>6. chunk'[proc[p].row.first] = chunk[proc[p].row.first] /\ proc[p].row.first \in Noted'
      BY <1>10, <1>12, <1>14, <3>3, <3>5 DEF Summed
    <3> QED  BY <1>2, <3>3, <3>6 DEF Summed, plan
  <2> QED  BY <1>2, <2>4, <2>5 DEF Lined, plan
<1> QED  BY <1>1, <1>2, <1>3, <1>4, <1>5, <1>6, <1>13, <1>14, CourseAfter DEF Placing

(* Rows in line with the whole plan: one block for each slot of it.        *)
Fills(g, p) ==
    /\ g \in [1..Len(proc[p].plan) -> Noted]
    /\ \A b \in Noted : \E i \in 1..Len(proc[p].plan) : g[i] = b
    /\ \A i \in 1..Len(proc[p].plan) :
          /\ chunk[g[i]].slot = proc[p].plan[i]
          /\ i <= Len(proc[p].held) => g[i] = proc[p].held[i]
          /\ i > Len(proc[p].held) => chunk[g[i]].seq = i /\ g[i] \notin Held(p)

LEMMA FilledUp ==
    ASSUME TaskAssumption, TypeOK, Numbers, NEW p \in Placers, Filed(p),
           Len(proc[p].plan) <= proc[p].done, Len(proc[p].held) <= proc[p].done
    PROVE  Cardinality(Noted) = Len(proc[p].plan) /\ \E g : Fills(g, p)
<1> DEFINE held == proc[p].held
           plan == proc[p].plan
           done == proc[p].done
           n == Len(plan)
           New(i) == {b \in Noted \ Held(p) : chunk[b].seq = i}
           g == [i \in 1..n |-> IF i <= Len(held) THEN held[i] ELSE CHOOSE b \in New(i) : TRUE]
<1>1. /\ held \in Seq(BlockIds) /\ plan \in Seq(Slots) /\ done \in Nat /\ n \in Nat /\ Len(held) \in Nat
      /\ DOMAIN held = 1..Len(held) /\ DOMAIN plan = 1..n /\ n <= done /\ Len(held) <= done
  BY DEF TypeOK, ProcStates
<1>2. /\ \A i, j \in DOMAIN held : i # j => held[i] # held[j]
      /\ \A i \in DOMAIN held : held[i] \in Noted <=> Still(p, i)
      /\ \A i \in DOMAIN held : i <= n /\ i <= done => chunk[held[i]].slot = plan[i]
      /\ \A b \in Noted \ Held(p) :
            /\ Len(held) < chunk[b].seq /\ chunk[b].seq <= n /\ chunk[b].slot = plan[chunk[b].seq]
      /\ \A i \in DOMAIN plan : Len(held) < i /\ i <= done => \E b \in Noted \ Held(p) : chunk[b].seq = i
  BY DEF Filed
<1>3. \A i \in DOMAIN held : Still(p, i) <=> i <= n  BY <1>1 DEF Still
<1>4. Held(p) = {held[i] : i \in DOMAIN held}  BY DEF Held
<1>5. \A b \in Noted : chunk[b].seq \in Nat /\ b \in BlockIds  BY DEF TypeOK, Noted
<1> HIDE DEF held, plan, done, n
<1>6. ASSUME NEW i \in 1..n, ~(i <= Len(held)) PROVE g[i] \in New(i)
  <2>0. i \in DOMAIN plan /\ Len(held) < i /\ i <= done  BY <1>1, <1>6
  <2>1. \E b \in Noted \ Held(p) : chunk[b].seq = i  BY <1>2, <2>0
  <2>2. New(i) # {}  BY <2>1
  <2>3. g[i] = CHOOSE b \in New(i) : TRUE  BY <1>6
  <2> HIDE DEF g, New
  <2> QED  BY <2>2, <2>3
<1>7. ASSUME NEW i \in 1..n, i <= Len(held)
      PROVE  g[i] = held[i] /\ held[i] \in Noted /\ held[i] \in Held(p) /\ chunk[held[i]].slot = plan[i]
  <2>1. i \in DOMAIN held /\ i <= n /\ i <= done  BY <1>1, <1>7
  <2> QED  BY <1>2, <1>3, <1>4, <1>7, <2>1
<1>8. ASSUME NEW i \in 1..n, i > Len(held)
      PROVE  g[i] \in Noted \ Held(p) /\ chunk[g[i]].seq = i /\ chunk[g[i]].slot = plan[i]
  <2>1. ~(i <= Len(held))  BY <1>1, <1>8
  <2>2. g[i] \in New(i)  BY <1>6, <2>1
  <2>3. g[i] \in Noted \ Held(p) /\ chunk[g[i]].seq = i  BY <2>2
  <2> HIDE DEF g, New
  <2> QED  BY <1>2, <2>3
<1>9. DOMAIN g = 1..n  OBVIOUS
<1>10. \A i \in 1..n : i <= Len(held) \/ i > Len(held)  BY <1>1
<1>11. g \in [1..n -> Noted]
  <2>1. \A i \in 1..n : g[i] \in Noted  BY <1>7, <1>8, <1>10
  <2> HIDE DEF New
  <2> QED  BY <2>1
<1> HIDE DEF g, New
<1>12. ASSUME NEW b \in Noted PROVE \E i \in 1..n : g[i] = b
  <2>1. CASE b \in Held(p)
    <3>1. PICK i \in DOMAIN held : held[i] = b  BY <1>4, <2>1
    <3>2. i \in 1..n /\ i <= Len(held)  BY <1>1, <1>2, <1>3, <3>1
    <3> QED  BY <1>7, <3>1, <3>2
  <2>2. CASE b \notin Held(p)
    <3>1. chunk[b].seq \in 1..n /\ chunk[b].seq > Len(held)  BY <1>1, <1>2, <1>5, <2>2
    <3>2. g[chunk[b].seq] \in Noted /\ chunk[g[chunk[b].seq]].seq = chunk[b].seq  BY <1>8, <3>1
    <3>3. g[chunk[b].seq] = b  BY <3>2 DEF Numbers
    <3> QED  BY <3>1, <3>3
  <2> QED  BY <2>1, <2>2
<1>13. ASSUME NEW i \in 1..n, NEW j \in 1..n, g[i] = g[j] PROVE i = j
  <2>1. CASE i <= Len(held) /\ j <= Len(held)
    <3>1. held[i] = held[j]  BY <1>7, <1>13, <2>1
    <3>2. i \in DOMAIN held /\ j \in DOMAIN held  BY <1>1, <2>1
    <3> QED  BY <1>2, <3>1, <3>2
  <2>2. CASE i > Len(held) /\ j > Len(held)  BY <1>8, <1>13, <2>2
  <2>3. CASE i <= Len(held) /\ j > Len(held)  BY <1>7, <1>8, <1>13, <2>3
  <2>4. CASE i > Len(held) /\ j <= Len(held)  BY <1>7, <1>8, <1>13, <2>4
  <2> QED  BY <1>10, <2>1, <2>2, <2>3, <2>4
<1>14. Cardinality(Noted) = n
  <2>1. IsFiniteSet(1..n) /\ Cardinality(1..n) = n  BY <1>1, FS_Interval
  <2>2. g \in Bijection(1..n, Noted)
    BY <1>11, <1>12, <1>13 DEF Bijection, Injection, IsInjective, Surjection
  <2>3. ExistsBijection(1..n, Noted)  BY <2>2 DEF ExistsBijection
  <2> QED  BY <2>1, <2>3, FS_Bijection
<1>15. Fills(g, p)
  BY <1>7, <1>8, <1>11, <1>12 DEF Fills, held, plan, n
<1> QED  BY <1>14, <1>15 DEF n, plan

(* And the rows are in the order of the plan if the numbers have no gap.   *)
LEMMA FilledInOrder ==
    ASSUME TaskAssumption, TypeOK, Numbers, NEW p \in Placers, Filed(p), NEW g, Fills(g, p),
           Equipped(p), Cardinality(Noted) = Len(proc[p].plan), Len(proc[p].plan) <= proc[p].done,
           {chunk[b].seq : b \in Noted} = 1..Cardinality(Noted)
    PROVE  \A a, b \in Noted : chunk[a].seq < chunk[b].seq => chunk[a].slot < chunk[b].slot
<1> DEFINE held == proc[p].held
           plan == proc[p].plan
           n == Len(plan)
<1>1. /\ held \in Seq(BlockIds) /\ plan \in Seq(Slots) /\ n \in Nat /\ Len(held) \in Nat
      /\ DOMAIN held = 1..Len(held) /\ DOMAIN plan = 1..n
  BY DEF TypeOK, ProcStates
<1>2. /\ g \in [1..n -> Noted]
      /\ \A b \in Noted : \E i \in 1..n : g[i] = b
      /\ \A i \in 1..n :
            /\ chunk[g[i]].slot = plan[i]
            /\ i <= Len(held) => g[i] = held[i]
            /\ i > Len(held) => chunk[g[i]].seq = i /\ g[i] \notin Held(p)
  BY DEF Fills
<1>3. /\ \A i, j \in DOMAIN held : i < j /\ Still(p, i) /\ Still(p, j) =>
            chunk[held[i]].seq < chunk[held[j]].seq
      /\ \A i \in DOMAIN held : held[i] \in Held(p)
      /\ \A i \in 1..n : Still(p, i)
      /\ \A i, j \in DOMAIN plan : i < j => plan[i] < plan[j]
  BY DEF Filed, Held, Still, Equipped
<1>4. \A b \in Noted : chunk[b].seq \in 1..n  OBVIOUS
<1> HIDE DEF held, plan, n
<1>5. ASSUME NEW i \in 1..n, i <= Len(held) PROVE chunk[g[i]].seq <= Len(held)
  <2> DEFINE k == chunk[g[i]].seq
  <2>1. g[i] \in Noted /\ k \in 1..n  BY <1>2, <1>4
  <2> HIDE DEF k
  <2> SUFFICES ASSUME k > Len(held) PROVE FALSE  BY <1>1, <2>1 DEF k
  <2>2. g[k] \in Noted /\ chunk[g[k]].seq = k /\ g[k] \notin Held(p)  BY <1>2, <2>1
  <2>3. g[k] = g[i]  BY <2>1, <2>2 DEF Numbers, k
  <2>4. g[i] \in Held(p)  BY <1>1, <1>2, <1>3, <1>5
  <2> QED  BY <2>2, <2>3, <2>4
<1>6. ASSUME NEW i \in 1..n, NEW j \in 1..n, i < j PROVE chunk[g[i]].seq < chunk[g[j]].seq
  <2>1. CASE j <= Len(held)
    <3>1. i \in DOMAIN held /\ j \in DOMAIN held /\ i <= Len(held)  BY <1>1, <1>6, <2>1
    <3>2. g[i] = held[i] /\ g[j] = held[j]  BY <1>2, <2>1, <3>1
    <3> QED  BY <1>3, <1>6, <3>1, <3>2
  <2>2. CASE i > Len(held)
    <3>1. j > Len(held)  BY <1>1, <1>6, <2>2
    <3> QED  BY <1>2, <1>6, <2>2, <3>1
  <2>3. CASE i <= Len(held) /\ j > Len(held)
    <3>1. chunk[g[i]].seq <= Len(held) /\ chunk[g[j]].seq = j  BY <1>2, <1>5, <2>3
    <3>2. chunk[g[i]].seq \in 1..n  BY <1>2, <1>4
    <3> QED  BY <1>1, <2>3, <3>1, <3>2
  <2> QED  BY <1>1, <2>1, <2>2, <2>3
<1>7. ASSUME NEW a \in Noted, NEW b \in Noted, chunk[a].seq < chunk[b].seq
      PROVE  chunk[a].slot < chunk[b].slot
  <2>1. PICK i \in 1..n : g[i] = a  BY <1>2
  <2>2. PICK j \in 1..n : g[j] = b  BY <1>2
  <2>3. chunk[a].seq \in 1..n /\ chunk[b].seq \in 1..n  BY <1>4
  <2>4. ~(j < i) /\ i # j  BY <1>6, <1>7, <2>1, <2>2, <2>3
  <2>5. i < j  BY <1>1, <2>4
  <2>6. i \in DOMAIN plan /\ j \in DOMAIN plan  BY <1>1
  <2>7. plan[i] < plan[j]  BY <1>3, <2>5, <2>6
  <2>8. chunk[a].slot = plan[i] /\ chunk[b].slot = plan[j]  BY <1>2, <2>1, <2>2
  <2> QED  BY <2>7, <2>8
<1> QED  BY <1>7

(* The row is saved: as a whole, or without a block.                       *)
LEMMA SaveRowCourse ==
    ASSUME TaskAssumption, Inv, NEW p \in Placers, SaveRow(p)
    PROVE  Course'
<1> DEFINE held == proc[p].held
           plan == proc[p].plan
           done == proc[p].done
           n == Len(plan)
<1>0. TypeOK /\ Books /\ Numbers /\ OneAtWork /\ Equipped(p)  BY DEF Inv, Books, Course, AtHand
<1>1. /\ proc[p].at = "save" /\ UNCHANGED <<chunk, block, given, lost, orderly, upsets>>
      /\ inStep' = (p \in alone) /\ alone' = alone \ {p}
  BY DEF SaveRow
<1>2. task.kept =>
         /\ plan # <<>> => task' = [task EXCEPT !.status = "scheduled", !.first = proc[p].row.first,
                                                !.ends = plan[1], !.note = FALSE]
         /\ plan = <<>> => task' = [task EXCEPT !.status = "pending", !.first = NoBlock,
                                                !.ends = 0, !.note = TRUE]
  BY DEF SaveRow
<1>3. ~task.kept => task' = task  BY DEF SaveRow
<1>4. task \in Rows /\ task.size \in 1..MaxSize  BY <1>0 DEF TypeOK, Rows
<1>5. proc'[p].at = "idle" /\ \A r \in Placers \ {p} : proc'[r] = proc[r]
  <2>1. Goes(p, NoProc)  BY <1>0, SaveRowBooks
  <2> QED  BY <2>1, AtRest DEF Goes
<1>6. ~Idle(p)  BY <1>1 DEF Idle
<1>7. /\ held \in Seq(BlockIds) /\ plan \in Seq(Slots) /\ done \in Nat /\ n \in Nat /\ Len(held) \in Nat
      /\ DOMAIN held = 1..Len(held) /\ DOMAIN plan = 1..n /\ n <= done /\ Len(held) <= done
      /\ (plan = <<>> <=> n = 0)
  <2>1. proc[p].held \in Seq(BlockIds) /\ proc[p].plan \in Seq(Slots) /\ proc[p].done \in Nat
    BY <1>0 DEF TypeOK, ProcStates
  <2>2. Len(proc[p].plan) <= proc[p].done /\ Len(proc[p].held) <= proc[p].done
    BY <1>0, <1>1 DEF Equipped
  <2> QED  BY <2>1, <2>2
<1>8. ASSUME lost = {}, Undisturbed(p)
      PROVE  Filed(p) /\ Cardinality(Noted) = n /\ \E g : Fills(g, p)
  <2>1. Filed(p)  BY <1>1, <1>8 DEF Inv, Course, InOrder, Placing
  <2> QED  BY <1>0, <1>7, <1>8, <2>1, FilledUp
<1>9. n = 0 => (Cardinality(Noted) = n => Noted = {})  BY <1>0, NotedFinite, FS_EmptySet
<1>10. Noted' = Noted /\ Live' = Live  BY <1>1, SameBlocks
<1> HIDE DEF held, plan, done, n
<1>11. ASSUME orderly, lost = {}, task'.kept PROVE Plain'
  <2>1. task.kept  BY <1>3, <1>11
  <2>2. Lined(p)  BY <1>1, <1>11, <2>1 DEF Inv, Course, Tidy, Placing
  <2>3. Filed(p) /\ Cardinality(Noted) = n  BY <1>6, <1>8, <1>11 DEF Undisturbed
  <2>4. PICK g : Fills(g, p)  BY <1>6, <1>8, <1>11 DEF Undisturbed
  <2>5. CASE plan = <<>>
    <3>1. Noted = {} /\ Cardinality(Noted) = 0  BY <1>7, <1>9, <2>3, <2>5
    <3>2. task'.first = NoBlock  BY <1>2, <1>4, <2>1, <2>5 DEF Rows
    <3>3. {chunk[b].seq : b \in Noted} = 1..Cardinality(Noted)  BY <3>1
    <3> QED  BY <1>1, <1>10, <3>1, <3>2, <3>3 DEF Plain
  <2>6. CASE plan # <<>>
    <3>1. n >= 1 /\ done > 0  BY <1>7, <2>6
    <3>2. /\ g \in [1..n -> Noted] /\ \A b \in Noted : \E i \in 1..n : g[i] = b
          /\ \A i \in 1..n : /\ i <= Len(held) => g[i] = held[i]
                             /\ i > Len(held) => chunk[g[i]].seq = i
      BY <2>4 DEF Fills, held, plan, n
    <3>3. ASSUME NEW i \in 1..n PROVE chunk[g[i]].seq = i
      <4>1. CASE i <= Len(held)
        <5>1. i \in DOMAIN held /\ Still(p, i)  BY <1>7, <4>1 DEF Still, plan, n
        <5> QED  BY <2>2, <3>2, <4>1, <5>1 DEF Lined, InSequence, held
      <4>2. CASE i > Len(held)  BY <3>2, <4>2
      <4> QED  BY <1>7, <4>1, <4>2
    <3>4. {chunk[b].seq : b \in Noted} = 1..n
      <4>1. \A b \in Noted : chunk[b].seq \in 1..n  BY <3>2, <3>3
      <4>2. \A i \in 1..n : \E b \in Noted : chunk[b].seq = i  BY <3>2, <3>3
      <4> QED  BY <4>1, <4>2
    <3>5. Summed(proc[p].row.first, plan[1])  BY <2>2, <2>6, <3>1 DEF Lined, plan, done
    <3>6. task'.first = proc[p].row.first /\ task'.ends = plan[1]
      BY <1>2, <1>4, <2>1, <2>6 DEF Rows
    <3> QED  BY <1>1, <1>10, <2>3, <3>4, <3>5, <3>6 DEF Plain, Summed
  <2> QED  BY <2>5, <2>6
<1>12. ASSUME p \in alone PROVE AllOrNothing'
  <2> SUFFICES ASSUME Sound', lost' = {} PROVE Whole' \/ None'  BY OutcomeIs
  <2>1. lost = {} /\ {chunk[b].seq : b \in Noted} = 1..Cardinality(Noted)
    BY <1>1, <1>10 DEF Sound
  <2>2. UpToDate(p)  BY <1>1, <1>12 DEF Inv, Course, OnCourse
  <2>3. task.kept  BY <2>2 DEF UpToDate
  <2>4. Filed(p) /\ Cardinality(Noted) = n  BY <1>8, <1>12, <2>1 DEF Undisturbed
  <2>5. PICK g : Fills(g, p)  BY <1>8, <1>12, <2>1 DEF Undisturbed
  <2>6. CASE plan = <<>>
    <3>1. Noted = {}  BY <1>7, <1>9, <2>4, <2>6
    <3>2. Cardinality(Room) < task.size  BY <1>1, <2>1, <2>2, <2>6 DEF UpToDate, Placing, plan
    <3>3. Cardinality(Open) <= Cardinality(Room) /\ Cardinality(Open) \in Nat /\ Cardinality(Room) \in Nat
      <4>1. Open \subseteq Room  BY <3>1 DEF Open, Room, Taken, SlotsOf
      <4>2. Room \subseteq Slots  BY <1>0 DEF Room, TypeOK
      <4>3. IsFiniteSet(Slots)  BY FS_Interval, TaskAssumption DEF Slots, TaskAssumption
      <4>4. IsFiniteSet(Room)  BY <4>2, <4>3, FS_Subset
      <4>5. IsFiniteSet(Open) /\ Cardinality(Open) <= Cardinality(Room)  BY <4>1, <4>4, FS_Subset
      <4> QED  BY <4>4, <4>5, FS_CardinalityType
    <3>4. Open' = Open  BY <1>1, <1>10 DEF Open, Taken, SlotsOf, given
    <3>5. task' = [task EXCEPT !.status = "pending", !.first = NoBlock, !.ends = 0, !.note = TRUE]
      BY <1>2, <2>3, <2>6
    <3>6. task'.status = "pending" /\ task'.note /\ task'.size = task.size  BY <1>4, <3>5 DEF Rows
    <3>7. Cardinality(Open) < task.size  BY <1>4, <3>2, <3>3
    <3> QED  BY <1>10, <3>1, <3>4, <3>6, <3>7 DEF None
  <2>7. CASE plan # <<>>
    <3>1. /\ n = task.size /\ \A i \in 1..n : plan[i] \in hours
      BY <1>1, <1>7, <2>2, <2>7 DEF UpToDate, Placing, plan, n
    <3>2. task' = [task EXCEPT !.status = "scheduled", !.first = proc[p].row.first,
                               !.ends = plan[1], !.note = FALSE]
      BY <1>2, <2>3, <2>7
    <3>3. /\ task'.status = "scheduled" /\ ~task'.note /\ task'.size = task.size
          /\ task'.first = proc[p].row.first /\ task'.ends = plan[1]
      BY <1>4, <3>2 DEF Rows
    <3>4. {chunk[b].seq : b \in Noted} = 1..task.size  BY <2>1, <2>4, <3>1
    <3>5. ASSUME NEW b \in Noted PROVE block[b].slot = chunk[b].slot /\ chunk[b].slot \in hours
      <4>1. \A q \in Placers \ {p} : Idle(q)  BY <1>0, <1>6, <1>12, OnlyOne
      <4>2. \A q \in Placers : proc[q].at \notin {"noting", "dropped", "erased"}
        BY <1>1, <4>1 DEF Idle
      <4>3. block[b].slot = chunk[b].slot  BY <1>0, <2>1, <4>2, RowsTrue
      <4>4. PICK i \in 1..n : g[i] = b /\ chunk[g[i]].slot = plan[i]
        BY <2>5 DEF Fills, n, plan
      <4> QED  BY <3>1, <4>3, <4>4
    <3>6. \A a, b \in Noted : chunk[a].seq < chunk[b].seq => chunk[a].slot < chunk[b].slot
      BY <1>0, <1>7, <2>1, <2>4, <2>5, FilledInOrder DEF n, plan, done
    <3>7. ASSUME orderly PROVE Summed(proc[p].row.first, plan[1])
      <4>1. Lined(p)  BY <1>1, <2>1, <2>3, <3>7 DEF Inv, Course, Tidy, Placing
      <4>2. done > 0  BY <1>7, <2>7
      <4> QED  BY <2>7, <4>1, <4>2 DEF Lined, plan, done
    <3>8. hours' = hours /\ chunk' = chunk /\ block' = block /\ orderly' = orderly
      BY <1>1 DEF given
    <3> QED  BY <1>10, <3>3, <3>4, <3>5, <3>6, <3>7, <3>8 DEF Whole, Summed
  <2> QED  BY <2>6, <2>7
<1> QED  BY <1>1, <1>5, <1>6, <1>11, <1>12, CourseAfter DEF Placing

(* A deletion.                                                             *)
LEMMA EraseCourse ==
    ASSUME TaskAssumption, Inv, NEW p \in Placers, Erase(p)
    PROVE  Course'
<1>0. TypeOK /\ OneAtWork /\ proc[p] \in ProcStates  BY DEF Inv, Books, Course, TypeOK
<1>1. /\ proc[p].at = "erase" /\ proc' = [proc EXCEPT ![p].at = "erased"]
      /\ UNCHANGED <<task, chunk, given, seen>>
  BY DEF Erase
<1>2. lost \subseteq lost'  BY <1>0, EraseIs
<1>3. proc'[p].at = "erased" /\ \A r \in Placers \ {p} : proc'[r] = proc[r]
  BY <1>0, <1>1 DEF TypeOK, ProcStates
<1>4. ~Idle(p) /\ p \notin alone  BY <1>0, <1>1 DEF Idle, OneAtWork, Working
<1> QED  BY <1>1, <1>2, <1>3, <1>4, BesideCourse DEF Placing

LEMMA EraseRowCourse ==
    ASSUME TaskAssumption, Inv, NEW p \in Placers, EraseRow(p)
    PROVE  Course'
<1>0. TypeOK /\ OneAtWork  BY DEF Inv, Books, Course
<1>1. /\ proc[p].at = "erased" /\ UNCHANGED seen /\ task' = [task EXCEPT !.kept = FALSE]
      /\ lost \subseteq lost'
  BY DEF EraseRow
<1>2. proc'[p].at = "idle" /\ \A r \in Placers \ {p} : proc'[r] = proc[r]
  <2>1. Goes(p, NoProc)  BY EraseRowBooks DEF Inv
  <2> QED  BY <2>1, AtRest DEF Goes
<1>3. ~Idle(p) /\ p \notin alone  BY <1>0, <1>1 DEF Idle, OneAtWork, Working
<1>4. ~inStep  BY <1>3 DEF Inv, Course, Settled
<1>5. ~task'.kept  BY <1>0, <1>1 DEF TypeOK, Rows
<1> QED  BY <1>1, <1>2, <1>3, <1>4, <1>5, CourseAfter DEF Placing, seen

LEMMA InitCourse ==
    ASSUME TaskAssumption, Init
    PROVE  Course
<1>1. /\ \A p \in Placers : proc[p].at = "idle"
      /\ alone = {} /\ inStep = FALSE
  BY AtRest DEF Init
<1>2. Noted = {}
  <2>1. NoChunk.seq = 0  BY DEF NoChunk
  <2> QED  BY <2>1 DEF Init, Noted
<1>3. Plain
  <2>1. task.first = NoBlock  BY DEF Init, NewTask
  <2>2. {chunk[b].seq : b \in Noted} = 1..Cardinality(Noted)  BY <1>2, FS_EmptySet
  <2> QED  BY <1>2, <2>1, <2>2 DEF Plain
<1>4. OneAtWork /\ OnCourse /\ Settled  BY <1>1 DEF OneAtWork, OnCourse, Settled, Idle
<1>5. InOrder /\ Tidy  BY <1>1, <1>3 DEF InOrder, Tidy, Placing
<1> QED  BY <1>4, <1>5 DEF Course

LEMMA NextCourse ==
    ASSUME TaskAssumption, Inv, Next
    PROVE  Course'
<1>1. Ticker \in Placers /\ Handlers \subseteq Placers  BY DEF Placers
<1>2. CASE Meet \/ EditHours \/ Pass \/ Complete  BY <1>2, WorldCourse
<1>3. CASE Maintain  BY <1>1, <1>3, StartCourse
<1>4. ASSUME NEW h \in Handlers, SaveTask(h) \/ PlaceNow(h) \/ DeleteTask(h) PROVE Course'
  BY <1>1, <1>4, StartCourse
<1>5. ASSUME NEW p \in Placers, Step(p) PROVE Course'
  <2>1. CASE Fails(p)  BY <2>1, CutOffCourse DEF Fails
  <2> QED
    BY <1>5, <2>1, ReadCourse, LookCourse, ListCourse, EventCourse, NoteMovedCourse, NoteNewCourse,
       DropRowCourse, SaveRowCourse, EraseCourse, EraseRowCourse DEF Step
<1>6. ASSUME NEW gone, Stop(gone) PROVE Course'  BY <1>6, CutOffCourse DEF Stop
<1> QED  BY <1>2, <1>3, <1>4, <1>5, <1>6 DEF Next

LEMMA SameCourse ==
    ASSUME Inv, UNCHANGED vars
    PROVE  Course'
<1>1. UNCHANGED <<task, chunk, block, busy, hours, now, proc, asks, lost, alone, inStep, orderly>>
  BY DEF vars, given, seen
<1>2. Noted' = Noted /\ Live' = Live /\ Room' = Room /\ Open' = Open /\ Taken' = Taken
  BY <1>1 DEF Noted, Live, Room, Open, Taken, SlotsOf
<1>3. OneAtWork' /\ OnCourse'
  BY <1>1, <1>2 DEF Inv, Course, OneAtWork, OnCourse, UpToDate, Idle
<1>4. \A p \in Placers : (Filed(p)' <=> Filed(p)) /\ (Lined(p)' <=> Lined(p))  BY <1>1, SameFiled
<1>5. InOrder' /\ Tidy'
  BY <1>1, <1>2, <1>4 DEF Inv, Course, InOrder, Undisturbed, Tidy, Idle, Plain, Summed
<1>6. Settled'
  BY <1>1, <1>2 DEF Inv, Course, Settled, AllOrNothing, Sound, There, ByHand, Idle
<1> QED  BY <1>3, <1>5, <1>6 DEF Course
-------------------------------------------------------------------------------
LEMMA InitInv ==
    ASSUME TaskAssumption, Init
    PROVE  Inv
  BY InitBooks, InitCourse DEF Inv

LEMMA NextInv ==
    ASSUME TaskAssumption, Inv, [Next]_vars
    PROVE  Inv'
  BY NextBooks, SameBooks, NextCourse, SameCourse DEF Inv

LEMMA InvHolds == Spec => []Inv
<1>1. Init => Inv  BY TaskAssumption, InitInv
<1>2. Inv /\ [Next]_vars => Inv'  BY TaskAssumption, NextInv
<1> QED  BY <1>1, <1>2, PTL DEF Spec

(* Each variable keeps its type.                                           *)
THEOREM TypeCorrect == Spec => []TypeOK
<1>1. Inv => TypeOK  BY DEF Inv, Books
<1> QED  BY <1>1, InvHolds, PTL

(* No order of placements, deletions, failures and crashes loses a block   *)
(* of the task but those the history records: a block on a calendar has    *)
(* its row and a row its block, or a goroutine has the block in hand.      *)
THEOREM BlocksAreKnown == Spec => []EveryBlockKnown
<1>1. Inv => EveryBlockKnown
  <2> SUFFICES ASSUME Inv, NEW b \in BlockIds \ lost, ~(b \in Live <=> b \in Noted)
               PROVE  \E p \in Placers : b \in InHand(proc[p])
    BY DEF EveryBlockKnown
  <2>1. b # NoBlock  BY TaskAssumption DEF TaskAssumption
  <2>2. PICK p \in Placers : Brings(p, b) \/ Removes(p, b)  BY DEF Inv, Books, Accounted
  <2>3. b \in InHand(proc[p])  BY <2>1, <2>2 DEF Brings, Removes, InHand, Held
  <2> QED  BY <2>3
<1> QED  BY <1>1, InvHolds, PTL

(* A placement that nothing disturbed leaves a scheduled task with all its *)
(* blocks, each at Google where its row says, in order and within working  *)
(* hours; or a pending one without any, for which there is no room.        *)
THEOREM PlacedAllOrNothing == Spec => []AllOrNothing
<1>1. Inv => AllOrNothing  BY DEF Inv, Course, Settled, AllOrNothing
<1> QED  BY <1>1, InvHolds, PTL

(* A task that was completed or cancelled becomes active again only by     *)
(* what the user does, or by a placement something disturbed.              *)
THEOREM EndedTasksStay == Spec => EndedStays
<1>1. Inv /\ [Next]_vars =>
         [task.status \in Ended /\ task'.status \notin Ended =>
             asks' # asks \/ \E p \in Placers : proc[p].at = "save" /\ p \notin alone]_vars
  <2> SUFFICES ASSUME Inv, Next, task.status \in Ended, task'.status \notin Ended, asks' = asks,
                      \A p \in Placers : proc[p].at = "save" => p \in alone
               PROVE  FALSE
    OBVIOUS
  <2>1. asks \in Nat /\ task \in Rows  BY TaskAssumption DEF Inv, Books, TypeOK, TaskAssumption
  <2>2. ~Ask  BY <2>1 DEF Ask
  <2>3. task'.status # task.status  OBVIOUS
  <2>4. PICK p \in Placers : SaveRow(p) \/ EraseRow(p)
    BY <2>2, <2>3 DEF Next, Meet, EditHours, Pass, Complete, Maintain, SaveTask, PlaceNow, DeleteTask,
       Step, Read, Look, List, MoveEvent, InsertEvent, NoteMoved, NoteNew, DropEvent, DropRow, Fails,
       Erase, Stop
  <2>5. CASE SaveRow(p)
    <3>1. p \in alone /\ proc[p].at = "save"  BY <2>5 DEF SaveRow
    <3> QED  BY <3>1 DEF Inv, Course, OnCourse, UpToDate
  <2>6. CASE EraseRow(p)  BY <2>1, <2>3, <2>6 DEF EraseRow, Rows
  <2> QED  BY <2>4, <2>5, <2>6
<1> QED  BY <1>1, InvHolds, PTL DEF Spec, EndedStays
===============================================================================
