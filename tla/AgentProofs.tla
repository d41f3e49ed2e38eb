----------------------------- MODULE AgentProofs -----------------------------
(***************************************************************************)
(* Proofs about module Agent, for every set of requests and all bounds.    *)
(*                                                                         *)
(* AppliedOnce alone is not inductive.  Inv adds what makes it so: a card  *)
(* exists only for a tool that writes, a tool use waiting to be staged has *)
(* no past (Staged), and of a card on which no clicks overlapped at most   *)
(* one request is at work, whose place says whether the tool has run       *)
(* (Course).                                                               *)
(*                                                                         *)
(* The conversation itself takes TurnInv: in a calm one a single request   *)
(* has the turn, and its place says what the transcript still owes         *)
(* (Conversation); the cards of a turn being written are open (Offered);   *)
(* and one that waits has a card, or somebody who closed it (Unstuck).     *)
(*                                                                         *)
(* That Agent implements Consent comes last: most steps leave the cards    *)
(* and the clicks as they are, staging a card offers it (Staged), and a    *)
(* click is one on an open card (Cards, Gone).                             *)
(***************************************************************************)
EXTENDS Agent, SequenceTheorems, TLAPS

AtWork(q, u) == request[q].at \in {"execute", "resolve"} /\ request[q].use = u

(* Only the writers of pending actions have something left.                *)
LeftOnlyToWrite ==
    \A r \in Requests : request[r].at \notin {"stage", "ride"} => request[r].left = {}

(* What is said of a tool use is said of one the model has asked for.      *)
Asked ==
    /\ \A u \in Uses : u > Len(tools) =>
          pending[u] = "none" /\ executed[u] = 0 /\ u \notin applied
    /\ \A r \in Requests : \A u \in request[r].uses : u <= Len(tools)

(* Cards, and the requests they start, are about tools that write.         *)
Cards ==
    /\ \A u \in Uses : pending[u] = "pending" => tools[u] = "write"
    /\ \A r \in Requests, u \in Uses : AtWork(r, u) =>
          /\ u <= Len(tools) /\ tools[u] = "write"
          /\ request[r].verdict \in {"applied", "rejected"}
          /\ request[r].at = "execute" => request[r].verdict = "applied"
          /\ request[r].verdict = "applied" => u \in applied
    /\ \A u \in Uses : executed[u] > 0 => u \in applied /\ tools[u] = "write"

(* A tool use that is yet to be staged has no past and one owner; what     *)
(* rides along was read.                                                   *)
Staged ==
    \A r \in Requests : \A u \in request[r].left :
        /\ request[r].at = "stage" =>
              /\ tools[u] = "write" /\ pending[u] = "none" /\ executed[u] = 0
              /\ u \notin applied
              /\ \A q \in Requests : ~AtWork(q, u)
              /\ \A q \in Requests \ {r} : request[q].at = "stage" => u \notin request[q].left
        /\ request[r].at = "ride" => tools[u] = "read"

(* The course of a card on which no clicks overlapped.                     *)
Single(u) ==
    /\ \A q, r \in Requests : AtWork(q, u) /\ AtWork(r, u) => q = r
    /\ \A q \in Requests : AtWork(q, u) =>
          /\ pending[u] \in {"pending", "none"}
          /\ request[q].at = "execute" \/ request[q].verdict = "rejected" => executed[u] = 0
    /\ executed[u] \in {0, 1}
    /\ executed[u] = 1 =>
          \/ pending[u] \in {"applied", "none"}
          \/ \E q \in Requests : AtWork(q, u) /\ request[q].at = "resolve"
                                              /\ request[q].verdict = "applied"
    /\ pending[u] = "rejected" => executed[u] = 0

Course == \A u \in Uses : u \notin doubled /\ "executed" \notin cut => Single(u)

(* A deleted conversation has no cards.                                    *)
Gone == conv = "deleted" => \A u \in Uses : pending[u] = "none"

Inv == TypeOK /\ LeftOnlyToWrite /\ Asked /\ Cards /\ Staged /\ Course /\ Gone
-------------------------------------------------------------------------------
(* The state of one request changes.                                       *)
LEMMA Moved ==
    ASSUME TypeOK, LeftOnlyToWrite, NEW r \in Requests, NEW x \in RequestStates,
           request' = [request EXCEPT ![r] = x], x.left \subseteq x.uses,
           x.at \in {"stage", "ride"} \/ x.left = {}
    PROVE  /\ request' \in [Requests -> RequestStates]
           /\ \A q \in Requests : request'[q].left \subseteq request'[q].uses
           /\ LeftOnlyToWrite'
           /\ request'[r] = x
           /\ \A q \in Requests \ {r} : request'[q] = request[q]
<1>1. request \in [Requests -> RequestStates]  BY DEF TypeOK
<1>2. request' \in [Requests -> RequestStates]  BY <1>1
<1>3. request'[r] = x /\ \A q \in Requests \ {r} : request'[q] = request[q]  BY <1>1
<1>4. \A q \in Requests : request'[q].left \subseteq request'[q].uses  BY <1>3 DEF TypeOK
<1>5. LeftOnlyToWrite'  BY <1>3 DEF LeftOnlyToWrite
<1> QED  BY <1>2, <1>3, <1>4, <1>5

LEMMA FreeType == Free \in RequestStates
  BY AgentAssumption DEF Free, RequestStates, Turn, Resolving

LEMMA SetStateType ==
    ASSUME TypeOK, NEW s \in {"idle", "thinking", "awaiting"}, SetState(s)
    PROVE  /\ conv' \in {"idle", "thinking", "awaiting", "deleted"}
           /\ cut' \subseteq Phases /\ cut \subseteq cut'
           /\ losses' \in 0..MaxLosses
<1>1. MaxLosses \in Nat  BY AgentAssumption
<1>2. /\ conv \in {"idle", "thinking", "awaiting", "deleted"}
      /\ cut \subseteq Phases /\ losses \in 0..MaxLosses
  BY DEF TypeOK
<1>3. "state" \in Phases  BY DEF Phases
<1> QED  BY <1>1, <1>2, <1>3 DEF SetState

LEMMA InsertType ==
    ASSUME TypeOK, NEW role \in {"user", "assistant"}, NEW uses \in SUBSET Uses, Insert(role, uses)
    PROVE  messages' \in Seq(Messages)
<1>1. [role |-> role, uses |-> uses] \in Messages  BY DEF Messages
<1> QED  BY <1>1 DEF Insert, TypeOK

LEMMA GotoIs ==
    ASSUME TypeOK, NEW r \in Requests, NEW step \in Turn \cup Resolving \cup {"free"}, Goto(r, step)
    PROVE  LET x == [request[r] EXCEPT !.at = step]
           IN x \in RequestStates /\ request' = [request EXCEPT ![r] = x]
<1>1. request[r] \in RequestStates  BY DEF TypeOK
<1> QED  BY <1>1 DEF Goto, RequestStates, TypeOK

(* The requests' part of the type invariant.                               *)
Typed ==
    /\ request \in [Requests -> RequestStates]
    /\ \A r \in Requests : request[r].left \subseteq request[r].uses
    /\ LeftOnlyToWrite

LEMMA FreeMoved ==
    ASSUME TypeOK, LeftOnlyToWrite, NEW r \in Requests, Finish(r)
    PROVE  Typed'
  BY FreeType, Moved DEF Finish, Typed, Free

LEMMA GotoMoved ==
    ASSUME TypeOK, LeftOnlyToWrite, NEW r \in Requests,
           NEW step \in Turn \cup Resolving \cup {"free"}, Goto(r, step),
           request[r].left = {}
    PROVE  Typed'
<1> DEFINE x == [request[r] EXCEPT !.at = step]
<1>1. x \in RequestStates /\ request' = [request EXCEPT ![r] = x]  BY GotoIs
<1>2. x.left = {}  BY DEF TypeOK, RequestStates
<1> HIDE DEF x
<1> QED  BY <1>1, <1>2, Moved DEF Typed

(* Steps before and after the model's turn, and the failures.              *)
LEMMA TypeResolving ==
    ASSUME TypeOK, LeftOnlyToWrite, NEW r \in Requests,
           \/ \E u \in Uses, verdict \in {"applied", "rejected"} : ResolvePendingAction(r, u, verdict)
           \/ Execute(r) \/ Resolve(r) \/ List(r) \/ Report(r) \/ Settle(r)
    PROVE  TypeOK' /\ LeftOnlyToWrite'
<1>r. request[r] \in RequestStates  BY DEF TypeOK
<1>1. ASSUME NEW u \in Uses, NEW verdict \in {"applied", "rejected"}, ResolvePendingAction(r, u, verdict)
      PROVE  TypeOK' /\ LeftOnlyToWrite'
  <2> DEFINE x == [request[r] EXCEPT !.at = IF verdict = "applied" THEN "execute" ELSE "resolve",
                                     !.use = u, !.verdict = verdict]
  <2>1. request' = [request EXCEPT ![r] = x]  BY <1>1 DEF ResolvePendingAction, TypeOK
  <2>2. x \in RequestStates  BY <1>r DEF RequestStates, Resolving
  <2>3. request[r].left = {}  BY <1>1 DEF ResolvePendingAction, LeftOnlyToWrite
  <2>4. x.left = {}  BY <2>3, <1>r DEF RequestStates
  <2> HIDE DEF x
  <2>5. Typed'  BY <2>1, <2>2, <2>4, Moved DEF Typed
  <2>6. (crossed \/ Others(r, Turn)) \in BOOLEAN /\ (paired \/ Others(r, Resolving)) \in BOOLEAN
    OBVIOUS
  <2> QED  BY <1>1, <2>5, <2>6 DEF ResolvePendingAction, TypeOK, Typed, rows
<1>2. CASE Execute(r)
  <2>1. request[r].left = {}  BY <1>2 DEF Execute, LeftOnlyToWrite
  <2>2. Typed'  BY <1>2, <2>1, GotoMoved DEF Execute, Resolving
  <2>3. executed' \in [Uses -> Nat]
    <3>1. executed \in [Uses -> Nat]  BY DEF TypeOK
    <3> QED  BY <1>2, <3>1 DEF Execute
  <2>4. UNCHANGED <<conv, messages, tools, pending, applied, doubled, crossed, paired, cut, sends, losses>>
    BY <1>2 DEF Execute, rows
  <2> QED  BY <2>2, <2>3, <2>4 DEF TypeOK, Typed
<1>3. CASE Resolve(r)
  <2>1. request[r].left = {}  BY <1>3 DEF Resolve, LeftOnlyToWrite
  <2>2. Typed'  BY <1>3, <2>1, GotoMoved DEF Resolve, Resolving
  <2>3. pending' \in [Uses -> {"none", "pending", "applied", "rejected"}]
    BY <1>3, <1>r DEF Resolve, TypeOK, RequestStates
  <2> QED  BY <1>3, <2>2, <2>3 DEF Resolve, TypeOK, Typed, history
<1>4. CASE List(r)
  <2>1. request[r].left = {}  BY <1>4 DEF List, LeftOnlyToWrite
  <2>2. TurnOf(request[r].use) \subseteq Uses
    <3>1. \A i \in 1..Len(messages) : messages[i] \in Messages  BY DEF TypeOK
    <3>2. \A i \in 1..Len(messages) : messages[i].uses \subseteq Uses  BY <3>1 DEF Messages
    <3> QED  BY <3>2 DEF TurnOf
  <2>3. CASE Finish(r)  BY <1>4, <2>3, FreeMoved DEF List, TypeOK, Typed, rows, history
  <2>4. CASE request' = [request EXCEPT ![r].at = "report", ![r].uses = Siblings(request[r].use)]
    <3> DEFINE x == [request[r] EXCEPT !.at = "report", !.uses = Siblings(request[r].use)]
    <3>1. request' = [request EXCEPT ![r] = x]  BY <2>4 DEF TypeOK
    <3>2. x \in RequestStates  BY <1>r, <2>2 DEF RequestStates, Resolving, Siblings
    <3>3. x.left = {}  BY <2>1, <1>r DEF RequestStates
    <3> HIDE DEF x
    <3>4. Typed'  BY <3>1, <3>2, <3>3, Moved DEF Typed
    <3> QED  BY <1>4, <3>4 DEF List, TypeOK, Typed, rows, history
  <2> QED  BY <1>4, <2>3, <2>4 DEF List
<1>5. CASE Report(r)
  <2> DEFINE x == [Free EXCEPT !.at = "settle"]
  <2>1. x \in RequestStates /\ x.left = {}  BY FreeType DEF Free, RequestStates, Resolving
  <2>2. request' = [request EXCEPT ![r] = x]  BY <1>5 DEF Report
  <2> HIDE DEF x
  <2>3. Typed'  BY <2>1, <2>2, Moved DEF Typed
  <2>4. messages' \in Seq(Messages)  BY <1>5, <1>r, InsertType DEF Report, RequestStates
  <2> QED  BY <1>5, <2>3, <2>4 DEF Report, TypeOK, Typed, history
<1>6. CASE Settle(r)
  <2> DEFINE x == [Free EXCEPT !.at = "think"]
  <2>1. x \in RequestStates /\ x.left = {}  BY FreeType DEF Free, RequestStates, Turn
  <2>2. request' = [request EXCEPT ![r] = x]  BY <1>6 DEF Settle
  <2> HIDE DEF x
  <2>3. Typed'  BY <2>1, <2>2, Moved DEF Typed
  <2>4. SetState("idle")  BY <1>6 DEF Settle
  <2>5. /\ conv' \in {"idle", "thinking", "awaiting", "deleted"}
        /\ cut' \subseteq Phases /\ losses' \in 0..MaxLosses
    BY <2>4, SetStateType
  <2> QED  BY <1>6, <2>3, <2>5 DEF Settle, TypeOK, Typed
<1> QED  BY <1>1, <1>2, <1>3, <1>4, <1>5, <1>6

(* The model's turn.                                                       *)
LEMMA TypeTurn ==
    ASSUME TypeOK, LeftOnlyToWrite, NEW r \in Requests,
           \/ SendUserMessage(r) \/ Say(r) \/ Think(r) \/ Send(r) \/ Await(r) \/ Feed(r)
           \/ Rest(r) \/ CutOff(r) \/ Refused(r)
    PROVE  TypeOK' /\ LeftOnlyToWrite'
<1>r. request[r] \in RequestStates  BY DEF TypeOK
<1>1. CASE SendUserMessage(r)
  <2>1. request[r].left = {}  BY <1>1 DEF SendUserMessage, LeftOnlyToWrite
  <2>2. Typed'  BY <1>1, <2>1, GotoMoved DEF SendUserMessage, Turn
  <2>3. (crossed \/ Others(r, Turn)) \in BOOLEAN  OBVIOUS
  <2>4. sends' \in 0..MaxSends  BY <1>1, AgentAssumption DEF SendUserMessage, TypeOK
  <2> QED  BY <1>1, <2>2, <2>3, <2>4 DEF SendUserMessage, TypeOK, Typed, rows
<1>2. CASE Say(r)
  <2>1. request[r].left = {}  BY <1>2 DEF Say, LeftOnlyToWrite
  <2>2. Typed'  BY <1>2, <2>1, GotoMoved DEF Say, Turn
  <2>3. messages' \in Seq(Messages)  BY <1>2, InsertType DEF Say
  <2> QED  BY <1>2, <2>2, <2>3 DEF Say, TypeOK, Typed, history
<1>3. CASE Think(r)
  <2>1. request[r].left = {}  BY <1>3 DEF Think, LeftOnlyToWrite
  <2>2. Typed'  BY <1>3, <2>1, GotoMoved DEF Think, Turn
  <2>3. SetState("thinking")  BY <1>3 DEF Think
  <2>4. /\ conv' \in {"idle", "thinking", "awaiting", "deleted"}
        /\ cut' \subseteq Phases /\ losses' \in 0..MaxLosses
    BY <2>3, SetStateType
  <2> QED  BY <1>3, <2>2, <2>4 DEF Think, TypeOK, Typed
<1>4. CASE Send(r)
  <2>1. request[r].left = {}  BY <1>4 DEF Send, LeftOnlyToWrite
  <2>2. Goto(r, "receive") \/ Goto(r, "rest")  BY <1>4 DEF Send
  <2>3. Typed'  BY <2>1, <2>2, GotoMoved DEF Turn
  <2> QED  BY <1>4, <2>3 DEF Send, TypeOK, Typed, rows, history
<1>5. CASE Await(r)
  <2>1. Typed'  BY <1>5, FreeMoved DEF Await
  <2>2. SetState("awaiting")  BY <1>5 DEF Await
  <2>3. /\ conv' \in {"idle", "thinking", "awaiting", "deleted"}
        /\ cut' \subseteq Phases /\ losses' \in 0..MaxLosses
    BY <2>2, SetStateType
  <2> QED  BY <1>5, <2>1, <2>3 DEF Await, TypeOK, Typed
<1>6. CASE Feed(r)
  <2> DEFINE x == IF TripsLeft(r)
                  THEN [Free EXCEPT !.at = "think", !.trips = request[r].trips + 1]
                  ELSE [Free EXCEPT !.at = "rest"]
  <2>1. request[r].trips \in 0..(MaxIterations - 1)  BY <1>r DEF RequestStates
  <2>2. x \in RequestStates /\ x.left = {}
    <3>1. CASE TripsLeft(r)
      <4>1. request[r].trips + 1 \in 0..(MaxIterations - 1)
        BY <2>1, <3>1, AgentAssumption DEF TripsLeft
      <4> QED  BY <3>1, <4>1, FreeType DEF Free, RequestStates, Turn
    <3>2. CASE ~TripsLeft(r)  BY <3>2, FreeType DEF Free, RequestStates, Turn
    <3> QED  BY <3>1, <3>2
  <2>3. request' = [request EXCEPT ![r] = x]  BY <1>6 DEF Feed
  <2> HIDE DEF x
  <2>4. Typed'  BY <2>2, <2>3, Moved DEF Typed
  <2>5. messages' \in Seq(Messages)  BY <1>6, <1>r, InsertType DEF Feed, RequestStates
  <2> QED  BY <1>6, <2>4, <2>5 DEF Feed, TypeOK, Typed, history
<1>7. CASE Rest(r)
  <2>1. Typed'  BY <1>7, FreeMoved DEF Rest
  <2>2. SetState("idle")  BY <1>7 DEF Rest
  <2>3. /\ conv' \in {"idle", "thinking", "awaiting", "deleted"}
        /\ cut' \subseteq Phases /\ losses' \in 0..MaxLosses
    BY <2>2, SetStateType
  <2> QED  BY <1>7, <2>1, <2>3 DEF Rest, TypeOK, Typed
<1>8. CASE CutOff(r)
  <2>1. Typed'  BY <1>8, FreeMoved DEF CutOff
  <2>2. Phase(request[r]) \in Phases  BY DEF Phase, Phases
  <2>3. losses' \in 0..MaxLosses /\ cut' \subseteq Phases
    BY <1>8, <2>2, AgentAssumption DEF CutOff, TypeOK
  <2> QED  BY <1>8, <2>1, <2>3 DEF CutOff, TypeOK, Typed, rows
<1>9. CASE Refused(r)
  <2>1. Typed'  BY <1>9, FreeMoved DEF Refused
  <2> QED  BY <1>9, <2>1 DEF Refused, TypeOK, Typed, rows, history
<1> QED  BY <1>1, <1>2, <1>3, <1>4, <1>5, <1>6, <1>7, <1>8, <1>9

LEMMA KindsSeq ==
    ASSUME NEW n \in Nat, NEW kinds \in [1..n -> {"read", "write"}]
    PROVE  kinds \in Seq({"read", "write"}) /\ Len(kinds) = n
  BY SeqDef, LenProperties

(* What a turn writes: the answer and its cards.                           *)
LEMMA TypeAnswer ==
    ASSUME TypeOK, LeftOnlyToWrite, NEW r \in Requests, Receive(r) \/ Stage(r) \/ Ride(r)
    PROVE  TypeOK' /\ LeftOnlyToWrite'
<1>r. request[r] \in RequestStates  BY DEF TypeOK
<1>1. CASE Receive(r)
  <2>a. PICK n \in 0..(MaxUses - Len(tools)) : \E kinds \in [1..n -> {"read", "write"}] :
           LET asked  == (Len(tools) + 1)..(Len(tools) + n)
               writes == {u \in asked : kinds[u - Len(tools)] = "write"}
           IN /\ Insert("assistant", asked)
              /\ tools' = tools \o kinds
              /\ request' = [request EXCEPT
                    ![r].at = CASE n = 0 -> "rest" [] writes = {} -> "feed" [] OTHER -> "stage",
                    ![r].uses = asked,
                    ![r].left = writes]
    BY <1>1 DEF Receive
  <2>1. PICK kinds \in [1..n -> {"read", "write"}] :
           LET asked  == (Len(tools) + 1)..(Len(tools) + n)
               writes == {u \in asked : kinds[u - Len(tools)] = "write"}
           IN /\ Insert("assistant", asked)
              /\ tools' = tools \o kinds
              /\ request' = [request EXCEPT
                    ![r].at = CASE n = 0 -> "rest" [] writes = {} -> "feed" [] OTHER -> "stage",
                    ![r].uses = asked,
                    ![r].left = writes]
    BY <2>a
  <2> DEFINE asked  == (Len(tools) + 1)..(Len(tools) + n)
             writes == {u \in asked : kinds[u - Len(tools)] = "write"}
             step   == CASE n = 0 -> "rest" [] writes = {} -> "feed" [] OTHER -> "stage"
             x      == [request[r] EXCEPT !.at = step, !.uses = asked, !.left = writes]
  <2>2. Len(tools) \in Nat /\ Len(tools) <= MaxUses /\ MaxUses \in Nat /\ n \in Nat
        /\ Len(tools) + n <= MaxUses
    <3>1. Len(tools) \in Nat /\ Len(tools) <= MaxUses  BY DEF TypeOK
    <3>2. MaxUses \in Nat  BY AgentAssumption
    <3> QED  BY <3>1, <3>2
  <2>3. asked \subseteq Uses /\ writes \subseteq asked  BY <2>2 DEF Uses
  <2>4. step \in {"rest", "feed", "stage"} /\ (step # "stage" => writes = {})
    <3>1. CASE n = 0  BY <3>1, <2>2
    <3>2. CASE n # 0  BY <3>2
    <3> QED  BY <3>1, <3>2
  <2>5. request' = [request EXCEPT ![r] = x]
    <3>1. request' = [request EXCEPT ![r].at = step, ![r].uses = asked, ![r].left = writes]
      BY <2>1
    <3> HIDE DEF step, asked, writes
    <3> QED  BY <3>1 DEF TypeOK
  <2>6. x \in RequestStates /\ x.left = writes /\ x.uses = asked /\ x.at = step
    <3> HIDE DEF step, asked, writes
    <3> QED  BY <1>r, <2>3, <2>4 DEF RequestStates, Turn
  <2> HIDE DEF x
  <2>7. Typed'  BY <2>3, <2>4, <2>5, <2>6, Moved DEF Typed
  <2>8. messages' \in Seq(Messages)  BY <2>1, <2>3, InsertType
  <2>9. tools' \in Seq({"read", "write"}) /\ Len(tools') <= MaxUses
    <3>1. kinds \in Seq({"read", "write"}) /\ Len(kinds) = n  BY <2>2, KindsSeq
    <3>2. tools' = tools \o kinds /\ tools \in Seq({"read", "write"})  BY <2>1 DEF TypeOK
    <3> QED  BY <3>1, <3>2, <2>2, ConcatProperties
  <2> QED  BY <1>1, <2>7, <2>8, <2>9 DEF Receive, TypeOK, Typed, history
<1>2. CASE Stage(r)
  <2>1. PICK u \in request[r].left :
           LET left == request[r].left \ {u}
           IN /\ pending' = [pending EXCEPT ![u] = "pending"]
              /\ request' = IF left # {} THEN [request EXCEPT ![r].left = left]
                            ELSE [request EXCEPT ![r].left = Reads(r),
                                     ![r].at = IF Reads(r) = {} THEN "await" ELSE "ride"]
    BY <1>2 DEF Stage
  <2> DEFINE left == request[r].left \ {u}
             x == IF left # {} THEN [request[r] EXCEPT !.left = left]
                  ELSE [request[r] EXCEPT !.left = Reads(r),
                           !.at = IF Reads(r) = {} THEN "await" ELSE "ride"]
  <2>2. request' = [request EXCEPT ![r] = x]  BY <2>1 DEF TypeOK
  <2>3. Reads(r) \subseteq request[r].uses /\ left \subseteq request[r].uses
    BY DEF Reads, TypeOK
  <2>4. x \in RequestStates /\ x.left \subseteq x.uses /\ (x.at \in {"stage", "ride"} \/ x.left = {})
    BY <1>r, <1>2, <2>3 DEF RequestStates, Turn, Stage
  <2> HIDE DEF x
  <2>5. Typed'  BY <2>2, <2>4, Moved DEF Typed
  <2>6. pending' \in [Uses -> {"none", "pending", "applied", "rejected"}]
    BY <2>1 DEF TypeOK
  <2> QED  BY <1>2, <2>5, <2>6 DEF Stage, TypeOK, Typed, history
<1>3. CASE Ride(r)
  <2>1. PICK u \in request[r].left :
           LET left == request[r].left \ {u}
           IN /\ pending' = [pending EXCEPT ![u] = "applied"]
              /\ request' = [request EXCEPT ![r].left = left, ![r].at = IF left = {} THEN "await" ELSE @]
    BY <1>3 DEF Ride
  <2> DEFINE left == request[r].left \ {u}
             x == [request[r] EXCEPT !.left = left, !.at = IF left = {} THEN "await" ELSE @]
  <2>2. request' = [request EXCEPT ![r] = x]  BY <2>1 DEF TypeOK
  <2>3. left \subseteq request[r].uses  BY DEF TypeOK
  <2>4. x \in RequestStates /\ x.left \subseteq x.uses /\ (x.at \in {"stage", "ride"} \/ x.left = {})
    BY <1>r, <1>3, <2>3 DEF RequestStates, Turn, Ride
  <2> HIDE DEF x
  <2>5. Typed'  BY <2>2, <2>4, Moved DEF Typed
  <2>6. pending' \in [Uses -> {"none", "pending", "applied", "rejected"}]
    BY <2>1 DEF TypeOK
  <2> QED  BY <1>3, <2>5, <2>6 DEF Ride, TypeOK, Typed, history
<1> QED  BY <1>1, <1>2, <1>3

LEMMA TypeStep ==
    ASSUME TypeOK, LeftOnlyToWrite, [Next]_vars
    PROVE  TypeOK' /\ LeftOnlyToWrite'
<1>1. CASE UNCHANGED vars
  BY <1>1 DEF vars, rows, history, TypeOK, LeftOnlyToWrite
<1>2. CASE Delete
  BY <1>2 DEF Delete, history, TypeOK, LeftOnlyToWrite
<1>3. CASE \E r \in Requests :
              \/ SendUserMessage(r) \/ Handle(r) \/ CutOff(r)
              \/ \E u \in Uses, verdict \in {"applied", "rejected"} :
                    ResolvePendingAction(r, u, verdict)
  BY <1>3, TypeResolving, TypeTurn, TypeAnswer DEF Handle
<1> QED  BY <1>1, <1>2, <1>3 DEF Next

LEMMA TypeInit == Init => TypeOK /\ LeftOnlyToWrite
<1> SUFFICES ASSUME Init PROVE TypeOK /\ LeftOnlyToWrite
  OBVIOUS
<1>1. \A r \in Requests : request[r] = Free  BY DEF Init
<1>2. request \in [Requests -> RequestStates]  BY FreeType DEF Init
<1>a. Free.left = {} /\ Free.uses = {}  BY DEF Free
<1>3. \A r \in Requests : request[r].left = {} /\ request[r].uses = {}  BY <1>1, <1>a
<1>4. messages \in Seq(Messages) /\ tools \in Seq({"read", "write"}) /\ Len(tools) = 0
  BY DEF Init
<1>5. MaxUses \in Nat /\ MaxSends \in Nat /\ MaxLosses \in Nat  BY AgentAssumption
<1>6. LeftOnlyToWrite  BY <1>3 DEF LeftOnlyToWrite
<1>7. /\ pending \in [Uses -> {"none", "pending", "applied", "rejected"}]
      /\ executed \in [Uses -> Nat]
  BY DEF Init
<1>8. /\ conv = "idle" /\ applied = {} /\ doubled = {} /\ cut = {} /\ sends = 0 /\ losses = 0
      /\ crossed \in BOOLEAN /\ paired \in BOOLEAN
  BY DEF Init
<1>9. sends \in 0..MaxSends /\ losses \in 0..MaxLosses /\ Len(tools) <= MaxUses
  BY <1>4, <1>5, <1>8
<1>b. \A r \in Requests : request[r].left \subseteq request[r].uses  BY <1>3
<1>c. {crossed, paired} \subseteq BOOLEAN  BY <1>8
<1>d. applied \subseteq Uses /\ doubled \subseteq Uses /\ cut \subseteq Phases  BY <1>8
<1> QED  BY <1>2, <1>b, <1>c, <1>d, <1>4, <1>6, <1>7, <1>8, <1>9 DEF TypeOK

(* The rows, requests and histories keep their types.                      *)
THEOREM TypeCorrect == Spec => []TypeOK
<1>1. TypeOK /\ LeftOnlyToWrite /\ [Next]_vars => TypeOK' /\ LeftOnlyToWrite'
  BY TypeStep
<1> QED  BY <1>1, TypeInit, PTL DEF Spec
-------------------------------------------------------------------------------
(* The cards.                                                              *)
CardInv == Asked /\ Cards /\ Staged /\ Course

(* A request does something that is not about a card.                      *)
LEMMA Aside ==
    ASSUME Inv, NEW r \in Requests,
           request'[r].at \notin {"execute", "resolve", "stage", "ride"},
           request'[r].left = {}, \A u \in request'[r].uses : u <= Len(tools),
           \A q \in Requests \ {r} : request'[q] = request[q],
           UNCHANGED <<tools, pending, executed, applied, doubled>>, cut \subseteq cut',
           request[r].at = "resolve" /\ request[r].verdict = "applied" => "executed" \in cut'
    PROVE  CardInv'
<1>1. \A q \in Requests, u \in Uses : AtWork(q, u)' => AtWork(q, u) /\ q # r /\ request'[q] = request[q]
  BY DEF AtWork
<1>2. Asked'  BY DEF Inv, Asked
<1>3. Cards'  BY <1>1 DEF Inv, Cards
<1>4. Staged'
  <2> SUFFICES ASSUME NEW q \in Requests, NEW u \in request'[q].left
               PROVE  /\ request'[q].at = "stage" =>
                            /\ tools[u] = "write" /\ pending[u] = "none" /\ executed[u] = 0
                            /\ u \notin applied
                            /\ \A p \in Requests : ~AtWork(p, u)'
                            /\ \A p \in Requests \ {q} :
                                  request'[p].at = "stage" => u \notin request'[p].left
                      /\ request'[q].at = "ride" => tools[u] = "read"
    BY DEF Staged
  <2>1. q # r /\ request'[q] = request[q] /\ u \in request[q].left  OBVIOUS
  <2>2. u \in Uses  BY <2>1 DEF Inv, TypeOK, RequestStates
  <2> QED  BY <1>1, <2>1, <2>2 DEF Inv, Staged
<1>5. ASSUME NEW u \in Uses, u \notin doubled', "executed" \notin cut'
      PROVE  Single(u)'
  <2>1. Single(u)  BY <1>5 DEF Inv, Course
  <2>2. \A q \in Requests : AtWork(q, u) /\ request[q].at = "resolve" /\ request[q].verdict = "applied"
            => AtWork(q, u)' /\ request'[q].at = "resolve" /\ request'[q].verdict = "applied"
    BY <1>5 DEF AtWork
  <2> QED  BY <1>1, <2>1, <2>2 DEF Single
<1> QED  BY <1>2, <1>3, <1>4, <1>5 DEF CardInv, Course

(* A click: no request is at work on an open card that has no other.       *)
LEMMA Clicked ==
    ASSUME Inv, NEW r \in Requests, NEW u \in Uses, NEW verdict \in {"applied", "rejected"},
           ResolvePendingAction(r, u, verdict)
    PROVE  CardInv'
<1>1. /\ request[r].at = "free" /\ request[r].left = {} /\ pending[u] = "pending"
      /\ request[r] \in RequestStates
  BY DEF ResolvePendingAction, Open, Inv, LeftOnlyToWrite, TypeOK
<1>2. /\ request'[r].at = IF verdict = "applied" THEN "execute" ELSE "resolve"
      /\ request'[r].use = u /\ request'[r].verdict = verdict
      /\ request'[r].left = request[r].left /\ request'[r].uses = request[r].uses
      /\ \A q \in Requests \ {r} : request'[q] = request[q]
  BY <1>1 DEF ResolvePendingAction, Inv, TypeOK, RequestStates
<1>3. UNCHANGED <<tools, pending, executed, cut>>  BY DEF ResolvePendingAction, rows
<1>4. applied' = IF verdict = "applied" THEN applied \cup {u} ELSE applied
  BY DEF ResolvePendingAction
<1>5. doubled \subseteq doubled' /\ (u \notin doubled' => \A q \in Requests : ~AtWork(q, u))
  BY DEF ResolvePendingAction, AtWork, Resolving
<1>6. \A q \in Requests, v \in Uses : AtWork(q, v)' =>
          (q = r /\ v = u) \/ (q # r /\ AtWork(q, v) /\ request'[q] = request[q])
  <2> SUFFICES ASSUME NEW q \in Requests, NEW v \in Uses, AtWork(q, v)'
               PROVE  (q = r /\ v = u) \/ (q # r /\ AtWork(q, v) /\ request'[q] = request[q])
    OBVIOUS
  <2>0. request'[q].use = v  BY DEF AtWork
  <2>1. CASE q = r
    <3>1. request'[q].use = u  BY <2>1, <1>2
    <3>2. v = u  BY <2>0, <3>1
    <3> QED  BY <2>1, <3>2
  <2>2. CASE q # r
    <3>1. request'[q] = request[q]  BY <2>2, <1>2
    <3> QED  BY <2>2, <3>1 DEF AtWork
  <2> QED  BY <2>1, <2>2
<1>7. u <= Len(tools) /\ tools[u] = "write"
  <2>1. u > Len(tools) => pending[u] = "none"  BY DEF Inv, Asked
  <2>2. Len(tools) \in Nat /\ u \in Nat  BY DEF Inv, TypeOK, Uses
  <2> QED  BY <1>1, <2>1, <2>2 DEF Inv, Cards
<1>8. Asked'  BY <1>2, <1>3, <1>4, <1>7 DEF Inv, Asked, TypeOK, Uses
<1>9. Cards'
  <2>1. \A v \in Uses : pending'[v] = "pending" => tools'[v] = "write"  BY <1>3 DEF Inv, Cards
  <2>2. ASSUME NEW q \in Requests, NEW v \in Uses, AtWork(q, v)'
        PROVE  /\ v <= Len(tools) /\ tools[v] = "write"
               /\ request'[q].verdict \in {"applied", "rejected"}
               /\ request'[q].at = "execute" => request'[q].verdict = "applied"
               /\ request'[q].verdict = "applied" => v \in applied'
    <3>1. CASE q = r /\ v = u  BY <3>1, <1>2, <1>4, <1>7
    <3>2. CASE q # r /\ AtWork(q, v) /\ request'[q] = request[q]
      BY <3>2, <1>4 DEF Inv, Cards
    <3> QED  BY <2>2, <1>6, <3>1, <3>2
  <2>3. \A v \in Uses : executed'[v] > 0 => v \in applied' /\ tools'[v] = "write"
    BY <1>3, <1>4 DEF Inv, Cards
  <2> QED  BY <1>3, <2>1, <2>2, <2>3 DEF Cards
<1>10. Staged'
  <2> SUFFICES ASSUME NEW q \in Requests, NEW v \in request'[q].left
               PROVE  /\ request'[q].at = "stage" =>
                            /\ tools[v] = "write" /\ pending[v] = "none" /\ executed[v] = 0
                            /\ v \notin applied'
                            /\ \A p \in Requests : ~AtWork(p, v)'
                            /\ \A p \in Requests \ {q} :
                                  request'[p].at = "stage" => v \notin request'[p].left
                      /\ request'[q].at = "ride" => tools[v] = "read"
    BY <1>3 DEF Staged
  <2>1. q # r /\ request'[q] = request[q] /\ v \in request[q].left  BY <1>1, <1>2
  <2>2. v \in Uses  BY <2>1 DEF Inv, TypeOK, RequestStates
  <2>3. CASE request[q].at = "stage"
    <3>1. /\ tools[v] = "write" /\ pending[v] = "none" /\ executed[v] = 0 /\ v \notin applied
          /\ \A p \in Requests : ~AtWork(p, v)
          /\ \A p \in Requests \ {q} : request[p].at = "stage" => v \notin request[p].left
      BY <2>1, <2>3 DEF Inv, Staged
    <3>2. v # u  BY <3>1, <1>1
    <3>3. \A p \in Requests : ~AtWork(p, v)'  BY <3>1, <3>2, <2>2, <1>6
    <3>4. \A p \in Requests \ {q} : request'[p].at = "stage" => v \notin request'[p].left
      BY <3>1, <1>1, <1>2
    <3> QED  BY <3>1, <3>2, <3>3, <3>4, <2>1, <2>3, <1>4
  <2>4. CASE request[q].at # "stage"  BY <2>1, <2>4 DEF Inv, Staged
  <2> QED  BY <2>3, <2>4
<1>11. ASSUME NEW v \in Uses, v \notin doubled', "executed" \notin cut'
       PROVE  Single(v)'
  <2>1. Single(v)  BY <1>3, <1>5, <1>11 DEF Inv, Course
  <2>2. \A q \in Requests : AtWork(q, v) => AtWork(q, v)' /\ request'[q] = request[q]
    BY <1>1, <1>2 DEF AtWork
  <2>3. CASE v = u
    <3>1. \A q \in Requests : ~AtWork(q, u)  BY <1>5, <1>11, <2>3
    <3>2. executed[u] = 0  BY <1>1, <2>1, <2>3, <3>1 DEF Single
    <3> QED  BY <1>1, <1>3, <1>6, <2>3, <3>1, <3>2 DEF Single
  <2>4. CASE v # u
    <3>1. \A q \in Requests : AtWork(q, v)' => AtWork(q, v) /\ request'[q] = request[q]
      BY <1>6, <2>4
    <3> QED  BY <1>3, <2>1, <2>2, <3>1 DEF Single
  <2> QED  BY <2>3, <2>4
<1> QED  BY <1>8, <1>9, <1>10, <1>11 DEF CardInv, Course

(* A tool runs, and its request goes on to write the result.               *)
LEMMA Executed ==
    ASSUME Inv, NEW r \in Requests, Execute(r)
    PROVE  CardInv'
<1> DEFINE u == request[r].use
<1>1. /\ request[r].at = "execute" /\ request[r].left = {} /\ request[r] \in RequestStates
  BY DEF Execute, Inv, LeftOnlyToWrite, TypeOK
<1>2. /\ request'[r] = [request[r] EXCEPT !.at = "resolve"]
      /\ \A q \in Requests \ {r} : request'[q] = request[q]
  BY DEF Execute, Goto, Inv, TypeOK
<1>3. /\ request'[r].at = "resolve" /\ request'[r].use = u /\ request'[r].left = {}
      /\ request'[r].verdict = request[r].verdict /\ request'[r].uses = request[r].uses
  BY <1>1, <1>2 DEF RequestStates
<1>4. UNCHANGED <<tools, pending, applied, doubled, cut>>  BY DEF Execute, rows
<1>5. \A q \in Requests, v \in Uses : AtWork(q, v)' <=> AtWork(q, v)
  <2> SUFFICES ASSUME NEW q \in Requests, NEW v \in Uses PROVE AtWork(q, v)' <=> AtWork(q, v)
    OBVIOUS
  <2>1. CASE q = r  BY <2>1, <1>1, <1>3 DEF AtWork
  <2>2. CASE q # r
    <3>1. request'[q] = request[q]  BY <2>2, <1>2
    <3> QED  BY <3>1 DEF AtWork
  <2> QED  BY <2>1, <2>2
<1>6. ASSUME u \notin Uses
      PROVE  executed' = executed
  BY <1>6 DEF Execute, Inv, TypeOK
<1>7. \A v \in Uses : executed'[v] = executed[v] \/ (v = u /\ executed'[v] = executed[v] + 1)
  <2>1. executed \in [Uses -> Nat]  BY DEF Inv, TypeOK
  <2>2. executed' = [executed EXCEPT ![u] = executed[u] + 1] \/ executed' = executed  BY DEF Execute
  <2>3. \A v \in Uses : executed' = [executed EXCEPT ![u] = executed[u] + 1] =>
            executed'[v] = IF v = u THEN executed[u] + 1 ELSE executed[v]
    BY <2>1
  <2> HIDE DEF u
  <2> QED  BY <2>2, <2>3
<1>8. u \in Uses => AtWork(r, u)  BY <1>1 DEF AtWork
<1>9. u \in Uses => /\ u <= Len(tools) /\ tools[u] = "write" /\ u \in applied
                    /\ request[r].verdict = "applied"
  BY <1>1, <1>8 DEF Inv, Cards
<1>10. Asked'
  <2>1. \A v \in Uses : v > Len(tools) =>
            pending'[v] = "none" /\ executed'[v] = 0 /\ v \notin applied'
    <3> SUFFICES ASSUME NEW v \in Uses, v > Len(tools)
                 PROVE  pending[v] = "none" /\ executed'[v] = 0 /\ v \notin applied
      BY <1>4
    <3>1. v # u
      <4>1. Len(tools) \in Nat /\ v \in Nat  BY DEF Inv, TypeOK, Uses
      <4> QED  BY <4>1, <1>9
    <3> QED  BY <3>1, <1>7 DEF Inv, Asked
  <2>2. \A q \in Requests : \A v \in request'[q].uses : v <= Len(tools)
    BY <1>2, <1>3 DEF Inv, Asked
  <2> QED  BY <2>1, <2>2, <1>4 DEF Asked
<1>11. Cards'
  <2>1. \A v \in Uses : pending'[v] = "pending" => tools'[v] = "write"  BY <1>4 DEF Inv, Cards
  <2>2. ASSUME NEW q \in Requests, NEW v \in Uses, AtWork(q, v)'
        PROVE  /\ v <= Len(tools) /\ tools[v] = "write"
               /\ request'[q].verdict \in {"applied", "rejected"}
               /\ request'[q].at = "execute" => request'[q].verdict = "applied"
               /\ request'[q].verdict = "applied" => v \in applied'
    <3>1. AtWork(q, v)  BY <2>2, <1>5
    <3>2. CASE q = r  BY <3>1, <3>2, <1>3, <1>4 DEF Inv, Cards
    <3>3. CASE q # r
      <4>1. request'[q] = request[q]  BY <3>3, <1>2
      <4> QED  BY <3>1, <4>1, <1>4 DEF Inv, Cards
    <3> QED  BY <3>2, <3>3
  <2>3. ASSUME NEW v \in Uses, executed'[v] > 0
        PROVE  v \in applied' /\ tools'[v] = "write"
    <3>1. CASE v = u  BY <3>1, <1>4, <1>9
    <3>2. CASE v # u  BY <3>2, <2>3, <1>4, <1>7 DEF Inv, Cards
    <3> QED  BY <3>1, <3>2
  <2> QED  BY <1>4, <2>1, <2>2, <2>3 DEF Cards
<1>12. Staged'
  <2> SUFFICES ASSUME NEW q \in Requests, NEW v \in request'[q].left
               PROVE  /\ request'[q].at = "stage" =>
                            /\ tools[v] = "write" /\ pending[v] = "none" /\ executed'[v] = 0
                            /\ v \notin applied
                            /\ \A p \in Requests : ~AtWork(p, v)'
                            /\ \A p \in Requests \ {q} :
                                  request'[p].at = "stage" => v \notin request'[p].left
                      /\ request'[q].at = "ride" => tools[v] = "read"
    BY <1>4 DEF Staged
  <2>1. q # r /\ request'[q] = request[q] /\ v \in request[q].left  BY <1>2, <1>3
  <2>2. v \in Uses  BY <2>1 DEF Inv, TypeOK, RequestStates
  <2>3. CASE request[q].at = "stage"
    <3>1. /\ tools[v] = "write" /\ pending[v] = "none" /\ executed[v] = 0 /\ v \notin applied
          /\ \A p \in Requests : ~AtWork(p, v)
          /\ \A p \in Requests \ {q} : request[p].at = "stage" => v \notin request[p].left
      BY <2>1, <2>3 DEF Inv, Staged
    <3>2. executed'[v] = 0  BY <3>1, <2>2, <1>7, <1>8
    <3>3. \A p \in Requests : ~AtWork(p, v)'  BY <3>1, <2>2, <1>5
    <3>4. \A p \in Requests \ {q} : request'[p].at = "stage" => v \notin request'[p].left
      BY <3>1, <1>2, <1>3
    <3> QED  BY <3>1, <3>2, <3>3, <3>4, <2>1, <2>3
  <2>4. CASE request[q].at # "stage"  BY <2>1, <2>4 DEF Inv, Staged
  <2> QED  BY <2>3, <2>4
<1>13. ASSUME NEW v \in Uses, v \notin doubled', "executed" \notin cut'
       PROVE  Single(v)'
  <2>1. Single(v)  BY <1>4, <1>13 DEF Inv, Course
  <2>2. CASE v = u
    <3>1. executed[v] = 0 /\ executed'[v] \in {0, 1}
      BY <2>1, <2>2, <1>1, <1>7, <1>8 DEF Single
    <3>2. \A q \in Requests : AtWork(q, v)' => q = r  BY <2>1, <2>2, <1>5, <1>8 DEF Single
    <3>3. pending[v] \in {"pending", "none"}  BY <2>1, <2>2, <1>8 DEF Single
    <3>4. AtWork(r, v)'  BY <2>2, <1>5, <1>8
    <3> QED  BY <3>1, <3>2, <3>3, <3>4, <2>2, <1>3, <1>4, <1>9 DEF Single
  <2>3. CASE v # u
    <3>1. executed'[v] = executed[v]  BY <2>3, <1>7
    <3>2. ~AtWork(r, v)  BY <2>3 DEF AtWork
    <3>3. \A q \in Requests : AtWork(q, v) => request'[q] = request[q]  BY <3>2, <1>2
    <3> QED  BY <2>1, <3>1, <3>3, <1>4, <1>5 DEF Single
  <2> QED  BY <2>2, <2>3
<1> QED  BY <1>10, <1>11, <1>12, <1>13 DEF CardInv, Course

(* The verdict is written, and the request leaves the card.                *)
LEMMA Resolved ==
    ASSUME Inv, NEW r \in Requests, Resolve(r)
    PROVE  CardInv'
<1> DEFINE u == request[r].use
<1>1. /\ request[r].at = "resolve" /\ request[r].left = {} /\ request[r] \in RequestStates
  BY DEF Resolve, Inv, LeftOnlyToWrite, TypeOK
<1>2. /\ request'[r] = [request[r] EXCEPT !.at = "list"]
      /\ \A q \in Requests \ {r} : request'[q] = request[q]
  BY DEF Resolve, Goto, Inv, TypeOK
<1>3. request'[r].at = "list" /\ request'[r].left = {} /\ request'[r].uses = request[r].uses
  BY <1>1, <1>2 DEF RequestStates
<1>4. UNCHANGED <<tools, executed, applied, doubled, cut>>  BY DEF Resolve, history
<1>5. \A q \in Requests, v \in Uses : AtWork(q, v)' => AtWork(q, v) /\ q # r /\ request'[q] = request[q]
  <2> SUFFICES ASSUME NEW q \in Requests, NEW v \in Uses, AtWork(q, v)'
               PROVE  AtWork(q, v) /\ q # r /\ request'[q] = request[q]
    OBVIOUS
  <2>1. q # r  BY <1>3 DEF AtWork
  <2>2. request'[q] = request[q]  BY <2>1, <1>2
  <2> QED  BY <2>1, <2>2 DEF AtWork
<1>6. \A v \in Uses : pending'[v] = pending[v] \/ (v = u /\ pending'[v] = request[r].verdict)
  <2>1. pending \in [Uses -> {"none", "pending", "applied", "rejected"}]  BY DEF Inv, TypeOK
  <2>2. pending' = [pending EXCEPT ![u] = request[r].verdict] \/ pending' = pending
    BY DEF Resolve
  <2>3. \A v \in Uses : pending' = [pending EXCEPT ![u] = request[r].verdict] =>
            pending'[v] = IF v = u THEN request[r].verdict ELSE pending[v]
    BY <2>1
  <2> HIDE DEF u
  <2> QED  BY <2>2, <2>3
<1>7. u \in Uses => AtWork(r, u)  BY <1>1 DEF AtWork
<1>8. u \in Uses => /\ u <= Len(tools) /\ tools[u] = "write"
                    /\ request[r].verdict \in {"applied", "rejected"}
  BY <1>7 DEF Inv, Cards
<1>9. Asked'
  <2>1. ASSUME NEW v \in Uses, v > Len(tools)
        PROVE  pending'[v] = "none" /\ executed[v] = 0 /\ v \notin applied
    <3>1. Len(tools) \in Nat /\ v \in Nat  BY DEF Inv, TypeOK, Uses
    <3>2. v # u  BY <2>1, <3>1, <1>8
    <3> QED  BY <2>1, <3>2, <1>6 DEF Inv, Asked
  <2>2. \A q \in Requests : \A v \in request'[q].uses : v <= Len(tools)
    BY <1>2, <1>3 DEF Inv, Asked
  <2> QED  BY <2>1, <2>2, <1>4 DEF Asked
<1>10. Cards'
  <2>1. ASSUME NEW v \in Uses, pending'[v] = "pending"
        PROVE  tools[v] = "write"
    BY <2>1, <1>6, <1>8 DEF Inv, Cards
  <2> QED  BY <2>1, <1>4, <1>5 DEF Inv, Cards
<1>11. Staged'
  <2> SUFFICES ASSUME NEW q \in Requests, NEW v \in request'[q].left
               PROVE  /\ request'[q].at = "stage" =>
                            /\ tools[v] = "write" /\ pending'[v] = "none" /\ executed[v] = 0
                            /\ v \notin applied
                            /\ \A p \in Requests : ~AtWork(p, v)'
                            /\ \A p \in Requests \ {q} :
                                  request'[p].at = "stage" => v \notin request'[p].left
                      /\ request'[q].at = "ride" => tools[v] = "read"
    BY <1>4 DEF Staged
  <2>1. q # r /\ request'[q] = request[q] /\ v \in request[q].left  BY <1>2, <1>3
  <2>2. v \in Uses  BY <2>1 DEF Inv, TypeOK, RequestStates
  <2>3. CASE request[q].at = "stage"
    <3>1. /\ tools[v] = "write" /\ pending[v] = "none" /\ executed[v] = 0 /\ v \notin applied
          /\ \A p \in Requests : ~AtWork(p, v)
          /\ \A p \in Requests \ {q} : request[p].at = "stage" => v \notin request[p].left
      BY <2>1, <2>3 DEF Inv, Staged
    <3>2. pending'[v] = "none"  BY <3>1, <2>2, <1>6, <1>7
    <3>3. \A p \in Requests : ~AtWork(p, v)'  BY <3>1, <2>2, <1>5
    <3>4. \A p \in Requests \ {q} : request'[p].at = "stage" => v \notin request'[p].left
      BY <3>1, <1>2, <1>3
    <3> QED  BY <3>1, <3>2, <3>3, <3>4, <2>1, <2>3
  <2>4. CASE request[q].at # "stage"  BY <2>1, <2>4 DEF Inv, Staged
  <2> QED  BY <2>3, <2>4
<1>12. ASSUME NEW v \in Uses, v \notin doubled', "executed" \notin cut'
       PROVE  Single(v)'
  <2>1. Single(v)  BY <1>4, <1>12 DEF Inv, Course
  <2>2. CASE v = u
    <3>1. \A q \in Requests : ~AtWork(q, v)'  BY <2>1, <2>2, <1>5, <1>7 DEF Single
    <3>2. pending[v] \in {"pending", "none"}  BY <2>1, <2>2, <1>7 DEF Single
    <3>3. request[r].verdict = "rejected" => executed[v] = 0  BY <2>1, <2>2, <1>7 DEF Single
    <3>4. executed[v] \in {0, 1}  BY <2>1 DEF Single
    <3>5. executed[v] = 1 => pending'[v] \in {"applied", "none"}
      <4>1. CASE conv = "deleted" /\ pending' = pending
        BY <4>1 DEF Inv, Gone
      <4>2. CASE pending' = [pending EXCEPT ![u] = request[r].verdict]
        <5>1. pending'[v] = request[r].verdict  BY <4>2, <2>2 DEF Inv, TypeOK
        <5> QED  BY <5>1, <3>3, <1>8, <2>2
      <4> QED  BY <4>1, <4>2 DEF Resolve
    <3>6. pending'[v] = "rejected" => executed[v] = 0  BY <2>2, <3>2, <3>3, <1>6
    <3> QED  BY <3>1, <3>4, <3>5, <3>6, <1>4 DEF Single
  <2>3. CASE v # u
    <3>1. pending'[v] = pending[v]  BY <2>3, <1>6
    <3>2. ~AtWork(r, v)  BY <2>3 DEF AtWork
    <3>3. \A q \in Requests : AtWork(q, v) => AtWork(q, v)' /\ request'[q] = request[q]
      BY <3>2, <1>2 DEF AtWork
    <3> QED  BY <2>1, <3>1, <3>3, <1>4, <1>5 DEF Single
  <2> QED  BY <2>2, <2>3
<1> QED  BY <1>9, <1>10, <1>11, <1>12 DEF CardInv, Course

(* A new answer asks for tool uses that have no past.                      *)
LEMMA Received ==
    ASSUME Inv, NEW r \in Requests, Receive(r)
    PROVE  CardInv'
<1>a. PICK n \in 0..(MaxUses - Len(tools)) : \E kinds \in [1..n -> {"read", "write"}] :
         LET asked  == (Len(tools) + 1)..(Len(tools) + n)
             writes == {u \in asked : kinds[u - Len(tools)] = "write"}
         IN /\ tools' = tools \o kinds
            /\ request' = [request EXCEPT
                  ![r].at = CASE n = 0 -> "rest" [] writes = {} -> "feed" [] OTHER -> "stage",
                  ![r].uses = asked,
                  ![r].left = writes]
  BY DEF Receive
<1>b. PICK kinds \in [1..n -> {"read", "write"}] :
         LET asked  == (Len(tools) + 1)..(Len(tools) + n)
             writes == {u \in asked : kinds[u - Len(tools)] = "write"}
         IN /\ tools' = tools \o kinds
            /\ request' = [request EXCEPT
                  ![r].at = CASE n = 0 -> "rest" [] writes = {} -> "feed" [] OTHER -> "stage",
                  ![r].uses = asked,
                  ![r].left = writes]
  BY <1>a
<1> DEFINE asked  == (Len(tools) + 1)..(Len(tools) + n)
           writes == {u \in asked : kinds[u - Len(tools)] = "write"}
           step   == CASE n = 0 -> "rest" [] writes = {} -> "feed" [] OTHER -> "stage"
<1>1. Len(tools) \in Nat /\ tools \in Seq({"read", "write"}) /\ n \in Nat
      /\ Len(tools) + n <= MaxUses
  <2>1. Len(tools) \in Nat /\ Len(tools) <= MaxUses /\ tools \in Seq({"read", "write"})
    BY DEF Inv, TypeOK
  <2> QED  BY <2>1, AgentAssumption
<1>2. /\ Len(tools') = Len(tools) + n
      /\ \A u \in 1..Len(tools) : tools'[u] = tools[u]
      /\ \A u \in asked : tools'[u] = kinds[u - Len(tools)]
  <2>1. kinds \in Seq({"read", "write"}) /\ Len(kinds) = n  BY <1>1, KindsSeq
  <2>2. tools' = tools \o kinds  BY <1>b
  <2>3. /\ Len(tools') = Len(tools) + n
        /\ \A u \in 1..(Len(tools) + n) :
              tools'[u] = IF u <= Len(tools) THEN tools[u] ELSE kinds[u - Len(tools)]
    BY <2>1, <2>2, <1>1, ConcatProperties
  <2>4. \A u \in 1..Len(tools) : u \in 1..(Len(tools) + n) /\ u <= Len(tools)  BY <1>1
  <2>5. \A u \in asked : u \in 1..(Len(tools) + n) /\ ~(u <= Len(tools))  BY <1>1
  <2> QED  BY <2>3, <2>4, <2>5
<1>3. step \in {"rest", "feed", "stage"}
  <2>1. CASE n = 0  BY <2>1
  <2>2. CASE n # 0  BY <2>2
  <2> QED  BY <2>1, <2>2
<1>4. /\ request'[r].at = step /\ request'[r].uses = asked /\ request'[r].left = writes
      /\ \A q \in Requests \ {r} : request'[q] = request[q]
  <2>1. request' = [request EXCEPT ![r].at = step, ![r].uses = asked, ![r].left = writes]
    BY <1>b
  <2>2. request \in [Requests -> RequestStates] /\ request[r] \in RequestStates
    BY DEF Inv, TypeOK
  <2> HIDE DEF step, asked, writes
  <2> QED  BY <2>1, <2>2 DEF RequestStates
<1>5. \A u \in asked : u \in Uses /\ u > Len(tools) /\ u <= Len(tools) + n /\ ~(u <= Len(tools))
  <2>1. MaxUses \in Nat  BY AgentAssumption
  <2> QED  BY <2>1, <1>1 DEF Uses
<1> HIDE DEF step, asked
<1>6. UNCHANGED <<pending, executed, applied, doubled, cut>>  BY DEF Receive, history
<1>7. \A q \in Requests, u \in Uses : AtWork(q, u)' => AtWork(q, u) /\ q # r /\ request'[q] = request[q]
  <2> SUFFICES ASSUME NEW q \in Requests, NEW u \in Uses, AtWork(q, u)'
               PROVE  AtWork(q, u) /\ q # r /\ request'[q] = request[q]
    OBVIOUS
  <2>1. q # r  BY <1>3, <1>4 DEF AtWork
  <2>2. request'[q] = request[q]  BY <2>1, <1>4
  <2> QED  BY <2>1, <2>2 DEF AtWork
<1>8. \A u \in Uses : u <= Len(tools) => tools'[u] = tools[u]  BY <1>1, <1>2 DEF Uses
<1>9. Asked'
  <2>1. ASSUME NEW u \in Uses, u > Len(tools')
        PROVE  pending[u] = "none" /\ executed[u] = 0 /\ u \notin applied
    <3>1. u > Len(tools)  BY <2>1, <1>1, <1>2 DEF Uses
    <3> QED  BY <3>1 DEF Inv, Asked
  <2>2. ASSUME NEW q \in Requests, NEW u \in request'[q].uses
        PROVE  u <= Len(tools')
    <3>1. CASE q = r  BY <2>2, <3>1, <1>2, <1>4, <1>5
    <3>2. CASE q # r
      <4>1. u \in request[q].uses /\ u <= Len(tools)  BY <2>2, <3>2, <1>4 DEF Inv, Asked
      <4>2. u \in Uses  BY <4>1 DEF Inv, TypeOK, RequestStates
      <4> QED  BY <4>1, <4>2, <1>1, <1>2 DEF Uses
    <3> QED  BY <3>1, <3>2
  <2> QED  BY <2>1, <2>2, <1>6 DEF Asked
<1>10. Cards'
  <2>0. \A u \in Uses : ~(u <= Len(tools)) =>
           pending[u] = "none" /\ executed[u] = 0 /\ u \notin applied
    BY <1>1 DEF Inv, Asked, Uses
  <2>1. \A u \in Uses : pending[u] = "pending" => tools'[u] = "write"
    BY <2>0, <1>8 DEF Inv, Cards
  <2>2. \A u \in Uses : executed[u] > 0 => u \in applied /\ tools'[u] = "write"
    BY <2>0, <1>8 DEF Inv, Cards
  <2>3. ASSUME NEW q \in Requests, NEW u \in Uses, AtWork(q, u)'
        PROVE  /\ u <= Len(tools') /\ tools'[u] = "write"
               /\ request'[q].verdict \in {"applied", "rejected"}
               /\ request'[q].at = "execute" => request'[q].verdict = "applied"
               /\ request'[q].verdict = "applied" => u \in applied
    <3>1. AtWork(q, u) /\ request'[q] = request[q]  BY <2>3, <1>7
    <3>2. u <= Len(tools) /\ tools[u] = "write"  BY <3>1 DEF Inv, Cards
    <3>3. u <= Len(tools')  BY <3>2, <1>1, <1>2 DEF Uses
    <3> QED  BY <3>1, <3>2, <3>3, <1>8 DEF Inv, Cards
  <2> QED  BY <2>1, <2>2, <2>3, <1>6 DEF Cards
<1>11. Staged'
  <2> SUFFICES ASSUME NEW q \in Requests, NEW u \in request'[q].left
               PROVE  /\ request'[q].at = "stage" =>
                            /\ tools'[u] = "write" /\ pending[u] = "none" /\ executed[u] = 0
                            /\ u \notin applied
                            /\ \A p \in Requests : ~AtWork(p, u)'
                            /\ \A p \in Requests \ {q} :
                                  request'[p].at = "stage" => u \notin request'[p].left
                      /\ request'[q].at = "ride" => tools'[u] = "read"
    BY <1>6 DEF Staged
  <2>1. \A p \in Requests : \A v \in request[p].left : v \in Uses /\ v <= Len(tools)
    BY DEF Inv, TypeOK, Asked, RequestStates
  <2>2. CASE q = r
    <3>1. u \in asked /\ kinds[u - Len(tools)] = "write"  BY <2>2, <1>4
    <3>2. u \in Uses /\ ~(u <= Len(tools)) /\ tools'[u] = "write"  BY <3>1, <1>2, <1>5
    <3>3. pending[u] = "none" /\ executed[u] = 0 /\ u \notin applied
      BY <3>1, <1>5 DEF Inv, Asked
    <3>4. \A p \in Requests : ~AtWork(p, u)'  BY <3>2, <1>7 DEF Inv, Cards
    <3>5. \A p \in Requests \ {q} : u \notin request'[p].left  BY <2>1, <2>2, <3>2, <1>4
    <3> QED  BY <2>2, <3>2, <3>3, <3>4, <3>5, <1>3, <1>4
  <2>3. CASE q # r
    <3>1. request'[q] = request[q] /\ u \in request[q].left /\ u \in Uses /\ u <= Len(tools)
      BY <2>1, <2>3, <1>4
    <3>2. CASE request[q].at = "stage"
      <4>1. /\ tools[u] = "write" /\ pending[u] = "none" /\ executed[u] = 0 /\ u \notin applied
            /\ \A p \in Requests : ~AtWork(p, u)
            /\ \A p \in Requests \ {q} : request[p].at = "stage" => u \notin request[p].left
        BY <3>1, <3>2 DEF Inv, Staged
      <4>2. \A p \in Requests : ~AtWork(p, u)'  BY <4>1, <3>1, <1>7
      <4>3. u \notin request'[r].left  BY <3>1, <1>4, <1>5
      <4>4. \A p \in Requests \ {q} : request'[p].at = "stage" => u \notin request'[p].left
        BY <4>1, <4>3, <1>4
      <4> QED  BY <4>1, <4>2, <4>4, <3>1, <3>2, <1>8
    <3>3. CASE request[q].at # "stage"  BY <3>1, <3>3, <1>8 DEF Inv, Staged
    <3> QED  BY <3>2, <3>3
  <2> QED  BY <2>2, <2>3
<1>12. ASSUME NEW u \in Uses, u \notin doubled', "executed" \notin cut'
       PROVE  Single(u)'
  <2>1. Single(u)  BY <1>6, <1>12 DEF Inv, Course
  <2>2. request[r].at \notin {"execute", "resolve"}  BY DEF Receive
  <2>3. \A q \in Requests : AtWork(q, u) => AtWork(q, u)' /\ request'[q] = request[q]
    BY <2>2, <1>4 DEF AtWork
  <2> QED  BY <2>1, <2>3, <1>6, <1>7 DEF Single
<1> QED  BY <1>9, <1>10, <1>11, <1>12 DEF CardInv, Course

(* Rows are written by the request of a turn: a card is put up, or the     *)
(* result of a read rides along.                                           *)
LEMMA Written ==
    ASSUME Inv, NEW r \in Requests, NEW u \in request[r].left, NEW status,
           \/ request[r].at = "stage" /\ status = "pending"
           \/ request[r].at = "ride" /\ status = "applied",
           pending' = [pending EXCEPT ![u] = status],
           \/ request'[r].at = request[r].at /\ request'[r].left = request[r].left \ {u}
           \/ request'[r].at = "ride" /\ request'[r].left = Reads(r)
           \/ request'[r].at = "await" /\ request'[r].left = {},
           request'[r].uses = request[r].uses,
           \A q \in Requests \ {r} : request'[q] = request[q],
           UNCHANGED <<tools, executed, applied, doubled, cut>>
    PROVE  CardInv'
<1>1. /\ request[r] \in RequestStates /\ u \in request[r].uses /\ u \in Uses
      /\ u <= Len(tools)
  BY DEF Inv, TypeOK, RequestStates, Asked
<1>2. pending'[u] = status /\ \A v \in Uses \ {u} : pending'[v] = pending[v]
  BY <1>1 DEF Inv, TypeOK
<1>3. tools[u] = IF status = "pending" THEN "write" ELSE "read"
  BY DEF Inv, Staged
<1>4. \A q \in Requests : ~AtWork(q, u)
  <2>1. CASE status = "pending"  BY <2>1 DEF Inv, Staged
  <2>2. CASE status = "applied"  BY <2>2, <1>1, <1>3 DEF Inv, Cards
  <2> QED  BY <2>1, <2>2
<1>5. executed[u] = 0
  <2>1. CASE status = "pending"  BY <2>1 DEF Inv, Staged
  <2>2. CASE status = "applied"
    <3>1. ~(executed[u] > 0)  BY <2>2, <1>1, <1>3 DEF Inv, Cards
    <3>2. executed[u] \in Nat  BY <1>1 DEF Inv, TypeOK
    <3> QED  BY <3>1, <3>2
  <2> QED  BY <2>1, <2>2
<1>6. \A q \in Requests, v \in Uses : AtWork(q, v)' => AtWork(q, v) /\ q # r /\ request'[q] = request[q]
  <2> SUFFICES ASSUME NEW q \in Requests, NEW v \in Uses, AtWork(q, v)'
               PROVE  AtWork(q, v) /\ q # r /\ request'[q] = request[q]
    OBVIOUS
  <2>1. q # r  BY DEF AtWork
  <2>2. request'[q] = request[q]  BY <2>1
  <2> QED  BY <2>1, <2>2 DEF AtWork
<1>7. Asked'
  <2>1. ASSUME NEW v \in Uses, v > Len(tools)
        PROVE  pending'[v] = "none" /\ executed[v] = 0 /\ v \notin applied
    <3>1. Len(tools) \in Nat /\ v \in Nat  BY DEF Inv, TypeOK, Uses
    <3>2. v # u  BY <2>1, <3>1, <1>1
    <3> QED  BY <2>1, <3>2, <1>2 DEF Inv, Asked
  <2>2. \A q \in Requests : \A v \in request'[q].uses : v <= Len(tools)  BY DEF Inv, Asked
  <2> QED  BY <2>1, <2>2 DEF Asked
<1>8. Cards'
  <2>1. ASSUME NEW v \in Uses, pending'[v] = "pending"
        PROVE  tools[v] = "write"
    <3>1. CASE v = u  BY <2>1, <3>1, <1>2, <1>3
    <3>2. CASE v # u  BY <2>1, <3>2, <1>2 DEF Inv, Cards
    <3> QED  BY <3>1, <3>2
  <2> QED  BY <2>1, <1>6 DEF Inv, Cards
<1>9. Staged'
  <2> SUFFICES ASSUME NEW q \in Requests, NEW v \in request'[q].left
               PROVE  /\ request'[q].at = "stage" =>
                            /\ tools[v] = "write" /\ pending'[v] = "none" /\ executed[v] = 0
                            /\ v \notin applied
                            /\ \A p \in Requests : ~AtWork(p, v)'
                            /\ \A p \in Requests \ {q} :
                                  request'[p].at = "stage" => v \notin request'[p].left
                      /\ request'[q].at = "ride" => tools[v] = "read"
    BY DEF Staged
  <2>1. CASE request'[q].at = "stage"
    <3>1. request[q].at = "stage" /\ v \in request[q].left /\ (q = r => v # u)
      BY <2>1
    <3>2. v \in Uses  BY <3>1 DEF Inv, TypeOK, RequestStates
    <3>3. /\ tools[v] = "write" /\ pending[v] = "none" /\ executed[v] = 0 /\ v \notin applied
          /\ \A p \in Requests : ~AtWork(p, v)
          /\ \A p \in Requests \ {q} : request[p].at = "stage" => v \notin request[p].left
      BY <3>1 DEF Inv, Staged
    <3>4. v # u
      <4>1. CASE status = "pending"  BY <4>1, <3>1, <3>3
      <4>2. CASE status = "applied"  BY <4>2, <3>3, <1>3
      <4> QED  BY <4>1, <4>2
    <3>5. \A p \in Requests : ~AtWork(p, v)'  BY <3>2, <3>3, <1>6
    <3>6. \A p \in Requests \ {q} : request'[p].at = "stage" => v \notin request'[p].left
      <4> SUFFICES ASSUME NEW p \in Requests \ {q}, request'[p].at = "stage"
                   PROVE  v \notin request'[p].left
        OBVIOUS
      <4>1. CASE p = r
        <5>1. request[r].at = "stage" /\ request'[r].left = request[r].left \ {u}  BY <4>1
        <5> QED  BY <4>1, <5>1, <3>3
      <4>2. CASE p # r  BY <4>2, <3>3
      <4> QED  BY <4>1, <4>2
    <3> QED  BY <2>1, <3>2, <3>3, <3>4, <3>5, <3>6, <1>2
  <2>2. CASE request'[q].at = "ride"
    <3>1. CASE q # r  BY <2>2, <3>1 DEF Inv, Staged
    <3>2. CASE q = r /\ request[r].at = "ride" /\ request'[r].left = request[r].left \ {u}
      BY <2>2, <3>2 DEF Inv, Staged
    <3>3. CASE q = r /\ request'[r].left = Reads(r)
      <4>1. v \in Reads(r)  BY <3>3
      <4>2. request'[q].at # "stage" /\ tools[v] = "read"  BY <2>2, <4>1 DEF Reads
      <4> QED  BY <4>2
    <3> QED  BY <2>2, <3>1, <3>2, <3>3
  <2> QED  BY <2>1, <2>2
<1>10. ASSUME NEW v \in Uses, v \notin doubled', "executed" \notin cut'
       PROVE  Single(v)'
  <2>1. Single(v)  BY <1>10 DEF Inv, Course
  <2>2. CASE v = u
    <3>1. \A q \in Requests : ~AtWork(q, v)'  BY <2>2, <1>1, <1>4, <1>6
    <3>2. pending'[v] # "rejected"  BY <2>2, <1>2
    <3> QED  BY <2>2, <3>1, <3>2, <1>5 DEF Single
  <2>3. CASE v # u
    <3>1. pending'[v] = pending[v]  BY <2>3, <1>2
    <3>2. \A q \in Requests : AtWork(q, v) => AtWork(q, v)' /\ request'[q] = request[q]
      <4>1. ~AtWork(r, v)  BY DEF AtWork
      <4> QED  BY <4>1 DEF AtWork
    <3> QED  BY <2>1, <3>1, <3>2, <1>6 DEF Single
  <2> QED  BY <2>2, <2>3
<1> QED  BY <1>7, <1>8, <1>9, <1>10 DEF CardInv, Course

LEMMA Deleted ==
    ASSUME Inv, Delete
    PROVE  CardInv'
<1>1. UNCHANGED <<tools, request, executed, applied, doubled, cut>>  BY DEF Delete, history
<1>2. \A u \in Uses : pending'[u] = "none"  BY DEF Delete
<1>3. \A q, u : AtWork(q, u)' <=> AtWork(q, u)  BY <1>1 DEF AtWork
<1>4. \A r \in Requests : \A u \in request[r].left : u \in Uses  BY DEF Inv, TypeOK, RequestStates
<1>5. Asked'  BY <1>1, <1>2 DEF Inv, Asked
<1>6. Cards'  BY <1>1, <1>2, <1>3 DEF Inv, Cards
<1>7. Staged'  BY <1>1, <1>2, <1>3, <1>4 DEF Inv, Staged
<1>8. \A u \in Uses : Single(u) => Single(u)'  BY <1>1, <1>2, <1>3 DEF Single
<1>9. Course'  BY <1>1, <1>8 DEF Inv, Course
<1> QED  BY <1>5, <1>6, <1>7, <1>9 DEF CardInv

(* The steps of a request.                                                 *)
LEMMA Handled ==
    ASSUME Inv, NEW r \in Requests, SendUserMessage(r) \/ Handle(r) \/ CutOff(r)
    PROVE  CardInv'
<1>r. /\ request \in [Requests -> RequestStates] /\ request[r] \in RequestStates
      /\ request[r].at \notin {"stage", "ride"} => request[r].left = {}
      /\ \A u \in request[r].uses : u <= Len(tools)
  BY DEF Inv, TypeOK, LeftOnlyToWrite, Asked
<1>f. Free.at = "free" /\ Free.left = {} /\ Free.uses = {}  BY DEF Free
<1>1. ASSUME Finish(r), UNCHANGED <<tools, pending, executed, applied, doubled>>, cut \subseteq cut',
             request[r].at = "resolve" /\ request[r].verdict = "applied" => "executed" \in cut'
      PROVE  CardInv'
  <2>1. request'[r] = Free /\ \A q \in Requests \ {r} : request'[q] = request[q]
    BY <1>1, <1>r DEF Finish
  <2> QED  BY <1>1, <2>1, <1>f, Aside
<1>2. ASSUME NEW step \in {"say", "think", "send", "receive", "rest"}, Goto(r, step),
             UNCHANGED <<tools, pending, executed, applied, doubled>>, cut \subseteq cut',
             request[r].left = {}, request[r].at # "resolve"
      PROVE  CardInv'
  <2>1. /\ request'[r] = [request[r] EXCEPT !.at = step]
        /\ \A q \in Requests \ {r} : request'[q] = request[q]
    BY <1>2, <1>r DEF Goto
  <2>2. request'[r].at = step /\ request'[r].left = {} /\ request'[r].uses = request[r].uses
    BY <1>2, <2>1, <1>r DEF RequestStates
  <2> QED  BY <1>2, <2>1, <2>2, <1>r, Aside
<1>3. ASSUME NEW x, request' = [request EXCEPT ![r] = x],
             x.at \in {"settle", "think", "rest", "report"}, x.left = {},
             \A u \in x.uses : u <= Len(tools),
             UNCHANGED <<tools, pending, executed, applied, doubled>>, cut \subseteq cut',
             request[r].at # "resolve"
      PROVE  CardInv'
  <2>1. request'[r] = x /\ \A q \in Requests \ {r} : request'[q] = request[q]
    BY <1>3, <1>r
  <2> QED  BY <1>3, <2>1, Aside
<1>4. ASSUME NEW s \in {"idle", "thinking", "awaiting"}, SetState(s)
      PROVE  cut \subseteq cut'
  BY <1>4 DEF SetState
<1>5. CASE SendUserMessage(r)  BY <1>5, <1>2, <1>r DEF SendUserMessage, rows
<1>6. CASE Say(r)  BY <1>6, <1>2, <1>r DEF Say, history
<1>7. CASE Execute(r)  BY <1>7, Executed
<1>8. CASE Resolve(r)  BY <1>8, Resolved
<1>9. CASE List(r)
  <2> DEFINE S == Siblings(request[r].use)
             x == [request[r] EXCEPT !.at = "report", !.uses = S]
  <2>1. /\ request[r].at = "list" /\ UNCHANGED <<tools, pending, executed, applied, doubled, cut>>
    BY <1>9 DEF List, rows, history
  <2>2. CASE Finish(r)  BY <2>1, <2>2, <1>1
  <2>3. CASE request' = [request EXCEPT ![r].at = "report", ![r].uses = S]
    <3>1. \A u \in S : u <= Len(tools)
      <4>1. \A u \in S : u \in Uses /\ pending[u] # "none"
        <5>1. \A i \in 1..Len(messages) : messages[i] \in Messages  BY DEF Inv, TypeOK
        <5>2. \A i \in 1..Len(messages) : messages[i].uses \subseteq Uses  BY <5>1 DEF Messages
        <5> QED  BY <5>2 DEF Siblings, TurnOf
      <4>2. \A u \in Uses : u \in Nat /\ Len(tools) \in Nat  BY DEF Inv, TypeOK, Uses
      <4>3. \A u \in Uses : u > Len(tools) => pending[u] = "none"  BY DEF Inv, Asked
      <4> QED  BY <4>1, <4>2, <4>3
    <3>2. request' = [request EXCEPT ![r] = x]  BY <2>3, <1>r
    <3>3. x.at = "report" /\ x.left = {} /\ x.uses = S  BY <2>1, <1>r DEF RequestStates
    <3> HIDE DEF x, S
    <3> QED  BY <2>1, <3>1, <3>2, <3>3, <1>3
  <2> QED  BY <1>9, <2>2, <2>3 DEF List
<1>10. CASE Report(r)
  <2> DEFINE x == [Free EXCEPT !.at = "settle"]
  <2>1. x.at = "settle" /\ x.left = {} /\ x.uses = {}  BY DEF Free
  <2>2. request' = [request EXCEPT ![r] = x] /\ request[r].at = "report"
        /\ UNCHANGED <<tools, pending, executed, applied, doubled, cut>>
    BY <1>10 DEF Report, history
  <2> HIDE DEF x
  <2> QED  BY <2>1, <2>2, <1>3
<1>11. CASE Settle(r)
  <2> DEFINE x == [Free EXCEPT !.at = "think"]
  <2>1. x.at = "think" /\ x.left = {} /\ x.uses = {}  BY DEF Free
  <2>2. request' = [request EXCEPT ![r] = x] /\ request[r].at = "settle" /\ SetState("idle")
        /\ UNCHANGED <<tools, pending, executed, applied, doubled>>
    BY <1>11 DEF Settle
  <2> HIDE DEF x
  <2> QED  BY <2>1, <2>2, <1>3, <1>4
<1>12. CASE Think(r)
  <2>1. request[r].at = "think" /\ SetState("thinking") /\ Goto(r, "send")
        /\ UNCHANGED <<tools, pending, executed, applied, doubled>>
    BY <1>12 DEF Think
  <2> QED  BY <2>1, <1>2, <1>4, <1>r
<1>13. CASE Send(r)
  <2>1. request[r].at = "send" /\ (Goto(r, "receive") \/ Goto(r, "rest"))
        /\ UNCHANGED <<tools, pending, executed, applied, doubled, cut>>
    BY <1>13 DEF Send, rows, history
  <2> QED  BY <2>1, <1>2, <1>r
<1>14. CASE Receive(r)  BY <1>14, Received
<1>15. CASE Stage(r)
  <2>1. PICK u \in request[r].left :
           LET left == request[r].left \ {u}
           IN /\ pending' = [pending EXCEPT ![u] = "pending"]
              /\ request' = IF left # {} THEN [request EXCEPT ![r].left = left]
                            ELSE [request EXCEPT ![r].left = Reads(r),
                                     ![r].at = IF Reads(r) = {} THEN "await" ELSE "ride"]
    BY <1>15 DEF Stage
  <2>2. /\ request[r].at = "stage"
        /\ UNCHANGED <<tools, executed, applied, doubled, cut>>
    BY <1>15 DEF Stage, history
  <2>3. /\ \/ request'[r].at = request[r].at /\ request'[r].left = request[r].left \ {u}
           \/ request'[r].at = "ride" /\ request'[r].left = Reads(r)
           \/ request'[r].at = "await" /\ request'[r].left = {}
        /\ request'[r].uses = request[r].uses
        /\ \A q \in Requests \ {r} : request'[q] = request[q]
    BY <2>1, <1>r DEF RequestStates
  <2> QED  BY <2>1, <2>2, <2>3, Written
<1>16. CASE Ride(r)
  <2>1. PICK u \in request[r].left :
           LET left == request[r].left \ {u}
           IN /\ pending' = [pending EXCEPT ![u] = "applied"]
              /\ request' = [request EXCEPT ![r].left = left, ![r].at = IF left = {} THEN "await" ELSE @]
    BY <1>16 DEF Ride
  <2>2. /\ request[r].at = "ride"
        /\ UNCHANGED <<tools, executed, applied, doubled, cut>>
    BY <1>16 DEF Ride, history
  <2>3. /\ \/ request'[r].at = request[r].at /\ request'[r].left = request[r].left \ {u}
           \/ request'[r].at = "await" /\ request'[r].left = {}
        /\ request'[r].uses = request[r].uses
        /\ \A q \in Requests \ {r} : request'[q] = request[q]
    BY <2>1, <1>r DEF RequestStates
  <2> QED  BY <2>1, <2>2, <2>3, Written
<1>17. CASE Await(r)
  <2>1. Finish(r) /\ SetState("awaiting") /\ request[r].at = "await"
        /\ UNCHANGED <<tools, pending, executed, applied, doubled>>
    BY <1>17 DEF Await
  <2> QED  BY <2>1, <1>1, <1>4
<1>18. CASE Feed(r)
  <2> DEFINE x == IF TripsLeft(r)
                  THEN [Free EXCEPT !.at = "think", !.trips = request[r].trips + 1]
                  ELSE [Free EXCEPT !.at = "rest"]
  <2>1. x.at \in {"think", "rest"} /\ x.left = {} /\ x.uses = {}  BY DEF Free
  <2>2. request' = [request EXCEPT ![r] = x] /\ request[r].at = "feed"
        /\ UNCHANGED <<tools, pending, executed, applied, doubled, cut>>
    BY <1>18 DEF Feed, history
  <2> HIDE DEF x
  <2> QED  BY <2>1, <2>2, <1>3
<1>19. CASE Rest(r)
  <2>1. Finish(r) /\ SetState("idle") /\ request[r].at = "rest"
        /\ UNCHANGED <<tools, pending, executed, applied, doubled>>
    BY <1>19 DEF Rest
  <2> QED  BY <2>1, <1>1, <1>4
<1>20. CASE CutOff(r)
  <2>1. Finish(r) /\ cut' = cut \cup {Phase(request[r])}
        /\ UNCHANGED <<tools, pending, executed, applied, doubled>>
    BY <1>20 DEF CutOff, rows
  <2>2. request[r].at = "resolve" /\ request[r].verdict = "applied" => Phase(request[r]) = "executed"
    BY DEF Phase
  <2> QED  BY <2>1, <2>2, <1>1
<1>21. CASE Refused(r)
  <2>1. Finish(r) /\ request[r].at # "resolve"
        /\ UNCHANGED <<tools, pending, executed, applied, doubled, cut>>
    BY <1>21 DEF Refused, rows, history
  <2> QED  BY <2>1, <1>1
<1> QED
  BY <1>5, <1>6, <1>7, <1>8, <1>9, <1>10, <1>11, <1>12, <1>13, <1>14, <1>15, <1>16, <1>17,
     <1>18, <1>19, <1>20, <1>21 DEF Handle

(* Rows of a deleted conversation do not come back.                        *)
LEMMA GoneStep ==
    ASSUME Inv, [Next]_vars
    PROVE  Gone'
<1>1. CASE UNCHANGED vars  BY <1>1 DEF vars, rows, Inv, Gone
<1>2. CASE Delete  BY <1>2 DEF Delete, Gone
<1>3. ASSUME NEW r \in Requests, Resolve(r)
      PROVE  Gone'
  BY <1>3 DEF Resolve, Inv, Gone
<1>4. ASSUME NEW r \in Requests, Stage(r) \/ Ride(r)
      PROVE  Gone'
  <2>1. conv # "deleted" /\ conv' = conv  BY <1>4 DEF Stage, Ride
  <2> QED  BY <2>1 DEF Gone
<1>5. ASSUME NEW r \in Requests, Think(r) \/ Settle(r) \/ Await(r) \/ Rest(r)
      PROVE  Gone'
  <2>1. pending' = pending /\ \E s \in {"idle", "thinking", "awaiting"} : SetState(s)
    BY <1>5 DEF Think, Settle, Await, Rest
  <2>2. conv' = "deleted" => conv = "deleted"  BY <2>1 DEF SetState
  <2> QED  BY <2>1, <2>2 DEF Inv, Gone
<1>6. ASSUME NEW r \in Requests,
             \/ SendUserMessage(r) \/ Say(r) \/ Execute(r) \/ List(r) \/ Report(r) \/ Send(r)
             \/ Receive(r) \/ Feed(r) \/ CutOff(r) \/ Refused(r)
             \/ \E u \in Uses, verdict \in {"applied", "rejected"} : ResolvePendingAction(r, u, verdict)
      PROVE  Gone'
  <2>1. pending' = pending /\ conv' = conv
    BY <1>6 DEF SendUserMessage, Say, Execute, List, Report, Send, Receive, Feed, CutOff, Refused,
                ResolvePendingAction, rows
  <2> QED  BY <2>1 DEF Inv, Gone
<1> QED  BY <1>1, <1>2, <1>3, <1>4, <1>5, <1>6 DEF Next, Handle
-------------------------------------------------------------------------------
LEMMA InvInit == Init => Inv
<1> SUFFICES ASSUME Init PROVE Inv  OBVIOUS
<1>1. TypeOK /\ LeftOnlyToWrite  BY TypeInit
<1>2. \A r \in Requests : request[r] = Free  BY DEF Init
<1>3. Free.at = "free" /\ Free.left = {} /\ Free.uses = {}  BY DEF Free
<1>4. \A r \in Requests : request[r].at = "free" /\ request[r].left = {} /\ request[r].uses = {}
  BY <1>2, <1>3
<1>5. \A u \in Uses : pending[u] = "none" /\ executed[u] = 0 /\ u \notin applied  BY DEF Init
<1>6. \A q \in Requests : \A u : ~AtWork(q, u)  BY <1>4 DEF AtWork
<1>7. Asked /\ Staged /\ Gone  BY <1>4, <1>5 DEF Asked, Staged, Gone
<1>8. Cards  BY <1>5, <1>6 DEF Cards
<1>9. Course  BY <1>5, <1>6 DEF Course, Single
<1> QED  BY <1>1, <1>7, <1>8, <1>9 DEF Inv

LEMMA InvStep ==
    ASSUME Inv, [Next]_vars
    PROVE  Inv'
<1>1. TypeOK' /\ LeftOnlyToWrite'  BY TypeStep DEF Inv
<1>2. Gone'  BY GoneStep
<1>3. CASE UNCHANGED vars
  <2>1. \A q, u : AtWork(q, u)' <=> AtWork(q, u)  BY <1>3 DEF AtWork, vars
  <2>2. Asked' /\ Staged' /\ Cards'
    BY <1>3, <2>1 DEF Inv, Asked, Staged, Cards, vars, rows, history
  <2>3. \A u \in Uses : Single(u) => Single(u)'  BY <1>3, <2>1 DEF Single, vars, rows, history
  <2>4. Course'  BY <1>3, <2>3 DEF Inv, Course, vars, history
  <2> QED  BY <1>1, <1>2, <2>2, <2>4 DEF Inv
<1>4. ASSUME Next
      PROVE  CardInv'
  BY <1>4, Handled, Clicked, Deleted DEF Next
<1>5. CASE Next  BY <1>1, <1>2, <1>4, <1>5 DEF Inv, CardInv
<1> QED  BY <1>3, <1>5

LEMMA InvImplies == Inv => AppliedOnce
<1> SUFFICES ASSUME Inv, NEW u \in Uses
             PROVE  /\ executed[u] > 0 => u \in applied /\ tools[u] = "write"
                    /\ u \notin doubled /\ "executed" \notin cut =>
                          /\ executed[u] <= 1
                          /\ pending[u] = "rejected" => executed[u] = 0
  BY DEF AppliedOnce
<1>1. executed[u] > 0 => u \in applied /\ tools[u] = "write"  BY DEF Inv, Cards
<1>2. u \notin doubled /\ "executed" \notin cut => Single(u)  BY DEF Inv, Course
<1> QED  BY <1>1, <1>2 DEF Single

(* Nothing is carried out that was not applied, and nothing twice, however *)
(* many requests, messages and tool uses interleave.                       *)
THEOREM AppliedExactlyOnce == Spec => []AppliedOnce
<1>1. Inv /\ [Next]_vars => Inv'  BY InvStep
<1> QED  BY <1>1, InvInit, InvImplies, PTL DEF Spec
-------------------------------------------------------------------------------
(* The conversation.  When nothing crossed, one request is under way, and  *)
(* its place says how the transcript ends and which cards are open.        *)
Calm == ~crossed /\ ~paired /\ cut \cap {"answer", "state"} = {}

(* Message i of a transcript is answered, or answers the one before it.    *)
Answered(ms, i) ==
    ms[i].uses # {} =>
        IF ms[i].role = "assistant"
        THEN i < Len(ms) /\ ms[i + 1] = [role |-> "user", uses |-> ms[i].uses]
        ELSE i > 1 /\ ms[i - 1] = [role |-> "assistant", uses |-> ms[i].uses]

(* All is answered but the last message, which asks for the tool uses U.   *)
Asking(U) ==
    /\ Len(messages) > 0 /\ messages[Len(messages)] = [role |-> "assistant", uses |-> U]
    /\ \A i \in 1..(Len(messages) - 1) : Answered(messages, i)

Bare   == \A u \in Uses : pending[u] # "pending"
Closed == Accepted(messages) /\ Bare
Within(U) == \A u \in Uses : pending[u] = "pending" => u \in U
Waiting(U) == Asking(U) /\ Within(U) /\ \A u \in U : pending[u] # "none"

(* The tool uses of two answers differ, and each has its kind.             *)
Fresh ==
    /\ \A i \in 1..Len(messages) : \A u \in messages[i].uses : u <= Len(tools)
    /\ \A i, j \in 1..Len(messages) :
          messages[i].role = "assistant" /\ messages[j].role = "assistant" /\ i # j =>
              messages[i].uses \cap messages[j].uses = {}

Before == {"say", "think", "send", "receive", "rest"}
Writing == {"stage", "ride", "await"}
Handling == {"execute", "resolve", "list"}

InTurn(r) ==
    /\ request[r].at \in Before => Closed
    /\ request[r].at = "feed" => Asking(request[r].uses) /\ Bare
    /\ request[r].at \in Writing =>
          /\ Asking(request[r].uses) /\ Within(request[r].uses)
          /\ \A u \in request[r].uses :
                \/ pending[u] # "none" \/ u \in request[r].left
                \/ request[r].at = "stage" /\ tools[u] = "read"
    /\ request[r].at \in Handling =>
          conv = "awaiting" /\ \E U \in SUBSET Uses : Waiting(U) /\ request[r].use \in U
    /\ request[r].at = "report" => conv = "awaiting" /\ Asking(request[r].uses) /\ Bare
    /\ request[r].at = "settle" => conv = "awaiting" /\ Closed

Restful ==
    /\ conv \in {"idle", "thinking"} => Closed
    /\ conv = "awaiting" => Bare \/ \E U \in SUBSET Uses : Waiting(U)
Resting == Quiet => Restful

Lone == \A p, q \in Requests : request[p].at # "free" /\ request[q].at # "free" => p = q

Conversation ==
    /\ conv = "deleted" => messages = <<>>
    /\ Calm => /\ Lone
               /\ conv # "deleted" => Resting /\ \A r \in Requests : InTurn(r)

(* While a turn writes its cards, those it has written are open and no     *)
(* click is on them, and there is at least one to write.                   *)
Offered ==
    ~crossed /\ conv # "deleted" =>
        \A r \in Requests : request[r].at \in Writing =>
            /\ \E u \in request[r].uses : tools[u] = "write"
            /\ \A u \in request[r].uses : tools[u] = "write" =>
                  \/ request[r].at = "stage" /\ u \in request[r].left
                  \/ pending[u] = "pending" /\ \A q \in Requests : ~AtWork(q, u)

(* A conversation waits for a card, or for the one who closed the last.    *)
Unstuck ==
    conv = "awaiting" /\ ~crossed /\ cut \cap {"results", "state"} = {} =>
        \/ \E u \in Uses : pending[u] = "pending"
        \/ \E r \in Requests : request[r].at \in {"list", "report", "settle"}

TurnInv == Inv /\ Fresh /\ Conversation /\ Offered /\ Unstuck

(* A message that asks for nothing leaves a transcript whole.              *)
LEMMA PlainMessage ==
    ASSUME messages \in Seq(Messages), NEW role \in {"user", "assistant"}, Accepted(messages),
           messages' = Append(messages, [role |-> role, uses |-> {}])
    PROVE  Accepted(messages)'
<1> DEFINE n == Len(messages)
           msg == [role |-> role, uses |-> {}]
<1>1. n \in Nat /\ Len(messages') = n + 1 /\ messages'[n + 1] = msg
      /\ \A i \in 1..n : messages'[i] = messages[i]
  <2>1. msg \in Messages  BY DEF Messages
  <2> QED  BY <2>1, AppendProperties
<1>2. ASSUME NEW i \in 1..(n + 1) PROVE Answered(messages', i)
  <2>1. CASE i = n + 1  BY <1>1, <2>1 DEF Answered
  <2>2. CASE i \in 1..n
    <3>1. Answered(messages, i)  BY <2>2 DEF Accepted, Answered
    <3>2. messages'[i] = messages[i]  BY <1>1, <2>2
    <3>3. i < n => i + 1 \in 1..n /\ messages'[i + 1] = messages[i + 1]  BY <1>1, <2>2
    <3>4. i > 1 => i - 1 \in 1..n /\ messages'[i - 1] = messages[i - 1]  BY <1>1, <2>2
    <3>5. i < n => i < n + 1  BY <1>1, <2>2
    <3> QED  BY <1>1, <3>1, <3>2, <3>3, <3>4, <3>5 DEF Answered
  <2> QED  BY <1>1, <2>1, <2>2
<1> HIDE DEF n
<1> QED  BY <1>1, <1>2 DEF Accepted, Answered

(* An answer of the model asks for its tool uses.                          *)
LEMMA AnswerAsks ==
    ASSUME messages \in Seq(Messages), NEW U \in SUBSET Uses, Accepted(messages),
           messages' = Append(messages, [role |-> "assistant", uses |-> U])
    PROVE  Asking(U)'
<1> DEFINE n == Len(messages)
           msg == [role |-> "assistant", uses |-> U]
<1>1. n \in Nat /\ Len(messages') = n + 1 /\ messages'[n + 1] = msg
      /\ \A i \in 1..n : messages'[i] = messages[i]
  <2>1. msg \in Messages  BY DEF Messages
  <2> QED  BY <2>1, AppendProperties
<1>2. ASSUME NEW i \in 1..n PROVE Answered(messages', i)
  <2>1. Answered(messages, i)  BY DEF Accepted, Answered
  <2>2. messages'[i] = messages[i]  BY <1>1
  <2>3. i < n => i + 1 \in 1..n /\ messages'[i + 1] = messages[i + 1]  BY <1>1
  <2>4. i > 1 => i - 1 \in 1..n /\ messages'[i - 1] = messages[i - 1]  BY <1>1
  <2>5. i < n => i < n + 1  BY <1>1
  <2> QED  BY <1>1, <2>1, <2>2, <2>3, <2>4, <2>5 DEF Answered
<1>3. (n + 1) - 1 = n /\ n + 1 > 0  BY <1>1
<1> HIDE DEF n
<1> QED  BY <1>1, <1>2, <1>3 DEF Asking

(* The results of all its tool uses make it whole again.                   *)
LEMMA ResultsAnswer ==
    ASSUME messages \in Seq(Messages), NEW U \in SUBSET Uses, Asking(U),
           messages' = Append(messages, [role |-> "user", uses |-> U])
    PROVE  Accepted(messages)'
<1> DEFINE n == Len(messages)
           msg == [role |-> "user", uses |-> U]
<1>1. n \in Nat /\ Len(messages') = n + 1 /\ messages'[n + 1] = msg
      /\ \A i \in 1..n : messages'[i] = messages[i]
  <2>1. msg \in Messages  BY DEF Messages
  <2> QED  BY <2>1, AppendProperties
<1>0. n > 0 /\ messages[n] = [role |-> "assistant", uses |-> U] /\ n \in 1..n
      /\ \A i \in 1..(n - 1) : Answered(messages, i)
  BY <1>1 DEF Asking
<1>2. ASSUME NEW i \in 1..(n + 1) PROVE Answered(messages', i)
  <2>1. CASE i = n + 1
    <3>1. i > 1 /\ i - 1 = n  BY <1>0, <1>1, <2>1
    <3>2. messages'[i - 1] = [role |-> "assistant", uses |-> U]  BY <1>0, <1>1, <3>1
    <3>3. messages'[i].role = "user" /\ messages'[i].uses = U  BY <1>1, <2>1
    <3> QED  BY <3>1, <3>2, <3>3 DEF Answered
  <2>2. CASE i = n
    <3>1. messages'[i] = [role |-> "assistant", uses |-> U] /\ i < n + 1
      BY <1>0, <1>1, <2>2
    <3> QED  BY <1>1, <2>2, <3>1 DEF Answered
  <2>3. CASE i \in 1..(n - 1)
    <3>1. Answered(messages, i)  BY <1>0, <2>3
    <3>2. messages'[i] = messages[i]  BY <1>1, <2>3
    <3>3. i < n => i + 1 \in 1..n /\ messages'[i + 1] = messages[i + 1]  BY <1>1, <2>3
    <3>4. i > 1 => i - 1 \in 1..n /\ messages'[i - 1] = messages[i - 1]  BY <1>1, <2>3
    <3>5. i < n => i < n + 1  BY <1>1, <2>3
    <3> QED  BY <1>1, <3>1, <3>2, <3>3, <3>4, <3>5 DEF Answered
  <2> QED  BY <1>1, <2>1, <2>2, <2>3
<1> HIDE DEF n
<1> QED  BY <1>1, <1>2 DEF Accepted, Answered

(* The rows of the turn of a tool use that the last answer asks for.       *)
LEMMA LastTurn ==
    ASSUME TypeOK, Fresh, NEW U \in SUBSET Uses, Waiting(U), NEW u \in U
    PROVE  Siblings(u) = U
<1> DEFINE n == Len(messages)
<1>1. n \in 1..n /\ messages[n].role = "assistant" /\ messages[n].uses = U
  BY DEF Waiting, Asking, TypeOK
<1>2. {i \in 1..n : messages[i].role = "assistant" /\ u \in messages[i].uses} = {n}
  BY <1>1 DEF Fresh
<1>3. TurnOf(u) = U
  <2>1. TurnOf(u) = UNION {messages[i].uses : i \in {n}}  BY <1>2 DEF TurnOf
  <2> QED  BY <1>1, <2>1
<1> QED  BY <1>3 DEF Siblings, Waiting

(* An answer: what the model asks for is new, and its writes are left.     *)
LEMMA Answers ==
    ASSUME TypeOK, NEW r \in Requests, Receive(r)
    PROVE  LET x == request'[r]
           IN /\ Insert("assistant", x.uses) /\ x.uses \subseteq Uses
              /\ x.at \in {"rest", "feed", "stage"}
              /\ x.at = "rest" => x.uses = {}
              /\ x.at = "stage" => x.left # {}
              /\ x.left = {u \in x.uses : tools'[u] = "write"}
              /\ x.uses = {u \in Uses : u > Len(tools) /\ u <= Len(tools')}
              /\ Len(tools') \in Nat /\ Len(tools) <= Len(tools')
              /\ \A u \in Uses : u <= Len(tools) => tools'[u] = tools[u]
              /\ \A u \in x.uses : tools'[u] \in {"read", "write"}
              /\ \A q \in Requests \ {r} : request'[q] = request[q]
<1>a. PICK n \in 0..(MaxUses - Len(tools)) : \E kinds \in [1..n -> {"read", "write"}] :
         LET asked  == (Len(tools) + 1)..(Len(tools) + n)
             writes == {u \in asked : kinds[u - Len(tools)] = "write"}
         IN /\ Insert("assistant", asked)
            /\ tools' = tools \o kinds
            /\ request' = [request EXCEPT
                  ![r].at = CASE n = 0 -> "rest" [] writes = {} -> "feed" [] OTHER -> "stage",
                  ![r].uses = asked,
                  ![r].left = writes]
  BY DEF Receive
<1>b. PICK kinds \in [1..n -> {"read", "write"}] :
         LET asked  == (Len(tools) + 1)..(Len(tools) + n)
             writes == {u \in asked : kinds[u - Len(tools)] = "write"}
         IN /\ Insert("assistant", asked)
            /\ tools' = tools \o kinds
            /\ request' = [request EXCEPT
                  ![r].at = CASE n = 0 -> "rest" [] writes = {} -> "feed" [] OTHER -> "stage",
                  ![r].uses = asked,
                  ![r].left = writes]
  BY <1>a
<1> DEFINE asked  == (Len(tools) + 1)..(Len(tools) + n)
           writes == {u \in asked : kinds[u - Len(tools)] = "write"}
           step   == CASE n = 0 -> "rest" [] writes = {} -> "feed" [] OTHER -> "stage"
<1>1. Len(tools) \in Nat /\ tools \in Seq({"read", "write"}) /\ n \in Nat
      /\ Len(tools) + n <= MaxUses /\ MaxUses \in Nat
  <2>1. Len(tools) \in Nat /\ Len(tools) <= MaxUses /\ tools \in Seq({"read", "write"})
    BY DEF TypeOK
  <2> QED  BY <2>1, AgentAssumption
<1>2. /\ Len(tools') = Len(tools) + n
      /\ \A u \in 1..Len(tools) : tools'[u] = tools[u]
      /\ \A u \in asked : tools'[u] = kinds[u - Len(tools)] /\ tools'[u] \in {"read", "write"}
  <2>1. kinds \in Seq({"read", "write"}) /\ Len(kinds) = n  BY <1>1, KindsSeq
  <2>2. tools' = tools \o kinds  BY <1>b
  <2>3. /\ Len(tools') = Len(tools) + n
        /\ \A u \in 1..(Len(tools) + n) :
              tools'[u] = IF u <= Len(tools) THEN tools[u] ELSE kinds[u - Len(tools)]
    BY <2>1, <2>2, <1>1, ConcatProperties
  <2>4. \A u \in 1..Len(tools) : u \in 1..(Len(tools) + n) /\ u <= Len(tools)  BY <1>1
  <2>5. \A u \in asked : u \in 1..(Len(tools) + n) /\ ~(u <= Len(tools)) /\ u - Len(tools) \in 1..n
    BY <1>1
  <2> QED  BY <2>3, <2>4, <2>5
<1>3. /\ step \in {"rest", "feed", "stage"}
      /\ step = "rest" => n = 0
      /\ step = "stage" => writes # {}
  <2>1. CASE n = 0  BY <2>1
  <2>2. CASE n # 0 /\ writes = {}  BY <2>2
  <2>3. CASE n # 0 /\ writes # {}  BY <2>3
  <2> QED  BY <2>1, <2>2, <2>3
<1>4. /\ request'[r].at = step /\ request'[r].uses = asked /\ request'[r].left = writes
      /\ \A q \in Requests \ {r} : request'[q] = request[q]
  <2>1. request' = [request EXCEPT ![r].at = step, ![r].uses = asked, ![r].left = writes]
    BY <1>b
  <2>2. request \in [Requests -> RequestStates] /\ request[r] \in RequestStates
    BY DEF TypeOK
  <2> HIDE DEF step, asked, writes
  <2> QED  BY <2>1, <2>2 DEF RequestStates
<1>5. asked = {u \in Uses : u > Len(tools) /\ u <= Len(tools')}
  BY <1>1, <1>2 DEF Uses
<1>6. n = 0 => asked = {}  BY <1>1
<1>7. writes = {u \in asked : tools'[u] = "write"}  BY <1>2
<1>8. Len(tools') \in Nat /\ Len(tools) <= Len(tools')  BY <1>1, <1>2
<1>9. \A u \in Uses : u <= Len(tools) => u \in 1..Len(tools)  BY <1>1 DEF Uses
<1>10. Insert("assistant", asked)  BY <1>b
<1> HIDE DEF asked, writes, step
<1> QED  BY <1>2, <1>3, <1>4, <1>5, <1>6, <1>7, <1>8, <1>9, <1>10

(* What only grows, and what is over once the conversation is gone.        *)
LEMMA Marks ==
    ASSUME TypeOK, [Next]_vars
    PROVE  /\ crossed => crossed'
           /\ paired => paired'
           /\ cut \subseteq cut'
           /\ conv = "deleted" => conv' = "deleted" /\ (messages = <<>> => messages' = <<>>)
           /\ conv' = "deleted" => conv = "deleted" \/ messages' = <<>>
<1>1. CASE UNCHANGED vars  BY <1>1 DEF vars, rows, history
<1>2. CASE Delete  BY <1>2 DEF Delete, history
<1>3. ASSUME NEW r \in Requests, Think(r) \/ Settle(r) \/ Await(r) \/ Rest(r)
      PROVE  /\ UNCHANGED <<crossed, paired, messages>> /\ cut \subseteq cut'
             /\ conv' = "deleted" <=> conv = "deleted"
  <2>1. UNCHANGED <<crossed, paired, messages>> /\ \E s \in {"idle", "thinking", "awaiting"} : SetState(s)
    BY <1>3 DEF Think, Settle, Await, Rest
  <2> QED  BY <2>1 DEF SetState
<1>4. ASSUME NEW r \in Requests, Say(r) \/ Report(r) \/ Receive(r) \/ Feed(r)
      PROVE  UNCHANGED <<crossed, paired, cut, conv>> /\ conv # "deleted"
  BY <1>4 DEF Say, Report, Receive, Feed, Insert, history
<1>5. ASSUME NEW r \in Requests,
             Execute(r) \/ Resolve(r) \/ List(r) \/ Send(r) \/ Stage(r) \/ Ride(r) \/ Refused(r)
      PROVE  UNCHANGED <<crossed, paired, cut, conv, messages>>
  BY <1>5 DEF Execute, Resolve, List, Send, Stage, Ride, Refused, rows, history
<1>6. ASSUME NEW r \in Requests, CutOff(r)
      PROVE  UNCHANGED <<crossed, paired, conv, messages>> /\ cut \subseteq cut'
  BY <1>6 DEF CutOff, rows
<1>7. ASSUME NEW r \in Requests, SendUserMessage(r)
      PROVE  UNCHANGED <<paired, cut, conv, messages>> /\ (crossed => crossed')
  BY <1>7 DEF SendUserMessage, rows
<1>8. ASSUME NEW r \in Requests, NEW u \in Uses, NEW verdict \in {"applied", "rejected"},
             ResolvePendingAction(r, u, verdict)
      PROVE  UNCHANGED <<cut, conv, messages>> /\ (crossed => crossed') /\ (paired => paired')
  BY <1>8 DEF ResolvePendingAction, rows
<1> QED  BY <1>1, <1>2, <1>3, <1>4, <1>5, <1>6, <1>7, <1>8 DEF Next, Handle

LEMMA NextFresh ==
    ASSUME Inv, Fresh, [Next]_vars
    PROVE  Fresh'
<1> USE DEF Inv
<1>1. ASSUME UNCHANGED messages, UNCHANGED tools PROVE Fresh'  BY <1>1 DEF Fresh
<1>2. ASSUME messages' = <<>> PROVE Fresh'  BY <1>2 DEF Fresh
<1>3. ASSUME NEW U \in SUBSET Uses, NEW role \in {"user", "assistant"},
             messages' = Append(messages, [role |-> role, uses |-> U]),
             \A u \in U : u <= Len(tools'),
             \A u \in Uses : u <= Len(tools) => u <= Len(tools'),
             role = "assistant" => \A u \in U : ~(u <= Len(tools))
      PROVE  Fresh'
  <2> DEFINE n == Len(messages)
             msg == [role |-> role, uses |-> U]
  <2>1. n \in Nat /\ Len(messages') = n + 1 /\ messages'[n + 1] = msg
        /\ \A i \in 1..n : messages'[i] = messages[i] /\ messages[i].uses \subseteq Uses
    <3>1. msg \in Messages /\ messages \in Seq(Messages)  BY DEF Messages, TypeOK
    <3>2. \A i \in 1..n : messages[i] \in Messages  BY <3>1
    <3> QED  BY <1>3, <3>1, <3>2, AppendProperties DEF Messages
  <2>2. \A i \in 1..(n + 1) : i \in 1..n \/ i = n + 1  BY <2>1
  <2>3. messages'[n + 1].uses = U /\ messages'[n + 1].role = role  BY <2>1
  <2> HIDE DEF n
  <2>4. ASSUME NEW i \in 1..(n + 1), NEW u \in messages'[i].uses PROVE u <= Len(tools')
    <3>1. CASE i = n + 1  BY <1>3, <2>3, <2>4, <3>1
    <3>2. CASE i \in 1..n
      <4>1. u \in messages[i].uses /\ u \in Uses  BY <2>1, <2>4, <3>2
      <4>2. u <= Len(tools)  BY <3>2, <4>1 DEF Fresh, n
      <4> QED  BY <1>3, <4>1, <4>2
    <3> QED  BY <2>2, <3>1, <3>2
  <2>5. ASSUME NEW i \in 1..n, messages'[i].role = "assistant", role = "assistant"
        PROVE  messages'[i].uses \cap U = {}
    <3>1. \A u \in messages'[i].uses : u <= Len(tools)  BY <2>1, <2>5 DEF Fresh, n
    <3> QED  BY <1>3, <2>5, <3>1
  <2>6. ASSUME NEW i \in 1..(n + 1), NEW j \in 1..(n + 1),
               messages'[i].role = "assistant", messages'[j].role = "assistant", i # j
        PROVE  messages'[i].uses \cap messages'[j].uses = {}
    <3>1. CASE i \in 1..n /\ j \in 1..n  BY <2>1, <2>6, <3>1 DEF Fresh, n
    <3>2. CASE i = n + 1  BY <2>2, <2>3, <2>5, <2>6, <3>2
    <3>3. CASE j = n + 1  BY <2>2, <2>3, <2>5, <2>6, <3>3
    <3> QED  BY <2>2, <3>1, <3>2, <3>3
  <2> QED  BY <2>1, <2>4, <2>6 DEF Fresh
<1>4. CASE UNCHANGED vars  BY <1>1, <1>4 DEF vars, rows
<1>5. CASE Delete  BY <1>2, <1>5 DEF Delete
<1>6. ASSUME NEW r \in Requests,
             \/ SendUserMessage(r) \/ Execute(r) \/ Resolve(r) \/ List(r) \/ Settle(r) \/ Think(r)
             \/ Send(r) \/ Stage(r) \/ Ride(r) \/ Await(r) \/ Rest(r) \/ CutOff(r) \/ Refused(r)
             \/ \E u \in Uses, verdict \in {"applied", "rejected"} : ResolvePendingAction(r, u, verdict)
      PROVE  UNCHANGED messages /\ UNCHANGED tools
  BY <1>6 DEF SendUserMessage, Execute, Resolve, List, Settle, Think, Send, Stage, Ride, Await,
     Rest, CutOff, Refused, ResolvePendingAction, rows
<1>7. ASSUME NEW r \in Requests, Say(r) \/ Report(r) \/ Feed(r) PROVE Fresh'
  <2>1. request[r].uses \in SUBSET Uses /\ \A u \in request[r].uses : u <= Len(tools)
    BY DEF TypeOK, RequestStates, Asked
  <2>2. tools' = tools /\ \E U \in {{}, request[r].uses} :
                             messages' = Append(messages, [role |-> "user", uses |-> U])
    BY <1>7 DEF Say, Report, Feed, Insert
  <2> QED  BY <1>3, <2>1, <2>2
<1>8. ASSUME NEW r \in Requests, Receive(r) PROVE Fresh'
  <2> DEFINE U == request'[r].uses
  <2>1. /\ U = {u \in Uses : u > Len(tools) /\ u <= Len(tools')}
        /\ Insert("assistant", U)
        /\ Len(tools') \in Nat /\ Len(tools) <= Len(tools') /\ Len(tools) \in Nat
    BY <1>8, Answers DEF TypeOK
  <2>2. messages' = Append(messages, [role |-> "assistant", uses |-> U])  BY <2>1 DEF Insert
  <2>3. \A u \in Uses : u \in Nat  BY DEF Uses
  <2>4. \A u \in Uses : u <= Len(tools) => u <= Len(tools')  BY <2>1, <2>3
  <2>5. U \in SUBSET Uses /\ \A u \in U : u <= Len(tools') /\ ~(u <= Len(tools))  BY <2>1, <2>3
  <2> HIDE DEF U
  <2> QED  BY <1>3, <2>2, <2>4, <2>5
<1> QED  BY <1>1, <1>4, <1>5, <1>6, <1>7, <1>8 DEF Next, Handle

(* What SetState does when its error is not ignored.                       *)
LEMMA StateSet ==
    ASSUME TypeOK, NEW s, SetState(s), "state" \notin cut'
    PROVE  conv' = IF conv = "deleted" THEN conv ELSE s
  BY DEF SetState

(* While nothing crosses, a request starts only when no other is under     *)
(* way.                                                                    *)
LEMMA StartsAlone ==
    ASSUME Inv, Conversation, Calm, Calm', conv # "deleted", NEW r \in Requests,
           \/ SendUserMessage(r)
           \/ \E u \in Uses, verdict \in {"applied", "rejected"} : ResolvePendingAction(r, u, verdict)
    PROVE  \A q \in Requests \ {r} : request[q].at = "free"
<1> SUFFICES ASSUME NEW q \in Requests \ {r}, request[q].at # "free" PROVE FALSE
  OBVIOUS
<1>1. request[q].at \in Turn \cup Resolving  BY DEF Inv, TypeOK, RequestStates
<1>2. request[q].at \notin Turn
  BY DEF Calm, SendUserMessage, ResolvePendingAction, Others
<1>3. CASE SendUserMessage(r)
  <2>1. conv \in {"idle", "thinking"}  BY <1>3 DEF SendUserMessage, MaySend
  <2>2. InTurn(q)  BY DEF Conversation
  <2>3. request[q].at \in Handling \cup {"report", "settle"}  BY <1>1, <1>2 DEF Resolving, Handling
  <2> QED  BY <2>1, <2>2, <2>3 DEF InTurn
<1>4. CASE \E u \in Uses, verdict \in {"applied", "rejected"} : ResolvePendingAction(r, u, verdict)
  <2>1. request[q].at \notin Resolving  BY <1>4 DEF Calm, ResolvePendingAction, Others
  <2> QED  BY <1>1, <1>2, <2>1
<1> QED  BY <1>3, <1>4

(* What is to be shown of a step that only request r takes part in.        *)
Onward(r) ==
    /\ request[r].at # "free" => InTurn(r)
    /\ request[r].at = "free" => Restful

LEMMA OneMoves ==
    ASSUME NEW r \in Requests, \A q \in Requests \ {r} : request'[q].at = "free",
           conv' = "deleted" => messages' = <<>>, conv' # "deleted" => Onward(r)'
    PROVE  Conversation'
<1>1. Lone'  BY DEF Lone
<1>2. conv' # "deleted" => Resting'  BY DEF Resting, Quiet, Onward
<1>3. ASSUME NEW q \in Requests, conv' # "deleted" PROVE InTurn(q)'
  <2>1. request'[q].at = "free" => InTurn(q)'  BY DEF InTurn, Before, Writing, Handling
  <2>2. CASE q = r  BY <1>3, <2>1, <2>2 DEF Onward
  <2> QED  BY <2>1, <2>2
<1> QED  BY <1>1, <1>2, <1>3 DEF Conversation

(* The steps of a turn before the answer, and after.                       *)
LEMMA OnwardBefore ==
    ASSUME Inv, Calm', conv # "deleted", NEW r \in Requests, InTurn(r),
           Say(r) \/ Think(r) \/ Send(r) \/ Receive(r) \/ Rest(r) \/ Feed(r)
    PROVE  Onward(r)'
<1> USE DEF Inv
<1>0. request[r] \in RequestStates /\ request \in [Requests -> RequestStates]
      /\ messages \in Seq(Messages)
  BY DEF TypeOK
<1>1. CASE Say(r)
  <2>1. request[r].at = "say" /\ request'[r].at = "think" /\ pending' = pending
    BY <1>0, <1>1 DEF Say, Goto, RequestStates
  <2>2. Closed  BY <2>1 DEF InTurn, Before
  <2>3. Accepted(messages)'  BY <1>0, <1>1, <2>2, PlainMessage DEF Say, Insert, Closed
  <2> QED  BY <2>1, <2>2, <2>3 DEF Onward, InTurn, Before, Writing, Handling, Closed, Bare
<1>2. CASE Think(r)
  <2>1. request[r].at = "think" /\ request'[r].at = "send" /\ UNCHANGED <<pending, messages>>
    BY <1>0, <1>2 DEF Think, Goto, RequestStates
  <2> QED  BY <2>1 DEF Onward, InTurn, Before, Writing, Handling, Closed, Bare, Accepted
<1>3. CASE Send(r)
  <2>1. request[r].at = "send" /\ request'[r].at \in {"receive", "rest"} /\ UNCHANGED <<pending, messages>>
    BY <1>0, <1>3 DEF Send, Goto, RequestStates, rows
  <2> QED  BY <2>1 DEF Onward, InTurn, Before, Writing, Handling, Closed, Bare, Accepted
<1>4. CASE Receive(r)
  <2> DEFINE x == request'[r]
  <2>1. /\ Insert("assistant", x.uses) /\ x.uses \in SUBSET Uses
        /\ x.at \in {"rest", "feed", "stage"}
        /\ x.at = "rest" => x.uses = {}
        /\ x.left = {u \in x.uses : tools'[u] = "write"}
        /\ \A u \in x.uses : tools'[u] \in {"read", "write"}
    BY <1>4, Answers
  <2>2. messages' = Append(messages, [role |-> "assistant", uses |-> x.uses]) /\ pending' = pending
    BY <1>4, <2>1 DEF Insert, Receive
  <2>3. Closed  BY <1>4 DEF Receive, InTurn, Before
  <2>4. Asking(request[r].uses)'
    <3>1. PICK U \in SUBSET Uses : U = x.uses  BY <2>1
    <3>2. Asking(U)'  BY <1>0, <2>2, <2>3, <3>1, AnswerAsks DEF Closed
    <3> QED  BY <3>1, <3>2 DEF Asking
  <2>5. CASE x.at = "rest"
    <3>1. Accepted(messages)'  BY <1>0, <2>1, <2>2, <2>3, <2>5, PlainMessage DEF Closed
    <3> QED  BY <2>2, <2>3, <2>5, <3>1 DEF Onward, InTurn, Before, Writing, Handling, Closed, Bare
  <2>6. CASE x.at = "feed"
    BY <2>2, <2>3, <2>4, <2>6 DEF Onward, InTurn, Before, Writing, Handling, Closed, Bare, Asking
  <2>7. CASE x.at = "stage"
    <3>1. Within(request[r].uses)'  BY <2>2, <2>3 DEF Closed, Bare, Within
    <3>2. \A u \in x.uses : u \in x.left \/ tools'[u] = "read"  BY <2>1
    <3> QED
      BY <2>4, <2>7, <3>1, <3>2 DEF Onward, InTurn, Before, Writing, Handling, Asking, Within
  <2> QED  BY <2>1, <2>5, <2>6, <2>7
<1>5. CASE Rest(r)
  <2>1. request[r].at = "rest" /\ request'[r].at = "free" /\ UNCHANGED <<pending, messages>>
    BY <1>0, <1>5 DEF Rest, Finish, Free, RequestStates
  <2>2. Closed  BY <2>1 DEF InTurn, Before
  <2> QED  BY <2>1, <2>2 DEF Onward, Restful, Closed, Bare, Accepted
<1>6. CASE Feed(r)
  <2>1. request[r].at = "feed" /\ request'[r].at \in {"think", "rest"} /\ pending' = pending
    BY <1>0, <1>6 DEF Feed, Free, RequestStates
  <2>2. Asking(request[r].uses) /\ Bare  BY <2>1 DEF InTurn
  <2>3. PICK U \in SUBSET Uses : U = request[r].uses  BY <1>0 DEF RequestStates
  <2>4. Accepted(messages)'
    BY <1>0, <1>6, <2>2, <2>3, ResultsAnswer DEF Feed, Insert
  <2> QED  BY <2>1, <2>2, <2>4 DEF Onward, InTurn, Before, Writing, Handling, Closed, Bare
<1> QED  BY <1>1, <1>2, <1>3, <1>4, <1>5, <1>6

(* The cards of a turn.                                                    *)
LEMMA OnwardWriting ==
    ASSUME Inv, Calm', conv # "deleted", NEW r \in Requests, InTurn(r),
           Stage(r) \/ Ride(r) \/ Await(r)
    PROVE  Onward(r)'
<1> USE DEF Inv
<1> DEFINE U == request[r].uses
<1>0. request[r] \in RequestStates /\ request \in [Requests -> RequestStates]
      /\ pending \in [Uses -> {"none", "pending", "applied", "rejected"}]
      /\ request[r].left \subseteq U /\ U \in SUBSET Uses
  BY DEF TypeOK, RequestStates
<1>1. /\ Asking(U) /\ Within(U)
      /\ \A u \in U : \/ pending[u] # "none" \/ u \in request[r].left
                      \/ request[r].at = "stage" /\ tools[u] = "read"
  BY DEF Stage, Ride, Await, InTurn, Writing
<1>2. CASE Stage(r)
  <2>1. PICK u \in request[r].left :
           LET left == request[r].left \ {u}
           IN /\ pending' = [pending EXCEPT ![u] = "pending"]
              /\ request' = IF left # {} THEN [request EXCEPT ![r].left = left]
                            ELSE [request EXCEPT ![r].left = Reads(r),
                                     ![r].at = IF Reads(r) = {} THEN "await" ELSE "ride"]
    BY <1>2 DEF Stage
  <2>2. request[r].at = "stage" /\ UNCHANGED <<messages, tools>>  BY <1>2 DEF Stage
  <2>3. /\ request'[r].uses = U
        /\ \/ request'[r].at = "stage" /\ request'[r].left = request[r].left \ {u}
           \/ /\ request'[r].at \in {"await", "ride"} /\ request'[r].left = Reads(r)
              /\ request[r].left = {u}
    BY <1>0, <2>1, <2>2 DEF RequestStates
  <2>4. pending'[u] = "pending" /\ \A v \in Uses \ {u} : pending'[v] = pending[v]
    BY <1>0, <2>1
  <2>5. Asking(U)' /\ Within(U)'
    <3>1. Asking(U)'  BY <1>1, <2>2, <2>3 DEF Asking
    <3>2. Within(U)'  BY <1>0, <1>1, <2>3, <2>4 DEF Within
    <3> QED  BY <3>1, <3>2
  <2>6. ASSUME NEW v \in U
        PROVE  \/ pending'[v] # "none" \/ v \in request'[r].left
               \/ request'[r].at = "stage" /\ tools'[v] = "read"
    <3>1. CASE v = u  BY <2>4, <3>1
    <3>2. CASE v # u
      <4>1. pending'[v] = pending[v]  BY <1>0, <2>4, <3>2
      <4>2. v \in Reads(r) \/ tools[v] # "read"  BY DEF Reads
      <4> QED  BY <1>1, <2>2, <2>3, <3>2, <4>1, <4>2
    <3> QED  BY <3>1, <3>2
  <2>7. request'[r].at \in {"stage", "ride", "await"}  BY <2>3
  <2> QED
    BY <2>3, <2>5, <2>6, <2>7 DEF Onward, InTurn, Before, Writing, Handling
<1>3. CASE Ride(r)
  <2>1. PICK u \in request[r].left :
           LET left == request[r].left \ {u}
           IN /\ pending' = [pending EXCEPT ![u] = "applied"]
              /\ request' = [request EXCEPT ![r].left = left, ![r].at = IF left = {} THEN "await" ELSE @]
    BY <1>3 DEF Ride
  <2>2. request[r].at = "ride" /\ UNCHANGED <<messages, tools>>  BY <1>3 DEF Ride
  <2>3. /\ request'[r].uses = U
        /\ request'[r].at \in {"ride", "await"} /\ request'[r].left = request[r].left \ {u}
    BY <1>0, <2>1, <2>2 DEF RequestStates
  <2>4. pending'[u] = "applied" /\ \A v \in Uses \ {u} : pending'[v] = pending[v]
    BY <1>0, <2>1
  <2>5. Asking(U)' /\ Within(U)'
    <3>1. Asking(U)'  BY <1>1, <2>2, <2>3 DEF Asking
    <3>2. Within(U)'  BY <1>0, <1>1, <2>3, <2>4 DEF Within
    <3> QED  BY <3>1, <3>2
  <2>6. ASSUME NEW v \in U
        PROVE  pending'[v] # "none" \/ v \in request'[r].left
    <3>1. CASE v = u  BY <2>4, <3>1
    <3>2. CASE v # u  BY <1>0, <1>1, <2>2, <2>3, <2>4, <3>2
    <3> QED  BY <3>1, <3>2
  <2> QED
    BY <2>3, <2>5, <2>6 DEF Onward, InTurn, Before, Writing, Handling
<1>4. CASE Await(r)
  <2>1. /\ request[r].at = "await" /\ request'[r].at = "free"
        /\ UNCHANGED <<pending, messages>> /\ SetState("awaiting")
    BY <1>0, <1>4 DEF Await, Finish, Free, RequestStates
  <2>2. conv' = "awaiting"  BY <2>1, StateSet DEF Calm
  <2>3. request[r].left = {}  BY <2>1 DEF LeftOnlyToWrite
  <2>4. Waiting(U)  BY <1>1, <2>1, <2>3 DEF Waiting
  <2>5. PICK V \in SUBSET Uses : V = U  BY <1>0
  <2>6. Waiting(V)'  BY <2>1, <2>4, <2>5 DEF Waiting, Asking, Within
  <2> QED  BY <2>1, <2>2, <2>6 DEF Onward, Restful
<1> QED  BY <1>2, <1>3, <1>4

(* A click on a card.                                                      *)
LEMMA OnwardHandling ==
    ASSUME Inv, Fresh, Calm', conv # "deleted", NEW r \in Requests, InTurn(r),
           Execute(r) \/ Resolve(r) \/ List(r) \/ Report(r) \/ Settle(r)
    PROVE  Onward(r)'
<1> USE DEF Inv
<1> DEFINE u == request[r].use
<1>0. request[r] \in RequestStates /\ request \in [Requests -> RequestStates]
      /\ pending \in [Uses -> {"none", "pending", "applied", "rejected"}]
      /\ messages \in Seq(Messages)
  BY DEF TypeOK
<1>1. CASE Execute(r)
  <2>1. /\ request[r].at = "execute" /\ request'[r].at = "resolve" /\ request'[r].use = u
        /\ UNCHANGED <<conv, messages, pending>>
    BY <1>0, <1>1 DEF Execute, Goto, RequestStates, rows
  <2>2. conv = "awaiting" /\ \E U \in SUBSET Uses : Waiting(U) /\ u \in U
    BY <2>1 DEF InTurn, Handling
  <2>3. \E U \in SUBSET Uses : Waiting(U)' /\ u \in U
    BY <2>1, <2>2 DEF Waiting, Asking, Within
  <2> QED  BY <2>1, <2>2, <2>3 DEF Onward, InTurn, Before, Writing, Handling
<1>2. CASE Resolve(r)
  <2>1. /\ request[r].at = "resolve" /\ request'[r].at = "list" /\ request'[r].use = u
        /\ UNCHANGED <<conv, messages>>
        /\ pending' = [pending EXCEPT ![u] = request[r].verdict]
    BY <1>0, <1>2 DEF Resolve, Goto, RequestStates
  <2>2. PICK U \in SUBSET Uses : Waiting(U) /\ u \in U  BY <2>1 DEF InTurn, Handling
  <2>3. conv = "awaiting"  BY <2>1 DEF InTurn, Handling
  <2>4. request[r].verdict \in {"applied", "rejected"}  BY <2>1, <2>2 DEF Cards, AtWork
  <2>5. pending'[u] = request[r].verdict /\ \A v \in Uses \ {u} : pending'[v] = pending[v]
    BY <1>0, <2>1, <2>2
  <2>6. Waiting(U)'
    <3>1. Asking(U)'  BY <2>1, <2>2 DEF Waiting, Asking
    <3>2. Within(U)'  BY <2>2, <2>4, <2>5 DEF Waiting, Within
    <3>3. \A v \in U : pending'[v] # "none"  BY <2>2, <2>4, <2>5 DEF Waiting
    <3> QED  BY <3>1, <3>2, <3>3 DEF Waiting
  <2> QED  BY <2>1, <2>2, <2>3, <2>6 DEF Onward, InTurn, Before, Writing, Handling
<1>3. CASE List(r)
  <2>1. request[r].at = "list" /\ UNCHANGED <<conv, messages, pending>>  BY <1>3 DEF List, rows
  <2>2. PICK U \in SUBSET Uses : Waiting(U) /\ u \in U  BY <2>1 DEF InTurn, Handling
  <2>3. conv = "awaiting"  BY <2>1 DEF InTurn, Handling
  <2>4. Siblings(u) = U  BY <2>2, LastTurn
  <2>5. Waiting(U)'  BY <2>1, <2>2 DEF Waiting, Asking, Within
  <2>6. CASE AllResolved(u) /\ request' = [request EXCEPT ![r].at = "report", ![r].uses = Siblings(u)]
    <3>1. request'[r].at = "report" /\ request'[r].uses = U
      BY <1>0, <2>4, <2>6 DEF RequestStates
    <3>2. Bare'  BY <2>1, <2>2, <2>4, <2>6 DEF AllResolved, Waiting, Within, Bare
    <3> QED  BY <2>1, <2>3, <2>5, <3>1, <3>2 DEF Onward, InTurn, Before, Writing, Handling, Waiting, Asking
  <2>7. CASE Finish(r)
    <3>1. request'[r].at = "free"  BY <1>0, <2>7 DEF Finish, Free
    <3> QED  BY <2>1, <2>3, <2>5, <3>1 DEF Onward, Restful
  <2> QED  BY <1>3, <2>6, <2>7 DEF List
<1>4. CASE Report(r)
  <2>1. request[r].at = "report" /\ request'[r].at = "settle" /\ UNCHANGED <<conv, pending>>
    BY <1>0, <1>4 DEF Report, Free, RequestStates
  <2>2. conv = "awaiting" /\ Asking(request[r].uses) /\ Bare  BY <2>1 DEF InTurn
  <2>3. PICK U \in SUBSET Uses : U = request[r].uses  BY <1>0 DEF RequestStates
  <2>4. Accepted(messages)'  BY <1>0, <1>4, <2>2, <2>3, ResultsAnswer DEF Report, Insert
  <2> QED  BY <2>1, <2>2, <2>4 DEF Onward, InTurn, Before, Writing, Handling, Closed, Bare
<1>5. CASE Settle(r)
  <2>1. request[r].at = "settle" /\ request'[r].at = "think" /\ UNCHANGED <<pending, messages>>
    BY <1>0, <1>5 DEF Settle, Free, RequestStates
  <2>2. Closed  BY <2>1 DEF InTurn
  <2> QED  BY <2>1, <2>2 DEF Onward, InTurn, Before, Writing, Handling, Closed, Bare, Accepted
<1> QED  BY <1>1, <1>2, <1>3, <1>4, <1>5

(* A request begins, is cut off or refused.                                *)
LEMMA OnwardEnds ==
    ASSUME Inv, Calm', conv # "deleted", NEW r \in Requests,
           \/ SendUserMessage(r) /\ Restful
           \/ /\ Restful
              /\ \E u \in Uses, verdict \in {"applied", "rejected"} : ResolvePendingAction(r, u, verdict)
           \/ CutOff(r) /\ InTurn(r)
    PROVE  Onward(r)'
<1> USE DEF Inv
<1>0. request[r] \in RequestStates /\ request \in [Requests -> RequestStates]
      /\ conv \in {"idle", "thinking", "awaiting", "deleted"}
  BY DEF TypeOK
<1>1. CASE SendUserMessage(r) /\ Restful
  <2>1. request'[r].at = "say" /\ UNCHANGED <<messages, pending>> /\ conv \in {"idle", "thinking"}
    BY <1>0, <1>1 DEF SendUserMessage, MaySend, Goto, RequestStates, rows
  <2>2. Closed  BY <1>1, <2>1 DEF Restful
  <2> QED  BY <2>1, <2>2 DEF Onward, InTurn, Before, Writing, Handling, Closed, Bare, Accepted
<1>2. ASSUME NEW u \in Uses, NEW verdict \in {"applied", "rejected"}, Restful,
             ResolvePendingAction(r, u, verdict)
      PROVE  Onward(r)'
  <2>1. /\ request'[r].at \in {"execute", "resolve"} /\ request'[r].use = u
        /\ UNCHANGED <<conv, messages, pending>> /\ pending[u] = "pending"
    BY <1>0, <1>2 DEF ResolvePendingAction, Open, RequestStates, rows
  <2>2. conv = "awaiting"  BY <1>0, <1>2, <2>1 DEF Restful, Closed, Bare
  <2>3. PICK U \in SUBSET Uses : Waiting(U)  BY <1>2, <2>1, <2>2 DEF Restful, Bare
  <2>4. u \in U  BY <2>1, <2>3 DEF Waiting, Within
  <2>5. Waiting(U)'  BY <2>1, <2>3 DEF Waiting, Asking, Within
  <2> QED  BY <2>1, <2>2, <2>4, <2>5 DEF Onward, InTurn, Before, Writing, Handling
<1>3. CASE CutOff(r) /\ InTurn(r)
  <2>1. /\ request'[r].at = "free" /\ request[r].at # "free" /\ UNCHANGED <<conv, messages, pending>>
        /\ Phase(request[r]) # "answer"
    BY <1>0, <1>3 DEF CutOff, Finish, Free, rows, Calm
  <2>2. request[r].at \notin Writing \cup {"feed"}  BY <2>1 DEF Phase, Writing
  <2>3. request[r].at \in Before \cup Handling \cup {"report", "settle"}
    BY <1>0, <2>1, <2>2 DEF RequestStates, Turn, Resolving, Before, Handling, Writing
  <2>4. CASE request[r].at \in Before
    <3>1. Closed  BY <1>3, <2>4 DEF InTurn
    <3> QED  BY <2>1, <3>1 DEF Onward, Restful, Closed, Bare, Accepted
  <2>5. CASE request[r].at \in Handling
    <3>1. PICK U \in SUBSET Uses : conv = "awaiting" /\ Waiting(U)  BY <1>3, <2>5 DEF InTurn
    <3>2. Waiting(U)'  BY <2>1, <3>1 DEF Waiting, Asking, Within
    <3> QED  BY <2>1, <3>1, <3>2 DEF Onward, Restful
  <2>6. CASE request[r].at \in {"report", "settle"}
    <3>1. conv = "awaiting" /\ Bare  BY <1>3, <2>6 DEF InTurn, Closed
    <3> QED  BY <2>1, <3>1 DEF Onward, Restful, Bare
  <2> QED  BY <2>3, <2>4, <2>5, <2>6
<1> QED  BY <1>1, <1>2, <1>3

LEMMA NextConversation ==
    ASSUME Inv, Fresh, Conversation, [Next]_vars
    PROVE  Conversation'
<1>0. TypeOK /\ Inv'  BY InvStep DEF Inv
<1>1. conv' = "deleted" => messages' = <<>>  BY <1>0, Marks DEF Conversation
<1>2. CASE ~Calm'  BY <1>1, <1>2 DEF Conversation
<1>3. CASE Calm' /\ UNCHANGED vars
  <2>1. UNCHANGED <<conv, messages, tools, pending, request, crossed, paired, cut>>
    BY <1>3 DEF vars, rows, history
  <2>2. \A U : /\ Asking(U)' <=> Asking(U)
               /\ Within(U)' <=> Within(U)
               /\ Waiting(U)' <=> Waiting(U)
    BY <2>1 DEF Asking, Within, Waiting
  <2>3. (Closed' <=> Closed) /\ (Bare' <=> Bare)  BY <2>1 DEF Closed, Accepted, Bare
  <2>4. Restful' <=> Restful  BY <2>1, <2>2, <2>3 DEF Restful
  <2>5. Resting' <=> Resting  BY <2>1, <2>4 DEF Resting, Quiet
  <2>6. ASSUME NEW r \in Requests PROVE InTurn(r) => InTurn(r)'
    BY <2>1, <2>2, <2>3 DEF InTurn
  <2>7. (Lone' <=> Lone) /\ (Calm' <=> Calm)  BY <2>1 DEF Lone, Calm
  <2> QED  BY <2>1, <2>5, <2>6, <2>7 DEF Conversation
<1>4. CASE Calm' /\ Delete
  <2>1. Calm /\ request' = request /\ conv' = "deleted"  BY <1>4 DEF Delete, Calm, history
  <2> QED  BY <1>1, <2>1 DEF Conversation, Lone
<1>5. ASSUME Calm', NEW r \in Requests,
             \/ SendUserMessage(r) \/ Handle(r) \/ CutOff(r)
             \/ \E u \in Uses, verdict \in {"applied", "rejected"} : ResolvePendingAction(r, u, verdict)
      PROVE  Conversation'
  <2>1. Calm /\ (conv = "deleted" => conv' = "deleted")  BY <1>0, <1>5, Marks DEF Calm
  <2>2. \A q \in Requests \ {r} : request'[q] = request[q]
    <3>1. CASE Receive(r)  BY <1>0, <3>1, Answers
    <3>2. CASE Stage(r)
      <4>1. PICK u \in request[r].left :
              request' = IF request[r].left \ {u} # {} THEN [request EXCEPT ![r].left = request[r].left \ {u}]
                         ELSE [request EXCEPT ![r].left = Reads(r),
                                     ![r].at = IF Reads(r) = {} THEN "await" ELSE "ride"]
        BY <3>2 DEF Stage
      <4> QED  BY <1>0, <4>1 DEF TypeOK
    <3>3. CASE ~(Receive(r) \/ Stage(r))
      BY <1>0, <1>5, <3>3 DEF TypeOK, SendUserMessage, Handle, CutOff, ResolvePendingAction, Say,
         Execute, Resolve, List, Report, Settle, Think, Send, Ride, Await, Feed, Rest,
         Refused, Goto, Finish
    <3> QED  BY <3>1, <3>2, <3>3
  <2>3. CASE conv = "deleted"
    <3>1. request[r].at # "free" => \A q \in Requests \ {r} : request[q].at = "free"
      BY <2>1 DEF Conversation, Lone
    <3>2. request[r].at # "free"
      BY <1>5, <2>3 DEF SendUserMessage, MaySend, Handle, CutOff, ResolvePendingAction, Open, Inv, Gone,
         Say, Execute, Resolve, List, Report, Settle, Think, Send, Receive, Stage, Ride, Await, Feed,
         Rest, Refused
    <3> QED  BY <1>1, <2>1, <2>2, <2>3, <3>1, <3>2, OneMoves
  <2>4. CASE conv # "deleted"
    <3>1. Lone /\ Resting /\ InTurn(r)  BY <2>1, <2>4 DEF Conversation
    <3>2. CASE \/ SendUserMessage(r)
               \/ \E u \in Uses, verdict \in {"applied", "rejected"} : ResolvePendingAction(r, u, verdict)
      <4>1. \A q \in Requests \ {r} : request[q].at = "free"  BY <1>5, <2>1, <2>4, <3>2, StartsAlone
      <4>2. request[r].at = "free"  BY <3>2 DEF SendUserMessage, ResolvePendingAction
      <4>3. Restful  BY <3>1, <4>1, <4>2 DEF Resting, Quiet
      <4>4. Onward(r)'  BY <1>5, <2>4, <3>2, <4>3, OnwardEnds
      <4> QED  BY <1>1, <2>2, <4>1, <4>4, OneMoves
    <3>3. CASE Handle(r) \/ CutOff(r)
      <4>1. request[r].at # "free"
        BY <3>3 DEF Handle, CutOff, Say, Execute, Resolve, List, Report, Settle, Think, Send, Receive,
           Stage, Ride, Await, Feed, Rest, Refused
      <4>2. \A q \in Requests \ {r} : request[q].at = "free"  BY <3>1, <4>1 DEF Lone
      <4>3. ~Refused(r)  BY <2>4 DEF Refused
      <4>4. Onward(r)'
        BY <1>5, <2>4, <3>1, <3>3, <4>3, OnwardBefore, OnwardWriting, OnwardHandling, OnwardEnds DEF Handle
      <4> QED  BY <1>1, <2>2, <4>2, <4>4, OneMoves
    <3> QED  BY <1>5, <3>2, <3>3
  <2> QED  BY <2>3, <2>4
<1> QED  BY <1>2, <1>3, <1>4, <1>5 DEF Next

(* Offered for one request.                                                *)
Offers(r) ==
    request[r].at \in Writing =>
        /\ \E u \in request[r].uses : tools[u] = "write"
        /\ \A u \in request[r].uses : tools[u] = "write" =>
              \/ request[r].at = "stage" /\ u \in request[r].left
              \/ pending[u] = "pending" /\ \A q \in Requests : ~AtWork(q, u)

(* Nobody takes a card in hand that a turn has just put up, or closes it.  *)
LEMMA OffersStay ==
    ASSUME Inv, NEW r \in Requests, Offers(r), request'[r] = request[r],
           \A u \in request[r].uses : tools'[u] = tools[u],
           \A u \in request[r].uses :
              /\ \A q \in Requests : AtWork(q, u)' => AtWork(q, u)
              /\ pending[u] = "pending" /\ (\A q \in Requests : ~AtWork(q, u))
                    /\ tools[u] = "write" => pending'[u] = "pending"
    PROVE  Offers(r)'
  BY DEF Offers

LEMMA NextOffered ==
    ASSUME Inv, Offered, [Next]_vars
    PROVE  Offered'
<1> USE DEF Inv
<1>0. TypeOK /\ Inv'  BY InvStep
<1> SUFFICES ASSUME ~crossed', conv' # "deleted", NEW r \in Requests PROVE Offers(r)'
  BY DEF Offered, Offers
<1>1. ~crossed /\ conv # "deleted"  BY <1>0, Marks
<1>2. Offers(r)  BY <1>1 DEF Offered, Offers
<1>3. request[r] \in RequestStates /\ request \in [Requests -> RequestStates]
      /\ pending \in [Uses -> {"none", "pending", "applied", "rejected"}]
      /\ request[r].uses \in SUBSET Uses
  BY DEF TypeOK, RequestStates
<1>4. ASSUME request'[r] = request[r],
             \A q \in Requests : request'[q] = request[q] \/ request'[q].at \notin {"execute", "resolve"},
             tools' = tools, pending' = pending
      PROVE  Offers(r)'
  <2>1. \A q \in Requests : \A u : AtWork(q, u)' => AtWork(q, u)  BY <1>4 DEF AtWork
  <2> QED  BY <1>2, <1>4, <2>1, OffersStay
<1>5. ASSUME request'[r].at \notin Writing PROVE Offers(r)'  BY <1>5 DEF Offers
<1>6. CASE UNCHANGED vars  BY <1>4, <1>6 DEF vars, rows
<1>7. CASE Delete  BY <1>7 DEF Delete
<1>8. ASSUME NEW p \in Requests,
             \/ SendUserMessage(p) \/ Say(p) \/ List(p) \/ Report(p) \/ Settle(p) \/ Think(p)
             \/ Send(p) \/ Await(p) \/ Feed(p) \/ Rest(p) \/ CutOff(p) \/ Refused(p)
      PROVE  Offers(r)'
  <2> DEFINE Elsewhere == /\ request'[p].at \notin Writing \cup {"execute", "resolve"}
                          /\ \A q \in Requests \ {p} : request'[q] = request[q]
  <2>1. Elsewhere
    <3>1. ASSUME NEW x, request' = [request EXCEPT ![p] = x],
                 x.at \notin Writing \cup {"execute", "resolve"}
          PROVE  Elsewhere
      BY <1>3, <3>1
    <3>2. ASSUME NEW step, Goto(p, step), step \notin Writing \cup {"execute", "resolve"} PROVE Elsewhere
      BY <1>3, <3>2 DEF Goto, RequestStates
    <3>3. CASE SendUserMessage(p) \/ Say(p) \/ Think(p) \/ Send(p)
      BY <3>2, <3>3 DEF SendUserMessage, Say, Think, Send, Writing
    <3>4. ASSUME Finish(p) PROVE Elsewhere  BY <3>1, <3>4 DEF Finish, Free, Writing
    <3>5. CASE Await(p) \/ Rest(p) \/ CutOff(p) \/ Refused(p)
      BY <3>4, <3>5 DEF Await, Rest, CutOff, Refused
    <3>6. CASE List(p)
      <4>1. CASE Finish(p)  BY <3>4, <4>1
      <4>2. CASE request' = [request EXCEPT ![p].at = "report", ![p].uses = Siblings(request[p].use)]
        BY <1>3, <4>2 DEF Writing, RequestStates
      <4> QED  BY <3>6, <4>1, <4>2 DEF List
    <3>7. CASE Report(p) \/ Settle(p)  BY <3>1, <3>7 DEF Report, Settle, Free, Writing
    <3>8. CASE Feed(p)  BY <3>1, <3>8 DEF Feed, Free, Writing
    <3> QED  BY <1>8, <3>3, <3>5, <3>6, <3>7, <3>8
  <2>2. tools' = tools /\ pending' = pending
    BY <1>8 DEF SendUserMessage, Say, List, Report, Settle, Think, Send, Await, Feed,
       Rest, CutOff, Refused, rows
  <2>3. CASE p = r  BY <1>5, <2>1, <2>3
  <2>4. CASE p # r  BY <1>4, <2>1, <2>2, <2>4
  <2> QED  BY <2>3, <2>4
<1>9. ASSUME NEW p \in Requests, Execute(p) PROVE Offers(r)'
  <2>1. /\ request[p].at = "execute" /\ request'[p].at = "resolve" /\ request'[p].use = request[p].use
        /\ \A q \in Requests \ {p} : request'[q] = request[q]
        /\ tools' = tools /\ pending' = pending
    BY <1>3, <1>9 DEF Execute, Goto, RequestStates, rows
  <2>2. CASE p = r  BY <1>5, <2>1, <2>2 DEF Writing
  <2>3. CASE p # r
    <3>1. \A q \in Requests : \A u : AtWork(q, u)' => AtWork(q, u)  BY <2>1 DEF AtWork
    <3> QED  BY <1>2, <2>1, <2>3, <3>1, OffersStay
  <2> QED  BY <2>2, <2>3
<1>10. ASSUME NEW p \in Requests, Resolve(p) PROVE Offers(r)'
  <2>1. /\ request[p].at = "resolve" /\ request'[p].at = "list"
        /\ \A q \in Requests \ {p} : request'[q] = request[q]
        /\ tools' = tools /\ pending' = [pending EXCEPT ![request[p].use] = request[p].verdict]
    BY <1>1, <1>3, <1>10 DEF Resolve, Goto, RequestStates
  <2>2. CASE p = r  BY <1>5, <2>1, <2>2 DEF Writing
  <2>3. CASE p # r
    <3>1. \A q \in Requests : \A u : AtWork(q, u)' => AtWork(q, u)  BY <2>1 DEF AtWork
    <3>2. \A u \in Uses : (\A q \in Requests : ~AtWork(q, u)) => pending'[u] = pending[u]
      BY <1>3, <2>1 DEF AtWork
    <3> QED  BY <1>2, <1>3, <2>1, <2>3, <3>1, <3>2, OffersStay
  <2> QED  BY <2>2, <2>3
<1>11. ASSUME NEW p \in Requests, NEW u \in Uses, NEW verdict \in {"applied", "rejected"},
              ResolvePendingAction(p, u, verdict)
       PROVE  Offers(r)'
  <2>1. \A q \in Requests \ {p} : request[q].at \notin Turn
    BY <1>11 DEF ResolvePendingAction, Others
  <2>2. request'[p].at \in {"execute", "resolve"} /\ \A q \in Requests \ {p} : request'[q] = request[q]
    BY <1>3, <1>11 DEF ResolvePendingAction, RequestStates
  <2>3. CASE p = r  BY <1>5, <2>2, <2>3 DEF Writing
  <2>4. CASE p # r  BY <1>5, <2>1, <2>2, <2>4 DEF Writing, Turn
  <2> QED  BY <2>3, <2>4
<1>12. ASSUME NEW p \in Requests, Receive(p) PROVE Offers(r)'
  <2> DEFINE x == request'[p]
  <2>1. /\ x.uses \subseteq Uses /\ x.at \in {"rest", "feed", "stage"}
        /\ x.at = "stage" => x.left # {}
        /\ x.left = {u \in x.uses : tools'[u] = "write"}
        /\ \A u \in Uses : u <= Len(tools) => tools'[u] = tools[u]
        /\ \A q \in Requests \ {p} : request'[q] = request[q]
    BY <1>12, Answers
  <2>2. pending' = pending  BY <1>12 DEF Receive
  <2>3. CASE p = r  BY <2>1, <2>3 DEF Offers, Writing
  <2>4. CASE p # r
    <3>1. \A q \in Requests : \A u : AtWork(q, u)' => AtWork(q, u)  BY <2>1 DEF AtWork
    <3>2. \A u \in request[r].uses : tools'[u] = tools[u]  BY <1>3, <2>1 DEF Asked
    <3> QED  BY <1>2, <2>1, <2>2, <2>4, <3>1, <3>2, OffersStay
  <2> QED  BY <2>3, <2>4
<1>13. ASSUME NEW p \in Requests, Stage(p) PROVE Offers(r)'
  <2>1. PICK u \in request[p].left :
           LET left == request[p].left \ {u}
           IN /\ pending' = [pending EXCEPT ![u] = "pending"]
              /\ request' = IF left # {} THEN [request EXCEPT ![p].left = left]
                            ELSE [request EXCEPT ![p].left = Reads(p),
                                     ![p].at = IF Reads(p) = {} THEN "await" ELSE "ride"]
    BY <1>13 DEF Stage
  <2>2. request[p].at = "stage" /\ tools' = tools  BY <1>13 DEF Stage
  <2>3. request[p] \in RequestStates /\ u \in Uses  BY DEF TypeOK, RequestStates
  <2>4. /\ request'[p].uses = request[p].uses
        /\ \/ request'[p].at = "stage" /\ request'[p].left = request[p].left \ {u}
           \/ /\ request'[p].at \in {"await", "ride"}
              /\ request[p].left = {u}
        /\ \A q \in Requests \ {p} : request'[q] = request[q]
    BY <1>3, <2>1, <2>2, <2>3 DEF RequestStates
  <2>5. pending'[u] = "pending" /\ \A v \in Uses \ {u} : pending'[v] = pending[v]
    BY <1>3, <2>1, <2>3
  <2>6. \A q \in Requests : \A v : AtWork(q, v)' => AtWork(q, v)  BY <2>4 DEF AtWork
  <2>7. CASE p = r
    <3>1. \A q \in Requests : ~AtWork(q, u)  BY <2>2 DEF Staged
    <3>2. request[r].at \in Writing  BY <2>2, <2>7 DEF Writing
    <3>3. ASSUME NEW v \in request'[r].uses, tools'[v] = "write"
          PROVE  \/ request'[r].at = "stage" /\ v \in request'[r].left
                 \/ pending'[v] = "pending" /\ \A q \in Requests : ~AtWork(q, v)'
      <4>1. v \in request[r].uses /\ tools[v] = "write" /\ v \in Uses
        BY <1>3, <2>2, <2>4, <2>7, <3>3
      <4>2. CASE v = u  BY <2>5, <2>6, <3>1, <4>2
      <4>3. CASE v # u /\ v \in request[r].left  BY <2>4, <2>7, <4>3
      <4>4. CASE v # u /\ v \notin request[r].left
        <5>1. pending[v] = "pending" /\ \A q \in Requests : ~AtWork(q, v)
          BY <1>2, <3>2, <4>1, <4>4 DEF Offers
        <5> QED  BY <2>5, <2>6, <4>1, <4>4, <5>1
      <4> QED  BY <4>2, <4>3, <4>4
    <3>4. \E v \in request'[r].uses : tools'[v] = "write"  BY <1>2, <2>2, <2>4, <2>7, <3>2 DEF Offers
    <3> QED  BY <3>3, <3>4 DEF Offers
  <2>8. CASE p # r
    <3>1. \A v \in request[r].uses : pending[v] = "pending" => pending'[v] = "pending"
      BY <1>3, <2>5
    <3> QED  BY <1>2, <2>2, <2>4, <2>6, <2>8, <3>1, OffersStay
  <2> QED  BY <2>7, <2>8
<1>14. ASSUME NEW p \in Requests, Ride(p) PROVE Offers(r)'
  <2>1. PICK u \in request[p].left :
           LET left == request[p].left \ {u}
           IN /\ pending' = [pending EXCEPT ![u] = "applied"]
              /\ request' = [request EXCEPT ![p].left = left, ![p].at = IF left = {} THEN "await" ELSE @]
    BY <1>14 DEF Ride
  <2>2. request[p].at = "ride" /\ tools' = tools  BY <1>14 DEF Ride
  <2>3. request[p] \in RequestStates /\ u \in Uses /\ tools[u] = "read"
    BY <2>2 DEF TypeOK, RequestStates, Staged
  <2>4. /\ request'[p].uses = request[p].uses
        /\ request'[p].at \in {"await", "ride"}
        /\ \A q \in Requests \ {p} : request'[q] = request[q]
    BY <1>3, <2>1, <2>2, <2>3 DEF RequestStates
  <2>5. \A v \in Uses \ {u} : pending'[v] = pending[v]  BY <1>3, <2>1, <2>3
  <2>6. \A q \in Requests : \A v : AtWork(q, v)' => AtWork(q, v)
    BY <2>2, <2>4 DEF AtWork
  <2>7. CASE p = r
    <3>1. request[r].at \in Writing /\ request[r].at # "stage"  BY <2>2, <2>7 DEF Writing
    <3>2. ASSUME NEW v \in request'[r].uses, tools'[v] = "write"
          PROVE  pending'[v] = "pending" /\ \A q \in Requests : ~AtWork(q, v)'
      <4>1. v \in request[r].uses /\ tools[v] = "write" /\ v \in Uses /\ v # u
        BY <1>3, <2>2, <2>3, <2>4, <2>7, <3>2
      <4>2. pending[v] = "pending" /\ \A q \in Requests : ~AtWork(q, v)
        BY <1>2, <3>1, <4>1 DEF Offers
      <4> QED  BY <2>5, <2>6, <4>1, <4>2
    <3>3. \E v \in request'[r].uses : tools'[v] = "write"  BY <1>2, <2>2, <2>4, <2>7, <3>1 DEF Offers
    <3> QED  BY <3>2, <3>3 DEF Offers
  <2>8. CASE p # r
    <3>1. \A v \in request[r].uses : tools[v] = "write" => pending'[v] = pending[v]
      BY <1>3, <2>3, <2>5
    <3> QED  BY <1>2, <2>2, <2>4, <2>6, <2>8, <3>1, OffersStay
  <2> QED  BY <2>7, <2>8
<1> QED
  BY <1>6, <1>7, <1>8, <1>9, <1>10, <1>11, <1>12, <1>13, <1>14 DEF Next, Handle

LEMMA NextUnstuck ==
    ASSUME Inv, Offered, Unstuck, [Next]_vars
    PROVE  Unstuck'
<1> USE DEF Inv
<1>0. TypeOK /\ Inv'  BY InvStep
<1> DEFINE Ends(q) == request[q].at \in {"list", "report", "settle"}
<1> SUFFICES ASSUME conv' = "awaiting", ~crossed', cut' \cap {"results", "state"} = {}
             PROVE  (\E u \in Uses : pending'[u] = "pending") \/ (\E q \in Requests : Ends(q)')
  BY DEF Unstuck
<1>1. ~crossed /\ cut \cap {"results", "state"} = {} /\ conv # "deleted"  BY <1>0, Marks
<1>2. conv = "awaiting" => (\E u \in Uses : pending[u] = "pending") \/ (\E q \in Requests : Ends(q))
  BY <1>1 DEF Unstuck
<1>3. request \in [Requests -> RequestStates]
      /\ pending \in [Uses -> {"none", "pending", "applied", "rejected"}]
  BY DEF TypeOK
<1>4. CASE UNCHANGED vars  BY <1>2, <1>4 DEF vars, rows
<1>5. CASE Delete  BY <1>5 DEF Delete
<1>6. ASSUME NEW r \in Requests,
             \/ SendUserMessage(r) \/ Say(r) \/ Execute(r) \/ Send(r) \/ Feed(r) \/ Refused(r)
             \/ \E u \in Uses, verdict \in {"applied", "rejected"} : ResolvePendingAction(r, u, verdict)
      PROVE  (\E u \in Uses : pending'[u] = "pending") \/ (\E q \in Requests : Ends(q)')
  <2>1. UNCHANGED <<conv, pending>> /\ ~Ends(r)
    BY <1>1, <1>6 DEF SendUserMessage, Say, Execute, Send, Feed, Refused, ResolvePendingAction, rows
  <2>2. \A q \in Requests \ {r} : request'[q] = request[q]
    BY <1>1, <1>3, <1>6 DEF SendUserMessage, Say, Execute, Send, Feed, Refused,
       ResolvePendingAction, Goto, Finish
  <2> QED  BY <1>2, <2>1, <2>2
<1>7. ASSUME NEW r \in Requests, Receive(r)
      PROVE  (\E u \in Uses : pending'[u] = "pending") \/ (\E q \in Requests : Ends(q)')
  <2>1. UNCHANGED <<conv, pending>> /\ ~Ends(r)  BY <1>7 DEF Receive
  <2>2. \A q \in Requests \ {r} : request'[q] = request[q]  BY <1>7, Answers
  <2> QED  BY <1>2, <2>1, <2>2
<1>8. ASSUME NEW r \in Requests, Resolve(r)
      PROVE  (\E u \in Uses : pending'[u] = "pending") \/ (\E q \in Requests : Ends(q)')
  <2>1. request'[r].at = "list"  BY <1>3, <1>8 DEF Resolve, Goto, RequestStates
  <2> QED  BY <2>1
<1>9. ASSUME NEW r \in Requests, List(r)
      PROVE  (\E u \in Uses : pending'[u] = "pending") \/ (\E q \in Requests : Ends(q)')
  <2>1. CASE request' = [request EXCEPT ![r].at = "report", ![r].uses = Siblings(request[r].use)]
    <3>1. request'[r].at = "report"  BY <1>3, <2>1 DEF RequestStates
    <3> QED  BY <3>1
  <2>2. CASE ~AllResolved(request[r].use)
    <3>1. PICK v \in Siblings(request[r].use) : pending[v] = "pending"  BY <2>2 DEF AllResolved
    <3>2. v \in Uses
      <4>1. \A i \in 1..Len(messages) : messages[i] \in Messages  BY DEF TypeOK
      <4>2. \A i \in 1..Len(messages) : messages[i].uses \subseteq Uses  BY <4>1 DEF Messages
      <4> QED  BY <4>2 DEF Siblings, TurnOf
    <3> QED  BY <1>9, <3>1, <3>2 DEF List, rows
  <2> QED  BY <1>9, <2>1, <2>2 DEF List
<1>10. ASSUME NEW r \in Requests, Report(r)
       PROVE  \E q \in Requests : Ends(q)'
  <2>1. request'[r].at = "settle"  BY <1>3, <1>10 DEF Report, Free
  <2> QED  BY <2>1
<1>11. ASSUME NEW r \in Requests, Settle(r) \/ Think(r) \/ Rest(r) PROVE FALSE
  <2>1. \E s \in {"idle", "thinking"} : SetState(s)  BY <1>11 DEF Settle, Think, Rest
  <2> QED  BY <1>0, <1>1, <2>1, StateSet
<1>12. ASSUME NEW r \in Requests, Await(r)
       PROVE  \E u \in Uses : pending'[u] = "pending"
  <2>1. request[r].at = "await" /\ pending' = pending /\ request[r].uses \subseteq Uses
    BY <1>12 DEF Await, TypeOK, RequestStates
  <2>2. \E u \in request[r].uses : pending[u] = "pending"  BY <1>1, <2>1 DEF Offered, Writing
  <2> QED  BY <2>1, <2>2
<1>13. ASSUME NEW r \in Requests, CutOff(r)
       PROVE  (\E u \in Uses : pending'[u] = "pending") \/ (\E q \in Requests : Ends(q)')
  <2>1. /\ UNCHANGED <<conv, pending>> /\ Phase(request[r]) \in cut'
        /\ \A q \in Requests \ {r} : request'[q] = request[q]
    BY <1>3, <1>13 DEF CutOff, Finish, rows
  <2>2. ~Ends(r)  BY <2>1 DEF Phase
  <2> QED  BY <1>2, <2>1, <2>2
<1>14. ASSUME NEW r \in Requests, NEW u \in request[r].left, NEW status \in {"pending", "applied"},
              pending' = [pending EXCEPT ![u] = status], conv' = conv,
              status = "applied" => tools[u] = "read",
              request[r].at \in {"stage", "ride"},
              \A q \in Requests \ {r} : request'[q] = request[q]
       PROVE  (\E v \in Uses : pending'[v] = "pending") \/ (\E q \in Requests : Ends(q)')
  <2>1. u \in Uses  BY DEF TypeOK, RequestStates
  <2>2. pending'[u] = status /\ \A v \in Uses \ {u} : pending'[v] = pending[v]
    BY <1>3, <1>14, <2>1
  <2>3. pending[u] = "pending" => status = "pending"  BY <1>14, <2>1 DEF Cards
  <2> QED  BY <1>2, <1>14, <2>1, <2>2, <2>3
<1>15. ASSUME NEW r \in Requests, Stage(r)
       PROVE  (\E v \in Uses : pending'[v] = "pending") \/ (\E q \in Requests : Ends(q)')
  <2>1. PICK u \in request[r].left :
           LET left == request[r].left \ {u}
           IN /\ pending' = [pending EXCEPT ![u] = "pending"]
              /\ request' = IF left # {} THEN [request EXCEPT ![r].left = left]
                            ELSE [request EXCEPT ![r].left = Reads(r),
                                     ![r].at = IF Reads(r) = {} THEN "await" ELSE "ride"]
    BY <1>15 DEF Stage
  <2>2. \A q \in Requests \ {r} : request'[q] = request[q]  BY <1>3, <2>1
  <2>3. request[r].at = "stage" /\ conv' = conv  BY <1>15 DEF Stage
  <2> QED  BY <1>14, <2>1, <2>2, <2>3
<1>16. ASSUME NEW r \in Requests, Ride(r)
       PROVE  (\E v \in Uses : pending'[v] = "pending") \/ (\E q \in Requests : Ends(q)')
  <2>1. PICK u \in request[r].left :
           LET left == request[r].left \ {u}
           IN /\ pending' = [pending EXCEPT ![u] = "applied"]
              /\ request' = [request EXCEPT ![r].left = left, ![r].at = IF left = {} THEN "await" ELSE @]
    BY <1>16 DEF Ride
  <2>2. \A q \in Requests \ {r} : request'[q] = request[q]  BY <1>3, <2>1
  <2>3. request[r].at = "ride" /\ conv' = conv  BY <1>16 DEF Ride
  <2>4. tools[u] = "read"  BY <2>3 DEF Staged
  <2> QED  BY <1>14, <2>1, <2>2, <2>3, <2>4
<1> QED
  BY <1>4, <1>5, <1>6, <1>7, <1>8, <1>9, <1>10, <1>11, <1>12, <1>13, <1>15, <1>16 DEF Next, Handle
-------------------------------------------------------------------------------
LEMMA TurnInit == Init => TurnInv
<1> SUFFICES ASSUME Init PROVE TurnInv  OBVIOUS
<1>1. Inv  BY InvInit
<1>2. messages = <<>> /\ conv = "idle" /\ \A u \in Uses : pending[u] = "none"  BY DEF Init
<1>3. \A r \in Requests : request[r].at = "free"  BY DEF Init, Free
<1>4. Fresh /\ Closed  BY <1>2 DEF Fresh, Closed, Accepted, Bare
<1>5. Offered  BY <1>3 DEF Offered, Writing
<1>6. Lone /\ Resting /\ \A r \in Requests : InTurn(r)
  BY <1>2, <1>3, <1>4 DEF Lone, Resting, Restful, InTurn, Before, Writing, Handling
<1> QED  BY <1>1, <1>2, <1>4, <1>5, <1>6 DEF TurnInv, Conversation, Unstuck

LEMMA TurnStep == TurnInv /\ [Next]_vars => TurnInv'
  BY InvStep, NextFresh, NextConversation, NextOffered, NextUnstuck DEF TurnInv

LEMMA TurnHolds == Spec => []TurnInv
  BY TurnInit, TurnStep, PTL DEF Spec

(* A conversation that waits and is let alone has a card to click, unless  *)
(* a request was cut off with the results in its hands, a state was lost   *)
(* or a request began during a turn of the model.                          *)
THEOREM NeverLeftStuck == Spec => []NeverStuck
<1>1. TurnInv => NeverStuck  BY DEF TurnInv, Unstuck, NeverStuck, Quiet
<1> QED  BY <1>1, TurnHolds, PTL

(* While cards are open and nothing is under way the conversation waits.   *)
THEOREM OpenCardsHoldTheTurn == Spec => []CardsHoldTheTurn
<1>1. TurnInv => CardsHoldTheTurn
  <2> SUFFICES ASSUME TurnInv, Quiet, Calm, NEW u \in Uses, pending[u] = "pending"
               PROVE  conv = "awaiting"
    BY DEF CardsHoldTheTurn, Calm
  <2>1. conv # "deleted"  BY DEF TurnInv, Inv, Gone
  <2>2. Restful  BY <2>1 DEF TurnInv, Conversation, Resting
  <2>3. ~Closed  BY DEF Closed, Bare
  <2> QED  BY <2>1, <2>2, <2>3 DEF TurnInv, Inv, TypeOK, Restful
<1> QED  BY <1>1, TurnHolds, PTL

(* The transcript that is sent answers every tool use in its place.        *)
THEOREM TranscriptsAreAccepted == Spec => []TranscriptAccepted
<1>1. TurnInv => TranscriptAccepted
  <2> SUFFICES ASSUME TurnInv, NEW r \in Requests, request[r].at = "send", Calm
               PROVE  Accepted(messages)
    BY DEF TranscriptAccepted, Calm
  <2>1. CASE conv = "deleted"  BY <2>1 DEF TurnInv, Conversation, Accepted
  <2>2. CASE conv # "deleted"  BY <2>2 DEF TurnInv, Conversation, InTurn, Before, Closed
  <2> QED  BY <2>1, <2>2
<1> QED  BY <1>1, TurnHolds, PTL
-------------------------------------------------------------------------------
(***************************************************************************)
(* Agent implements Consent, for every set of requests and all bounds.     *)
(***************************************************************************)
AtCard == {"execute", "resolve"}

(* A request that is about a card has it in hand.                          *)
Handed == \A r \in Requests : request[r].at \in AtCard => request[r].use \in Uses

(* The rows of the cards are as they were.                                 *)
LEMMA CardsKept ==
    ASSUME UNCHANGED <<tools, pending>>, conv' = "deleted" <=> conv = "deleted"
    PROVE  \A u \in Uses : CardOf(u)' = CardOf(u)
  BY DEF CardOf

(* A request that is not about a card moves on to something that is not.   *)
LEMMA ClicksKept ==
    ASSUME NEW r \in Requests, request[r].at \notin AtCard, request'[r].at \notin AtCard,
           \A q \in Requests \ {r} : request'[q] = request[q]
    PROVE  \A q \in Requests : ClickOf(q)' = ClickOf(q)
<1> SUFFICES ASSUME NEW q \in Requests PROVE ClickOf(q)' = ClickOf(q)  OBVIOUS
<1>1. CASE q = r  BY <1>1 DEF ClickOf, AtCard
<1>2. CASE q # r  BY <1>2 DEF ClickOf
<1> QED  BY <1>1, <1>2

(* One click changes, and the others do not.                               *)
LEMMA ClickMoved ==
    ASSUME NEW r \in Requests, \A q \in Requests \ {r} : request'[q] = request[q],
           NEW x, ClickOf(r)' = x
    PROVE  [q \in Requests |-> ClickOf(q)]' = [[q \in Requests |-> ClickOf(q)] EXCEPT ![r] = x]
<1>1. \A q \in Requests \ {r} : ClickOf(q)' = ClickOf(q)  BY DEF ClickOf
<1> QED  BY <1>1

(* Where the steps of a request lead it.                                   *)
LEMMA Leads ==
    ASSUME TypeOK, NEW r \in Requests,
           \/ SendUserMessage(r) \/ Say(r) \/ List(r) \/ Report(r) \/ Settle(r)
           \/ Think(r) \/ Send(r) \/ Receive(r) \/ Stage(r) \/ Ride(r) \/ Await(r)
           \/ Feed(r) \/ Rest(r) \/ Refused(r)
    PROVE  /\ request[r].at \notin AtCard /\ request'[r].at \notin AtCard
           /\ \A q \in Requests \ {r} : request'[q] = request[q]
<1>1. request[r] \in RequestStates /\ request \in [Requests -> RequestStates]  BY DEF TypeOK
<1>2. CASE SendUserMessage(r)  BY <1>1, <1>2 DEF SendUserMessage, Goto, AtCard, RequestStates
<1>3. CASE Say(r)  BY <1>1, <1>3 DEF Say, Goto, AtCard, RequestStates
<1>4. CASE List(r)  BY <1>1, <1>4 DEF List, Finish, Free, AtCard, RequestStates
<1>5. CASE Report(r)  BY <1>1, <1>5 DEF Report, Free, AtCard
<1>6. CASE Settle(r)  BY <1>1, <1>6 DEF Settle, Free, AtCard
<1>7. CASE Think(r)  BY <1>1, <1>7 DEF Think, Goto, AtCard, RequestStates
<1>8. CASE Send(r)  BY <1>1, <1>8 DEF Send, Goto, AtCard, RequestStates
<1>9. CASE Receive(r)
  <2>a. PICK n \in 0..(MaxUses - Len(tools)) : \E kinds \in [1..n -> {"read", "write"}] :
           LET asked  == (Len(tools) + 1)..(Len(tools) + n)
               writes == {u \in asked : kinds[u - Len(tools)] = "write"}
           IN request' = [request EXCEPT
                 ![r].at = CASE n = 0 -> "rest" [] writes = {} -> "feed" [] OTHER -> "stage",
                 ![r].uses = asked,
                 ![r].left = writes]
    BY <1>9 DEF Receive
  <2>1. PICK kinds \in [1..n -> {"read", "write"}] :
           LET asked  == (Len(tools) + 1)..(Len(tools) + n)
               writes == {u \in asked : kinds[u - Len(tools)] = "write"}
           IN request' = [request EXCEPT
                 ![r].at = CASE n = 0 -> "rest" [] writes = {} -> "feed" [] OTHER -> "stage",
                 ![r].uses = asked,
                 ![r].left = writes]
    BY <2>a
  <2> DEFINE asked  == (Len(tools) + 1)..(Len(tools) + n)
             writes == {u \in asked : kinds[u - Len(tools)] = "write"}
             step   == CASE n = 0 -> "rest" [] writes = {} -> "feed" [] OTHER -> "stage"
  <2>2. step \in {"rest", "feed", "stage"}
    <3>1. CASE n = 0  BY <3>1
    <3>2. CASE n # 0 /\ writes = {}  BY <3>2
    <3>3. CASE n # 0 /\ writes # {}  BY <3>3
    <3> QED  BY <3>1, <3>2, <3>3
  <2>3. request' = [request EXCEPT ![r].at = step, ![r].uses = asked, ![r].left = writes]  BY <2>1
  <2> HIDE DEF asked, writes, step
  <2>4. request'[r].at = step  BY <1>1, <2>3 DEF RequestStates
  <2>5. \A q \in Requests \ {r} : request'[q] = request[q]  BY <1>1, <2>3
  <2>6. request[r].at = "receive"  BY <1>9 DEF Receive
  <2> QED  BY <2>2, <2>4, <2>5, <2>6 DEF AtCard
<1>10. CASE Stage(r)
  <2>1. request[r].at = "stage"  BY <1>10 DEF Stage
  <2>2. PICK u \in request[r].left :
           LET left == request[r].left \ {u}
           IN request' = IF left # {} THEN [request EXCEPT ![r].left = left]
                         ELSE [request EXCEPT ![r].left = Reads(r),
                                  ![r].at = IF Reads(r) = {} THEN "await" ELSE "ride"]
    BY <1>10 DEF Stage
  <2> QED  BY <1>1, <2>1, <2>2 DEF AtCard, RequestStates
<1>11. CASE Ride(r)
  <2>1. request[r].at = "ride"  BY <1>11 DEF Ride
  <2>2. PICK u \in request[r].left :
           LET left == request[r].left \ {u}
           IN request' = [request EXCEPT ![r].left = left, ![r].at = IF left = {} THEN "await" ELSE @]
    BY <1>11 DEF Ride
  <2> QED  BY <1>1, <2>1, <2>2 DEF AtCard, RequestStates
<1>12. CASE Await(r)  BY <1>1, <1>12 DEF Await, Finish, Free, AtCard
<1>13. CASE Feed(r)  BY <1>1, <1>13 DEF Feed, Free, AtCard
<1>14. CASE Rest(r)  BY <1>1, <1>14 DEF Rest, Finish, Free, AtCard
<1>15. CASE Refused(r)  BY <1>1, <1>15 DEF Refused, Finish, Free, AtCard
<1> QED  BY <1>2, <1>3, <1>4, <1>5, <1>6, <1>7, <1>8, <1>9, <1>10, <1>11, <1>12, <1>13, <1>14, <1>15
-------------------------------------------------------------------------------
(* Initial states map to initial states.                                   *)
LEMMA RefInit == Init => C!Init
<1> SUFFICES ASSUME Init PROVE C!Init  OBVIOUS
<1>1. \A u \in Uses : CardOf(u) = "none"  BY DEF Init, CardOf
<1>2. \A r \in Requests : ClickOf(r) = C!NoClick  BY DEF Init, Free, ClickOf, C!NoClick
<1> QED  BY <1>1, <1>2 DEF Init, C!Init

(* A step that changes neither cards nor clicks nor what was carried out.  *)
LEMMA Stutters ==
    ASSUME \A u \in Uses : CardOf(u)' = CardOf(u), \A r \in Requests : ClickOf(r)' = ClickOf(r),
           executed' = executed
    PROVE  UNCHANGED C!vars
  BY DEF C!vars

(* Settings of the conversation's state do not bring it back.              *)
LEMMA StateKept ==
    ASSUME NEW s \in {"idle", "thinking", "awaiting"}, SetState(s)
    PROVE  conv' = "deleted" <=> conv = "deleted"
  BY DEF SetState

(* Steps that are not about a card.                                        *)
LEMMA RefAside ==
    ASSUME Inv, NEW r \in Requests,
           \/ SendUserMessage(r) \/ Say(r) \/ List(r) \/ Report(r) \/ Settle(r)
           \/ Think(r) \/ Send(r) \/ Await(r) \/ Feed(r) \/ Rest(r) \/ Refused(r)
    PROVE  UNCHANGED C!vars
<1>1. \A q \in Requests : ClickOf(q)' = ClickOf(q)  BY Leads, ClicksKept DEF Inv
<1>2. UNCHANGED <<tools, pending, executed>> /\ (conv' = "deleted" <=> conv = "deleted")
  <2>1. CASE Settle(r) \/ Think(r) \/ Await(r) \/ Rest(r)
    <3>1. \E s \in {"idle", "thinking", "awaiting"} : SetState(s)
      BY <2>1 DEF Settle, Think, Await, Rest
    <3> QED  BY <2>1, <3>1, StateKept DEF Settle, Think, Await, Rest
  <2>2. CASE SendUserMessage(r) \/ Say(r) \/ List(r) \/ Report(r) \/ Send(r) \/ Feed(r) \/ Refused(r)
    BY <2>2 DEF SendUserMessage, Say, List, Report, Send, Feed, Refused, rows, history
  <2> QED  BY <2>1, <2>2
<1> QED  BY <1>1, <1>2, CardsKept, Stutters

(* A new answer asks for tool uses that have no rows yet.                  *)
LEMMA RefReceive ==
    ASSUME Inv, NEW r \in Requests, Receive(r)
    PROVE  UNCHANGED C!vars
<1>1. \A q \in Requests : ClickOf(q)' = ClickOf(q)  BY Leads, ClicksKept DEF Inv
<1>2. UNCHANGED <<conv, pending, executed>>  BY DEF Receive, history
<1>3. PICK kinds \in Seq({"read", "write"}) : tools' = tools \o kinds
  <2>a. PICK n \in 0..(MaxUses - Len(tools)) : \E kinds \in [1..n -> {"read", "write"}] :
           tools' = tools \o kinds
    BY DEF Receive
  <2>1. PICK kinds \in [1..n -> {"read", "write"}] : tools' = tools \o kinds
    BY <2>a
  <2>2. n \in Nat  BY AgentAssumption DEF Inv, TypeOK
  <2> QED  BY <2>1, <2>2, KindsSeq
<1>4. /\ Len(tools) \in Nat /\ Len(tools) <= Len(tools')  /\ Len(tools') \in Nat
      /\ \A u \in 1..Len(tools) : tools'[u] = tools[u]
  <2>1. tools \in Seq({"read", "write"}) /\ Len(tools) \in Nat /\ Len(kinds) \in Nat
    BY DEF Inv, TypeOK
  <2> QED  BY <1>3, <2>1, ConcatProperties
<1>5. ASSUME NEW u \in Uses
      PROVE  CardOf(u)' = CardOf(u)
  <2>1. u \in Nat /\ u >= 1  BY AgentAssumption DEF Uses
  <2>2. CASE u <= Len(tools)  BY <2>1, <2>2, <1>2, <1>4 DEF CardOf
  <2>3. CASE u > Len(tools)
    <3>1. pending[u] = "none"  BY <2>3 DEF Inv, Asked
    <3>2. ~(u \in 1..Len(tools))  BY <2>1, <2>3, <1>4
    <3> QED  BY <3>1, <3>2, <1>2 DEF CardOf
  <2> QED  BY <2>1, <2>2, <2>3, <1>4
<1> QED  BY <1>1, <1>2, <1>5, Stutters
-------------------------------------------------------------------------------
(* A card is put up.                                                       *)
LEMMA RefStage ==
    ASSUME Inv, NEW r \in Requests, Stage(r)
    PROVE  C!Next
<1>1. \A q \in Requests : ClickOf(q)' = ClickOf(q)  BY Leads, ClicksKept DEF Inv
<1>2. PICK u \in request[r].left : pending' = [pending EXCEPT ![u] = "pending"]  BY DEF Stage
<1>3. request[r].at = "stage" /\ conv # "deleted" /\ UNCHANGED <<conv, tools, executed>>
  BY DEF Stage, history
<1>4. u \in Uses /\ u \in 1..Len(tools)
  <2>1. u \in Uses /\ u \in request[r].uses  BY DEF Inv, TypeOK, RequestStates
  <2>2. u <= Len(tools)  BY <2>1 DEF Inv, Asked
  <2>3. Len(tools) \in Nat  BY DEF Inv, TypeOK
  <2> QED  BY <2>1, <2>2, <2>3, AgentAssumption DEF Uses
<1>5. tools[u] = "write" /\ pending[u] = "none"  BY <1>3 DEF Inv, Staged
<1>6. CardOf(u) = "none" /\ CardOf(u)' = "pending"
  BY <1>2, <1>3, <1>4, <1>5 DEF CardOf, Inv, TypeOK
<1>7. \A v \in Uses \ {u} : CardOf(v)' = CardOf(v)
  BY <1>2, <1>3, <1>4 DEF CardOf, Inv, TypeOK
<1>8. [v \in Uses |-> CardOf(v)]' = [[v \in Uses |-> CardOf(v)] EXCEPT ![u] = "pending"]
  BY <1>4, <1>6, <1>7
<1>9. C!Offer(u)  BY <1>1, <1>3, <1>4, <1>6, <1>8 DEF C!Offer
<1> QED  BY <1>4, <1>9 DEF C!Next

(* The row of a read is no card.                                           *)
LEMMA RefRide ==
    ASSUME Inv, NEW r \in Requests, Ride(r)
    PROVE  UNCHANGED C!vars
<1>1. \A q \in Requests : ClickOf(q)' = ClickOf(q)  BY Leads, ClicksKept DEF Inv
<1>2. PICK u \in request[r].left : pending' = [pending EXCEPT ![u] = "applied"]  BY DEF Ride
<1>3. request[r].at = "ride" /\ UNCHANGED <<conv, tools, executed>>  BY DEF Ride, history
<1>4. tools[u] # "write"  BY <1>3 DEF Inv, Staged
<1>5. \A v \in Uses : CardOf(v)' = CardOf(v)
  BY <1>2, <1>3, <1>4 DEF CardOf, Inv, TypeOK
<1> QED  BY <1>1, <1>3, <1>5, Stutters

(* A click.                                                                *)
LEMMA RefClick ==
    ASSUME Inv, NEW r \in Requests, NEW u \in Uses, NEW verdict \in {"applied", "rejected"},
           ResolvePendingAction(r, u, verdict)
    PROVE  C!Next
<1>1. /\ request[r].at = "free" /\ pending[u] = "pending"
      /\ UNCHANGED <<conv, tools, pending, executed>>
  BY DEF ResolvePendingAction, Open, rows
<1>2. request[r] \in RequestStates /\ request \in [Requests -> RequestStates]  BY DEF Inv, TypeOK
<1>3. /\ request'[r].at = IF verdict = "applied" THEN "execute" ELSE "resolve"
      /\ request'[r].use = u /\ request'[r].verdict = verdict
      /\ \A q \in Requests \ {r} : request'[q] = request[q]
  BY <1>2 DEF ResolvePendingAction, RequestStates
<1>4. ClickOf(r)' = [card |-> u, verdict |-> verdict, ran |-> verdict = "rejected"]
  BY <1>3 DEF ClickOf
<1>5. ClickOf(r) = C!NoClick  BY <1>1 DEF ClickOf, C!NoClick
<1>6. CardOf(u) = "pending"
  <2>1. conv # "deleted"  BY <1>1 DEF Inv, Gone
  <2>2. tools[u] = "write"  BY <1>1 DEF Inv, Cards
  <2>3. u \in Nat /\ u >= 1 /\ Len(tools) \in Nat  BY AgentAssumption DEF Uses, Inv, TypeOK
  <2>4. ~(u > Len(tools))  BY <1>1 DEF Inv, Asked
  <2> QED  BY <1>1, <2>1, <2>2, <2>3, <2>4 DEF CardOf
<1>7. \A v \in Uses : CardOf(v)' = CardOf(v)  BY <1>1, CardsKept
<1>8. C!Click(r, u, verdict)
  BY <1>1, <1>3, <1>4, <1>5, <1>6, <1>7, ClickMoved DEF C!Click
<1> QED  BY <1>8 DEF C!Next

(* Where a click and its consequences lead.                                *)
LEMMA HandedStep ==
    ASSUME Inv, Handed, [Next]_vars
    PROVE  Handed'
<1>r. request \in [Requests -> RequestStates]  BY DEF Inv, TypeOK
<1>1. CASE UNCHANGED vars \/ Delete  BY <1>1 DEF Handed, Delete, vars
<1>2. ASSUME NEW r \in Requests,
             \/ SendUserMessage(r) \/ Say(r) \/ List(r) \/ Report(r) \/ Settle(r)
             \/ Think(r) \/ Send(r) \/ Receive(r) \/ Stage(r) \/ Ride(r) \/ Await(r)
             \/ Feed(r) \/ Rest(r) \/ Refused(r)
      PROVE  Handed'
  BY <1>2, Leads DEF Handed, Inv
<1>3. ASSUME NEW r \in Requests, Execute(r) \/ Resolve(r)
      PROVE  Handed'
  <2>1. request[r].at \in AtCard  BY <1>3 DEF Execute, Resolve, AtCard
  <2>2. request'[r].use = request[r].use /\ \A q \in Requests \ {r} : request'[q] = request[q]
    BY <1>r, <1>3 DEF Execute, Resolve, Goto, RequestStates
  <2> QED  BY <2>1, <2>2 DEF Handed
<1>4. ASSUME NEW r \in Requests, CutOff(r)
      PROVE  Handed'
  <2>1. request'[r].at = "free" /\ \A q \in Requests \ {r} : request'[q] = request[q]
    BY <1>r, <1>4 DEF CutOff, Finish, Free
  <2> QED  BY <2>1 DEF Handed, AtCard
<1>5. ASSUME NEW r \in Requests, NEW u \in Uses, NEW verdict \in {"applied", "rejected"},
             ResolvePendingAction(r, u, verdict)
      PROVE  Handed'
  <2>1. request'[r].use = u /\ \A q \in Requests \ {r} : request'[q] = request[q]
    BY <1>r, <1>5 DEF ResolvePendingAction, RequestStates
  <2> QED  BY <2>1 DEF Handed
<1> QED  BY <1>1, <1>2, <1>3, <1>4, <1>5 DEF Next, Handle

(* Two clicks that agree in every field are the same click.                 *)
LEMMA SameFields ==
    ASSUME NEW U, NEW V, NEW y \in [card : U, verdict : V, ran : BOOLEAN],
           NEW z \in [card : U, verdict : V, ran : BOOLEAN],
           y.card = z.card, y.verdict = z.verdict, y.ran = z.ran
    PROVE  y = z
  OBVIOUS

(* A click whose tool has run differs from what it was in that alone.      *)
LEMMA RanNow ==
    ASSUME NEW U, NEW V, NEW u \in U, NEW v \in V
    PROVE  [[card |-> u, verdict |-> v, ran |-> FALSE] EXCEPT !.ran = TRUE]
             = [card |-> u, verdict |-> v, ran |-> TRUE]
<1> DEFINE before == [card |-> u, verdict |-> v, ran |-> FALSE]
           moved  == [before EXCEPT !.ran = TRUE]
           after  == [card |-> u, verdict |-> v, ran |-> TRUE]
<1>1. before \in [card : U, verdict : V, ran : BOOLEAN] /\ before.card = u /\ before.verdict = v
  OBVIOUS
<1>2. after \in [card : U, verdict : V, ran : BOOLEAN]
      /\ after.card = u /\ after.verdict = v /\ after.ran = TRUE
  OBVIOUS
<1> HIDE DEF before
<1>3. moved \in [card : U, verdict : V, ran : BOOLEAN]
      /\ moved.card = u /\ moved.verdict = v /\ moved.ran = TRUE
  BY <1>1
<1> HIDE DEF moved, after
<1>4. moved = after  BY <1>2, <1>3, SameFields
<1> QED  BY <1>4 DEF moved, after, before

(* The tool of a click runs, or refuses.                                   *)
LEMMA RefExecute ==
    ASSUME Inv, Handed, NEW r \in Requests, Execute(r)
    PROVE  C!Next
<1> DEFINE u == request[r].use
<1>1. request[r].at = "execute" /\ UNCHANGED <<conv, tools, pending>>  BY DEF Execute, rows
<1>2. request[r] \in RequestStates /\ request \in [Requests -> RequestStates]  BY DEF Inv, TypeOK
<1>3. /\ request'[r].at = "resolve" /\ request'[r].use = u
      /\ request'[r].verdict = request[r].verdict
      /\ \A q \in Requests \ {r} : request'[q] = request[q]
  BY <1>2 DEF Execute, Goto, RequestStates
<1>4. ClickOf(r) = [card |-> u, verdict |-> request[r].verdict, ran |-> FALSE]  BY <1>1 DEF ClickOf
<1>5. ClickOf(r)' = [card |-> u, verdict |-> request[r].verdict, ran |-> TRUE]  BY <1>3 DEF ClickOf
<1>6. u \in Uses /\ request[r].verdict = "applied"
  BY <1>1 DEF Handed, AtCard, Inv, Cards, AtWork
<1>7. \A v \in Uses : CardOf(v)' = CardOf(v)  BY <1>1, CardsKept
<1>8. executed' = [executed EXCEPT ![u] = @ + 1] \/ executed' = executed  BY DEF Execute
<1> DEFINE clicks == [q \in Requests |-> ClickOf(q)]
           x      == [card |-> u, verdict |-> request[r].verdict, ran |-> TRUE]
<1>9. clicks' = [clicks EXCEPT ![r] = x]  BY <1>3, <1>5, ClickMoved
<1>10. clicks[r] = ClickOf(r) /\ clicks[r].card = u /\ clicks[r].verdict = "applied" /\ ~clicks[r].ran
  BY <1>4, <1>6
<1>11. [clicks EXCEPT ![r].ran = TRUE] = [clicks EXCEPT ![r] = x]
  <2>0. clicks[r] = [card |-> u, verdict |-> request[r].verdict, ran |-> FALSE]  BY <1>4
  <2> HIDE DEF clicks
  <2>1. [clicks[r] EXCEPT !.ran = TRUE] = x
    <3>1. u \in {u} /\ request[r].verdict \in {request[r].verdict}  OBVIOUS
    <3> QED  BY <2>0, <3>1, RanNow
  <2> HIDE DEF x
  <2> QED  BY <2>1
<1>12. clicks' = [clicks EXCEPT ![r].ran = TRUE]  BY <1>9, <1>11
<1>13. [v \in Uses |-> CardOf(v)]' = [v \in Uses |-> CardOf(v)]  BY <1>7
<1>14. executed' = [executed EXCEPT ![clicks[r].card] = @ + 1] \/ executed' = executed
  BY <1>8, <1>10
<1>15. C!Carry(r)  BY <1>10, <1>12, <1>13, <1>14 DEF C!Carry
<1> QED  BY <1>15 DEF C!Next

(* The verdict of a click is written, if the card is still there.          *)
LEMMA RefResolve ==
    ASSUME Inv, Handed, NEW r \in Requests, Resolve(r)
    PROVE  C!Next
<1>u. PICK u \in Uses : u = request[r].use  BY DEF Resolve, Handed, AtCard
<1>1. request[r].at = "resolve" /\ UNCHANGED <<conv, tools, executed>>  BY DEF Resolve, history
<1>2. request[r] \in RequestStates /\ request \in [Requests -> RequestStates]
      /\ pending \in [Uses -> {"none", "pending", "applied", "rejected"}]
  BY DEF Inv, TypeOK
<1>3. request'[r].at = "list" /\ \A q \in Requests \ {r} : request'[q] = request[q]
  BY <1>2 DEF Resolve, Goto, RequestStates
<1>4. ClickOf(r) = [card |-> u, verdict |-> request[r].verdict, ran |-> TRUE]  BY <1>1, <1>u DEF ClickOf
<1>5. ClickOf(r)' = C!NoClick  BY <1>3 DEF ClickOf, C!NoClick
<1>6. u \in Uses /\ u <= Len(tools) /\ tools[u] = "write"
  BY <1>1, <1>u DEF Inv, Cards, AtWork
<1>7. u \in 1..Len(tools)
  <2>1. u \in Nat /\ u >= 1 /\ Len(tools) \in Nat
    BY <1>6, AgentAssumption DEF Uses, Inv, TypeOK
  <2> QED  BY <1>6, <2>1
<1>8. \A v \in Uses :
         CardOf(v)' = IF v = u /\ CardOf(v) # "gone" THEN request[r].verdict ELSE CardOf(v)
  <2>1. CASE conv = "deleted"  BY <2>1, <1>1 DEF CardOf, Resolve
  <2>2. CASE conv # "deleted"
    <3>1. pending' = [pending EXCEPT ![u] = request[r].verdict]  BY <2>2, <1>u DEF Resolve
    <3>2. CardOf(u)' = request[r].verdict
      <4>1. pending'[u] = request[r].verdict  BY <3>1, <1>2, <1>6
      <4>2. conv' # "deleted" /\ u \in 1..Len(tools') /\ tools'[u] = "write"  BY <2>2, <1>1, <1>6, <1>7
      <4> QED  BY <4>1, <4>2 DEF CardOf
    <3>3. CardOf(u) # "gone"  BY <2>2, <1>2, <1>6 DEF CardOf
    <3>4. \A v \in Uses \ {u} : CardOf(v)' = CardOf(v)  BY <3>1, <1>1, <1>2 DEF CardOf
    <3> QED  BY <3>2, <3>3, <3>4, <1>6
  <2> QED  BY <2>1, <2>2
<1>9. C!Rule(r)  BY <1>1, <1>3, <1>4, <1>5, <1>8, ClickMoved DEF C!Rule
<1> QED  BY <1>9 DEF C!Next

(* A request is cut off, and with it the click it was handling.            *)
LEMMA RefCutOff ==
    ASSUME Inv, NEW r \in Requests, CutOff(r)
    PROVE  C!Next
<1>1. UNCHANGED <<conv, tools, pending, executed>>  BY DEF CutOff, rows
<1>2. request'[r].at = "free" /\ \A q \in Requests \ {r} : request'[q] = request[q]
  BY DEF CutOff, Finish, Free, Inv, TypeOK
<1>3. ClickOf(r)' = C!NoClick  BY <1>2 DEF ClickOf, C!NoClick
<1>4. \A v \in Uses : CardOf(v)' = CardOf(v)  BY <1>1, CardsKept
<1>5. C!Drop(r)  BY <1>1, <1>2, <1>3, <1>4, ClickMoved DEF C!Drop
<1> QED  BY <1>5 DEF C!Next

LEMMA RefDelete ==
    ASSUME Delete
    PROVE  C!Next
<1>1. \A v \in Uses : CardOf(v)' = "gone"  BY DEF Delete, CardOf
<1>2. \A q \in Requests : ClickOf(q)' = ClickOf(q)  BY DEF Delete, ClickOf
<1>3. executed' = executed  BY DEF Delete, history
<1>4. C!Delete  BY <1>1, <1>2, <1>3 DEF C!Delete
<1> QED  BY <1>4 DEF C!Next

(* Every step maps to a step or a stutter.                                 *)
LEMMA RefStep ==
    ASSUME Inv, Handed, [Next]_vars
    PROVE  [C!Next]_(C!vars)
<1>1. CASE UNCHANGED vars
  <2>1. \A u \in Uses : CardOf(u)' = CardOf(u)  BY <1>1 DEF vars, rows, CardOf
  <2>2. \A r \in Requests : ClickOf(r)' = ClickOf(r)  BY <1>1 DEF vars, ClickOf
  <2> QED  BY <1>1, <2>1, <2>2, Stutters DEF vars, history
<1>2. CASE Delete  BY <1>2, RefDelete
<1>3. ASSUME NEW r \in Requests, Handle(r)
      PROVE  [C!Next]_(C!vars)
  BY <1>3, RefAside, RefReceive, RefStage, RefRide, RefExecute, RefResolve DEF Handle
<1>4. ASSUME NEW r \in Requests, SendUserMessage(r)
      PROVE  [C!Next]_(C!vars)
  BY <1>4, RefAside
<1>5. ASSUME NEW r \in Requests,
             \/ CutOff(r)
             \/ \E u \in Uses, verdict \in {"applied", "rejected"} : ResolvePendingAction(r, u, verdict)
      PROVE  [C!Next]_(C!vars)
  BY <1>5, RefCutOff, RefClick
<1> QED  BY <1>1, <1>2, <1>3, <1>4, <1>5 DEF Next

(* Agent implements Consent: cards are offered once and ruled on by clicks *)
(* made while they were open, and a click of Apply is worth at most one    *)
(* run, however requests, clicks, cuts and deletions interleave.           *)
THEOREM ImplementsConsent == Spec => Consented
<1>1. Init => Handed
  <2>1. Init => \A r \in Requests : request[r] = Free  BY DEF Init
  <2>2. Free.at = "free"  BY DEF Free
  <2> QED  BY <2>1, <2>2 DEF Handed, AtCard
<1>2. Inv /\ Handed /\ [Next]_vars => Inv' /\ Handed'  BY InvStep, HandedStep
<1>3. Inv /\ Handed /\ [Next]_vars => [C!Next]_(C!vars)  BY RefStep
<1> QED  BY <1>1, <1>2, <1>3, InvInit, RefInit, PTL DEF Spec, Consented, C!Spec
=============================================================================
