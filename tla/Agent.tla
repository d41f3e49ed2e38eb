-------------------------------- MODULE Agent --------------------------------
(***************************************************************************)
(* The assistant's conversation protocol: internal/ai/agent.go over the    *)
(* rows of internal/db/ai.go, as the requests of                           *)
(* internal/httpx/handlers_ai.go run it.                                   *)
(*                                                                         *)
(* The model answers with text and tool uses.  Tools that read run at      *)
(* once; tools that write become pending actions, and the conversation     *)
(* waits until the user has applied or rejected each of them.  Only then   *)
(* are the results sent back.  The API accepts a transcript only when      *)
(* every tool use is answered in the message after it.                     *)
(*                                                                         *)
(* Requests run beside each other (two tabs, a double click), and each may *)
(* be cut off at any step by its deadline, the database or a restart.      *)
(* Conversations share nothing, so there is one.                           *)
(***************************************************************************)
EXTENDS Naturals, Sequences

CONSTANTS
    Requests,       \* requests that may be under way at one time
    MaxIterations,  \* round trips of one request (maxLoopIterations, 10)
    MaxUses,        \* bound on the tool uses the model asks for
    MaxSends,       \* bound on the messages the user sends
    MaxLosses       \* bound on cut-off requests and lost writes of the state

ASSUME AgentAssumption ==
    /\ MaxIterations \in Nat \ {0}
    /\ {MaxUses, MaxSends, MaxLosses} \subseteq Nat

VARIABLES
    conv,      \* state of the conversation, "deleted" once its row is gone
    messages,  \* ai_message: the role, the tool uses asked for or answered
    tools,     \* tools[u]: whether tool use u reads or writes
    pending,   \* pending[u]: status of u's ai_pending_action, "none" without
    request,   \* request[r]: what a request is doing
    executed,  \* history: how often a write tool was carried out
    applied,   \* history: the tool uses on which the user clicked Apply
    doubled,   \* history: tool uses clicked while a click on them was handled
    crossed,   \* history: a request began during another's turn of the model
    paired,    \* history: a click came while another click was being handled
    cut,       \* history: the phases in which a request was cut off
    sends, losses   \* counters of the bounds

rows    == <<conv, messages, tools, pending>>
history == <<executed, applied, doubled, crossed, paired, cut>>
vars    == <<rows, request, history, sends, losses>>

Uses    == 1..MaxUses
Phases  == {"early", "answer", "executed", "results", "state"}
Turn    == {"say", "think", "send", "receive", "stage", "ride", "await", "feed", "rest"}
Resolving == {"execute", "resolve", "list", "report", "settle"}
Free    == [at |-> "free", use |-> 0, verdict |-> "none", uses |-> {}, left |-> {}, trips |-> 0]

Messages == [role : {"user", "assistant"}, uses : SUBSET Uses]
RequestStates ==
    [at : Turn \cup Resolving \cup {"free"}, use : Uses \cup {0},
     verdict : {"none", "applied", "rejected"}, uses : SUBSET Uses, left : SUBSET Uses,
     trips : 0..(MaxIterations - 1)]

TypeOK ==
    /\ conv \in {"idle", "thinking", "awaiting", "deleted"}
    /\ messages \in Seq(Messages)
    /\ tools \in Seq({"read", "write"}) /\ Len(tools) <= MaxUses
    /\ pending \in [Uses -> {"none", "pending", "applied", "rejected"}]
    /\ request \in [Requests -> RequestStates]
    /\ executed \in [Uses -> Nat]
    /\ applied \subseteq Uses /\ doubled \subseteq Uses
    /\ {crossed, paired} \subseteq BOOLEAN
    /\ cut \subseteq Phases
    /\ sends \in 0..MaxSends /\ losses \in 0..MaxLosses
    \* what a turn still has to write belongs to the answer it got
    /\ \A r \in Requests : request[r].left \subseteq request[r].uses

Init ==
    /\ conv = "idle"
    /\ messages = <<>>
    /\ tools = <<>>
    /\ pending = [u \in Uses |-> "none"]
    /\ request = [r \in Requests |-> Free]
    /\ executed = [u \in Uses |-> 0]
    /\ applied = {} /\ doubled = {}
    /\ crossed = FALSE /\ paired = FALSE
    /\ cut = {}
    /\ sends = 0 /\ losses = 0
-------------------------------------------------------------------------------
(* Pieces of the steps.                                                    *)

Goto(r, step) == request' = [request EXCEPT ![r].at = step]
Finish(r)     == request' = [request EXCEPT ![r] = Free]

(* A row of a deleted conversation is refused by its foreign key.          *)
Insert(role, uses) ==
    /\ conv # "deleted"
    /\ messages' = Append(messages, [role |-> role, uses |-> uses])

(* SetState's error is ignored everywhere.                                 *)
SetState(s) ==
    \/ /\ conv' = IF conv = "deleted" THEN conv ELSE s
       /\ UNCHANGED <<cut, losses>>
    \/ /\ losses < MaxLosses
       /\ losses' = losses + 1
       /\ cut' = cut \cup {"state"}
       /\ UNCHANGED conv

Others(r, steps) == \E q \in Requests \ {r} : request[q].at \in steps

(* The tool uses of the message that asked for u, and its rows.            *)
TurnOf(u) == UNION {messages[i].uses : i \in {j \in 1..Len(messages) :
                        messages[j].role = "assistant" /\ u \in messages[j].uses}}
Siblings(u) == {v \in TurnOf(u) : pending[v] # "none"}

(* The API answers a transcript in which a user message with the results   *)
(* of all its tool uses follows every message of the assistant, and no     *)
(* other message has results.                                              *)
Accepted(ms) ==
    \A i \in 1..Len(ms) :
        ms[i].uses # {} =>
            IF ms[i].role = "assistant"
            THEN i < Len(ms) /\ ms[i + 1] = [role |-> "user", uses |-> ms[i].uses]
            ELSE i > 1 /\ ms[i - 1] = [role |-> "assistant", uses |-> ms[i].uses]
-------------------------------------------------------------------------------
(* SendUserMessage.                                                        *)

MaySendAnyTime == conv # "deleted"
MaySend        == conv \in {"idle", "thinking"}

SendUserMessage(r) ==
    /\ request[r].at = "free" /\ sends < MaxSends
    /\ MaySend
    /\ Goto(r, "say")
    /\ sends' = sends + 1
    /\ crossed' = (crossed \/ Others(r, Turn))
    /\ UNCHANGED <<rows, executed, applied, doubled, paired, cut, losses>>

Say(r) ==
    /\ request[r].at = "say"
    /\ Insert("user", {})
    /\ Goto(r, "think")
    /\ UNCHANGED <<conv, tools, pending, history, sends, losses>>

(* ResolvePendingAction: the user clicks Apply or Reject on the card of a  *)
(* pending action; a click on one that was resolved is refused.            *)
Known(u) == pending[u] # "none"
Open(u)  == pending[u] = "pending"

ResolvePendingAction(r, u, verdict) ==
    /\ request[r].at = "free"
    /\ Open(u)
    /\ request' = [request EXCEPT ![r].at = IF verdict = "applied" THEN "execute" ELSE "resolve",
                                  ![r].use = u, ![r].verdict = verdict]
    /\ applied' = IF verdict = "applied" THEN applied \cup {u} ELSE applied
    /\ doubled' = IF \E q \in Requests : request[q].at \in Resolving /\ request[q].use = u
                  THEN doubled \cup {u} ELSE doubled
    /\ crossed' = (crossed \/ Others(r, Turn))
    /\ paired'  = (paired \/ Others(r, Resolving))
    /\ UNCHANGED <<rows, executed, cut, sends, losses>>

(* The tool runs; an error is a result like another, and has no effect.    *)
Execute(r) ==
    /\ request[r].at = "execute"
    /\ \/ executed' = [executed EXCEPT ![request[r].use] = @ + 1]
       \/ UNCHANGED executed
    /\ Goto(r, "resolve")
    /\ UNCHANGED <<rows, applied, doubled, crossed, paired, cut, sends, losses>>

Resolve(r) ==
    /\ request[r].at = "resolve"
    /\ pending' = IF conv = "deleted" THEN pending
                  ELSE [pending EXCEPT ![request[r].use] = request[r].verdict]
    /\ Goto(r, "list")
    /\ UNCHANGED <<conv, messages, tools, history, sends, losses>>

(* While a sibling is pending the request just ends.                       *)
AllApplied(u)  == \A v \in Siblings(u) : pending[v] = "applied"
AllResolved(u) == \A v \in Siblings(u) : pending[v] # "pending"

List(r) ==
    /\ request[r].at = "list"
    /\ LET u == request[r].use
       IN \/ AllResolved(u) /\ request' = [request EXCEPT ![r].at = "report", ![r].uses = Siblings(u)]
          \/ ~AllResolved(u) /\ Finish(r)
    /\ UNCHANGED <<rows, history, sends, losses>>

Report(r) ==
    /\ request[r].at = "report"
    /\ Insert("user", request[r].uses)
    /\ request' = [request EXCEPT ![r] = [Free EXCEPT !.at = "settle"]]
    /\ UNCHANGED <<conv, tools, pending, history, sends, losses>>

Settle(r) ==
    /\ request[r].at = "settle"
    /\ SetState("idle")
    /\ request' = [request EXCEPT ![r] = [Free EXCEPT !.at = "think"]]
    /\ UNCHANGED <<messages, tools, pending, executed, applied, doubled, crossed, paired, sends>>
-------------------------------------------------------------------------------
(* advance: the loop of calls to the model.                                *)

Think(r) ==
    /\ request[r].at = "think"
    /\ SetState("thinking")
    /\ Goto(r, "send")
    /\ UNCHANGED <<messages, tools, pending, executed, applied, doubled, crossed, paired, sends>>

(* The transcript is read and sent; the API refuses it or fails, or the    *)
(* answer is under way.                                                    *)
Send(r) ==
    /\ request[r].at = "send"
    /\ \/ Accepted(messages) /\ Goto(r, "receive")
       \/ Goto(r, "rest")
    /\ UNCHANGED <<rows, history, sends, losses>>

(* The answer is stored.  Without tool uses the turn is over.              *)
Receive(r) ==
    /\ request[r].at = "receive"
    /\ \E n \in 0..(MaxUses - Len(tools)) : \E kinds \in [1..n -> {"read", "write"}] :
          LET asked  == (Len(tools) + 1)..(Len(tools) + n)
              writes == {u \in asked : kinds[u - Len(tools)] = "write"}
          IN /\ Insert("assistant", asked)
             /\ tools' = tools \o kinds
             /\ request' = [request EXCEPT
                   ![r].at = CASE n = 0 -> "rest" [] writes = {} -> "feed" [] OTHER -> "stage",
                   ![r].uses = asked,
                   ![r].left = writes]
    /\ UNCHANGED <<conv, pending, history, sends, losses>>

First(u, S) == \A v \in S : u <= v

(* The writes are staged one after the other, then the results of the      *)
(* reads ride alongside.  (ReadsForgotten: as if they did not;             *)
(* ReadsAndWrites: as if the writes rode with them.)                       *)
ReadsForgotten(r) == {}
ReadsAndWrites(r) == request[r].uses
Reads(r) == {u \in request[r].uses : tools[u] = "read"}

Stage(r) ==
    /\ request[r].at = "stage" /\ conv # "deleted"
    /\ \E u \in request[r].left :
          LET left == request[r].left \ {u}
          IN /\ First(u, request[r].left)
             /\ pending' = [pending EXCEPT ![u] = "pending"]
             /\ request' = IF left # {} THEN [request EXCEPT ![r].left = left]
                           ELSE [request EXCEPT ![r].left = Reads(r),
                                    ![r].at = IF Reads(r) = {} THEN "await" ELSE "ride"]
    /\ UNCHANGED <<conv, messages, tools, history, sends, losses>>

Ride(r) ==
    /\ request[r].at = "ride" /\ conv # "deleted"
    /\ \E u \in request[r].left :
          LET left == request[r].left \ {u}
          IN /\ First(u, request[r].left)
             /\ pending' = [pending EXCEPT ![u] = "applied"]
             /\ request' = [request EXCEPT ![r].left = left, ![r].at = IF left = {} THEN "await" ELSE @]
    /\ UNCHANGED <<conv, messages, tools, history, sends, losses>>

Await(r) ==
    /\ request[r].at = "await"
    /\ SetState("awaiting")
    /\ Finish(r)
    /\ UNCHANGED <<messages, tools, pending, executed, applied, doubled, crossed, paired, sends>>

(* A turn of reads only: their results are the next message, and the loop  *)
(* goes round unless it has used up its iterations.                        *)
TripsLeft(r) == request[r].trips + 1 < MaxIterations

Feed(r) ==
    /\ request[r].at = "feed"
    /\ Insert("user", request[r].uses)
    /\ request' = [request EXCEPT ![r] =
          IF TripsLeft(r)
          THEN [Free EXCEPT !.at = "think", !.trips = request[r].trips + 1]
          ELSE [Free EXCEPT !.at = "rest"]]
    /\ UNCHANGED <<conv, tools, pending, history, sends, losses>>

Rest(r) ==
    /\ request[r].at = "rest"
    /\ SetState("idle")
    /\ Finish(r)
    /\ UNCHANGED <<messages, tools, pending, executed, applied, doubled, crossed, paired, sends>>
-------------------------------------------------------------------------------
(* Failures, and the end of a conversation.                                *)

(* What a cut at this step leaves undone.                                  *)
Phase(q) ==
    CASE q.at \in {"stage", "ride", "await", "feed"}                 -> "answer"
      [] q.at = "resolve" /\ q.verdict = "applied"                   -> "executed"
      [] q.at \in {"list", "report", "settle"}                       -> "results"
      [] OTHER                                                       -> "early"

(* A request ends at a failed statement, its deadline or a restart.        *)
CutOff(r) ==
    /\ request[r].at # "free" /\ losses < MaxLosses
    /\ losses' = losses + 1
    /\ cut' = cut \cup {Phase(request[r])}
    /\ Finish(r)
    /\ UNCHANGED <<rows, executed, applied, doubled, crossed, paired, sends>>

(* A write to a conversation that is gone ends the request as well.        *)
Refused(r) ==
    /\ conv = "deleted"
    /\ request[r].at \in {"say", "report", "receive", "stage", "ride", "feed"}
    /\ Finish(r)
    /\ UNCHANGED <<rows, history, sends, losses>>

(* The user, or the sweep of conversations thirty days old; messages and   *)
(* actions go with it.                                                     *)
Delete ==
    /\ conv # "deleted"
    /\ conv' = "deleted"
    /\ messages' = <<>>
    /\ pending' = [u \in Uses |-> "none"]
    /\ UNCHANGED <<tools, request, history, sends, losses>>

Handle(r) ==
    \/ Say(r) \/ Execute(r) \/ Resolve(r) \/ List(r) \/ Report(r) \/ Settle(r)
    \/ Think(r) \/ Send(r) \/ Receive(r) \/ Stage(r) \/ Ride(r) \/ Await(r)
    \/ Feed(r) \/ Rest(r) \/ Refused(r)

Next ==
    \/ \E r \in Requests :
          \/ SendUserMessage(r) \/ Handle(r) \/ CutOff(r)
          \/ \E u \in Uses, verdict \in {"applied", "rejected"} : ResolvePendingAction(r, u, verdict)
    \/ Delete

Spec == Init /\ [][Next]_vars
-------------------------------------------------------------------------------
(* Properties.                                                             *)

Quiet == \A r \in Requests : request[r].at = "free"

(* Nothing is carried out that the user did not apply, and what was        *)
(* applied is carried out once: however clicks, messages and turns of the  *)
(* model interleave, unless two clicks on the same card overlap or a click *)
(* is cut off after the tool ran.  A rejected action is never carried out. *)
AppliedOnce ==
    \A u \in Uses :
        /\ executed[u] > 0 => u \in applied /\ tools[u] = "write"
        /\ u \notin doubled /\ "executed" \notin cut =>
              /\ executed[u] <= 1
              /\ pending[u] = "rejected" => executed[u] = 0

(* A conversation that waits for confirmation, with no request under way,  *)
(* has a card to click: otherwise the user can neither write nor click,    *)
(* and SendUserMessage refuses for ever.  It takes a request cut off with  *)
(* the results in its hands, a lost state or a request during a turn of    *)
(* the model to bring this about.                                          *)
NeverStuck ==
    Quiet /\ conv = "awaiting" /\ ~crossed /\ cut \cap {"results", "state"} = {} =>
        \E u \in Uses : pending[u] = "pending"

(* The other way about: while cards are open and nothing is under way, the *)
(* conversation waits, so that no message of the user comes between a tool *)
(* use and its results.                                                    *)
CardsHoldTheTurn ==
    Quiet /\ (\E u \in Uses : pending[u] = "pending")
          /\ ~crossed /\ ~paired /\ cut \cap {"answer", "state"} = {} =>
        conv = "awaiting"

(* Whatever the model asks for and the user decides, in any order, and     *)
(* whatever fails before an answer is stored or while a card is handled,   *)
(* the next transcript answers every tool use once and the API takes it.   *)
(* Requests that cross a turn or a click, an answer whose rows were cut    *)
(* off and a lost state are what can spoil it.                             *)
TranscriptAccepted ==
    \A r \in Requests :
        request[r].at = "send" /\ ~crossed /\ ~paired /\ cut \cap {"answer", "state"} = {} =>
            Accepted(messages)
-------------------------------------------------------------------------------
(* The consent this is about: the cards of tool uses that write, and the   *)
(* clicks whose ruling is not written yet.                                 *)
CardOf(u) ==
    IF conv = "deleted" THEN "gone"
    ELSE IF u \in 1..Len(tools) /\ tools[u] = "write" THEN pending[u] ELSE "none"

ClickOf(r) ==
    IF request[r].at \in {"execute", "resolve"}
    THEN [card |-> request[r].use, verdict |-> request[r].verdict, ran |-> request[r].at = "resolve"]
    ELSE [card |-> 0, verdict |-> "none", ran |-> FALSE]

C == INSTANCE Consent WITH
        Cards <- Uses, Clickers <- Requests, carried <- executed,
        card <- [u \in Uses |-> CardOf(u)], click <- [r \in Requests |-> ClickOf(r)]

(* A card is offered once, ruled on only by clicks made while it was open, *)
(* and never opened again; a click of Apply is worth at most one run of    *)
(* the tool, and no tool that writes runs without one - even when clicks   *)
(* cross and requests are cut off.                                         *)
Consented == C!Spec
=============================================================================
