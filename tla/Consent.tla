------------------------------- MODULE Consent -------------------------------
(***************************************************************************)
(* What the assistant promises about the user's consent, however its       *)
(* requests, their failures and the model's turns interleave               *)
(* (internal/ai/agent.go: SendUserMessage, ResolvePendingAction, advance). *)
(*                                                                         *)
(* A change that the model asks for is a card.  It is offered once, and    *)
(* ruled on only by clicks made while it was open.  A click of Apply is    *)
(* worth one run of the change, before its ruling, and nothing else runs   *)
(* it.  Agent implements this (Consented, proved in AgentProofs).          *)
(***************************************************************************)
EXTENDS Naturals

CONSTANTS Cards, Clickers

VARIABLES
    card,     \* card[u]: what has become of the card
    click,    \* click[c]: the click that c is handling
    carried   \* carried[u]: how often the change was carried out

vars == <<card, click, carried>>

NoClick == [card |-> 0, verdict |-> "none", ran |-> FALSE]

Init ==
    /\ card = [u \in Cards |-> "none"]
    /\ click = [c \in Clickers |-> NoClick]
    /\ carried = [u \in Cards |-> 0]

Offer(u) ==
    /\ card[u] = "none"
    /\ card' = [card EXCEPT ![u] = "pending"]
    /\ UNCHANGED <<click, carried>>

Click(c, u, verdict) ==
    /\ card[u] = "pending" /\ click[c] = NoClick
    /\ click' = [click EXCEPT ![c] = [card |-> u, verdict |-> verdict, ran |-> verdict = "rejected"]]
    /\ UNCHANGED <<card, carried>>

(* The change is carried out, or the tool refuses.                         *)
Carry(c) ==
    /\ click[c].verdict = "applied" /\ ~click[c].ran
    /\ click' = [click EXCEPT ![c].ran = TRUE]
    /\ \/ carried' = [carried EXCEPT ![click[c].card] = @ + 1]
       \/ UNCHANGED carried
    /\ UNCHANGED card

Rule(c) ==
    /\ click[c].ran
    /\ card' = [u \in Cards |->
                  IF u = click[c].card /\ card[u] # "gone" THEN click[c].verdict ELSE card[u]]
    /\ click' = [click EXCEPT ![c] = NoClick]
    /\ UNCHANGED carried

(* The request that handles the click is cut off.                          *)
Drop(c) ==
    /\ click' = [click EXCEPT ![c] = NoClick]
    /\ UNCHANGED <<card, carried>>

(* The conversation is deleted, and every card with it.                    *)
Delete ==
    /\ card' = [u \in Cards |-> "gone"]
    /\ UNCHANGED <<click, carried>>

Next ==
    \/ \E u \in Cards : Offer(u)
    \/ \E c \in Clickers :
          \/ Carry(c) \/ Rule(c) \/ Drop(c)
          \/ \E u \in Cards, verdict \in {"applied", "rejected"} : Click(c, u, verdict)
    \/ Delete

Spec == Init /\ [][Next]_vars
=============================================================================
