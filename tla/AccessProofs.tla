----------------------------- MODULE AccessProofs -----------------------------
(***************************************************************************)
(* Proofs about module Access, for any number of clients, refresh tokens,  *)
(* tries and failures.                                                     *)
(*                                                                         *)
(* What the account's row says is right only because of what is true of    *)
(* the tokens on their way to it: a refresh token that Google has handed   *)
(* out and nobody has stored yet is in one pair of hands (Exclusive), one  *)
(* that was denied stays dead (Denied), and a grant outlives its way to    *)
(* the row as long as the user does not withdraw it (Granted).             *)
(***************************************************************************)
EXTENDS Access, TLAPS

(* A client has a refresh token in hand from the moment it reads the row   *)
(* until it is done with it.                                               *)
InHand ==
    \A c \in Clients :
        /\ proc[c].at \in {"idle", "send", "read", "clear"} => proc[c].token = None
        /\ proc[c].at \in {"ask", "rotate", "mark"} => proc[c].token # None

(* A refresh token on its way to the row is nowhere else.                  *)
Exclusive ==
    /\ flow # NoFlow =>
          /\ flow.refresh # None /\ flow.refresh # row.refresh
          /\ \A c \in Clients : proc[c].token # flow.refresh
    /\ \A c \in Clients : Unsaved(c) =>
          /\ proc[c].token # row.refresh
          /\ \A d \in Clients \ {c} : proc[d].token # proc[c].token

(* A refresh token that was denied is dead.                                *)
Denied == \A c \in Clients : proc[c].at = "mark" => proc[c].token \notin valid

(* The grant of a consent that has not been withdrawn since is alive.      *)
Granted == flow # NoFlow /\ consent => flow.refresh \in valid

Inv == TypeOK /\ InHand /\ Exclusive /\ Denied /\ Granted
-------------------------------------------------------------------------------
(* A refresh token that Google hands out is nobody's.                      *)
LEMMA NewIsFree ==
    ASSUME Free # {}
    PROVE  /\ New \in Refreshes /\ New # None
           /\ New # row.refresh /\ New # flow.refresh
           /\ \A c \in Clients : New # proc[c].token
  BY AccessAssumption DEF New, Free, InUse

(* What a client's state becomes, field by field, is a client's state.     *)
LEMMA Fields ==
    ASSUME NEW x \in ClientStates
    PROVE  /\ \A at \in {"idle", "send", "read", "ask", "keep", "rotate", "clear", "mark"} :
                 [x EXCEPT !.at = at] \in ClientStates
           /\ \A w \in Worths : [x EXCEPT !.held = w] \in ClientStates
           /\ \A w \in Worths : [x EXCEPT !.got = w] \in ClientStates
           /\ \A t \in Tokens : [x EXCEPT !.token = t] \in ClientStates
           /\ \A b \in BOOLEAN : [x EXCEPT !.flagged = b] \in ClientStates
  BY DEF ClientStates

LEMMA AtRest == NoProc \in ClientStates /\ NoProc.done = 0
  BY AccessAssumption DEF NoProc, ClientStates, Tokens, Worths

LEMMA TypeInit == Init => TypeOK /\ InsertsOnce
<1> SUFFICES ASSUME Init PROVE TypeOK /\ InsertsOnce  OBVIOUS
<1>1. row \in Rows /\ valid \subseteq Refreshes /\ flow \in Flows
  BY AccessAssumption DEF Init, Rows, Flows, NoFlow, Tokens, Worths
<1>3. proc \in [Clients -> ClientStates]  BY AtRest DEF Init
<1>4. InsertsOnce  BY DEF Init, InsertsOnce, NoProc
<1>5. consent \in BOOLEAN /\ late \in BOOLEAN /\ strayed \in BOOLEAN  BY DEF Init
<1>6. asks \in 0..MaxAsks /\ upsets \in 0..MaxUpsets  BY AccessAssumption DEF Init
<1> QED  BY <1>1, <1>3, <1>4, <1>5, <1>6 DEF TypeOK

(* The state of one client changes, and stays a client's state.            *)
LEMMA OneMoves ==
    ASSUME proc \in [Clients -> ClientStates], InsertsOnce,
           NEW c \in Clients, NEW x \in ClientStates,
           proc' = [proc EXCEPT ![c] = x], Method(c) = "POST" => x.done = 0
    PROVE  proc' \in [Clients -> ClientStates] /\ InsertsOnce'
  BY DEF InsertsOnce, Method

LEMMA TypeAttempt ==
    ASSUME TypeOK, InsertsOnce, NEW c \in Clients, Attempt(c)
    PROVE  TypeOK' /\ InsertsOnce'
<1>1. proc[c] \in ClientStates  BY DEF TypeOK
<1>2. UNCHANGED <<row, valid, flow, consent, asks, late, strayed, upsets>>
  BY DEF Attempt, outside, history
<1>3. PICK out \in {<<"refused", 0>>, <<"ok", 1>>, <<"limited", 0>>, <<"server", 0>>, <<"server", 1>>} :
         IF Retryable(Method(c), out[1]) /\ ~LastTry(proc[c].tries)
         THEN proc' = [proc EXCEPT ![c].tries = @ + 1,
                                   ![c].done = IF Method(c) = "POST" THEN @ + out[2] ELSE 0]
         ELSE Ends(c) \/ (out[1] = "ok" /\ Asking(c, proc[c].held))
  BY DEF Attempt
<1>4. CASE Retryable(Method(c), out[1]) /\ ~LastTry(proc[c].tries)
  <2> DEFINE x == [proc[c] EXCEPT !.tries = @ + 1,
                                  !.done = IF Method(c) = "POST" THEN @ + out[2] ELSE 0]
  <2>1. proc' = [proc EXCEPT ![c] = x]  BY <1>3, <1>4
  <2>2. proc[c].tries + 1 \in 0..(MaxTries - 1)
    BY <1>1, <1>4, AccessAssumption DEF LastTry, ClientStates
  <2>3. Method(c) = "POST" => proc[c].done = 0 /\ out[2] = 0
    BY <1>4, <1>3 DEF Retryable, InsertsOnce
  <2>a. (IF Method(c) = "POST" THEN proc[c].done + out[2] ELSE 0) \in 0..MaxTries
    BY <2>3, AccessAssumption
  <2>4. x \in ClientStates  BY <1>1, <2>2, <2>a DEF ClientStates
  <2>5. Method(c) = "POST" => x.done = 0  BY <2>3, <1>1 DEF ClientStates
  <2> HIDE DEF x
  <2>6. proc' \in [Clients -> ClientStates] /\ InsertsOnce'  BY <2>1, <2>4, <2>5, OneMoves DEF TypeOK
  <2> QED  BY <1>2, <2>6 DEF TypeOK
<1>5. CASE ~(Retryable(Method(c), out[1]) /\ ~LastTry(proc[c].tries))
  <2>1. PICK x \in {NoProc, [NoProc EXCEPT !.at = "send", !.held = proc[c].held]} :
           proc' = [proc EXCEPT ![c] = x]
    BY <1>3, <1>5 DEF Ends, Asking
  <2>2. x \in ClientStates /\ x.done = 0
    <3>1. proc[c].held \in Worths  BY <1>1 DEF ClientStates
    <3>2. [NoProc EXCEPT !.at = "send", !.held = proc[c].held] \in ClientStates
      BY <3>1, AtRest DEF ClientStates
    <3> QED  BY <3>2, AtRest DEF NoProc
  <2>3. proc' \in [Clients -> ClientStates] /\ InsertsOnce'  BY <2>1, <2>2, OneMoves DEF TypeOK
  <2> QED  BY <1>2, <2>3 DEF TypeOK
<1> QED  BY <1>4, <1>5

(* Google's side and the row's, step by step.                              *)
LEMMA TypeOutside ==
    ASSUME TypeOK, InsertsOnce,
           \/ Revoke \/ Consent \/ Store \/ FlowFails
           \/ \E places \in SUBSET (Clients \cup {None}) : Lapse(places)
           \/ \E gone \in SUBSET Clients : Stop(gone)
    PROVE  TypeOK' /\ InsertsOnce'
<1> USE DEF TypeOK
<1>w. None \in Worths /\ None \in Tokens /\ \A a \in Worths : Withdrawn(a) \in Worths
  BY DEF Worths, Tokens, Withdrawn
<1>n. Withdrawn(None) = None  BY AccessAssumption DEF Withdrawn
<1>f. NoFlow \in Flows  BY <1>w DEF NoFlow, Flows
<1>1. CASE Revoke
  <2>1. row' \in Rows  BY <1>1, <1>w DEF Revoke, Rows
  <2>2. flow' \in Flows
    <3>1. flow' = [flow EXCEPT !.access = Withdrawn(@)]  BY <1>1 DEF Revoke
    <3>2. CASE flow = NoFlow  BY <3>1, <3>2, <1>n DEF Flows, NoFlow
    <3>3. CASE flow # NoFlow  BY <3>1, <3>3, <1>w DEF Flows
    <3> QED  BY <3>2, <3>3
  <2>3. ASSUME NEW c \in Clients
        PROVE  proc'[c] \in ClientStates /\ proc'[c].done = proc[c].done
    <3>1. proc[c] \in ClientStates  OBVIOUS
    <3>2. proc'[c] = [proc[c] EXCEPT !.held = Withdrawn(@), !.got = Withdrawn(@)]  BY <1>1 DEF Revoke
    <3>3. Withdrawn(proc[c].held) \in Worths /\ Withdrawn(proc[c].got) \in Worths
      BY <3>1, <1>w DEF ClientStates
    <3> HIDE DEF Withdrawn
    <3>4. [[proc[c] EXCEPT !.held = Withdrawn(@)] EXCEPT !.got = Withdrawn(proc[c].got)] \in ClientStates
      BY <3>1, <3>3, Fields
    <3> QED  BY <3>1, <3>2, <3>4 DEF ClientStates
  <2>4. proc' \in [Clients -> ClientStates] /\ InsertsOnce'
    <3>1. proc' = [c \in Clients |-> proc'[c]]  BY <1>1 DEF Revoke
    <3> QED  BY <3>1, <2>3 DEF InsertsOnce, Method
  <2>5. valid' \subseteq Refreshes /\ consent' \in BOOLEAN /\ asks' \in 0..MaxAsks
    <3>1. valid' = {} /\ consent' = FALSE /\ Ask  BY <1>1 DEF Revoke
    <3>2. asks' \in 0..MaxAsks  BY <3>1, AccessAssumption DEF Ask
    <3> QED  BY <3>1, <3>2
  <2> QED  BY <1>1, <2>1, <2>2, <2>4, <2>5 DEF Revoke, history
<1>2. ASSUME NEW places \in SUBSET (Clients \cup {None}), Lapse(places)
      PROVE  TypeOK' /\ InsertsOnce'
  <2>1. row' \in Rows  BY <1>2, <1>w DEF Lapse, Rows
  <2>2. ASSUME NEW c \in Clients
        PROVE  proc'[c] \in ClientStates /\ proc'[c].done = proc[c].done
    <3>1. proc[c] \in ClientStates  OBVIOUS
    <3>2. proc'[c] \in {proc[c], [proc[c] EXCEPT !.held = None, !.got = None]}  BY <1>2 DEF Lapse
    <3> QED  BY <3>1, <3>2, <1>w DEF ClientStates
  <2>3. proc' \in [Clients -> ClientStates] /\ InsertsOnce'
    <3>1. proc' = [c \in Clients |-> proc'[c]]  BY <1>2 DEF Lapse
    <3> QED  BY <3>1, <2>2 DEF InsertsOnce, Method
  <2> QED  BY <1>2, <2>1, <2>3 DEF Lapse, outside, history
<1>3. CASE Consent
  <2>1. flow' \in Flows  BY <1>3, NewIsFree DEF Consent, Flows, Worths
  <2>2. valid' \subseteq Refreshes /\ consent' \in BOOLEAN /\ asks' \in 0..MaxAsks
    BY <1>3, NewIsFree, AccessAssumption DEF Consent, Ask
  <2> QED  BY <1>3, <2>1, <2>2 DEF Consent, history, InsertsOnce
<1>4. CASE Store
  <2>1. flow' \in Flows  BY <1>4, <1>f DEF Store
  <2>2. row' \in Rows
    BY <1>4 DEF Store, Upserted, Rows, Flows
  <2> QED  BY <1>4, <2>1, <2>2 DEF Store, Forgets, InsertsOnce
<1>5. CASE FlowFails
  <2>1. flow' \in Flows  BY <1>5, <1>f DEF FlowFails
  <2>2. valid' \subseteq Refreshes /\ upsets' \in 0..MaxUpsets
    BY <1>5, AccessAssumption DEF FlowFails, Forgets, Upset
  <2> QED  BY <1>5, <2>1, <2>2 DEF FlowFails, InsertsOnce
<1>6. ASSUME NEW gone \in SUBSET Clients, Stop(gone)
      PROVE  TypeOK' /\ InsertsOnce'
  <2>1. valid' \subseteq Refreshes /\ upsets' \in 0..MaxUpsets /\ strayed' \in BOOLEAN
    BY <1>6, AccessAssumption DEF Stop, Forgets, Upset
  <2>2. proc' \in [Clients -> ClientStates] /\ InsertsOnce'
    BY <1>6, AtRest DEF Stop, InsertsOnce, Method
  <2> QED  BY <1>6, <2>1, <2>2 DEF Stop, outside
<1> QED  BY <1>1, <1>2, <1>3, <1>4, <1>5, <1>6

(* The steps of a request.                                                 *)
LEMMA TypeRequest ==
    ASSUME TypeOK, InsertsOnce, InHand, NEW c \in Clients,
           \/ Begin(c) \/ NeedToken(c) \/ Read(c) \/ Refresh(c) \/ NoRefresh(c)
           \/ Mark(c) \/ Keep(c) \/ Rotate(c) \/ Clear(c)
    PROVE  TypeOK' /\ InsertsOnce'
<1> USE DEF TypeOK
<1>p. proc[c] \in ClientStates /\ (Method(c) = "POST" => proc[c].done = 0)  BY DEF InsertsOnce
<1>r. row.refresh \in Refreshes /\ row.access \in Worths /\ row.flagged \in BOOLEAN  BY DEF Rows
<1>t. None \in Tokens /\ Refreshes \subseteq Tokens /\ Good \in Worths  BY DEF Tokens, Worths
<1>h. /\ [proc[c] EXCEPT !.at = "send", !.held = proc[c].got, !.got = None,
                         !.token = None, !.flagged = FALSE] \in ClientStates
      /\ [proc[c] EXCEPT !.at = "clear", !.token = None] \in ClientStates
  BY <1>p, <1>t DEF ClientStates, Worths
<1>c. PICK x \in {[proc[c] EXCEPT !.at = "send", !.held = proc[c].got, !.got = None,
                                  !.token = None, !.flagged = FALSE],
                  [proc[c] EXCEPT !.at = "clear", !.token = None]} :
         Cleared(c) = [proc EXCEPT ![c] = x]
  BY DEF Cleared, Has
<1>d. x \in ClientStates /\ x.done = proc[c].done  BY <1>h, <1>c, <1>p DEF ClientStates
<1>1. CASE Begin(c)
  <2>1. proc' = [proc EXCEPT ![c] = [NoProc EXCEPT !.at = "send", !.held = None]]
    BY <1>1 DEF Begin, Asking
  <2>2. [NoProc EXCEPT !.at = "send", !.held = None] \in ClientStates  BY AtRest, <1>t DEF ClientStates, Worths
  <2>3. [NoProc EXCEPT !.at = "send", !.held = None].done = 0  BY DEF NoProc
  <2>4. proc' \in [Clients -> ClientStates] /\ InsertsOnce'  BY <2>1, <2>2, <2>3, OneMoves
  <2> QED  BY <1>1, <2>4 DEF Begin, outside, history
<1>2. CASE NeedToken(c)
  <2>1. proc' = [proc EXCEPT ![c] = [proc[c] EXCEPT !.at = "read"]]  BY <1>2 DEF NeedToken, Goes
  <2>2. [proc[c] EXCEPT !.at = "read"] \in ClientStates  BY <1>p, Fields
  <2>3. proc' \in [Clients -> ClientStates] /\ InsertsOnce'  BY <2>1, <2>2, <1>p, OneMoves DEF ClientStates
  <2> QED  BY <1>2, <2>3 DEF NeedToken, outside, history
<1>3. CASE Read(c)
  <2>1. PICK y \in {[proc[c] EXCEPT !.flagged = row.flagged, !.at = "keep", !.got = row.access],
                    [proc[c] EXCEPT !.flagged = row.flagged, !.at = "ask", !.token = row.refresh]} :
           proc' = [proc EXCEPT ![c] = y]
    BY <1>3 DEF Read
  <2>2. y \in ClientStates /\ y.done = proc[c].done
    <3>1. CASE y = [proc[c] EXCEPT !.flagged = row.flagged, !.at = "keep", !.got = row.access]
      BY <3>1, <1>p, <1>r, <1>t DEF ClientStates
    <3>2. CASE y = [proc[c] EXCEPT !.flagged = row.flagged, !.at = "ask", !.token = row.refresh]
      BY <3>2, <1>p, <1>r, <1>t DEF ClientStates
    <3> QED  BY <2>1, <3>1, <3>2
  <2>3. proc' \in [Clients -> ClientStates] /\ InsertsOnce'  BY <2>1, <2>2, <1>p, OneMoves
  <2> QED  BY <1>3, <2>3 DEF Read, outside, history
<1>4. CASE Refresh(c)
  <2>1. PICK t \in Tokens :
           proc' = [proc EXCEPT ![c] = [proc[c] EXCEPT !.at = "keep", !.got = Good, !.token = t]]
    BY <1>4, <1>t, NewIsFree DEF Refresh
  <2>2. [proc[c] EXCEPT !.at = "keep", !.got = Good, !.token = t] \in ClientStates
    BY <1>p, <1>t DEF ClientStates
  <2>3. proc' \in [Clients -> ClientStates] /\ InsertsOnce'
    BY <2>1, <2>2, <1>p, OneMoves DEF ClientStates
  <2>4. valid' \subseteq Refreshes
    <3>1. CASE Forgets  BY <3>1 DEF Forgets
    <3>2. CASE Free # {} /\ valid' = (valid \ {proc[c].token}) \cup {New}  BY <3>2, NewIsFree
    <3> QED  BY <1>4, <3>1, <3>2 DEF Refresh
  <2> QED  BY <1>4, <2>3, <2>4 DEF Refresh, outside, history
<1>5. CASE NoRefresh(c)
  <2>1. PICK y \in {NoProc, [proc[c] EXCEPT !.at = "mark"]} : proc' = [proc EXCEPT ![c] = y]
    BY <1>5 DEF NoRefresh, Goes, Ends
  <2>2. y \in ClientStates /\ (Method(c) = "POST" => y.done = 0)  BY <2>1, <1>p, AtRest DEF ClientStates
  <2>3. proc' \in [Clients -> ClientStates] /\ InsertsOnce'  BY <2>1, <2>2, OneMoves
  <2>4. valid' \subseteq Refreshes  BY <1>5 DEF NoRefresh, Forgets
  <2>5. upsets' \in 0..MaxUpsets  BY <1>5, AccessAssumption DEF NoRefresh, Upset
  <2> QED  BY <1>5, <2>3, <2>4, <2>5 DEF NoRefresh, outside
<1>6. CASE Mark(c)
  <2>1. proc' \in [Clients -> ClientStates] /\ InsertsOnce'  BY <1>6, AtRest, OneMoves DEF Mark, Ends
  <2>2. valid' \subseteq Refreshes /\ row' \in Rows  BY <1>6 DEF Mark, Forgets, Rows
  <2> QED  BY <1>6, <2>1, <2>2 DEF Mark, outside
<1>7. CASE Keep(c)
  <2>1. PICK y \in {x, [proc[c] EXCEPT !.at = "rotate"]} : proc' = [proc EXCEPT ![c] = y]
    BY <1>7, <1>c DEF Keep
  <2>2. y \in ClientStates /\ y.done = proc[c].done  BY <2>1, <1>d, <1>p DEF ClientStates
  <2>3. proc' \in [Clients -> ClientStates] /\ InsertsOnce'  BY <2>1, <2>2, <1>p, OneMoves
  <2>4. row' \in Rows  BY <1>7, <1>p DEF Keep, Writes, Rows, ClientStates
  <2> QED  BY <1>7, <2>3, <2>4 DEF Keep, Writes, outside
<1>8. CASE Rotate(c)
  <2>1. proc' \in [Clients -> ClientStates] /\ InsertsOnce'  BY <1>8, <1>c, <1>d, <1>p, OneMoves DEF Rotate
  <2>2. proc[c].token \in Refreshes  BY <1>8, <1>p DEF Rotate, InHand, ClientStates, Tokens
  <2>3. row' \in Rows /\ valid' \subseteq Refreshes  BY <1>8, <2>2 DEF Rotate, Rotated, Writes, Forgets, Rows
  <2>4. late' \in BOOLEAN  BY <1>8, <1>r DEF Rotate
  <2> QED  BY <1>8, <2>1, <2>3, <2>4 DEF Rotate, Writes, outside
<1>9. CASE Clear(c)
  <2>1. proc' \in [Clients -> ClientStates] /\ InsertsOnce'
    <3>1. Has(c) = [proc EXCEPT ![c] = [proc[c] EXCEPT !.at = "send", !.held = proc[c].got, !.got = None,
                                                       !.token = None, !.flagged = FALSE]]
      BY DEF Has
    <3>2. [proc[c] EXCEPT !.at = "send", !.held = proc[c].got, !.got = None,
                          !.token = None, !.flagged = FALSE].done = proc[c].done
      BY <1>p DEF ClientStates
    <3> QED  BY <1>9, <3>1, <3>2, <1>h, <1>p, OneMoves DEF Clear
  <2>2. row' \in Rows  BY <1>9 DEF Clear, Writes, Unflagged, Rows
  <2> QED  BY <1>9, <2>1, <2>2 DEF Clear, Writes, outside
<1> QED  BY <1>1, <1>2, <1>3, <1>4, <1>5, <1>6, <1>7, <1>8, <1>9

LEMMA TypeStep ==
    ASSUME TypeOK, InsertsOnce, InHand, [Next]_vars
    PROVE  TypeOK' /\ InsertsOnce'
<1>1. CASE UNCHANGED vars  BY <1>1 DEF vars, outside, history, TypeOK, InsertsOnce
<1>2. CASE Stop(Clients)  BY <1>2, TypeOutside
<1>3. ASSUME NEW c \in Clients, Begin(c) \/ Step(c) \/ Stop({c})
      PROVE  TypeOK' /\ InsertsOnce'
  <2>1. CASE Attempt(c)  BY <2>1, TypeAttempt
  <2>2. CASE Stop({c})  BY <2>2, TypeOutside
  <2> QED  BY <1>3, <2>1, <2>2, TypeRequest DEF Step
<1> QED  BY <1>1, <1>2, <1>3, TypeOutside DEF Next

-------------------------------------------------------------------------------
(* What the rest of the proof needs to know of a step: where it leaves a   *)
(* client, and with which refresh token.                                   *)
At(c, at, token) == proc'[c].at = at /\ proc'[c].token = token
Alone(c) == \A d \in Clients \ {c} : proc'[d] = proc[d]

LEMMA Moved ==
    ASSUME TypeOK, NEW c \in Clients, NEW x, proc' = [proc EXCEPT ![c] = x]
    PROVE  Alone(c) /\ At(c, x.at, x.token)
  BY DEF TypeOK, Alone, At

LEMMA HasMoves ==
    ASSUME TypeOK, NEW c \in Clients, proc' = Has(c) \/ proc' = Cleared(c)
    PROVE  Alone(c) /\ (At(c, "send", None) \/ (proc[c].flagged /\ At(c, "clear", None)))
<1>1. PICK x \in {[proc[c] EXCEPT !.at = "send", !.held = proc[c].got, !.got = None,
                                  !.token = None, !.flagged = FALSE],
                  [proc[c] EXCEPT !.at = "clear", !.token = None]} :
         /\ proc' = [proc EXCEPT ![c] = x]
         /\ x.at = "clear" => proc[c].flagged
  <2>1. proc[c] \in ClientStates  BY DEF TypeOK
  <2> QED  BY <2>1 DEF Cleared, Has, ClientStates
<1>2. x.token = None /\ x.at \in {"send", "clear"}
  <2>1. proc[c] \in ClientStates  BY DEF TypeOK
  <2> QED  BY <1>1, <2>1 DEF ClientStates
<1>3. Alone(c) /\ At(c, x.at, x.token)  BY <1>1, Moved
<1> QED  BY <1>1, <1>2, <1>3 DEF At

LEMMA Moves ==
    ASSUME TypeOK, InHand, NEW c \in Clients
    PROVE  /\ Begin(c) => Alone(c) /\ At(c, "send", None)
           /\ NeedToken(c) => Alone(c) /\ At(c, "read", None)
           /\ Attempt(c) => Alone(c) /\ (At(c, "idle", None) \/ At(c, "send", None))
           /\ Read(c) => Alone(c) /\ (At(c, "keep", None) \/ At(c, "ask", row.refresh))
           /\ Refresh(c) => /\ Alone(c)
                            /\ \/ At(c, "keep", None) /\ Forgets
                               \/ /\ Free # {} /\ At(c, "keep", New)
                                  /\ valid' = (valid \ {proc[c].token}) \cup {New}
           /\ NoRefresh(c) => /\ Alone(c)
                              /\ \/ At(c, "idle", None)
                                 \/ At(c, "mark", proc[c].token) /\ proc[c].token \notin valid
           /\ Mark(c) => Alone(c) /\ At(c, "idle", None)
           /\ Keep(c) => /\ Alone(c)
                         /\ IF Unsaved(c) THEN At(c, "rotate", proc[c].token)
                            ELSE At(c, "send", None) \/ At(c, "clear", None)
           /\ Rotate(c) => Alone(c) /\ (At(c, "send", None) \/ At(c, "clear", None))
           /\ Clear(c) => Alone(c) /\ At(c, "send", None)
<1>p. proc[c] \in ClientStates  BY DEF TypeOK
<1>n. NoProc.at = "idle" /\ NoProc.token = None  BY DEF NoProc
<1>e. Ends(c) => Alone(c) /\ At(c, "idle", None)  BY <1>n, Moved DEF Ends
<1>a. ASSUME NEW held, Asking(c, held)  PROVE Alone(c) /\ At(c, "send", None)
  <2> DEFINE x == [NoProc EXCEPT !.at = "send", !.held = held]
  <2>1. proc' = [proc EXCEPT ![c] = x]  BY <1>a DEF Asking
  <2>2. x.at = "send" /\ x.token = None  BY DEF NoProc
  <2> QED  BY <2>1, <2>2, Moved
<1>1. Begin(c) => Alone(c) /\ At(c, "send", None)  BY <1>a DEF Begin
<1>2. ASSUME NeedToken(c)  PROVE Alone(c) /\ At(c, "read", None)
  <2> DEFINE x == [proc[c] EXCEPT !.at = "read"]
  <2>1. proc' = [proc EXCEPT ![c] = x]  BY <1>2 DEF NeedToken, Goes
  <2>2. x.at = "read" /\ x.token = None  BY <1>2, <1>p DEF NeedToken, InHand, ClientStates
  <2> QED  BY <2>1, <2>2, Moved
<1>3. ASSUME Attempt(c)  PROVE Alone(c) /\ (At(c, "idle", None) \/ At(c, "send", None))
  <2>1. proc[c].token = None /\ proc[c].at = "send"  BY <1>3 DEF Attempt, InHand
  <2>2. PICK out \in {<<"refused", 0>>, <<"ok", 1>>, <<"limited", 0>>, <<"server", 0>>, <<"server", 1>>} :
           \/ proc' = [proc EXCEPT ![c].tries = @ + 1,
                                   ![c].done = IF Method(c) = "POST" THEN @ + out[2] ELSE 0]
           \/ Ends(c) \/ Asking(c, proc[c].held)
    BY <1>3 DEF Attempt
  <2> DEFINE x == [proc[c] EXCEPT !.tries = @ + 1,
                                  !.done = IF Method(c) = "POST" THEN @ + out[2] ELSE 0]
  <2>3. CASE proc' = [proc EXCEPT ![c] = x]
    <3>1. x.at = "send" /\ x.token = None  BY <2>1, <1>p DEF ClientStates
    <3> QED  BY <2>3, <3>1, Moved
  <2> QED  BY <2>2, <2>3, <1>e, <1>a
<1>4. ASSUME Read(c)  PROVE Alone(c) /\ (At(c, "keep", None) \/ At(c, "ask", row.refresh))
  <2>1. PICK y \in {[proc[c] EXCEPT !.flagged = row.flagged, !.at = "keep", !.got = row.access],
                    [proc[c] EXCEPT !.flagged = row.flagged, !.at = "ask", !.token = row.refresh]} :
           proc' = [proc EXCEPT ![c] = y]
    BY <1>4 DEF Read
  <2>2. proc[c].token = None  BY <1>4 DEF Read, InHand
  <2>3. (y.at = "keep" /\ y.token = None) \/ (y.at = "ask" /\ y.token = row.refresh)
    BY <2>1, <2>2, <1>p DEF ClientStates
  <2>4. Alone(c) /\ At(c, y.at, y.token)  BY <2>1, Moved
  <2> QED  BY <2>3, <2>4
<1>5. ASSUME Refresh(c)
      PROVE  /\ Alone(c)
             /\ \/ At(c, "keep", None) /\ Forgets
                \/ /\ Free # {} /\ At(c, "keep", New)
                   /\ valid' = (valid \ {proc[c].token}) \cup {New}
  <2>1. ASSUME NEW t, proc' = [proc EXCEPT ![c].at = "keep", ![c].got = Good, ![c].token = t]
        PROVE  Alone(c) /\ At(c, "keep", t)
    <3> DEFINE x == [proc[c] EXCEPT !.at = "keep", !.got = Good, !.token = t]
    <3>1. proc' = [proc EXCEPT ![c] = x]  BY <2>1
    <3>2. x.at = "keep" /\ x.token = t  BY <1>p DEF ClientStates
    <3> QED  BY <3>1, <3>2, Moved
  <2> QED  BY <1>5, <2>1 DEF Refresh
<1>6. ASSUME NoRefresh(c)
      PROVE  /\ Alone(c)
             /\ \/ At(c, "idle", None)
                \/ At(c, "mark", proc[c].token) /\ proc[c].token \notin valid
  <2>1. \A x \in Answers \ Denials : ~Final(x)  BY DEF Answers, Denials, Final, FinalCodes
  <2>2. Ends(c) \/ (Goes(c, "mark") /\ proc[c].token \notin valid)  BY <1>6, <2>1 DEF NoRefresh
  <2>3. Goes(c, "mark") => Alone(c) /\ At(c, "mark", proc[c].token)
    <3> DEFINE x == [proc[c] EXCEPT !.at = "mark"]
    <3>1. Goes(c, "mark") => proc' = [proc EXCEPT ![c] = x]  BY DEF Goes
    <3>2. x.at = "mark" /\ x.token = proc[c].token  BY <1>p DEF ClientStates
    <3> QED  BY <3>1, <3>2, Moved
  <2> QED  BY <2>2, <2>3, <1>e
<1>7. Mark(c) => Alone(c) /\ At(c, "idle", None)  BY <1>e DEF Mark
<1>8. ASSUME Keep(c)
      PROVE  /\ Alone(c)
             /\ IF Unsaved(c) THEN At(c, "rotate", proc[c].token)
                ELSE At(c, "send", None) \/ At(c, "clear", None)
  <2>1. CASE Unsaved(c)
    <3> DEFINE x == [proc[c] EXCEPT !.at = "rotate"]
    <3>1. proc' = [proc EXCEPT ![c] = x]  BY <1>8, <2>1 DEF Keep
    <3>2. x.at = "rotate" /\ x.token = proc[c].token  BY <1>p DEF ClientStates
    <3> QED  BY <2>1, <3>1, <3>2, Moved
  <2>2. CASE ~Unsaved(c)  BY <1>8, <2>2, HasMoves DEF Keep
  <2> QED  BY <2>1, <2>2
<1>9. Rotate(c) => Alone(c) /\ (At(c, "send", None) \/ At(c, "clear", None))  BY HasMoves DEF Rotate
<1>10. ASSUME Clear(c)  PROVE Alone(c) /\ At(c, "send", None)
  <2> DEFINE x == [proc[c] EXCEPT !.at = "send", !.held = proc[c].got, !.got = None,
                                  !.token = None, !.flagged = FALSE]
  <2>1. proc' = [proc EXCEPT ![c] = x]  BY <1>10 DEF Clear, Has
  <2>2. x.at = "send" /\ x.token = None  BY <1>p DEF ClientStates
  <2> QED  BY <2>1, <2>2, Moved
<1> QED  BY <1>1, <1>2, <1>3, <1>4, <1>5, <1>6, <1>7, <1>8, <1>9, <1>10

(* Google, an hour and a crash leave every client where it is, or stop it. *)
LEMMA Others ==
    ASSUME TypeOK,
           \/ Revoke
           \/ \E places \in SUBSET (Clients \cup {None}) : Lapse(places)
           \/ UNCHANGED proc
    PROVE  \A c \in Clients : At(c, proc[c].at, proc[c].token)
<1> USE DEF At
<1>1. CASE UNCHANGED proc  BY <1>1
<1>2. CASE Revoke
  <2>1. SUFFICES ASSUME NEW c \in Clients  PROVE At(c, proc[c].at, proc[c].token)  OBVIOUS
  <2>2. proc'[c] = [proc[c] EXCEPT !.held = Withdrawn(@), !.got = Withdrawn(@)]  BY <1>2 DEF Revoke
  <2>3. proc[c] \in ClientStates  BY DEF TypeOK
  <2> QED  BY <2>2, <2>3 DEF ClientStates
<1>3. ASSUME NEW places \in SUBSET (Clients \cup {None}), Lapse(places), NEW c \in Clients
      PROVE  At(c, proc[c].at, proc[c].token)
  <2>1. proc'[c] \in {proc[c], [proc[c] EXCEPT !.held = None, !.got = None]}  BY <1>3 DEF Lapse
  <2>2. proc[c] \in ClientStates  BY DEF TypeOK
  <2> QED  BY <2>1, <2>2 DEF ClientStates
<1> QED  BY <1>1, <1>2, <1>3

LEMMA Stopped ==
    ASSUME TypeOK, NEW gone \in SUBSET Clients, Stop(gone), NEW c \in Clients
    PROVE  IF c \in gone THEN At(c, "idle", None) ELSE At(c, proc[c].at, proc[c].token)
  BY DEF Stop, At, NoProc, TypeOK
-------------------------------------------------------------------------------
(* What a client has in hand follows the steps of its request.             *)
LEMMA HandStep ==
    ASSUME TypeOK, InHand, [Next]_vars
    PROVE  InHand'
<1> USE AccessAssumption DEF InHand, At, Alone
<1>1. CASE \/ UNCHANGED proc \/ Revoke
           \/ \E places \in SUBSET (Clients \cup {None}) : Lapse(places)
  BY <1>1, Others
<1>2. ASSUME NEW gone \in SUBSET Clients, Stop(gone)  PROVE InHand'  BY <1>2, Stopped
<1>3. ASSUME NEW c \in Clients, Begin(c) \/ Step(c)  PROVE InHand'
  <2>r. row.refresh # None  BY AccessAssumption DEF TypeOK, Rows
  <2>k. Keep(c) /\ Unsaved(c) => proc[c].token # None  BY DEF Unsaved
  <2>m. NoRefresh(c) => proc[c].token # None  BY DEF NoRefresh
  <2> SUFFICES /\ Alone(c)
               /\ proc'[c].at \in {"idle", "send", "read", "clear"} => proc'[c].token = None
               /\ proc'[c].at \in {"ask", "rotate", "mark"} => proc'[c].token # None
    OBVIOUS
  <2> QED  BY <1>3, <2>r, <2>k, <2>m, Moves DEF Step
<1> QED  BY <1>1, <1>2, <1>3 DEF Next, Consent, Store, FlowFails, vars

(* A refresh token that somebody holds comes to be honoured by no step.    *)
LEMMA NoneRevives ==
    ASSUME TypeOK, InHand, [Next]_vars, NEW t \in InUse, t \in valid'
    PROVE  t \in valid
<1>1. Free # {} => New \notin InUse  BY DEF New, Free
<1>2. ASSUME NEW c \in Clients, Refresh(c)  PROVE t \in valid
  BY <1>1, <1>2, Moves DEF Forgets
<1>3. CASE Consent  BY <1>1, <1>3 DEF Consent
<1>4. CASE valid' = {} \/ UNCHANGED valid \/ Forgets  BY <1>4 DEF Forgets
<1> QED  BY <1>2, <1>3, <1>4
         DEF Next, Step, Revoke, Store, FlowFails, Lapse, Begin, Stop, NeedToken, Attempt, Read,
             NoRefresh, Mark, Keep, Rotate, Clear, vars

(* Only a withdrawal, and the refresh that hands out a new token in its    *)
(* place, take from Google's list a refresh token that somebody still has. *)
LEMMA Survives ==
    ASSUME [Next]_vars, NEW t \in valid, t \in InUse',
           ~Revoke, \A c \in Clients : Refresh(c) => proc[c].token # t
    PROVE  t \in valid'
<1>1. ASSUME NEW c \in Clients, Refresh(c)  PROVE t \in valid'  BY <1>1 DEF Refresh, Forgets
<1>2. CASE Consent  BY <1>2 DEF Consent
<1>3. CASE UNCHANGED valid \/ Forgets  BY <1>3 DEF Forgets
<1> QED  BY <1>1, <1>2, <1>3
         DEF Next, Step, Store, FlowFails, Lapse, Begin, Stop, NeedToken, Attempt, Read,
             NoRefresh, Mark, Keep, Rotate, Clear, vars

LEMMA DeniedStep ==
    ASSUME TypeOK, InHand, Denied, [Next]_vars
    PROVE  Denied'
<1> SUFFICES ASSUME NEW d \in Clients, proc'[d].at = "mark"
             PROVE  proc[d].token \notin valid /\ proc'[d].token = proc[d].token
  BY NoneRevives DEF Denied, InUse
<1> USE DEF At, Alone, Denied
<1>1. CASE \/ UNCHANGED proc \/ Revoke
           \/ \E places \in SUBSET (Clients \cup {None}) : Lapse(places)
  BY <1>1, Others
<1>2. ASSUME NEW gone \in SUBSET Clients, Stop(gone)
      PROVE  proc[d].token \notin valid /\ proc'[d].token = proc[d].token
  BY <1>2, Stopped
<1>3. ASSUME NEW c \in Clients, Begin(c) \/ Step(c)
      PROVE  proc[d].token \notin valid /\ proc'[d].token = proc[d].token
  <2>1. CASE d = c  BY <1>3, <2>1, Moves DEF Step
  <2>2. CASE d # c
    <3>1. Alone(c)  BY <1>3, Moves DEF Step
    <3> QED  BY <2>2, <3>1
  <2> QED  BY <2>1, <2>2
<1> QED  BY <1>1, <1>2, <1>3 DEF Next, Consent, Store, FlowFails, vars

LEMMA GrantedStep ==
    ASSUME TypeOK, Exclusive, Granted, [Next]_vars
    PROVE  Granted'
<1> SUFFICES ASSUME flow' # NoFlow, consent'  PROVE flow'.refresh \in valid'  BY DEF Granted
<1>1. CASE Consent  BY <1>1 DEF Consent
<1>2. CASE UNCHANGED <<flow, consent>>
  <2>1. \A c \in Clients : Refresh(c) => proc[c].token # flow.refresh  BY <1>2 DEF Exclusive
  <2>2. flow.refresh \in InUse'  BY <1>2 DEF InUse
  <2>3. ~Revoke  BY <1>2 DEF Revoke
  <2> QED  BY <1>2, <2>1, <2>2, <2>3, Survives DEF Granted
<1> QED  BY <1>1, <1>2
         DEF Next, Step, Revoke, Store, FlowFails, Lapse, Begin, Stop, NeedToken, Attempt, Read,
             Refresh, NoRefresh, Mark, Keep, Rotate, Clear, vars, outside

LEMMA ExclusiveStep ==
    ASSUME TypeOK, InHand, Exclusive, [Next]_vars
    PROVE  Exclusive'
<1> USE DEF At, Alone, Unsaved
<1>r. row.refresh # None  BY AccessAssumption DEF TypeOK, Rows
(* The consent round-trip, the hour and the user.                          *)
<1>1. CASE Revoke
  <2>1. flow' # NoFlow => flow # NoFlow /\ flow'.refresh = flow.refresh
    <3>1. flow' = [flow EXCEPT !.access = Withdrawn(@)]  BY <1>1 DEF Revoke
    <3>2. CASE flow = NoFlow  BY <3>1, <3>2, AccessAssumption DEF Withdrawn, NoFlow
    <3>3. CASE flow # NoFlow  BY <3>1, <3>3 DEF TypeOK, Flows
    <3> QED  BY <3>2, <3>3
  <2>2. row'.refresh = row.refresh  BY <1>1 DEF Revoke, TypeOK, Rows
  <2> QED  BY <1>1, <2>1, <2>2, Others DEF Exclusive
<1>2. ASSUME NEW places \in SUBSET (Clients \cup {None}), Lapse(places)  PROVE Exclusive'
  <2>1. row'.refresh = row.refresh  BY <1>2 DEF Lapse, TypeOK, Rows
  <2>2. UNCHANGED flow  BY <1>2 DEF Lapse, outside
  <2> QED  BY <1>2, <2>1, <2>2, Others DEF Exclusive
<1>3. CASE Consent  BY <1>3, NewIsFree DEF Consent, Exclusive
<1>4. CASE Store  BY <1>4 DEF Store, Upserted, Exclusive
<1>5. CASE FlowFails  BY <1>5 DEF FlowFails, Exclusive
<1>6. ASSUME NEW gone \in SUBSET Clients, Stop(gone)  PROVE Exclusive'
  <2>1. UNCHANGED <<row, flow>>  BY <1>6 DEF Stop, outside
  <2> QED  BY <1>6, <2>1, Stopped DEF Exclusive
<1>7. ASSUME NEW c \in Clients, Begin(c) \/ Step(c)  PROVE Exclusive'
  <2>a. Alone(c) /\ UNCHANGED flow
    BY <1>7, Moves DEF Step, outside, Begin, NeedToken, Attempt, Read, Refresh, NoRefresh, Mark, Keep, Rotate, Clear
  <2>1. CASE Rotate(c)
    <3>1. row'.refresh = proc[c].token /\ proc'[c].token = None /\ proc[c].token # None
      BY <2>1, Moves DEF Rotate, Rotated, Writes, InHand, TypeOK, Rows
    <3>2. Unsaved(c)  BY <2>1, <3>1 DEF Rotate
    <3> QED  BY <2>a, <3>1, <3>2 DEF Exclusive
  <2>2. CASE Refresh(c) /\ proc'[c].token # None
    <3>1. Free # {} /\ proc'[c].token = New /\ UNCHANGED row  BY <2>2, Moves DEF Refresh
    <3> QED  BY <2>a, <3>1, NewIsFree DEF Exclusive
  <2>3. CASE ~Rotate(c) /\ ~(Refresh(c) /\ proc'[c].token # None)
    <3>1. row'.refresh = row.refresh
      BY <1>7, <2>3 DEF Step, Begin, NeedToken, Attempt, Read, Refresh, NoRefresh, Mark, Keep, Clear,
                        Writes, Unflagged, TypeOK, Rows
    <3>2. proc'[c].token \in {None, proc[c].token, row.refresh}
      BY <1>7, <2>3, Moves DEF Step
    <3>3. Unsaved(c)' => Unsaved(c) /\ proc'[c].token = proc[c].token
      BY <1>7, <2>3, Moves DEF Step
    <3> QED  BY <2>a, <3>1, <3>2, <3>3, <1>r DEF Exclusive
  <2> QED  BY <2>1, <2>2, <2>3
<1>8. CASE UNCHANGED vars  BY <1>8 DEF vars, outside, Exclusive
<1> QED  BY <1>1, <1>2, <1>3, <1>4, <1>5, <1>6, <1>7, <1>8 DEF Next

LEMMA InvInit == Init => Inv
<1> SUFFICES ASSUME Init  PROVE Inv  OBVIOUS
<1>1. TypeOK  BY TypeInit
<1>2. \A c \in Clients : proc[c].at = "idle" /\ proc[c].token = None  BY DEF Init, NoProc
<1>3. flow = NoFlow  BY DEF Init
<1> QED  BY <1>1, <1>2, <1>3 DEF Inv, InHand, Exclusive, Unsaved, Denied, Granted

LEMMA InvStep == Inv /\ InsertsOnce /\ [Next]_vars => Inv' /\ InsertsOnce'
  BY TypeStep, HandStep, ExclusiveStep, DeniedStep, GrantedStep DEF Inv
-------------------------------------------------------------------------------
(* What the row says, step by step.                                        *)
LEMMA LockoutStep ==
    ASSUME Inv, LockoutIsReal, [Next]_vars
    PROVE  LockoutIsReal'
<1> SUFFICES ASSUME row'.flagged, row'.refresh \in valid'  PROVE late'  BY DEF LockoutIsReal
<1> USE DEF Inv
<1>r. row \in Rows  BY DEF TypeOK
<1>k. row.refresh \in valid' => row.refresh \in valid  BY NoneRevives DEF InUse
<1>1. ASSUME NEW c \in Clients, Mark(c)  PROVE late'
  <2>1. proc[c].token \notin valid  BY <1>1 DEF Mark, Denied
  <2>2. row'.refresh = row.refresh  BY <1>1, <1>r DEF Mark, Rows
  <2> QED  BY <1>1, <1>k, <2>1, <2>2 DEF Mark
<1>2. ASSUME NEW c \in Clients, Rotate(c)  PROVE late'
  <2>1. row'.flagged = row.flagged  BY <1>2, <1>r DEF Rotate, Rotated, Writes, Rows
  <2> QED  BY <1>2, <2>1 DEF Rotate
<1>3. ASSUME NEW c \in Clients, Clear(c)  PROVE late'
  BY <1>3, <1>r DEF Clear, Writes, Unflagged, Rows
<1>4. CASE Store  BY <1>4 DEF Store, Upserted
<1>5. CASE row'.refresh = row.refresh /\ row'.flagged = row.flagged /\ UNCHANGED late
  BY <1>5, <1>k DEF LockoutIsReal
<1> QED  BY <1>r, <1>1, <1>2, <1>3, <1>4, <1>5
         DEF Next, Step, Revoke, Consent, FlowFails, Lapse, Begin, Stop, NeedToken, Attempt, Read,
             Refresh, NoRefresh, Keep, Writes, Rows, vars, history

LEMMA GrantStep ==
    ASSUME Inv, GrantKept, [Next]_vars
    PROVE  GrantKept'
<1> SUFFICES ASSUME consent', ~strayed', flow' = NoFlow
             PROVE  row'.refresh \in valid' \/ \E c \in Clients : (Unsaved(c) /\ proc[c].token \in valid)'
  BY DEF GrantKept
<1> USE DEF Inv, At, Alone
<1>n. ~Revoke /\ ~Consent /\ ~FlowFails
  BY NewIsFree, AccessAssumption DEF Revoke, Consent, FlowFails, NoFlow
<1>1. CASE Store
  <2>1. flow.refresh \in valid /\ consent  BY <1>1 DEF Store, Granted
  <2>2. row'.refresh = flow.refresh  BY <1>1 DEF Store, Upserted
  <2> QED  BY <1>1, <2>1, <2>2 DEF Store, Forgets, InUse
<1>2. CASE ~Store /\ UNCHANGED <<flow, consent>>
  <2>1. ~strayed
    BY <1>n, <1>2 DEF Next, Step, Lapse, Begin, Stop, NeedToken, Attempt, Read, Refresh, NoRefresh,
                      Mark, Keep, Rotate, Clear, Writes, vars, history
  <2>2. CASE row.refresh \in valid
    <3>1. ASSUME NEW c \in Clients, Refresh(c), proc[c].token = row.refresh, At(c, "keep", New), Free # {},
                 valid' = (valid \ {proc[c].token}) \cup {New}
          PROVE  (Unsaved(c) /\ proc[c].token \in valid)'
      BY <3>1, NewIsFree DEF Unsaved
    <3>2. ASSUME NEW c \in Clients, Rotate(c)
          PROVE  row'.refresh \in valid'
      <4>1. row'.refresh = proc[c].token  BY <3>2 DEF Rotate, Rotated, Writes, TypeOK, Rows
      <4>2. proc[c].token \in valid  BY <3>2, <2>2 DEF Rotate, Rotated, Writes, TypeOK, Rows
      <4> QED  BY <3>2, <4>1, <4>2 DEF Rotate, Forgets, InUse
    <3>3. CASE row'.refresh = row.refresh
      <4>1. row.refresh \in InUse'  BY <3>3 DEF InUse
      <4>2. CASE \A c \in Clients : Refresh(c) => proc[c].token # row.refresh
        BY <2>2, <3>3, <4>1, <4>2, <1>n, Survives
      <4>3. ASSUME NEW c \in Clients, Refresh(c), proc[c].token = row.refresh
            PROVE  row'.refresh \in valid' \/ (Unsaved(c) /\ proc[c].token \in valid)'
        BY <4>3, <4>1, <3>3, <2>2, <3>1, Moves DEF Forgets
      <4> QED  BY <4>2, <4>3
    <3> QED  BY <1>n, <1>2, <3>2, <3>3
             DEF Next, Step, Lapse, Begin, Stop, NeedToken, Attempt, Read, Refresh, NoRefresh, Mark, Keep,
                 Clear, Writes, Unflagged, TypeOK, Rows, vars, history
  <2>3. ASSUME NEW d \in Clients, Unsaved(d), proc[d].token \in valid
        PROVE  row'.refresh \in valid' \/ (Unsaved(d) /\ proc[d].token \in valid)'
    <3>1. ASSUME NEW c \in Clients, Refresh(c)  PROVE proc[c].token # proc[d].token
      BY <2>3, <3>1 DEF Refresh, Unsaved, Exclusive
    <3>2. proc[d].token \in InUse' => proc[d].token \in valid'  BY <1>n, <2>3, <3>1, Survives
    <3>3. CASE Rotate(d)
      <4>1. row'.refresh = proc[d].token  BY <3>3 DEF Rotate, Rotated, Writes, TypeOK, Rows
      <4> QED  BY <4>1, <3>2 DEF InUse
    <3>4. CASE proc'[d].token = proc[d].token /\ proc'[d].at \in {"keep", "rotate"}
      BY <2>3, <3>4, <3>2 DEF InUse, Unsaved
    <3>5. ASSUME NEW gone \in SUBSET Clients, Stop(gone)
          PROVE  proc'[d].token = proc[d].token /\ proc'[d].at = proc[d].at
      <4>1. d \notin gone  BY <2>3, <3>5 DEF Stop
      <4> QED  BY <3>5, <4>1, Stopped
    <3>6. ASSUME NEW c \in Clients, Begin(c) \/ Step(c), ~Rotate(d)
          PROVE  proc'[d].token = proc[d].token /\ proc'[d].at \in {"keep", "rotate"}
      <4>1. CASE c # d
        <5>1. Alone(c)  BY <3>6, Moves DEF Step
        <5> QED  BY <4>1, <5>1, <2>3 DEF Unsaved
      <4>2. CASE c = d
        <5>1. Keep(d)
          BY <3>6, <4>2, <2>3 DEF Step, Unsaved, Begin, NeedToken, Attempt, Read, Refresh, NoRefresh, Mark, Clear
        <5> QED  BY <5>1, <2>3, Moves
      <4> QED  BY <4>1, <4>2
    <3>7. ASSUME UNCHANGED proc \/ \E places \in SUBSET (Clients \cup {None}) : Lapse(places)
          PROVE  proc'[d].token = proc[d].token /\ proc'[d].at = proc[d].at
      BY <3>7, Others
    <3> QED  BY <1>n, <1>2, <2>3, <3>3, <3>4, <3>5, <3>6, <3>7 DEF Next, Unsaved, vars
  <2> QED  BY <1>2, <2>1, <2>2, <2>3 DEF GrantKept
<1> QED  BY <1>n, <1>1, <1>2
         DEF Next, Step, Lapse, Begin, Stop, NeedToken, Attempt, Read, Refresh, NoRefresh,
             Mark, Keep, Rotate, Clear, vars, outside
-------------------------------------------------------------------------------
(* The row, the tokens and every client keep their types, whatever the     *)
(* user, Google and the clients do.                                        *)
THEOREM TypeCorrect == Spec => []TypeOK
<1>1. Init => Inv /\ InsertsOnce  BY InvInit, TypeInit
<1>2. (Inv /\ InsertsOnce) /\ [Next]_vars => (Inv /\ InsertsOnce)'  BY InvStep
<1>3. Inv => TypeOK  BY DEF Inv
<1> QED  BY <1>1, <1>2, <1>3, PTL DEF Spec

(* RoundTrip never sends an insert again that Google has carried out,      *)
(* whatever its answer was: it repeats a POST only after a refusal to take *)
(* it on.                                                                  *)
THEOREM InsertsAreSentOnce == Spec => []InsertsOnce
<1>1. Init => Inv /\ InsertsOnce  BY InvInit, TypeInit
<1>2. (Inv /\ InsertsOnce) /\ [Next]_vars => (Inv /\ InsertsOnce)'  BY InvStep
<1> QED  BY <1>1, <1>2, PTL DEF Spec

(* MarkNeedsReauth puts the flag up only on a refresh token that is dead:  *)
(* a flagged row whose token works was flagged for an earlier one.         *)
THEOREM LockoutsAreReal == Spec => []LockoutIsReal
<1>1. Init => Inv /\ InsertsOnce /\ LockoutIsReal
  BY InvInit, TypeInit DEF Init, LockoutIsReal
<1>2. (Inv /\ InsertsOnce /\ LockoutIsReal) /\ [Next]_vars => (Inv /\ InsertsOnce /\ LockoutIsReal)'
  BY InvStep, LockoutStep
<1> QED  BY <1>1, <1>2, PTL DEF Spec

(* Token and the consent callback lose no grant between them: a refresh    *)
(* token that works is in the row, on its way there, or was lost by a      *)
(* failure or written over.                                                *)
THEOREM GrantsAreKept == Spec => []GrantKept
<1>1. Init => Inv /\ InsertsOnce /\ GrantKept
  BY InvInit, TypeInit DEF Init, GrantKept
<1>2. (Inv /\ InsertsOnce /\ GrantKept) /\ [Next]_vars => (Inv /\ InsertsOnce /\ GrantKept)'
  BY InvStep, GrantStep
<1> QED  BY <1>1, <1>2, PTL DEF Spec
===============================================================================
