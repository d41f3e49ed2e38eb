------------------------------- MODULE Access -------------------------------
(***************************************************************************)
(* How skulid reaches Google on behalf of one account: the token source of *)
(* internal/auth/tokensource.go and the row it keeps                       *)
(* (internal/db/accounts.go), the verdict on a failed refresh              *)
(* (internal/auth/reauth.go), the retrying transport around every request  *)
(* (internal/calendar/retry.go), and the consent that connects an account  *)
(* again (handleAuthCallback of internal/httpx/handlers.go).               *)
(*                                                                         *)
(* Every goroutine makes a client of its own, with a token source and a    *)
(* mutex of its own (clientFor of cmd/skulid/main.go): what they share is  *)
(* the row, which each reads once and writes column by column.             *)
(*                                                                         *)
(* A refresh token is an id, which may be given out again once nobody      *)
(* holds it.  Of an access token only its worth is kept: whether its time  *)
(* is over (None) and, if not, whether Google honours it (Good) or the     *)
(* user has withdrawn it (Dead).                                           *)
(***************************************************************************)
EXTENDS Naturals, FiniteSets

CONSTANTS
    Clients,    \* goroutines that call Google for the account
    Poller,     \* one of them: the poll, which lists, and comes back for ever; the others insert
    Refreshes,  \* refresh tokens
    None, Good, Dead,   \* worths of an access token; None is also "no token"
    MaxTries,   \* attempts a request is given (4)
    MaxAsks,    \* bound on what the user does with the account
    MaxUpsets   \* bound on failed writes, lost answers and crashes

ASSUME AccessAssumption ==
    /\ Poller \in Clients
    /\ Refreshes # {} /\ None \notin Refreshes
    /\ Good # None /\ Dead # None /\ Good # Dead
    /\ MaxTries \in Nat \ {0} /\ MaxAsks \in Nat /\ MaxUpsets \in Nat

VARIABLES
    row,       \* the account's row: both tokens and needs_reauth
    valid,     \* the refresh tokens Google honours
    proc,      \* proc[c]: what client c does and knows
    flow,      \* a consent round-trip: what Google has granted, not stored yet
    consent,   \* the user lets skulid in
    asks,      \* how much the user has done
    late,      \* history: the flag, if it is up, was put up on a token no longer stored
    strayed,   \* history: a refresh token that works was lost, or written over by a dead one
    upsets     \* history: failures so far

vars == <<row, valid, proc, flow, consent, asks, late, strayed, upsets>>
outside == <<flow, consent, asks>>
history == <<late, strayed, upsets>>

Worths == {None, Good, Dead}
Tokens == Refreshes \cup {None}
NoFlow == [refresh |-> None, access |-> None]
Flows == {NoFlow} \cup [refresh : Refreshes, access : Worths]
NoProc == [at |-> "idle", tries |-> 0, done |-> 0, held |-> None,
           token |-> None, flagged |-> FALSE, got |-> None]

Rows == [refresh : Refreshes, access : Worths, flagged : BOOLEAN]
ClientStates ==
    [at : {"idle", "send", "read", "ask", "keep", "rotate", "clear", "mark"},
     tries : 0..(MaxTries - 1), done : 0..MaxTries,
     held : Worths, token : Tokens, flagged : BOOLEAN, got : Worths]

TypeOK ==
    /\ row \in Rows
    /\ valid \subseteq Refreshes
    /\ proc \in [Clients -> ClientStates]
    /\ flow \in Flows
    /\ consent \in BOOLEAN /\ asks \in 0..MaxAsks
    /\ late \in BOOLEAN /\ strayed \in BOOLEAN /\ upsets \in 0..MaxUpsets

Init ==
    /\ row = [refresh |-> CHOOSE r \in Refreshes : TRUE, access |-> None, flagged |-> FALSE]
    /\ valid = {row.refresh}
    /\ proc = [c \in Clients |-> NoProc]
    /\ flow = NoFlow /\ consent = TRUE /\ asks = 0
    /\ late = FALSE /\ strayed = FALSE /\ upsets = 0
-------------------------------------------------------------------------------
Ends(c) == proc' = [proc EXCEPT ![c] = NoProc]
Goes(c, at) == proc' = [proc EXCEPT ![c].at = at]
Upset == upsets < MaxUpsets /\ upsets' = upsets + 1
Ask == asks < MaxAsks /\ asks' = asks + 1

(* Refresh tokens that nobody holds are free to be given out.              *)
InUse == {row.refresh, flow.refresh} \cup {proc[c].token : c \in Clients}
Free == Refreshes \ InUse
New == CHOOSE r \in Free : TRUE

Forgets == valid' = valid \cap InUse'

(* A client holds a refresh token that the row does not have yet.          *)
Unsaved(c) == proc[c].at \in {"keep", "rotate"} /\ proc[c].token # None

(* A write to the row, and what it does to the history.                    *)
Writes(new) ==
    /\ row' = new
    /\ strayed' = (strayed \/ (row.refresh \in valid /\ new.refresh \notin valid))
-------------------------------------------------------------------------------
(* The user and Google.                                                    *)

Withdrawn(a) == IF a = Good THEN Dead ELSE a

(* Access is withdrawn, the password changed, ...: every token is dead.    *)
Revoke ==
    /\ consent /\ Ask
    /\ consent' = FALSE /\ valid' = {}
    /\ row' = [row EXCEPT !.access = Withdrawn(@)]
    /\ flow' = [flow EXCEPT !.access = Withdrawn(@)]
    /\ proc' = [c \in Clients |-> [proc[c] EXCEPT !.held = Withdrawn(@), !.got = Withdrawn(@)]]
    /\ UNCHANGED history

(* An hour is over for the copies of access tokens that some places hold.  *)
Lapse(places) ==
    /\ \/ None \in places /\ row.access # None
       \/ \E c \in places \ {None} : proc[c].held # None \/ proc[c].got # None
    /\ row' = IF None \in places THEN [row EXCEPT !.access = None] ELSE row
    /\ proc' = [c \in Clients |-> IF c \in places THEN [proc[c] EXCEPT !.held = None, !.got = None]
                                  ELSE proc[c]]
    /\ UNCHANGED <<valid, outside, history>>

(* handleAccountReconnect or handleAccountConnect, and Exchange: the user  *)
(* goes through the consent screen, and Google grants a new refresh token  *)
(* beside those it honours already.                                        *)
Consent ==
    /\ flow = NoFlow /\ Free # {} /\ Ask
    /\ flow' = [refresh |-> New, access |-> Good]
    /\ valid' = valid \cup {New}
    /\ consent' = TRUE
    /\ UNCHANGED <<row, proc, history>>

(* AccountRepo.Upsert: both tokens at once, and the flag comes down.       *)
Upserted == [refresh |-> flow.refresh, access |-> flow.access, flagged |-> FALSE]

Store ==
    /\ flow # NoFlow
    /\ row' = Upserted
    /\ flow' = NoFlow
    /\ late' = FALSE
    /\ strayed' = (flow.refresh \notin valid /\ strayed)
    /\ UNCHANGED <<proc, consent, asks, upsets>>
    /\ Forgets

(* The callback is cut off, or its write fails, before the row is written. *)
FlowFails ==
    /\ flow # NoFlow /\ Upset
    /\ flow' = NoFlow /\ strayed' = TRUE
    /\ UNCHANGED <<row, proc, consent, asks, late>>
    /\ Forgets
-------------------------------------------------------------------------------
(* One request: retryTransport.RoundTrip around oauth2's transport.        *)

Method(c) == IF c = Poller THEN "GET" ELSE "POST"

Asking(c, held) == proc' = [proc EXCEPT ![c] = [NoProc EXCEPT !.at = "send", !.held = held]]

Begin(c) ==
    /\ proc[c].at = "idle"
    /\ Asking(c, None)
    /\ UNCHANGED <<row, valid, outside, history>>

(* Every attempt asks for a token, and gets the last one while it lasts.   *)
NeedToken(c) ==
    /\ proc[c].at = "send" /\ proc[c].held = None
    /\ Goes(c, "read")
    /\ UNCHANGED <<row, valid, outside, history>>

(* isRateLimited, isRetryableServerError.  (RetryableAlways: as if the     *)
(* method did not matter.)                                                 *)
RetryableAlways(method, status) == status \in {"limited", "server"}
Retryable(method, status) ==
    \/ status = "limited"
    \/ status = "server" /\ method \in {"GET", "HEAD", "PUT", "DELETE"}

(* Attempts are counted from zero.                                         *)
LastTry(tries) == tries >= MaxTries - 1

(* Google answers: it has carried the request out, or was too busy to, or  *)
(* failed before or after doing so, or does not honour the token.  What a  *)
(* repeated GET, PUT or DELETE does is the same as what one does.  The     *)
(* client goes on to its next request, with the token it has, or ends.     *)
Attempt(c) ==
    /\ proc[c].at = "send" /\ proc[c].held # None
    /\ \E out \in IF proc[c].held = Dead THEN {<<"refused", 0>>}
                  ELSE {<<"ok", 1>>, <<"limited", 0>>, <<"server", 0>>, <<"server", 1>>} :
          IF Retryable(Method(c), out[1]) /\ ~LastTry(proc[c].tries)
          THEN proc' = [proc EXCEPT ![c].tries = @ + 1,
                                    ![c].done = IF Method(c) = "POST" THEN @ + out[2] ELSE 0]
          ELSE Ends(c) \/ (out[1] = "ok" /\ Asking(c, proc[c].held))
    /\ UNCHANGED <<row, valid, outside, history>>
-------------------------------------------------------------------------------
(* AccountTokenSource.Token.                                               *)

(* Read the row; the access token it has is used while it lasts.           *)
Read(c) ==
    /\ proc[c].at = "read"
    /\ LET known == [proc EXCEPT ![c].flagged = row.flagged]
       IN proc' = IF row.access # None THEN [known EXCEPT ![c].at = "keep", ![c].got = row.access]
                  ELSE [known EXCEPT ![c].at = "ask", ![c].token = row.refresh]
    /\ UNCHANGED <<row, valid, outside, history>>

(* Google honours the refresh token: a new access token, and perhaps a new *)
(* refresh token in place of the one that was used.                        *)
Refresh(c) ==
    /\ proc[c].at = "ask" /\ proc[c].token \in valid
    /\ UNCHANGED <<row, outside, history>>
    /\ \/ /\ proc' = [proc EXCEPT ![c].at = "keep", ![c].got = Good, ![c].token = None]
          /\ Forgets
       \/ /\ Free # {}
          /\ proc' = [proc EXCEPT ![c].at = "keep", ![c].got = Good, ![c].token = New]
          /\ valid' = (valid \ {proc[c].token}) \cup {New}

(* ClassifyRefreshError: the answer that the grant is dead is final, by    *)
(* its code or, without a known one, by a status of 400 or 401; anything   *)
(* else is left to the next attempt.  (FinalAlways: as if any answer were; *)
(* FinalByCode: as if only a known code were.)                             *)
Answers == {[code |-> "invalid_grant", status |-> 400], [code |-> "none", status |-> 401],
            [code |-> "none", status |-> 429], [code |-> "none", status |-> 500],
            [code |-> "none", status |-> 0]}
Denials == {x \in Answers : x.status \in {400, 401}}
FinalCodes == {"invalid_grant", "invalid_client", "unauthorized_client", "access_denied"}
FinalAlways(x) == TRUE
FinalByCode(x) == x.code \in FinalCodes
Final(x) == x.code \in FinalCodes \/ x.status \in {400, 401}

(* The refresh fails: Google denies it, or cannot be reached.              *)
NoRefresh(c) ==
    /\ proc[c].at = "ask"
    /\ \/ /\ proc[c].token \notin valid
          /\ \E x \in Denials : IF Final(x) THEN Goes(c, "mark") ELSE Ends(c)
          /\ UNCHANGED upsets
       \/ /\ Upset
          /\ \E x \in Answers \ Denials : IF Final(x) THEN Goes(c, "mark") ELSE Ends(c)
    /\ UNCHANGED <<row, outside, late, strayed>>
    /\ Forgets

(* MarkNeedsReauth.                                                        *)
Mark(c) ==
    /\ proc[c].at = "mark"
    /\ row' = [row EXCEPT !.flagged = TRUE]
    /\ late' = (late \/ proc[c].token # row.refresh)
    /\ Ends(c)
    /\ UNCHANGED <<outside, strayed, upsets>>
    /\ Forgets

(* Go on with the token there is; an attempt that finds its time over asks *)
(* again.                                                                  *)
Has(c) == [proc EXCEPT ![c].at = "send", ![c].held = proc[c].got, ![c].got = None,
                       ![c].token = None, ![c].flagged = FALSE]
Cleared(c) == IF proc[c].flagged THEN [proc EXCEPT ![c].at = "clear", ![c].token = None] ELSE Has(c)

(* UpdateAccessToken: the token is never the one this source handed out    *)
(* before, whose time is over.                                             *)
Keep(c) ==
    /\ proc[c].at = "keep"
    /\ Writes([row EXCEPT !.access = proc[c].got])
    /\ proc' = IF Unsaved(c) THEN [proc EXCEPT ![c].at = "rotate"] ELSE Cleared(c)
    /\ UNCHANGED <<valid, outside, late, upsets>>

(* UpdateRefreshToken.  (KeptOld: as if a rotated token were not stored.)  *)
KeptOld(c) == row
Rotated(c) == [row EXCEPT !.refresh = proc[c].token]

Rotate(c) ==
    /\ proc[c].at = "rotate"
    /\ Writes(Rotated(c))
    /\ late' = (late \/ row.flagged)
    /\ proc' = Cleared(c)
    /\ UNCHANGED <<outside, upsets>>
    /\ Forgets

(* ClearNeedsReauth, if the row was flagged when it was read.              *)
(* (StaysFlagged: as if only a reconnect took the flag down.)                *)
StaysFlagged == row
Unflagged == [row EXCEPT !.flagged = FALSE]

Clear(c) ==
    /\ proc[c].at = "clear"
    /\ Writes(Unflagged)
    /\ late' = FALSE
    /\ proc' = Has(c)
    /\ UNCHANGED <<valid, outside, upsets>>

(* The request fails where it is - a write that fails, an answer that is   *)
(* lost, a timeout - or the program ends.  A refresh token that was not    *)
(* stored yet is lost with it.                                             *)
Stop(gone) ==
    /\ \E c \in gone : proc[c].at # "idle"
    /\ Upset
    /\ strayed' = (strayed \/ \E c \in gone : Unsaved(c))
    /\ proc' = [c \in Clients |-> IF c \in gone THEN NoProc ELSE proc[c]]
    /\ UNCHANGED <<row, outside, late>>
    /\ Forgets

Step(c) ==
    \/ NeedToken(c) \/ Attempt(c) \/ Read(c) \/ Refresh(c) \/ NoRefresh(c)
    \/ Mark(c) \/ Keep(c) \/ Rotate(c) \/ Clear(c)

Next ==
    \/ Revoke \/ Consent \/ Store \/ FlowFails
    \/ \E places \in SUBSET (Clients \cup {None}) : Lapse(places)
    \/ \E c \in Clients : Begin(c) \/ Step(c) \/ Stop({c})
    \/ Stop(Clients)

Spec == Init /\ [][Next]_vars

(* Goroutines run, the poll comes back, and access tokens last an hour.    *)
Fairness ==
    /\ \A c \in Clients : WF_vars(Step(c))
    /\ WF_vars(Begin(Poller)) /\ WF_vars(Store)
    /\ WF_vars(Lapse(Clients \cup {None}))

FairSpec == Spec /\ Fairness
-------------------------------------------------------------------------------
(* Properties.                                                             *)

(* Retrying Events.insert after a 502 would risk a duplicate event: an     *)
(* insert that Google has carried out, whatever it answered, is not sent   *)
(* again.                                                                  *)
InsertsOnce == \A c \in Clients : Method(c) = "POST" => proc[c].done = 0

(* An account whose stored refresh token Google honours does not ask for a *)
(* reconnect - a transient failure never puts the flag up - unless it was  *)
(* put up on a token that has been replaced since.                         *)
LockoutIsReal == row.flagged /\ row.refresh \in valid => late

(* While the user lets skulid in, the row has a refresh token that works,  *)
(* or somebody is about to store one, unless one was lost by a failure or  *)
(* written over with one that is dead ("strayed").                         *)
GrantKept ==
    consent =>
        \/ row.refresh \in valid \/ strayed \/ flow # NoFlow
        \/ \E c \in Clients : Unsaved(c) /\ proc[c].token \in valid

(* An account that is locked out comes to say so and goes on saying so,    *)
(* instead of failing into the log for ever.                               *)
LockoutShows == <>[](row.refresh \notin valid) => <>[](row.flagged)

(* An account whose refresh token works comes to be without the flag, even *)
(* if a refresh that failed before a reconnect has put it up after it.     *)
LockoutEnds == <>[](row.refresh \in valid) => <>[](~row.flagged)
===============================================================================
