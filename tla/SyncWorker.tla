------------------------------ MODULE SyncWorker ------------------------------
(***************************************************************************)
(* How skulid notices that a calendar changed: internal/worker/worker.go,  *)
(* with the rows of internal/db/sync_tokens.go and the push handler of     *)
(* internal/webhook/google.go, composed with module WatchChannels.         *)
(*                                                                         *)
(* Each account has a worker goroutine with a bounded job queue.  Jobs     *)
(* come from Google's push notifications, from the settings pages and from *)
(* a polling ticker; a full queue drops them.  A job lists the changes of  *)
(* its calendar since the stored sync token or, without one, the events    *)
(* from yesterday on; hands them to the rule engine (module RuleEngine),   *)
(* stores the new token and arms the timer of the recomputation of buffers *)
(* and smart blocks.                                                       *)
(***************************************************************************)
EXTENDS WatchChannels, Sequences

CONSTANTS
    Accounts,    \* accounts, each with one worker
    AccountOf,   \* [Cals -> Accounts]
    All,         \* a job for every enabled calendar of the account
    QueueMax,    \* capacity of a job queue (64)
    MaxChanges,  \* bound on the changes of each calendar
    MaxOld       \* bound on those whose event comes to have ended before yesterday

ASSUME WorkerAssumption ==
    /\ AccountOf \in [Cals -> Accounts]
    /\ All \notin Cals
    /\ QueueMax \in Nat \ {0}
    /\ MaxChanges \in Nat \ {0}
    /\ MaxOld \in Nat

VARIABLES
    version,  \* version[c]: how often c changed; a change is known by its number, and 1
              \* is what was there before skulid
    old,      \* old[c]: the changes of c whose event ended before yesterday
    poll,     \* poll[c]: the other columns of c's sync_token row; token 0 is none
    queue,    \* queue[a]: the jobs of account a
    pass,     \* pass[a]: what a's worker is doing
    timer,    \* calendars whose recomputation timer runs
    applied,  \* history: applied[c], the changes of c handed to the engine
    passed,   \* history: passed[c], the changes of c that a listing from yesterday on left
              \* out and whose pass came to its end
    shown     \* history: shown[c], how many changes the last recomputation saw

volatile  == <<queue, pass, timer>>
google    == <<version, old>>
known     == <<applied, passed, shown>>
vars      == <<watchVars, google, poll, volatile, known>>

Polls == [token : 0..MaxChanges, last : {"never", "recently", "long ago"}]
Passes == [todo : SUBSET Cals, at : {"idle", "next", "listed", "applied"},
           cal : Cals, from : 0..MaxChanges, upto : 0..MaxChanges, unlisted : SUBSET (1..MaxChanges)]
NoPass == [todo |-> {}, at |-> "idle", cal |-> AnyCal, from |-> 0, upto |-> 0, unlisted |-> {}]

TypeOK ==
    /\ ChannelTypeOK
    /\ version \in [Cals -> 1..MaxChanges]
    /\ old \in [Cals -> SUBSET (1..MaxChanges)]
    /\ poll \in [Cals -> Polls]
    /\ queue \in [Accounts -> Seq(Cals \cup {All})]
    /\ \A a \in Accounts : Len(queue[a]) <= QueueMax
    /\ pass \in [Accounts -> Passes]
    /\ timer \subseteq Cals
    /\ applied \in [Cals -> SUBSET (1..MaxChanges)]
    /\ passed \in [Cals -> SUBSET (1..MaxChanges)]
    /\ shown \in [Cals -> 0..MaxChanges]

Init ==
    /\ ChannelInit
    /\ version = [c \in Cals |-> 1]
    /\ old = [c \in Cals |-> {}]
    /\ poll = [c \in Cals |-> [token |-> 0, last |-> "never"]]
    /\ queue = [a \in Accounts |-> <<>>]
    /\ pass = [a \in Accounts |-> NoPass]
    /\ timer = {}
    /\ applied = [c \in Cals |-> {}]
    /\ passed = [c \in Cals |-> {}]
    /\ shown = [c \in Cals |-> 0]
-------------------------------------------------------------------------------
(* The job queue: a full queue drops the job.                              *)
Enqueue(a, j) ==
    queue' = IF Len(queue[a]) < QueueMax THEN [queue EXCEPT ![a] = Append(@, j)] ELSE queue
EnqueueCalendar(c) == Enqueue(AccountOf[c], c)

Change(c) ==
    /\ version[c] < MaxChanges
    /\ version' = [version EXCEPT ![c] = @ + 1]
    /\ UNCHANGED <<watchVars, old, poll, volatile, known>>

(* The event of a change comes to have ended before yesterday.             *)
GoBy(c, n) ==
    /\ n \in (1..version[c]) \ old[c]
    /\ Cardinality(old[c]) < MaxOld
    /\ old' = [old EXCEPT ![c] = @ \cup {n}]
    /\ UNCHANGED <<watchVars, version, poll, volatile, known>>

(* The last poll of c is more than ten minutes ago.                        *)
Age(c) ==
    /\ poll[c].last = "recently"
    /\ poll' = [poll EXCEPT ![c].last = "long ago"]
    /\ UNCHANGED <<watchVars, google, volatile, known>>

(* A push notification: a channel no row names is acknowledged and ignored. *)
(* Google may deliver one late or twice, or never.                         *)
Webhook(h, c) ==
    /\ chan[h].state # "unused" /\ row[c].channel = h
    /\ EnqueueCalendar(c)
    /\ UNCHANGED <<watchVars, google, poll, pass, timer, known>>

(* A calendar is switched; one that was switched on is queued.             *)
Toggle(g, c) ==
    /\ Switch(g, c)
    /\ IF c \in enabled THEN UNCHANGED queue ELSE EnqueueCalendar(c)
    /\ UNCHANGED <<google, poll, pass, timer, known>>

(* The pages' "sync now" and "refresh account" buttons.                    *)
SyncNow(c) ==
    /\ EnqueueCalendar(c)
    /\ UNCHANGED <<watchVars, google, poll, pass, timer, known>>

RefreshAccount(a) ==
    /\ Enqueue(a, All)
    /\ UNCHANGED <<watchVars, google, poll, pass, timer, known>>

(* The steps of registrations and channels that leave the worker alone.    *)
Channelling ==
    /\ \/ \E g \in Registrars : RegisterWatch(g) \/ \E c \in Cals : Rewatch(g, c)
       \/ \E h \in Channels : Expire(h)
    /\ UNCHANGED <<google, poll, volatile, known>>
Registering(g) == RegisterWatch(g) /\ UNCHANGED <<google, poll, volatile, known>>

(* The polling ticker: runPollPass queues the calendars that have a row    *)
(* and are due, one after the other.                                       *)
DueIfOld(c) == row[c].kept /\ poll[c].last = "long ago"
Due(c) ==
    /\ row[c].kept
    /\ poll[c].last # "recently" \/ row[c].expiry # "valid"

Poll(c) ==
    /\ Due(c)
    /\ EnqueueCalendar(c)
    /\ UNCHANGED <<watchVars, google, poll, pass, timer, known>>
-------------------------------------------------------------------------------
(* The worker.                                                             *)

(* accountWorker.process: the calendars a job is about.  Disabled ones are *)
(* left out; without a client the job is given up.                         *)
Wanted(a, j) ==
    IF j = All THEN {c \in enabled : AccountOf[c] = a} ELSE {j} \cap enabled

Take(a) ==
    /\ pass[a].at = "idle" /\ queue[a] # <<>>
    /\ queue' = [queue EXCEPT ![a] = Tail(@)]
    /\ LET todo == Wanted(a, Head(queue[a]))
       IN \/ /\ todo # {}
             /\ pass' = [pass EXCEPT ![a] = [NoPass EXCEPT !.at = "next", !.todo = todo]]
             /\ UNCHANGED upsets
          \/ /\ todo = {}
             /\ UNCHANGED <<pass, upsets>>
          \/ /\ todo # {} /\ Upset
             /\ UNCHANGED pass
    /\ UNCHANGED <<enabled, row, chan, reg, untidy, google, poll, timer, known>>

(* What is left of pass p once it is done with calendar c.                 *)
Rest(p, c) ==
    IF p.todo = {c} THEN NoPass ELSE [NoPass EXCEPT !.at = "next", !.todo = p.todo \ {c}]

(* syncCalendar makes sure of the row and lists the changes since the      *)
(* stored token; or, without a token or when Google answers 410 to it, all *)
(* but those of events that ended before yesterday.                        *)
Listings(c) ==
    {[from |-> 0, unlisted |-> old[c]]}
    \cup (IF poll[c].token = 0 THEN {} ELSE {[from |-> poll[c].token, unlisted |-> {}]})

List(a, c) ==
    /\ pass[a].at = "next" /\ c \in pass[a].todo
    /\ row' = Ensure(c)
    /\ \E l \in Listings(c) :
          pass' = [pass EXCEPT ![a] = [@ EXCEPT !.at = "listed", !.cal = c, !.from = l.from,
                                                !.upto = version[c], !.unlisted = l.unlisted]]
    /\ UNCHANGED <<enabled, chan, reg, untidy, upsets, google, poll, queue, timer, known>>

ListFails(a, c) ==
    /\ pass[a].at = "next" /\ c \in pass[a].todo
    /\ Upset
    /\ row' \in {row, Ensure(c)}
    /\ pass' = [pass EXCEPT ![a] = Rest(@, c)]
    /\ UNCHANGED <<enabled, chan, reg, untidy, google, poll, queue, timer, known>>

(* Every listed change goes through the rule engine.                       *)
Brought(p) == ((p.from + 1)..p.upto) \ p.unlisted

ProcessChanges(a) ==
    /\ pass[a].at = "listed"
    /\ applied' = [applied EXCEPT ![pass[a].cal] = @ \cup Brought(pass[a])]
    /\ pass' = [pass EXCEPT ![a].at = "applied"]
    /\ UNCHANGED <<watchVars, google, poll, queue, timer, passed, shown>>

(* Store the token the listing returned (a listing without one leaves the  *)
(* old token) and arm the timer.  That the write fails is not noticed.     *)
(* What a listing left out is passed over, with a new token for good.      *)
Stored(c, token) == [poll EXCEPT ![c] = [token |-> token, last |-> "recently"]]

(* As if the token were asked for at the moment it is stored.              *)
TokensOfNow(p) == {version[p.cal]}
NewTokens(p) == {p.upto, poll[p.cal].token}

Arms(p) == {p.cal}

SaveToken(a) ==
    /\ pass[a].at = "applied"
    /\ LET p == pass[a]
       IN /\ \/ /\ \E token \in NewTokens(p) : poll' = Stored(p.cal, token)
                /\ passed' = [passed EXCEPT ![p.cal] = @ \cup (p.unlisted \ applied[p.cal])]
                /\ UNCHANGED upsets
             \/ Upset /\ UNCHANGED <<poll, passed>>
          /\ pass' = [pass EXCEPT ![a] = Rest(p, p.cal)]
          /\ timer' = timer \cup Arms(p)
    /\ UNCHANGED <<enabled, row, chan, reg, untidy, google, queue, applied, shown>>

(* The five minutes of a job run out: every further call of it fails.  A   *)
(* calendar that was listed still has its buffers' timer armed, but not    *)
(* its blocks'; the rest of the job is given up.                           *)
TimesOut(a) ==
    /\ pass[a].at # "idle"
    /\ Upset
    /\ \/ UNCHANGED timer
       \/ pass[a].at \in {"listed", "applied"} /\ timer' = timer \cup {pass[a].cal}
    /\ pass' = [pass EXCEPT ![a] = NoPass]
    /\ UNCHANGED <<enabled, row, chan, reg, untidy, google, poll, queue, known>>

Work(a) ==
    \/ Take(a)
    \/ \E c \in pass[a].todo : List(a, c) \/ ListFails(a, c)
    \/ ProcessChanges(a) \/ SaveToken(a) \/ TimesOut(a)

(* Fifteen seconds after the last sync of c buffers and blocks are made    *)
(* anew from the calendar as it is then.                                   *)
Recompute(c) ==
    /\ c \in timer
    /\ timer' = timer \ {c}
    /\ shown' = [shown EXCEPT ![c] = version[c]]
    /\ UNCHANGED <<watchVars, google, poll, queue, pass, applied, passed>>

(* The program is killed and started again: only the database is left.     *)
Crash ==
    /\ Restart
    /\ queue' = [a \in Accounts |-> <<>>]
    /\ pass' = [a \in Accounts |-> NoPass]
    /\ timer' = {}
    /\ UNCHANGED <<google, poll, known>>
-------------------------------------------------------------------------------
Next ==
    \/ \E c \in Cals :
          \/ Change(c) \/ Age(c) \/ SyncNow(c) \/ Poll(c) \/ Recompute(c)
          \/ \E n \in 1..MaxChanges : GoBy(c, n)
          \/ \E h \in Channels : Webhook(h, c)
          \/ \E g \in Registrars : Toggle(g, c)
    \/ \E a \in Accounts : RefreshAccount(a) \/ Work(a)
    \/ Channelling
    \/ Crash

Spec == Init /\ [][Next]_vars

(* Goroutines are scheduled, timers go off, and time passes.  The ticker   *)
(* comes back every five minutes for ever while the worker drains the      *)
(* queue, so it does not find the queue full every single time.            *)
PollQueued(c) == Poll(c) /\ Len(queue[AccountOf[c]]) < QueueMax

Fairness ==
    /\ \A a \in Accounts : WF_vars(Work(a))
    /\ \A g \in Registrars : WF_vars(Registering(g))
    /\ \A c \in Cals : SF_vars(PollQueued(c)) /\ WF_vars(Age(c)) /\ WF_vars(Recompute(c))

FairSpec == Spec /\ Fairness
-------------------------------------------------------------------------------
(* Properties.                                                             *)

(* The stored sync token is never ahead of what the engine was given:      *)
(* whatever is cut off, dropped or repeated, a change up to it was handed  *)
(* over or was left out by a listing without a token, and this only when   *)
(* its event had ended before yesterday.                                   *)
NothingSkipped ==
    \A c \in Cals :
        /\ 1..poll[c].token \subseteq applied[c] \cup passed[c]
        /\ passed[c] \subseteq old[c]

(* The wiki on calendars that do not sync: an emptied sync token forces a  *)
(* full resync.  The listing without a token that follows leaves out the   *)
(* changes of events that ended before yesterday, and its token is past    *)
(* them.                                                                   *)
ResyncIsFull == \A c \in Cals : 1..poll[c].token \subseteq applied[c]

(* A calendar that stays on and has a row is caught up with: every change  *)
(* but those so left out reaches the engine, and all that is there a       *)
(* recomputation, with notifications lost, queues full and the program     *)
(* killed.                                                                 *)
CatchesUp ==
    \A c \in Cals :
        <>[](c \in enabled /\ row[c].kept)
            => <>[](1..version[c] \subseteq applied[c] \cup passed[c] /\ shown[c] = version[c])

===============================================================================
