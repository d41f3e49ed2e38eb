------------------------------ MODULE RuleEngine ------------------------------
(***************************************************************************)
(* The rule engine of skulid: internal/sync/rule_engine.go, driven by the  *)
(* per-account worker (internal/worker/worker.go) and by the backfill      *)
(* goroutine (internal/httpx/handlers.go).                                 *)
(*                                                                         *)
(* A rule copies events of a source calendar onto a target calendar; a     *)
(* bidirectional rule also copies the other way.  For every copy (the      *)
(* "mirror") the database keeps a link row (rule, source event) -> mirror. *)
(* Each copy takes three separate steps against two systems: read the link *)
(* row, write to Google, write the link row.  Nothing makes them atomic,   *)
(* and the worker of the calendar and any number of backfills may be       *)
(* anywhere in them at the same time.                                      *)
(***************************************************************************)
EXTENDS Naturals, FiniteSets

CONSTANTS
    Cals,           \* calendars
    Accounts,       \* accounts; each has one worker goroutine
    AccountOf,      \* [Cals -> Accounts]
    EventIds,       \* Google ids of user events; an invitation has the same id on several calendars
    Rules,          \* the sync rules
    RuleSrc,        \* [Rules -> Cals]
    RuleTgt,        \* [Rules -> Cals]
    Bidirectional,  \* the rules that also run from target to source
    MirrorIds,      \* ids Google may give to the events the engine inserts
    Backfills,      \* goroutines that run Engine.Backfill
    NoMirror,       \* "no target event"
    MaxEdits,       \* bound on the edits users make
    MaxUpsets       \* bound on failures, switches, deleted rules, mirrors removed by hand
                    \* and events of the past

ASSUME RuleAssumption ==
    /\ AccountOf \in [Cals -> Accounts]
    /\ RuleSrc \in [Rules -> Cals]
    /\ RuleTgt \in [Rules -> Cals]
    /\ \A r \in Rules : RuleSrc[r] # RuleTgt[r]
    /\ Bidirectional \subseteq Rules
    /\ EventIds \cap MirrorIds = {}
    /\ Accounts \cap Backfills = {}
    /\ NoMirror \notin MirrorIds
    /\ Cals # {} /\ EventIds # {} /\ Rules # {}
    /\ MaxEdits \in Nat /\ MaxUpsets \in Nat

VARIABLES
    user,      \* user[c][e]: the user's event e on calendar c
    mirror,    \* mirror[m]: the event the engine inserted under id m
    link,      \* link[k]: the event_link row of key k
    enabled,   \* calendars switched on
    status,    \* status[r]: the rule is "on", "off" or "deleted"
    clock,     \* stamps every edit; an etag is the stamp of the last edit
    token,     \* token[c]: the stored sync token, the stamp it was issued at
    pc,        \* where each worker or backfill goroutine is
    at,        \* the calendar its pass lists
    todo,      \* the listed changes it has not applied yet
    job,       \* the change it is applying
    next,      \* the sync token its listing returned
    atRisk,    \* history: keys that an unprotected step, or the rule's deletion, may have left
               \* with a mirror nobody knows
    missed,    \* history: keys whose last listed change was dropped, or whose mirror was
               \* removed by hand, or which a listing did not reach back to
    upsets     \* history: failures, switches, deletions, removals and bygones so far

google  == <<user, mirror, clock>>
switches == <<enabled, status>>
rows    == <<link, switches, token>>
procs   == <<pc, at, todo, job, next>>
history == <<atRisk, missed, upsets>>
vars    == <<google, rows, procs, history>>

Procs == Accounts \cup Backfills
Ids   == EventIds \cup MirrorIds

(* The key of a link row: the rule and the source event's id, prefixed     *)
(* with "rev:" when the rule is applied from its target to its source.     *)
Keys == [rule : Rules, rev : BOOLEAN, id : Ids]
KeyUnmarked(r, c, e) == [rule |-> r, rev |-> FALSE, id |-> e]
Key(r, c, e) == [rule |-> r, rev |-> RuleSrc[r] # c, id |-> e]

(* The calendar rule r writes to when it is applied to an event of c.      *)
Opposite(r, c) == IF RuleSrc[r] = c THEN RuleTgt[r] ELSE RuleSrc[r]

(* One change to apply: its key, the source's etag, and whether the event  *)
(* is to have a mirror (it is not cancelled and the rule's filter, all-day *)
(* mode and working hours accept it).                                      *)
Changes == [key : Keys, etag : Nat, keep : BOOLEAN]

(* A change being applied: the operation chosen, the mirror it is about,   *)
(* and the id of the link row that was read.                               *)
Jobs == [change : Changes, op : {"none", "insert", "update", "delete"},
         target : MirrorIds \cup {NoMirror}, row : Nat]

AnyKey == CHOOSE k \in Keys : TRUE
AnyCal == CHOOSE c \in Cals : TRUE
NoJob  == [change |-> [key |-> AnyKey, etag |-> 0, keep |-> FALSE],
           op |-> "none", target |-> NoMirror, row |-> 0]

Row(m, etag, id) == [target |-> m, etag |-> etag, id |-> id]
Linked(k) == link[k].target # NoMirror

LiveMirrors(k) == {m \in MirrorIds : mirror[m].state = "live" /\ mirror[m].key = k}
-------------------------------------------------------------------------------
TypeOK ==
    /\ user \in [Cals -> [EventIds -> [etag : Nat, keep : SUBSET Rules, past : BOOLEAN]]]
    /\ mirror \in [MirrorIds -> [state : {"unborn", "live", "deleted"},
                                 key : Keys, cal : Cals, etag : Nat]]
    /\ link \in [Keys -> [target : MirrorIds \cup {NoMirror}, etag : Nat, id : Nat]]
    /\ enabled \subseteq Cals
    /\ status \in [Rules -> {"on", "off", "deleted"}]
    /\ clock \in Nat
    /\ token \in [Cals -> Nat]
    /\ pc \in [Procs -> {"idle", "listed", "calling", "linking"}]
    /\ at \in [Procs -> Cals]
    /\ todo \in [Procs -> SUBSET Changes]
    /\ job \in [Procs -> Jobs]
    /\ next \in [Procs -> Nat]
    /\ atRisk \subseteq Keys
    /\ missed \subseteq Keys
    /\ upsets \in Nat

Init ==
    /\ user = [c \in Cals |-> [e \in EventIds |-> [etag |-> 0, keep |-> {}, past |-> FALSE]]]
    /\ mirror = [m \in MirrorIds |->
                    [state |-> "unborn", key |-> AnyKey, cal |-> AnyCal, etag |-> 0]]
    /\ link = [k \in Keys |-> Row(NoMirror, 0, 0)]
    /\ enabled = Cals
    /\ status = [r \in Rules |-> "on"]
    /\ clock = 0
    /\ token = [c \in Cals |-> 0]
    /\ pc = [p \in Procs |-> "idle"]
    /\ at = [p \in Procs |-> AnyCal]
    /\ todo = [p \in Procs |-> {}]
    /\ job = [p \in Procs |-> NoJob]
    /\ next = [p \in Procs |-> 0]
    /\ atRisk = {} /\ missed = {} /\ upsets = 0
-------------------------------------------------------------------------------
Upset == upsets < MaxUpsets /\ upsets' = upsets + 1

(* Users and the settings page.                                            *)

(* A user creates, changes, cancels or re-creates an event; the rules whose *)
(* conditions it now meets are keep.  One of the past may be moved ahead.   *)
Edit(c, e) ==
    /\ clock < MaxEdits
    /\ clock' = clock + 1
    /\ \E keep \in SUBSET {r \in Rules : RuleSrc[r] = c \/ RuleTgt[r] = c},
          past \in {FALSE, user[c][e].past} :
          user' = [user EXCEPT ![c][e] = [etag |-> clock + 1, keep |-> keep, past |-> past]]
    /\ UNCHANGED <<mirror, rows, procs, history>>

(* An event comes to have ended more than a day ago.                       *)
GoBy(c, e) ==
    /\ Upset
    /\ user[c][e].etag > 0 /\ ~user[c][e].past
    /\ user' = [user EXCEPT ![c][e].past = TRUE]
    /\ UNCHANGED <<mirror, clock, rows, procs, atRisk, missed>>

(* A user deletes a mirror.  The link row stays, and with it the source    *)
(* event has no mirror: updates of this one fail, and another is inserted  *)
(* only after the row has gone with the deletion of a mirror no longer     *)
(* wanted.                                                                 *)
RemoveByHand(m) ==
    /\ Upset
    /\ mirror[m].state = "live"
    /\ mirror' = [mirror EXCEPT ![m].state = "deleted"]
    /\ missed' = missed \cup {mirror[m].key}
    /\ UNCHANGED <<user, clock, rows, procs, atRisk>>

Toggle(c) ==
    /\ Upset
    /\ enabled' = IF c \in enabled THEN enabled \ {c} ELSE enabled \cup {c}
    /\ UNCHANGED <<google, link, status, token, procs, atRisk, missed>>

(* handleRuleSave: a rule is switched off or on again.                     *)
SwitchRule(r) ==
    /\ Upset /\ status[r] # "deleted"
    /\ status' = [status EXCEPT ![r] = IF @ = "on" THEN "off" ELSE "on"]
    /\ UNCHANGED <<google, link, enabled, token, procs, atRisk, missed>>

(* handleRuleDelete: the rule goes, and with it its link rows; the mirrors *)
(* stay at Google.                                                         *)
KeysOf(r) == {k \in Keys : k.rule = r}
DeleteRule(r) ==
    /\ Upset /\ status[r] # "deleted"
    /\ status' = [status EXCEPT ![r] = "deleted"]
    /\ link' = [k \in Keys |-> IF k.rule = r THEN Row(NoMirror, 0, link[k].id) ELSE link[k]]
    /\ atRisk' = atRisk \cup KeysOf(r)
    /\ UNCHANGED <<google, enabled, token, procs, missed>>
-------------------------------------------------------------------------------
(* Listing changes.                                                        *)

RulesFor(c) ==
    {r \in Rules : RuleSrc[r] = c \/ (r \in Bidirectional /\ RuleTgt[r] = c)}

(* The user events of c that changed after the stamp; those a listing from *)
(* the beginning reaches back to; and the mirrors the engine put on c.     *)
ChangedSince(c, stamp) == {e \in EventIds : user[c][e].etag > stamp}
Recent(c) == {e \in ChangedSince(c, 0) : ~user[c][e].past}
ManagedOn(c) == {m \in MirrorIds : mirror[m].state = "live" /\ mirror[m].cal = c}

(* What the rules make of a listing of c: the loop guard drops the events  *)
(* that carry the managed mark before anything else is looked at.          *)
ListedUnguarded(c, events, rules) ==
    {[key |-> Key(r, c, e), etag |-> user[c][e].etag, keep |-> r \in user[c][e].keep] :
        r \in rules, e \in events}
    \cup {[key |-> Key(r, c, m), etag |-> mirror[m].etag, keep |-> TRUE] :
        r \in rules, m \in ManagedOn(c)}
Listed(c, events, rules) ==
    {[key |-> Key(r, c, e), etag |-> user[c][e].etag, keep |-> r \in user[c][e].keep] :
        r \in rules, e \in events}

Holds(p, k) ==
    \/ \E ch \in todo[p] : ch.key = k
    \/ job[p].op # "none" /\ job[p].change.key = k

(* As if a worker stored the token as soon as the listing returned it.     *)
BeginTokenFirst(p, c, changes, unreached) ==
    /\ pc[p] = "idle" /\ (changes # {} \/ unreached # {})
    /\ pc' = [pc EXCEPT ![p] = "listed"]
    /\ at' = [at EXCEPT ![p] = c]
    /\ todo' = [todo EXCEPT ![p] = changes]
    /\ next' = [next EXCEPT ![p] = clock]
    /\ token' = IF p \in Accounts THEN [token EXCEPT ![c] = clock] ELSE token
    /\ atRisk' = atRisk \cup {ch.key : ch \in {x \in changes : \E q \in Procs : Holds(q, x.key)}}
    /\ missed' = missed \cup unreached
    /\ UNCHANGED <<google, link, switches, job, upsets>>

(* A listing that brings no change, and reaches back to all there is, is   *)
(* not a step: it would only restamp the token.                            *)
Begin(p, c, changes, unreached) ==
    /\ pc[p] = "idle" /\ (changes # {} \/ unreached # {})
    /\ pc' = [pc EXCEPT ![p] = "listed"]
    /\ at' = [at EXCEPT ![p] = c]
    /\ todo' = [todo EXCEPT ![p] = changes]
    /\ next' = [next EXCEPT ![p] = clock]
    /\ atRisk' = atRisk \cup {ch.key : ch \in {x \in changes : \E q \in Procs : Holds(q, x.key)}}
    /\ missed' = missed \cup unreached
    /\ UNCHANGED <<google, rows, job, upsets>>

(* accountWorker.syncCalendar: list the changes since the stored token or, *)
(* without one or when Google answers 410 to it, all events from yesterday *)
(* on.  Changes of older ones are then passed over for good.  (Stamp 0 is   *)
(* no token, or one from before the first edit.)                           *)
Unreached(c, events) ==
    {Key(r, c, e) : r \in RulesFor(c), e \in ChangedSince(c, token[c]) \ events}

SyncCalendar(c) ==
    /\ c \in enabled
    /\ \E events \in {Recent(c), ChangedSince(c, token[c])} :
          Begin(AccountOf[c], c, Listed(c, events, RulesFor(c)), Unreached(c, events))

(* Engine.Backfill lists the rule's source, whether the rule is on or off, *)
(* as many days back as the rule says: one day, or enough for all events.  *)
Backfill(b, r) ==
    /\ status[r] # "deleted"
    /\ \E events \in {Recent(RuleSrc[r]), ChangedSince(RuleSrc[r], 0)} :
          Begin(b, RuleSrc[r], Listed(RuleSrc[r], events, {r}), {})
-------------------------------------------------------------------------------
(* Engine.applyRule: read the calendars and the link row and choose what   *)
(* to do with one change.                                                  *)

(* A worker reads anew for each event which rules are on; a backfill has   *)
(* read its rule before.                                                   *)
Dormant(p, ch) ==
    \/ p \in Accounts /\ status[ch.key.rule] # "on"
    \/ ~({at[p], Opposite(ch.key.rule, at[p])} \subseteq enabled)

(* Nothing to do: no mirror wanted and none linked, or (bidirectional      *)
(* rules) the link says this very version has been mirrored.               *)
SettledOnceLinked(ch) == ch.keep = Linked(ch.key)
Settled(ch) ==
    \/ ~ch.keep /\ ~Linked(ch.key)
    \/ /\ ch.keep /\ Linked(ch.key)
       /\ ch.key.rule \in Bidirectional
       /\ ch.etag = link[ch.key].etag

Operation(ch) ==
    IF ~ch.keep THEN "delete" ELSE IF Linked(ch.key) THEN "update" ELSE "insert"

Drop(p, ch) ==
    /\ todo' = [todo EXCEPT ![p] = @ \ {ch}]
    /\ UNCHANGED <<pc, job>>

(* The rule is dormant, or reading a row or building the client fails: the *)
(* change is given up (ProcessChange only logs the error).                 *)
Skip(p, ch) ==
    /\ pc[p] = "listed" /\ ch \in todo[p]
    /\ \/ Dormant(p, ch) /\ UNCHANGED upsets
       \/ ~Dormant(p, ch) /\ Upset
    /\ Drop(p, ch)
    /\ missed' = missed \cup {ch.key}
    /\ UNCHANGED <<google, rows, at, next, atRisk>>

NothingToDo(p, ch) ==
    /\ pc[p] = "listed" /\ ch \in todo[p]
    /\ ~Dormant(p, ch) /\ Settled(ch)
    /\ Drop(p, ch)
    /\ UNCHANGED <<google, rows, at, next, history>>

Decide(p, ch) ==
    /\ pc[p] = "listed" /\ ch \in todo[p]
    /\ ~Dormant(p, ch) /\ ~Settled(ch)
    /\ todo' = [todo EXCEPT ![p] = @ \ {ch}]
    /\ job' = [job EXCEPT ![p] = [change |-> ch, op |-> Operation(ch),
                                  target |-> link[ch.key].target, row |-> link[ch.key].id]]
    /\ pc' = [pc EXCEPT ![p] = "calling"]
    /\ UNCHANGED <<google, rows, at, next, history>>
-------------------------------------------------------------------------------
(* The call to Google, and its three outcomes.                             *)

Unborn == {m \in MirrorIds : mirror[m].state = "unborn"}
FreshId == CHOOSE m \in Unborn : TRUE

(* The mirrors after each operation; c is the calendar of the pass.        *)
Inserted(j, m, c) ==
    [mirror EXCEPT ![m] = [state |-> "live", key |-> j.change.key,
                           cal |-> Opposite(j.change.key.rule, c), etag |-> j.change.etag]]
Updated(j) == [mirror EXCEPT ![j.target].etag = j.change.etag]
NotDeleted(j) == mirror
Deleted(j) == [mirror EXCEPT ![j.target].state = "deleted"]

(* Google carries the operation out; m is the event it was carried out on. *)
Perform(j, m, c) ==
    \/ /\ j.op = "insert" /\ Unborn # {} /\ m = FreshId
       /\ mirror' = Inserted(j, m, c)
    \/ /\ j.op = "update" /\ m = j.target /\ mirror[m].state = "live"
       /\ mirror' = Updated(j)
    \/ /\ j.op = "delete" /\ m = j.target
       /\ mirror' = Deleted(j)

CallSucceeds(p) ==
    /\ pc[p] = "calling"
    /\ \E m \in MirrorIds :
          /\ Perform(job[p], m, at[p])
          /\ job' = [job EXCEPT ![p].target = m]
    /\ pc' = [pc EXCEPT ![p] = "linking"]
    /\ UNCHANGED <<user, clock, rows, at, todo, next, history>>

GiveUp(p) ==
    /\ pc' = [pc EXCEPT ![p] = "listed"]
    /\ job' = [job EXCEPT ![p] = NoJob]

(* The call fails and changed nothing: a fault, or an update of a mirror   *)
(* that is gone.  applyRule returns the error; the change is given up.     *)
CallFails(p) ==
    /\ pc[p] = "calling"
    /\ \/ /\ job[p].op = "update" /\ mirror[job[p].target].state # "live"
          /\ UNCHANGED upsets
       \/ Upset
    /\ GiveUp(p)
    /\ missed' = missed \cup {job[p].change.key}
    /\ UNCHANGED <<google, rows, at, todo, next, atRisk>>

(* Google carries the call out but the answer is lost: the engine sees an  *)
(* error and gives the change up.                                          *)
CallAnswerLost(p) ==
    /\ pc[p] = "calling"
    /\ Upset
    /\ \E m \in MirrorIds : Perform(job[p], m, at[p])
    /\ GiveUp(p)
    /\ missed' = missed \cup {job[p].change.key}
    /\ atRisk' = IF job[p].op = "insert" THEN atRisk \cup {job[p].change.key} ELSE atRisk
    /\ UNCHANGED <<user, clock, rows, at, todo, next>>
-------------------------------------------------------------------------------
(* The link row.                                                           *)

(* links.Upsert keeps the id of a row it finds; a new row has a new id.    *)
Upsert(k, m, etag) ==
    [link EXCEPT ![k] = Row(m, etag, IF Linked(k) THEN @.id ELSE @.id + 1)]

(* links.Delete removes the row with the id that was read, if it is there. *)
DeleteRow(k, id) ==
    [link EXCEPT ![k] = IF @.id = id THEN Row(NoMirror, 0, id) ELSE @]

(* A row of a rule that is gone is refused (and one deleted was gone before). *)
Refused(j) == j.op # "delete" /\ status[j.change.key.rule] = "deleted"

(* As if the row were written with the source's etag of the moment.        *)
SaveLinkLatest(p) ==
    /\ pc[p] = "linking" /\ ~Refused(job[p])
    /\ LET j == job[p]
           k == j.change.key
       IN /\ link' = IF j.op = "delete" THEN DeleteRow(k, j.row)
                     ELSE Upsert(k, j.target, user[at[p]][k.id].etag)
          /\ missed' = missed \ {k}
    /\ GiveUp(p)
    /\ UNCHANGED <<google, switches, token, at, todo, next, atRisk, upsets>>

SaveLink(p) ==
    /\ pc[p] = "linking" /\ ~Refused(job[p])
    /\ LET j == job[p]
           k == j.change.key
       IN /\ link' = IF j.op = "delete" THEN DeleteRow(k, j.row)
                     ELSE Upsert(k, j.target, j.change.etag)
          /\ missed' = IF /\ j.change.etag = user[at[p]][k.id].etag
                          /\ j.op = "delete" \/ mirror[j.target].state = "live"
                       THEN missed \ {k} ELSE missed
    /\ GiveUp(p)
    /\ UNCHANGED <<google, switches, token, at, todo, next, atRisk, upsets>>

(* The write fails.  For an insert nothing remembers the new mirror.       *)
SaveLinkFails(p) ==
    /\ pc[p] = "linking"
    /\ IF Refused(job[p]) THEN UNCHANGED upsets ELSE Upset
    /\ LET k == job[p].change.key
       IN /\ atRisk' = IF job[p].op = "insert" THEN atRisk \cup {k} ELSE atRisk
          /\ missed' = missed \cup {k}
    /\ GiveUp(p)
    /\ UNCHANGED <<google, rows, at, todo, next>>
-------------------------------------------------------------------------------
(* The end of a pass.  A worker stores the new token (or fails to).  A     *)
(* change given up on the way is not kept for a later pass.                *)
FinishPass(p) ==
    /\ pc[p] = "listed" /\ todo[p] = {}
    /\ \/ /\ token' = IF p \in Accounts THEN [token EXCEPT ![at[p]] = next[p]] ELSE token
          /\ UNCHANGED upsets
       \/ /\ p \in Accounts
          /\ Upset
          /\ UNCHANGED token
    /\ pc' = [pc EXCEPT ![p] = "idle"]
    /\ at' = [at EXCEPT ![p] = AnyCal]
    /\ next' = [next EXCEPT ![p] = 0]
    /\ UNCHANGED <<google, link, switches, todo, job, atRisk, missed>>

(* Some passes stop where they are: the five minutes of a job or the ten   *)
(* of a backfill run out (one pass), or the program is killed (all).       *)
Unlinked(gone) == {job[p].change.key : p \in {q \in gone : pc[q] = "linking" /\ job[q].op = "insert"}}

Stop(gone) ==
    /\ Upset
    /\ \E p \in gone : pc[p] # "idle"
    /\ pc' = [p \in Procs |-> IF p \in gone THEN "idle" ELSE pc[p]]
    /\ at' = [p \in Procs |-> IF p \in gone THEN AnyCal ELSE at[p]]
    /\ todo' = [p \in Procs |-> IF p \in gone THEN {} ELSE todo[p]]
    /\ job' = [p \in Procs |-> IF p \in gone THEN NoJob ELSE job[p]]
    /\ next' = [p \in Procs |-> IF p \in gone THEN 0 ELSE next[p]]
    /\ atRisk' = atRisk \cup Unlinked(gone)
    /\ UNCHANGED <<google, rows, missed>>

Timeout(p) == Stop({p})
Crash == Stop(Procs)
-------------------------------------------------------------------------------
Apply(p) ==
    \/ \E ch \in todo[p] : Skip(p, ch) \/ NothingToDo(p, ch) \/ Decide(p, ch)
    \/ CallSucceeds(p) \/ CallFails(p) \/ CallAnswerLost(p)
    \/ SaveLink(p) \/ SaveLinkFails(p)
    \/ FinishPass(p)

Next ==
    \/ \E c \in Cals : Toggle(c) \/ SyncCalendar(c) \/ \E e \in EventIds : Edit(c, e) \/ GoBy(c, e)
    \/ \E m \in MirrorIds : RemoveByHand(m)
    \/ \E r \in Rules : SwitchRule(r) \/ DeleteRule(r)
    \/ \E b \in Backfills, r \in Rules : Backfill(b, r)
    \/ \E p \in Procs : Apply(p) \/ Timeout(p)
    \/ Crash

Spec == Init /\ [][Next]_vars

(* A started pass runs on (a goroutine is scheduled, and every call ends   *)
(* within its context's deadline); the poll ticker queues every enabled    *)
(* calendar again and again and the queue of a worker is first in, first   *)
(* out.                                                                    *)
Fairness ==
    /\ \A p \in Procs : WF_vars(Apply(p))
    /\ \A c \in Cals : SF_vars(SyncCalendar(c))

FairSpec == Spec /\ Fairness
-------------------------------------------------------------------------------
(* Properties.                                                             *)

(* The wiki on re-running a backfill: events that still match are updated  *)
(* in place rather than duplicated.  Not so when the worker, or a second   *)
(* backfill, handles the same event at the same time.                      *)
NeverDuplicated == \A k \in Keys : Cardinality(LiveMirrors(k)) <= 1

(* No mirror is ever made of a mirror, however the rules are chained and   *)
(* whichever way they run: the managed mark stops the loop.                *)
NoMirrorOfMirror ==
    \A m \in MirrorIds : mirror[m].state # "unborn" => mirror[m].key.id \in EventIds

(* A link row names an event that the engine itself made for that very     *)
(* rule, direction and source event, on the calendar it is about to write  *)
(* to: no race, failure or shared event id makes the engine change or      *)
(* delete somebody else's event.                                           *)
LinkIsOwnMirror ==
    \A k \in Keys : Linked(k) =>
        /\ mirror[link[k].target].state # "unborn"
        /\ mirror[link[k].target].key = k
        /\ mirror[link[k].target].cal = IF k.rev THEN RuleSrc[k.rule] ELSE RuleTgt[k.rule]

(* Unless two passes held a change of the same key at once, an insert was  *)
(* cut off from its link row, or the rule was deleted, a source event has  *)
(* at most one live mirror, and the engine knows it.                       *)
OneMirrorPerSource ==
    \A k \in Keys \ atRisk : \A m \in LiveMirrors(k) :
        /\ LiveMirrors(k) = {m}
        /\ \/ link[k].target = m
           \/ \E p \in Procs : pc[p] = "linking" /\ job[p].op = "insert" /\ job[p].target = m

(* A link row never claims a newer version than its mirror shows, so the   *)
(* etag comparison of bidirectional rules never leaves a stale mirror.     *)
EtagHonest ==
    \A k \in Keys \ atRisk : Linked(k) => mirror[link[k].target].etag >= link[k].etag

(* The mirror of the user's event e of calendar c under rule r is right.   *)
InSync(r, c, e) ==
    LET k == Key(r, c, e)
    IN IF r \in user[c][e].keep
       THEN \E m \in MirrorIds : LiveMirrors(k) = {m} /\ mirror[m].etag = user[c][e].etag
       ELSE LiveMirrors(k) = {}

(* The stored token vouches for the mirrors: what changed up to it is      *)
(* mirrored as it was last changed, unless a pass is still at it -- with   *)
(* passes cut off, tokens not stored and backfills of older listings in    *)
(* between.  It does not vouch for a change that was dropped or passed     *)
(* over (missed) or for a key at risk.                                     *)
TokenVouches ==
    \A r \in Rules, c \in Cals, e \in EventIds :
        LET k == Key(r, c, e)
        IN /\ r \in RulesFor(c) /\ k \notin atRisk \cup missed
           /\ user[c][e].etag <= token[c]
           /\ \A p \in Procs : ~Holds(p, k)
           => InSync(r, c, e)

(* Once users stop editing, every source event ends up mirrored as its     *)
(* last version says, and stays so -- except where its last change was     *)
(* dropped (failed call, calendar or rule switched off meanwhile) or not   *)
(* reached by a listing without a token, its mirror was removed by hand,   *)
(* or the key is at risk.                                                  *)
Converges ==
    \A r \in Rules, c \in Cals, e \in EventIds :
        r \in RulesFor(c) =>
            <>[](\/ Key(r, c, e) \in atRisk \cup missed
                 \/ c \notin enabled \/ status[r] # "on"
                 \/ InSync(r, c, e))
=============================================================================
