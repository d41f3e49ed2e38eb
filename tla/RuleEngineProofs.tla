-------------------------- MODULE RuleEngineProofs --------------------------
(***************************************************************************)
(* What the rule engine guarantees for any number of calendars, accounts,  *)
(* rules, events, backfills, edits and failures.                           *)
(*                                                                         *)
(* The inductive invariant says what a goroutine knows while it is in the  *)
(* middle of a change: which key its changes have, that no other goroutine *)
(* holds the key unless it is at risk, and that what it read of the link   *)
(* row and did to the mirror is still so.                                  *)
(***************************************************************************)
EXTENDS RuleEngine, TLAPS

Busy(p) == pc[p] \in {"calling", "linking"}

(* The direction of a key agrees with the calendar its change came from.   *)
KeyOfPass(k, p) ==
    /\ k.id \in EventIds
    /\ \/ ~k.rev /\ RuleSrc[k.rule] = at[p]
       \/ k.rev /\ RuleTgt[k.rule] = at[p]

(* A goroutine between passes holds nothing, and only a busy one a job.    *)
Discipline ==
    \A p \in Procs :
        /\ pc[p] = "idle" => todo[p] = {}
        /\ Busy(p) <=> job[p].op # "none"

(* What is held stems from the listed calendar, one change to a key.       *)
HeldKeys ==
    \A p \in Procs :
        /\ \A ch \in todo[p] : KeyOfPass(ch.key, p)
        /\ \A ch1, ch2 \in todo[p] : ch1.key = ch2.key => ch1 = ch2
        /\ Busy(p) => /\ KeyOfPass(job[p].change.key, p)
                      /\ \A ch \in todo[p] : ch.key # job[p].change.key

(* Two goroutines hold changes of one key only if the key is at risk.      *)
OneHolder ==
    \A k \in Keys \ atRisk : \A p, q \in Procs : Holds(p, k) /\ Holds(q, k) => p = q

(* m is an event that the engine made for key k.                           *)
MadeFor(m, k) ==
    /\ m \in MirrorIds
    /\ mirror[m].state # "unborn"
    /\ mirror[m].key = k
    /\ mirror[m].cal = IF k.rev THEN RuleSrc[k.rule] ELSE RuleTgt[k.rule]

(* The event a job is about was made for the job's key.                    *)
JobTarget ==
    \A p \in Procs :
        /\ pc[p] = "calling" /\ job[p].op # "insert" => MadeFor(job[p].target, job[p].change.key)
        /\ pc[p] = "linking" => MadeFor(job[p].target, job[p].change.key)

(* While the key is not at risk the link row is the one the job read.      *)
JobLink ==
    \A p \in Procs : Busy(p) /\ job[p].change.key \notin atRisk =>
        LET k == job[p].change.key
        IN /\ job[p].op = "insert" => ~Linked(k)
           /\ job[p].op # "insert" => link[k].target = job[p].target /\ link[k].id = job[p].row
           /\ pc[p] = "calling" /\ job[p].op = "insert" => LiveMirrors(k) = {}
           /\ pc[p] = "linking" /\ job[p].op = "insert" => LiveMirrors(k) \subseteq {job[p].target}
           /\ pc[p] = "linking" /\ job[p].op = "delete" => LiveMirrors(k) = {}

(* A live mirror is linked, or about to be.                                *)
MirrorKnown ==
    \A k \in Keys \ atRisk : \A m \in LiveMirrors(k) :
        \/ link[k].target = m
        \/ \E p \in Procs : pc[p] = "linking" /\ job[p].op = "insert"
                            /\ job[p].target = m /\ job[p].change.key = k

(* The changes a goroutine holds, and the version of a key's source event. *)
Held(p) == todo[p] \cup (IF job[p].op = "none" THEN {} ELSE {job[p].change})
SourceOf(k) == IF k.rev THEN RuleTgt[k.rule] ELSE RuleSrc[k.rule]
Version(k) == user[SourceOf(k)][k.id].etag

(* No row, no change and no event is newer than what it stems from.        *)
NoNewer ==
    /\ \A c \in Cals, e \in EventIds : user[c][e].etag <= clock
    /\ \A p \in Procs : \A ch \in Held(p) : ch.etag <= Version(ch.key)
    /\ \A k \in Keys : Linked(k) => link[k].etag <= Version(k)

(* While its key is not at risk, a change is no older than the link row,   *)
(* and what was carried out shows in the mirror.                           *)
NoOlder ==
    \A p \in Procs :
        /\ \A ch \in Held(p) : ch.key \notin atRisk /\ Linked(ch.key) => link[ch.key].etag <= ch.etag
        /\ pc[p] = "linking" /\ job[p].op # "delete" /\ job[p].change.key \notin atRisk =>
              job[p].change.etag <= mirror[job[p].target].etag
-------------------------------------------------------------------------------
LEMMA KeyIsKey ==
    ASSUME NEW r \in Rules, NEW c \in Cals, NEW e \in EventIds
    PROVE  Key(r, c, e) \in Keys
  BY DEF Key, Keys, Ids

(* The fields of a key.                                                    *)
LEMMA KeyFields ==
    ASSUME NEW r, NEW rev \in BOOLEAN, NEW e, NEW k, k = [rule |-> r, rev |-> rev, id |-> e]
    PROVE  k.rule = r /\ k.rev = rev /\ k.id = e
  OBVIOUS

LEMMA NoJobType == NoJob \in Jobs
<1>1. AnyKey \in Keys
  <2>1. \E k \in Keys : TRUE
    <3>1. PICK r \in Rules, e \in EventIds : TRUE  BY RuleAssumption
    <3>2. [rule |-> r, rev |-> FALSE, id |-> e] \in Keys  BY DEF Keys, Ids
    <3> QED  BY <3>2
  <2> QED  BY <2>1 DEF AnyKey
<1> QED  BY <1>1 DEF NoJob, Jobs, Changes

(* A listing is a set of changes of the listed calendar's user events, one *)
(* to a key.                                                               *)
LEMMA ListedFacts ==
    ASSUME TypeOK, NEW c \in Cals, NEW events \in SUBSET EventIds,
           NEW rules \in SUBSET RulesFor(c)
    PROVE  LET L == Listed(c, events, rules)
           IN /\ L \subseteq Changes
              /\ \A ch \in L : /\ ch.key.id \in EventIds
                               /\ \/ ~ch.key.rev /\ RuleSrc[ch.key.rule] = c
                                  \/ ch.key.rev /\ RuleTgt[ch.key.rule] = c
              /\ \A ch1, ch2 \in L : ch1.key = ch2.key => ch1 = ch2
<1> DEFINE L == Listed(c, events, rules)
<1>1. ASSUME NEW ch \in L
      PROVE  \E r \in rules, e \in EventIds :
                ch = [key |-> Key(r, c, e), etag |-> user[c][e].etag, keep |-> r \in user[c][e].keep]
  BY DEF Listed
<1>2. ASSUME NEW ch \in L
      PROVE  /\ ch \in Changes
             /\ ch.key.id \in EventIds
             /\ \/ ~ch.key.rev /\ RuleSrc[ch.key.rule] = c
                \/ ch.key.rev /\ RuleTgt[ch.key.rule] = c
  <2>1. PICK r \in rules, e \in EventIds :
           ch = [key |-> Key(r, c, e), etag |-> user[c][e].etag, keep |-> r \in user[c][e].keep]
    BY <1>1
  <2>2. r \in Rules /\ (RuleSrc[r] = c \/ RuleTgt[r] = c)  BY DEF RulesFor
  <2>3. Key(r, c, e) \in Keys  BY <2>2, KeyIsKey
  <2>4. user[c][e] \in [etag : Nat, keep : SUBSET Rules, past : BOOLEAN]  BY DEF TypeOK
  <2>5. ch \in Changes  BY <2>1, <2>3, <2>4 DEF Changes
  <2> DEFINE rev == RuleSrc[r] # c
  <2>6. ch.key = [rule |-> r, rev |-> rev, id |-> e]  BY <2>1 DEF Key
  <2>a. rev \in BOOLEAN  OBVIOUS
  <2> HIDE DEF rev
  <2>b. ch.key.rule = r /\ ch.key.id = e /\ ch.key.rev = rev  BY <2>6, <2>a, KeyFields
  <2>7. ch.key.rule = r /\ ch.key.id = e /\ (ch.key.rev <=> RuleSrc[r] # c)
    BY <2>b DEF rev
  <2>8. CASE RuleSrc[r] = c  BY <2>5, <2>7, <2>8
  <2>9. CASE RuleSrc[r] # c  BY <2>2, <2>5, <2>7, <2>9
  <2> QED  BY <2>8, <2>9
<1>3. ASSUME NEW ch1 \in L, NEW ch2 \in L, ch1.key = ch2.key
      PROVE  ch1 = ch2
  <2>1. PICK r1 \in rules, e1 \in EventIds :
           ch1 = [key |-> Key(r1, c, e1), etag |-> user[c][e1].etag, keep |-> r1 \in user[c][e1].keep]
    BY <1>1
  <2>2. PICK r2 \in rules, e2 \in EventIds :
           ch2 = [key |-> Key(r2, c, e2), etag |-> user[c][e2].etag, keep |-> r2 \in user[c][e2].keep]
    BY <1>1
  <2>3. Key(r1, c, e1) = Key(r2, c, e2)  BY <1>3, <2>1, <2>2
  <2>4. r1 = r2 /\ e1 = e2  BY <2>3 DEF Key
  <2> QED  BY <2>1, <2>2, <2>4
<1> HIDE DEF L
<1>4. L \subseteq Changes  BY <1>2
<1> QED  BY <1>2, <1>3, <1>4 DEF L
-------------------------------------------------------------------------------
(* Type correctness: every variable of the engine keeps its type.          *)
LEMMA InitType == Init => TypeOK
<1> SUFFICES ASSUME Init PROVE TypeOK  OBVIOUS
<1>1. AnyKey \in Keys /\ AnyCal \in Cals
  BY NoJobType, RuleAssumption DEF NoJob, Jobs, Changes, AnyCal
<1> QED  BY <1>1, NoJobType DEF Init, TypeOK, Row

LEMMA BeginType ==
    ASSUME TypeOK, NEW p \in Procs, NEW c \in Cals, NEW changes \in SUBSET Changes,
           NEW unreached \in SUBSET Keys, Begin(p, c, changes, unreached)
    PROVE  TypeOK'
<1>1. {ch.key : ch \in {x \in changes : \E q \in Procs : Holds(q, x.key)}} \subseteq Keys
  BY DEF Changes
<1> QED  BY <1>1 DEF Begin, TypeOK, google, rows, switches

LEMMA PerformType ==
    ASSUME TypeOK, NEW j \in Jobs, NEW m \in MirrorIds, NEW c \in Cals, Perform(j, m, c)
    PROVE  mirror' \in [MirrorIds -> [state : {"unborn", "live", "deleted"},
                                     key : Keys, cal : Cals, etag : Nat]]
<1>1. Opposite(j.change.key.rule, c) \in Cals
  BY RuleAssumption DEF Opposite, Jobs, Changes, Keys
<1>2. j.change.key \in Keys /\ j.change.etag \in Nat  BY DEF Jobs, Changes
<1> DEFINE Mirrors == [state : {"unborn", "live", "deleted"}, key : Keys, cal : Cals, etag : Nat]
<1>3. mirror \in [MirrorIds -> Mirrors]  BY DEF TypeOK
<1>4. CASE j.op = "insert" /\ mirror' = Inserted(j, m, c)
  <2>1. [state |-> "live", key |-> j.change.key, cal |-> Opposite(j.change.key.rule, c),
         etag |-> j.change.etag] \in Mirrors
    BY <1>1, <1>2
  <2> QED  BY <1>3, <1>4, <2>1 DEF Inserted
<1>5. CASE j.op = "update" /\ m = j.target /\ mirror' = Updated(j)
  <2>1. mirror[m] \in Mirrors  BY <1>3
  <2>2. [mirror[m] EXCEPT !.etag = j.change.etag] \in Mirrors  BY <1>2, <2>1
  <2> QED  BY <1>3, <1>5, <2>2 DEF Updated
<1>6. CASE j.op = "delete" /\ m = j.target /\ mirror' = Deleted(j)
  <2>1. mirror[m] \in Mirrors  BY <1>3
  <2>2. [mirror[m] EXCEPT !.state = "deleted"] \in Mirrors  BY <2>1
  <2> QED  BY <1>3, <1>6, <2>2 DEF Deleted
<1> QED  BY <1>4, <1>5, <1>6 DEF Perform

LEMMA ApplyType ==
    ASSUME TypeOK, NEW p \in Procs, Apply(p)
    PROVE  TypeOK'
<1>1. ASSUME NEW ch \in todo[p], Skip(p, ch) PROVE TypeOK'
  <2>1. ch.key \in Keys  BY <1>1 DEF TypeOK, Changes
  <2> QED  BY <1>1, <2>1, RuleAssumption DEF Skip, Drop, Upset, TypeOK, google, rows, switches
<1>2. ASSUME NEW ch \in todo[p], NothingToDo(p, ch) PROVE TypeOK'
  BY <1>2 DEF NothingToDo, Drop, TypeOK, google, rows, switches, history
<1>3. ASSUME NEW ch \in todo[p], Decide(p, ch) PROVE TypeOK'
  <2>1. ch \in Changes /\ ch.key \in Keys  BY <1>3 DEF TypeOK, Changes
  <2>2. link[ch.key].target \in MirrorIds \cup {NoMirror} /\ link[ch.key].id \in Nat
    BY <2>1 DEF TypeOK
  <2>3. [change |-> ch, op |-> Operation(ch), target |-> link[ch.key].target,
         row |-> link[ch.key].id] \in Jobs
    BY <2>1, <2>2 DEF Jobs, Operation
  <2> QED  BY <1>3, <2>3 DEF Decide, TypeOK, google, rows, switches, history
<1>4. ASSUME CallSucceeds(p) PROVE TypeOK'
  <2>1. PICK m \in MirrorIds : Perform(job[p], m, at[p]) /\ job' = [job EXCEPT ![p].target = m]
    BY <1>4 DEF CallSucceeds
  <2>2. job[p] \in Jobs /\ at[p] \in Cals  BY DEF TypeOK
  <2>3. job' \in [Procs -> Jobs]  BY <2>1, <2>2 DEF TypeOK, Jobs
  <2> QED  BY <1>4, <2>1, <2>2, <2>3, PerformType DEF CallSucceeds, TypeOK, rows, switches, history
<1>5. ASSUME CallFails(p) PROVE TypeOK'
  <2>1. job[p].change.key \in Keys  BY DEF TypeOK, Jobs, Changes
  <2> QED  BY <1>5, <2>1, NoJobType, RuleAssumption DEF CallFails, GiveUp, Upset, TypeOK, google, rows, switches
<1>6. ASSUME CallAnswerLost(p) PROVE TypeOK'
  <2>1. PICK m \in MirrorIds : Perform(job[p], m, at[p])  BY <1>6 DEF CallAnswerLost
  <2>2. job[p] \in Jobs /\ at[p] \in Cals /\ job[p].change.key \in Keys
    BY DEF TypeOK, Jobs, Changes
  <2> QED
    BY <1>6, <2>1, <2>2, PerformType, NoJobType, RuleAssumption
    DEF CallAnswerLost, GiveUp, Upset, TypeOK, rows, switches
<1>7. ASSUME SaveLink(p) PROVE TypeOK'
  <2>1. job[p] \in Jobs  BY DEF TypeOK
  <2>2. /\ job[p].change.key \in Keys /\ job[p].change.etag \in Nat
        /\ job[p].target \in MirrorIds \cup {NoMirror} /\ job[p].row \in Nat
    BY <2>1 DEF Jobs, Changes
  <2>3. link' \in [Keys -> [target : MirrorIds \cup {NoMirror}, etag : Nat, id : Nat]]
    BY <1>7, <2>2 DEF SaveLink, DeleteRow, Upsert, Row, TypeOK
  <2> QED  BY <1>7, <2>2, <2>3, NoJobType DEF SaveLink, GiveUp, TypeOK, google, switches
<1>8. ASSUME SaveLinkFails(p) PROVE TypeOK'
  <2>1. job[p].change.key \in Keys  BY DEF TypeOK, Jobs, Changes
  <2> QED  BY <1>8, <2>1, NoJobType, RuleAssumption DEF SaveLinkFails, GiveUp, Upset, TypeOK, google, rows, switches
<1>9. ASSUME FinishPass(p) PROVE TypeOK'
  <2>1. AnyCal \in Cals  BY RuleAssumption DEF AnyCal
  <2>2. token' \in [Cals -> Nat] /\ upsets' \in Nat
    <3>1. at[p] \in Cals /\ next[p] \in Nat /\ token \in [Cals -> Nat] /\ upsets \in Nat
      BY DEF TypeOK
    <3>2. [token EXCEPT ![at[p]] = next[p]] \in [Cals -> Nat]  BY <3>1
    <3>3. token' \in {token, [token EXCEPT ![at[p]] = next[p]]}  BY <1>9 DEF FinishPass
    <3>4. upsets' \in {upsets, upsets + 1}  BY <1>9 DEF FinishPass, Upset
    <3> QED  BY <3>1, <3>2, <3>3, <3>4
  <2> QED  BY <1>9, <2>1, <2>2 DEF FinishPass, TypeOK, google, switches
<1> QED  BY <1>1, <1>2, <1>3, <1>4, <1>5, <1>6, <1>7, <1>8, <1>9 DEF Apply

LEMMA StopType ==
    ASSUME TypeOK, NEW gone \in SUBSET Procs, Stop(gone)
    PROVE  TypeOK'
<1>1. AnyCal \in Cals  BY RuleAssumption DEF AnyCal
<1>2. Unlinked(gone) \subseteq Keys  BY DEF Unlinked, TypeOK, Jobs, Changes
<1> QED  BY <1>1, <1>2, NoJobType, RuleAssumption DEF Stop, Upset, TypeOK, google, rows, switches

(* What a step of the whole system can be.                                 *)
LEMMA Steps ==
    ASSUME Next, TypeOK
    PROVE  \/ \E c \in Cals, e \in EventIds : Edit(c, e) \/ GoBy(c, e)
           \/ \E c \in Cals : Toggle(c)
           \/ \E m \in MirrorIds : RemoveByHand(m)
           \/ \E r \in Rules : SwitchRule(r) \/ DeleteRule(r)
           \/ \E p \in Procs, c \in Cals, events \in SUBSET EventIds, rules \in SUBSET Rules,
                 unreached \in SUBSET Keys :
                 rules \subseteq RulesFor(c) /\ Begin(p, c, Listed(c, events, rules), unreached)
           \/ \E p \in Procs : Apply(p)
           \/ \E gone \in SUBSET Procs : Stop(gone)
<1>1. ASSUME NEW c \in Cals, SyncCalendar(c)
      PROVE  \E p \in Procs, d \in Cals, events \in SUBSET EventIds, rules \in SUBSET Rules,
                 unreached \in SUBSET Keys :
                 rules \subseteq RulesFor(d) /\ Begin(p, d, Listed(d, events, rules), unreached)
  <2>1. PICK events \in {Recent(c)} \cup {ChangedSince(c, token[c])} :
           Begin(AccountOf[c], c, Listed(c, events, RulesFor(c)), Unreached(c, events))
    BY <1>1 DEF SyncCalendar
  <2>2. events \in SUBSET EventIds  BY <2>1 DEF Recent, ChangedSince
  <2>3. AccountOf[c] \in Procs /\ RulesFor(c) \in SUBSET Rules
    BY RuleAssumption DEF Procs, RulesFor
  <2>4. Unreached(c, events) \in SUBSET Keys
    BY <2>3, KeyIsKey DEF Unreached, ChangedSince
  <2> QED  BY <2>1, <2>2, <2>3, <2>4
<1>2. ASSUME NEW b \in Backfills, NEW r \in Rules, Backfill(b, r)
      PROVE  \E p \in Procs, d \in Cals, events \in SUBSET EventIds, rules \in SUBSET Rules,
                 unreached \in SUBSET Keys :
                 rules \subseteq RulesFor(d) /\ Begin(p, d, Listed(d, events, rules), unreached)
  <2>1. b \in Procs /\ RuleSrc[r] \in Cals /\ {r} \in SUBSET Rules /\ {r} \subseteq RulesFor(RuleSrc[r])
    BY RuleAssumption DEF Procs, RulesFor
  <2>2. PICK events \in {Recent(RuleSrc[r]), ChangedSince(RuleSrc[r], 0)} :
           Begin(b, RuleSrc[r], Listed(RuleSrc[r], events, {r}), {})
    BY <1>2 DEF Backfill
  <2>3. events \in SUBSET EventIds  BY <2>2 DEF Recent, ChangedSince
  <2> QED  BY <2>1, <2>2, <2>3
<1>3. ASSUME NEW p \in Procs, Timeout(p) PROVE \E gone \in SUBSET Procs : Stop(gone)
  BY <1>3 DEF Timeout
<1>4. Crash => \E gone \in SUBSET Procs : Stop(gone)  BY DEF Crash
<1> QED  BY <1>1, <1>2, <1>3, <1>4 DEF Next

LEMMA NextType == TypeOK /\ [Next]_vars => TypeOK'
<1> SUFFICES ASSUME TypeOK, [Next]_vars PROVE TypeOK'  OBVIOUS
<1>1. ASSUME NEW c \in Cals, NEW e \in EventIds, Edit(c, e) \/ GoBy(c, e) PROVE TypeOK'
  <2> DEFINE Events == [etag : Nat, keep : SUBSET Rules, past : BOOLEAN]
  <2>1. user \in [Cals -> [EventIds -> Events]] /\ user[c][e] \in Events  BY DEF TypeOK
  <2>2. CASE Edit(c, e)
    <3>1. PICK keep \in SUBSET {r \in Rules : RuleSrc[r] = c \/ RuleTgt[r] = c},
               past \in {FALSE, user[c][e].past} :
             user' = [user EXCEPT ![c][e] = [etag |-> clock + 1, keep |-> keep, past |-> past]]
      BY <2>2 DEF Edit
    <3>4. user[c][e].past \in BOOLEAN  BY <2>1
    <3>5. past \in BOOLEAN  BY <3>1, <3>4
    <3>6. keep \in SUBSET Rules  BY <3>1
    <3>7. clock + 1 \in Nat  BY DEF TypeOK
    <3>2. [etag |-> clock + 1, keep |-> keep, past |-> past] \in Events  BY <3>5, <3>6, <3>7
    <3>3. user' \in [Cals -> [EventIds -> Events]]  BY <2>1, <3>1, <3>2
    <3> QED  BY <2>2, <3>3, RuleAssumption DEF Edit, TypeOK, rows, switches, procs, history
  <2>3. CASE GoBy(c, e)
    <3>1. [user[c][e] EXCEPT !.past = TRUE] \in Events  BY <2>1
    <3>2. user' \in [Cals -> [EventIds -> Events]]  BY <2>1, <2>3, <3>1 DEF GoBy
    <3> HIDE DEF Events
    <3>3. /\ upsets' = upsets + 1
          /\ UNCHANGED <<mirror, clock, link, enabled, status, token, pc, at, todo, job, next,
                         atRisk, missed>>
      BY <2>3 DEF GoBy, Upset, rows, switches, procs
    <3> QED  BY <3>2, <3>3 DEF TypeOK, Events
  <2> QED  BY <1>1, <2>2, <2>3
<1>2. ASSUME NEW c \in Cals, Toggle(c) PROVE TypeOK'
  BY <1>2, RuleAssumption DEF Toggle, Upset, TypeOK, google, procs
<1>6. ASSUME NEW m \in MirrorIds, RemoveByHand(m) PROVE TypeOK'
  <2>1. mirror[m].key \in Keys  BY DEF TypeOK
  <2> DEFINE Mirrors == [state : {"unborn", "live", "deleted"}, key : Keys, cal : Cals, etag : Nat]
  <2>2. mirror \in [MirrorIds -> Mirrors]  BY DEF TypeOK
  <2>3. mirror[m] \in Mirrors  BY <2>2
  <2>4. [mirror[m] EXCEPT !.state = "deleted"] \in Mirrors  BY <2>3
  <2>5. mirror' \in [MirrorIds -> Mirrors]  BY <1>6, <2>2, <2>4 DEF RemoveByHand
  <2> QED  BY <1>6, <2>1, <2>5 DEF RemoveByHand, Upset, TypeOK, rows, switches, procs
<1>7. ASSUME NEW r \in Rules, SwitchRule(r) PROVE TypeOK'
  BY <1>7 DEF SwitchRule, Upset, TypeOK, google, procs
<1>8. ASSUME NEW r \in Rules, DeleteRule(r) PROVE TypeOK'
  <2>1. link' \in [Keys -> [target : MirrorIds \cup {NoMirror}, etag : Nat, id : Nat]]
    BY <1>8 DEF DeleteRule, Row, TypeOK
  <2> QED  BY <1>8, <2>1 DEF DeleteRule, KeysOf, Upset, TypeOK, google, procs
<1>3. ASSUME NEW p \in Procs, NEW c \in Cals, NEW events \in SUBSET EventIds, NEW rules \in SUBSET Rules,
             NEW unreached \in SUBSET Keys,
             rules \subseteq RulesFor(c), Begin(p, c, Listed(c, events, rules), unreached)
      PROVE  TypeOK'
  <2>1. Listed(c, events, rules) \subseteq Changes  BY <1>3, ListedFacts
  <2> QED  BY <1>3, <2>1, BeginType
<1>4. ASSUME NEW gone \in SUBSET Procs, Stop(gone) PROVE TypeOK'  BY <1>4, StopType
<1>5. CASE UNCHANGED vars  BY <1>5 DEF TypeOK, vars, google, rows, switches, procs, history
<1> QED  BY <1>1, <1>2, <1>3, <1>4, <1>5, <1>6, <1>7, <1>8, ApplyType, Steps

(* The types of the engine's state, for every size of the system.          *)
THEOREM TypeCorrect == Spec => []TypeOK
  BY InitType, NextType, PTL DEF Spec

(* A user who removes a mirror takes it from the live ones and changes     *)
(* nothing that a goroutine or a row knows.                                *)
LEMMA ByHand ==
    ASSUME TypeOK, NEW m \in MirrorIds, RemoveByHand(m)
    PROVE  /\ UNCHANGED procs /\ link' = link /\ atRisk' = atRisk
           /\ \A n \in MirrorIds : /\ mirror'[n].key = mirror[n].key
                                   /\ mirror'[n].cal = mirror[n].cal
                                   /\ mirror'[n].state # "unborn" <=> mirror[n].state # "unborn"
           /\ \A k \in Keys : LiveMirrors(k)' \subseteq LiveMirrors(k)
<1>1. UNCHANGED procs /\ link' = link /\ atRisk' = atRisk  BY DEF RemoveByHand, rows, switches
<1>2. \A n \in MirrorIds : n # m => mirror'[n] = mirror[n]  BY DEF RemoveByHand, TypeOK
<1>3. /\ mirror[m].state = "live" /\ mirror'[m].state = "deleted"
      /\ mirror'[m].key = mirror[m].key /\ mirror'[m].cal = mirror[m].cal
  BY DEF RemoveByHand, TypeOK
<1>4. \A k \in Keys : LiveMirrors(k)' \subseteq LiveMirrors(k)  BY <1>2, <1>3 DEF LiveMirrors
<1>5. ASSUME NEW n \in MirrorIds
      PROVE  /\ mirror'[n].key = mirror[n].key /\ mirror'[n].cal = mirror[n].cal
             /\ mirror'[n].state # "unborn" <=> mirror[n].state # "unborn"
  <2>1. CASE n = m  BY <1>3, <2>1
  <2>2. CASE n # m  BY <1>2, <2>2
  <2> QED  BY <2>1, <2>2
<1> QED  BY <1>1, <1>4, <1>5

(* Switching or deleting a rule touches no goroutine and no event, and the *)
(* link rows it takes are of keys that are at risk from then on.           *)
LEMMA ByRule ==
    ASSUME TypeOK, NEW r \in Rules, SwitchRule(r) \/ DeleteRule(r)
    PROVE  /\ UNCHANGED procs /\ mirror' = mirror /\ atRisk \subseteq atRisk'
           /\ \A k \in Keys : \/ link'[k] = link[k]
                              \/ link'[k].target = NoMirror /\ k \in atRisk'
<1>1. CASE SwitchRule(r)  BY <1>1 DEF SwitchRule, google
<1>2. CASE DeleteRule(r)
  <2>1. ASSUME NEW k \in Keys
        PROVE  \/ link'[k] = link[k]
               \/ link'[k].target = NoMirror /\ k \in atRisk'
    BY <1>2 DEF DeleteRule, KeysOf, Row
  <2> QED  BY <1>2, <2>1 DEF DeleteRule, google
<1> QED  BY <1>1, <1>2
-------------------------------------------------------------------------------
(* What goroutine p can do to its own pc, todo and job within a pass.      *)
Shrinks(p) ==
    /\ pc[p] = "listed"
    /\ \E ch \in todo[p] : todo' = [todo EXCEPT ![p] = @ \ {ch}]
    /\ UNCHANGED <<pc, job, at>>
Decides(p) == (\E ch \in todo[p] : Decide(p, ch))
Calls(p) ==
    /\ pc[p] = "calling"
    /\ pc' = [pc EXCEPT ![p] = "linking"]
    /\ \E m \in MirrorIds : job' = [job EXCEPT ![p].target = m]
    /\ UNCHANGED <<todo, at>>
GivesUp(p) == Busy(p) /\ GiveUp(p) /\ UNCHANGED <<todo, at>>
Finishes(p) ==
    /\ pc[p] = "listed" /\ todo[p] = {}
    /\ pc' = [pc EXCEPT ![p] = "idle"]
    /\ at' = [at EXCEPT ![p] = AnyCal]
    /\ UNCHANGED <<todo, job>>

LEMMA ApplyShapes ==
    ASSUME NEW p \in Procs, Apply(p)
    PROVE  Shrinks(p) \/ Decides(p) \/ Calls(p) \/ GivesUp(p) \/ Finishes(p)
<1>1. ASSUME NEW ch \in todo[p], Skip(p, ch) PROVE Shrinks(p)
  BY <1>1 DEF Skip, Drop, Shrinks
<1>2. ASSUME NEW ch \in todo[p], NothingToDo(p, ch) PROVE Shrinks(p)
  BY <1>2 DEF NothingToDo, Drop, Shrinks
<1>3. CallSucceeds(p) => Calls(p)  BY DEF CallSucceeds, Calls
<1>4. CallFails(p) => GivesUp(p)  BY DEF CallFails, GivesUp, Busy
<1>5. CallAnswerLost(p) => GivesUp(p)  BY DEF CallAnswerLost, GivesUp, Busy
<1>6. SaveLink(p) => GivesUp(p)  BY DEF SaveLink, GivesUp, Busy
<1>7. SaveLinkFails(p) => GivesUp(p)  BY DEF SaveLinkFails, GivesUp, Busy
<1>8. FinishPass(p) => Finishes(p)  BY DEF FinishPass, Finishes
<1> QED  BY <1>1, <1>2, <1>3, <1>4, <1>5, <1>6, <1>7, <1>8 DEF Apply, Decides
-------------------------------------------------------------------------------
(* First layer: what a goroutine holds, and where it is.                   *)
Layer1 == TypeOK /\ Discipline /\ HeldKeys

LEMMA InitLayer1 == Init => Layer1
<1> SUFFICES ASSUME Init PROVE Discipline /\ HeldKeys  BY InitType DEF Layer1
<1>1. \A p \in Procs : pc[p] = "idle" /\ todo[p] = {} /\ job[p] = NoJob  BY DEF Init
<1> QED  BY <1>1 DEF Discipline, HeldKeys, Busy, NoJob

LEMMA ApplyLayer1 ==
    ASSUME Layer1, NEW p \in Procs, Apply(p)
    PROVE  Discipline' /\ HeldKeys'
<1> USE DEF Layer1
<1>1. CASE Shrinks(p)
  BY <1>1 DEF Shrinks, Discipline, HeldKeys, Busy, KeyOfPass, TypeOK
<1>2. CASE Decides(p)
  <2>1. PICK ch \in todo[p] : Decide(p, ch)  BY <1>2 DEF Decides
  <2>2. job'[p].op # "none" /\ job'[p].change = ch /\ pc'[p] = "calling" /\ pc[p] = "listed"
    BY <2>1 DEF Decide, Operation, TypeOK
  <2>3. todo'[p] = todo[p] \ {ch}  BY <2>1 DEF Decide, TypeOK
  <2>4. \A q \in Procs : q # p => pc'[q] = pc[q] /\ todo'[q] = todo[q] /\ job'[q] = job[q]
    BY <2>1 DEF Decide, TypeOK
  <2>5. at' = at  BY <2>1 DEF Decide
  <2>6. Discipline'  BY <2>2, <2>4 DEF Discipline, Busy
  <2>7. ASSUME NEW q \in Procs
        PROVE  /\ \A x \in todo'[q] : KeyOfPass(x.key, q)'
               /\ \A ch1, ch2 \in todo'[q] : ch1.key = ch2.key => ch1 = ch2
               /\ Busy(q)' => /\ KeyOfPass(job[q].change.key, q)'
                              /\ \A x \in todo'[q] : x.key # job'[q].change.key
    <3>1. CASE q = p  BY <2>2, <2>3, <2>5, <3>1 DEF HeldKeys, KeyOfPass
    <3>2. CASE q # p  BY <2>4, <2>5, <3>2 DEF HeldKeys, KeyOfPass, Busy
    <3> QED  BY <3>1, <3>2
  <2> QED  BY <2>6, <2>7 DEF HeldKeys
<1>3. CASE Calls(p)
  <2>1. \A q \in Procs : job'[q].change = job[q].change /\ job'[q].op = job[q].op
    BY <1>3 DEF Calls, TypeOK, Jobs
  <2>2. \A q \in Procs : (Busy(q)' <=> Busy(q)) /\ (pc'[q] = "idle" <=> pc[q] = "idle")
    BY <1>3 DEF Calls, Busy, TypeOK
  <2>3. todo' = todo /\ at' = at  BY <1>3 DEF Calls
  <2> QED  BY <2>1, <2>2, <2>3 DEF Discipline, HeldKeys, KeyOfPass
<1>4. CASE GivesUp(p)
  <2>1. pc'[p] = "listed" /\ job'[p].op = "none" /\ todo' = todo /\ at' = at
    BY <1>4 DEF GivesUp, GiveUp, TypeOK, NoJob
  <2>2. \A q \in Procs : q # p => pc'[q] = pc[q] /\ job'[q] = job[q]
    BY <1>4 DEF GivesUp, GiveUp, TypeOK
  <2> QED  BY <2>1, <2>2 DEF Discipline, HeldKeys, KeyOfPass, Busy
<1>5. CASE Finishes(p)
  <2>1. pc'[p] = "idle" /\ todo'[p] = {} /\ todo' = todo /\ job' = job /\ ~Busy(p)
    BY <1>5 DEF Finishes, TypeOK, Busy
  <2>2. \A q \in Procs : q # p => pc'[q] = pc[q] /\ at'[q] = at[q]
    BY <1>5 DEF Finishes, TypeOK
  <2> QED  BY <2>1, <2>2 DEF Discipline, HeldKeys, KeyOfPass, Busy
<1> QED  BY <1>1, <1>2, <1>3, <1>4, <1>5, ApplyShapes

LEMMA NextLayer1 == Layer1 /\ [Next]_vars => Layer1'
<1> SUFFICES ASSUME Layer1, [Next]_vars PROVE Discipline' /\ HeldKeys'
  BY NextType DEF Layer1
<1> USE DEF Layer1
<1>1. ASSUME UNCHANGED procs PROVE Discipline' /\ HeldKeys'
  BY <1>1 DEF procs, Discipline, HeldKeys, KeyOfPass, Busy
<1>2. ASSUME NEW p \in Procs, NEW c \in Cals, NEW events \in SUBSET EventIds, NEW rules \in SUBSET Rules,
             NEW unreached \in SUBSET Keys,
             rules \subseteq RulesFor(c), Begin(p, c, Listed(c, events, rules), unreached)
      PROVE  Discipline' /\ HeldKeys'
  <2> DEFINE L == Listed(c, events, rules)
  <2>1. /\ \A ch \in L : /\ ch.key.id \in EventIds
                         /\ \/ ~ch.key.rev /\ RuleSrc[ch.key.rule] = c
                            \/ ch.key.rev /\ RuleTgt[ch.key.rule] = c
        /\ \A ch1, ch2 \in L : ch1.key = ch2.key => ch1 = ch2
    BY <1>2, ListedFacts
  <2>2. Begin(p, c, L, unreached)  BY <1>2
  <2> HIDE DEF L
  <2>3. pc'[p] = "listed" /\ at'[p] = c /\ todo'[p] = L /\ job' = job /\ ~Busy(p)
    BY <2>2 DEF Begin, TypeOK, Busy
  <2>4. \A q \in Procs : q # p => pc'[q] = pc[q] /\ at'[q] = at[q] /\ todo'[q] = todo[q]
    BY <2>2 DEF Begin, TypeOK
  <2>5. Discipline'  BY <2>3, <2>4 DEF Discipline, Busy
  <2>6. ASSUME NEW q \in Procs
        PROVE  /\ \A x \in todo'[q] : KeyOfPass(x.key, q)'
               /\ \A ch1, ch2 \in todo'[q] : ch1.key = ch2.key => ch1 = ch2
               /\ Busy(q)' => /\ KeyOfPass(job[q].change.key, q)'
                              /\ \A x \in todo'[q] : x.key # job'[q].change.key
    <3>1. CASE q = p  BY <2>1, <2>3, <3>1 DEF KeyOfPass, Busy
    <3>2. CASE q # p  BY <2>3, <2>4, <3>2 DEF HeldKeys, KeyOfPass, Busy
    <3> QED  BY <3>1, <3>2
  <2> QED  BY <2>5, <2>6 DEF HeldKeys
<1>3. ASSUME NEW gone \in SUBSET Procs, Stop(gone) PROVE Discipline' /\ HeldKeys'
  <2>1. \A q \in gone : pc'[q] = "idle" /\ todo'[q] = {} /\ job'[q].op = "none"
    BY <1>3 DEF Stop, NoJob
  <2>2. \A q \in Procs \ gone : /\ pc'[q] = pc[q] /\ todo'[q] = todo[q]
                                /\ job'[q] = job[q] /\ at'[q] = at[q]
    BY <1>3 DEF Stop
  <2> QED  BY <2>1, <2>2 DEF Discipline, HeldKeys, KeyOfPass, Busy
<1>4. ASSUME NEW c \in Cals, NEW e \in EventIds, Edit(c, e) \/ GoBy(c, e) PROVE UNCHANGED procs
  BY <1>4 DEF Edit, GoBy
<1>5. ASSUME NEW c \in Cals, Toggle(c) PROVE UNCHANGED procs  BY <1>5 DEF Toggle
<1>6. ASSUME NEW m \in MirrorIds, RemoveByHand(m) PROVE UNCHANGED procs
  BY <1>6, ByHand DEF Layer1
<1>7. CASE UNCHANGED vars  BY <1>1, <1>7 DEF vars
<1>8. ASSUME NEW r \in Rules, SwitchRule(r) \/ DeleteRule(r) PROVE UNCHANGED procs
  BY <1>8, ByRule DEF Layer1
<1> QED  BY <1>1, <1>2, <1>3, <1>4, <1>5, <1>6, <1>7, <1>8, ApplyLayer1, Steps
-------------------------------------------------------------------------------
(* Second layer: a key has one holder, unless it is at risk.               *)
Layer2 == Layer1 /\ OneHolder

LEMMA InitLayer2 == Init => Layer2
<1> SUFFICES ASSUME Init PROVE OneHolder  BY InitLayer1 DEF Layer2
<1>1. \A p \in Procs : todo[p] = {} /\ job[p].op = "none"  BY DEF Init, NoJob
<1> QED  BY <1>1 DEF OneHolder, Holds

(* Applying changes takes no new key into hand.                            *)
LEMMA ApplyHolds ==
    ASSUME Layer1, NEW p \in Procs, Apply(p), NEW q \in Procs, NEW k, Holds(q, k)'
    PROVE  Holds(q, k)
<1> USE DEF Layer1
<1>1. CASE Shrinks(p)  BY <1>1 DEF Shrinks, Holds, TypeOK
<1>2. CASE Decides(p)
  <2>1. PICK ch \in todo[p] : Decide(p, ch)  BY <1>2 DEF Decides
  <2>2. job'[p].change = ch /\ todo'[p] \subseteq todo[p]  BY <2>1 DEF Decide, TypeOK
  <2>3. q # p => todo'[q] = todo[q] /\ job'[q] = job[q]  BY <2>1 DEF Decide, TypeOK
  <2> QED  BY <2>2, <2>3 DEF Holds
<1>3. CASE Calls(p)
  <2>1. job'[q].change = job[q].change /\ job'[q].op = job[q].op /\ todo' = todo
    BY <1>3 DEF Calls, TypeOK, Jobs
  <2> QED  BY <2>1 DEF Holds
<1>4. CASE GivesUp(p)
  <2>1. job'[p].op = "none" /\ todo' = todo  BY <1>4 DEF GivesUp, GiveUp, TypeOK, NoJob
  <2>2. q # p => job'[q] = job[q]  BY <1>4 DEF GivesUp, GiveUp, TypeOK
  <2> QED  BY <2>1, <2>2 DEF Holds
<1>5. CASE Finishes(p)  BY <1>5 DEF Finishes, Holds
<1> QED  BY <1>1, <1>2, <1>3, <1>4, <1>5, ApplyShapes

LEMMA RiskGrows ==
    ASSUME [Next]_vars, TypeOK
    PROVE  atRisk \subseteq atRisk'
<1>1. ASSUME NEW p \in Procs, Apply(p) PROVE atRisk \subseteq atRisk'
  BY <1>1 DEF Apply, Skip, NothingToDo, Decide, CallSucceeds, CallFails, CallAnswerLost,
     SaveLink, SaveLinkFails, FinishPass, history
<1>2. ASSUME NEW p \in Procs, NEW c \in Cals, NEW L, NEW N, Begin(p, c, L, N) PROVE atRisk \subseteq atRisk'
  BY <1>2 DEF Begin
<1>3. ASSUME NEW c \in Cals, NEW e \in EventIds, Edit(c, e) \/ GoBy(c, e) PROVE atRisk \subseteq atRisk'
  BY <1>3 DEF Edit, GoBy, history
<1>4. ASSUME NEW c \in Cals, Toggle(c) PROVE atRisk \subseteq atRisk'  BY <1>4 DEF Toggle
<1>5. ASSUME NEW gone, Stop(gone) PROVE atRisk \subseteq atRisk'  BY <1>5 DEF Stop
<1>6. ASSUME NEW m \in MirrorIds, RemoveByHand(m) PROVE atRisk \subseteq atRisk'  BY <1>6, ByHand
<1>7. CASE UNCHANGED vars  BY <1>7 DEF vars, history
<1>8. ASSUME NEW r \in Rules, SwitchRule(r) \/ DeleteRule(r) PROVE atRisk \subseteq atRisk'
  BY <1>8, ByRule
<1> QED  BY <1>1, <1>2, <1>3, <1>4, <1>5, <1>6, <1>7, <1>8, Steps

LEMMA NextLayer2 == Layer2 /\ [Next]_vars => Layer2'
<1> SUFFICES ASSUME Layer2, [Next]_vars,
                    NEW k \in Keys \ atRisk', NEW p \in Procs, NEW q \in Procs,
                    Holds(p, k)', Holds(q, k)'
             PROVE  p = q
  BY NextLayer1 DEF Layer2, OneHolder
<1> USE DEF Layer2
<1>1. k \notin atRisk  BY RiskGrows DEF Layer1
<1>2. ASSUME Holds(p, k), Holds(q, k) PROVE p = q  BY <1>1, <1>2 DEF OneHolder
<1>3. ASSUME NEW o \in Procs, Apply(o) PROVE p = q  BY <1>2, <1>3, ApplyHolds
<1>4. ASSUME NEW o \in Procs, NEW c \in Cals, NEW L, NEW N, Begin(o, c, L, N) PROVE p = q
  <2>1. todo'[o] = L /\ job' = job  BY <1>4 DEF Begin, Layer1, TypeOK
  <2>2. \A x \in Procs : x # o => todo'[x] = todo[x]  BY <1>4 DEF Begin, Layer1, TypeOK
  <2>3. \A x \in Procs : x # o => Holds(x, k)  <=> Holds(x, k)'  BY <2>1, <2>2 DEF Holds
  <2>4. ~Holds(o, k)
    BY <1>4 DEF Begin, Layer1, Discipline, Holds, Busy
  <2>5. ASSUME NEW x \in Procs, Holds(x, k), Holds(o, k)' PROVE FALSE
    <3>1. PICK ch \in L : ch.key = k  BY <2>1, <2>4, <2>5 DEF Holds
    <3>2. k \in atRisk'  BY <1>4, <2>5, <3>1 DEF Begin
    <3> QED  BY <3>2
  <2> QED  BY <1>2, <2>3, <2>5
<1>5. ASSUME NEW gone \in SUBSET Procs, Stop(gone) PROVE p = q
  <2>1. \A x \in Procs : Holds(x, k)' => Holds(x, k)  BY <1>5 DEF Stop, Holds, NoJob
  <2> QED  BY <1>2, <2>1
<1>6. ASSUME UNCHANGED procs PROVE p = q  BY <1>2, <1>6 DEF procs, Holds
<1>7. ASSUME NEW c \in Cals, NEW e \in EventIds, Edit(c, e) \/ GoBy(c, e) PROVE UNCHANGED procs
  BY <1>7 DEF Edit, GoBy
<1>8. ASSUME NEW c \in Cals, Toggle(c) PROVE UNCHANGED procs  BY <1>8 DEF Toggle
<1>9. ASSUME NEW m \in MirrorIds, RemoveByHand(m) PROVE UNCHANGED procs
  BY <1>9, ByHand DEF Layer1
<1>10. CASE UNCHANGED vars  BY <1>6, <1>10 DEF vars
<1>11. ASSUME NEW r \in Rules, SwitchRule(r) \/ DeleteRule(r) PROVE UNCHANGED procs
  BY <1>11, ByRule DEF Layer1
<1> QED  BY <1>3, <1>4, <1>5, <1>6, <1>7, <1>8, <1>9, <1>10, <1>11, Steps DEF Layer1
-------------------------------------------------------------------------------
(* Third layer: the events that jobs and link rows name are the engine's   *)
(* own, made for the key in question.                                      *)
Layer3 == Layer2 /\ JobTarget /\ NoMirrorOfMirror /\ LinkIsOwnMirror

(* The calendar an insert for key k goes to is the one k stands for.       *)
LEMMA OppositeOfPass ==
    ASSUME NEW k \in Keys, NEW p \in Procs, KeyOfPass(k, p)
    PROVE  Opposite(k.rule, at[p]) = IF k.rev THEN RuleSrc[k.rule] ELSE RuleTgt[k.rule]
<1>1. k.rule \in Rules /\ RuleSrc[k.rule] # RuleTgt[k.rule]  BY RuleAssumption DEF Keys
<1> QED  BY <1>1 DEF KeyOfPass, Opposite

(* Carrying a job out leaves every event with its key and calendar, and an *)
(* insert makes one for the job's key.                                     *)
LEMMA PerformMade ==
    ASSUME Layer3, NEW p \in Procs, pc[p] = "calling", NEW m \in MirrorIds,
           Perform(job[p], m, at[p]), NEW k0, k0 = job[p].change.key
    PROVE  /\ \A n \in MirrorIds, k \in Keys : MadeFor(n, k) => MadeFor(n, k)'
           /\ MadeFor(m, k0)'
           /\ NoMirrorOfMirror'
<1> DEFINE j == job[p]
<1> USE DEF Layer3, Layer2, Layer1
<1>1. k0 \in Keys /\ k0.id \in EventIds /\ KeyOfPass(k0, p) /\ at[p] \in Cals
  BY DEF HeldKeys, Busy, KeyOfPass, TypeOK, Jobs, Changes
<1>2. CASE j.op = "insert"
  <2>1. m \in Unborn  BY <1>2 DEF Perform, FreshId
  <2>2. mirror' = Inserted(j, m, at[p])  BY <1>2 DEF Perform
  <2>3. /\ mirror'[m].state = "live" /\ mirror'[m].key = k0
        /\ mirror'[m].cal = Opposite(k0.rule, at[p])
        /\ \A n \in MirrorIds : n # m => mirror'[n] = mirror[n]
    BY <2>2 DEF Inserted, TypeOK
  <2>4. MadeFor(m, k0)'  BY <1>1, <2>3, OppositeOfPass DEF MadeFor
  <2>5. \A n \in MirrorIds, k \in Keys : MadeFor(n, k) => MadeFor(n, k)'
    BY <2>1, <2>3 DEF MadeFor, Unborn
  <2>6. NoMirrorOfMirror'  BY <1>1, <2>3 DEF NoMirrorOfMirror
  <2> QED  BY <2>4, <2>5, <2>6
<1>3. CASE j.op # "insert"
  <2>1. m = j.target /\ (mirror' = Updated(j) \/ mirror' = Deleted(j))
    BY <1>3 DEF Perform
  <2>2. MadeFor(m, k0)  BY <1>3, <2>1 DEF JobTarget
  <2>3. \A n \in MirrorIds : /\ mirror'[n].key = mirror[n].key
                             /\ mirror'[n].cal = mirror[n].cal
                             /\ mirror'[n].state # "unborn" <=> mirror[n].state # "unborn"
    <3>1. mirror[m].state # "unborn"  BY <2>2 DEF MadeFor
    <3>2. CASE mirror' = Updated(j)  BY <2>1, <3>2 DEF Updated, TypeOK
    <3>3. CASE mirror' = Deleted(j)  BY <2>1, <3>1, <3>3 DEF Deleted, TypeOK
    <3> QED  BY <2>1, <3>2, <3>3
  <2>4. \A n \in MirrorIds, k \in Keys : MadeFor(n, k) => MadeFor(n, k)'
    BY <2>3 DEF MadeFor
  <2>5. NoMirrorOfMirror'  BY <2>3 DEF NoMirrorOfMirror
  <2> QED  BY <1>1, <2>2, <2>4, <2>5
<1> QED  BY <1>2, <1>3

(* Made for a key once, made for it ever after.                            *)
LEMMA MadeStable ==
    ASSUME Layer3, [Next]_vars
    PROVE  /\ \A n \in MirrorIds, k \in Keys : MadeFor(n, k) => MadeFor(n, k)'
           /\ NoMirrorOfMirror'
<1> USE DEF Layer3, Layer2, Layer1
<1>1. ASSUME mirror' = mirror
      PROVE  /\ \A n \in MirrorIds, k \in Keys : MadeFor(n, k) => MadeFor(n, k)'
             /\ NoMirrorOfMirror'
  BY <1>1 DEF MadeFor, NoMirrorOfMirror
<1>2. ASSUME NEW p \in Procs, Apply(p)
      PROVE  \/ mirror' = mirror
             \/ pc[p] = "calling" /\ \E m \in MirrorIds : Perform(job[p], m, at[p])
  BY <1>2 DEF Apply, Skip, NothingToDo, Decide, CallSucceeds, CallFails, CallAnswerLost,
     SaveLink, SaveLinkFails, FinishPass, google
<1>3. ASSUME NEW p \in Procs, NEW c \in Cals, NEW L, NEW N, Begin(p, c, L, N) PROVE mirror' = mirror
  BY <1>3 DEF Begin, google
<1>4. ASSUME NEW c \in Cals, NEW e \in EventIds, Edit(c, e) \/ GoBy(c, e) PROVE mirror' = mirror
  BY <1>4 DEF Edit, GoBy
<1>5. ASSUME NEW c \in Cals, Toggle(c) PROVE mirror' = mirror  BY <1>5 DEF Toggle, google
<1>6. ASSUME NEW gone, Stop(gone) PROVE mirror' = mirror  BY <1>6 DEF Stop, google
<1>7. CASE UNCHANGED vars  BY <1>1, <1>7 DEF vars, google
<1>8. ASSUME NEW m \in MirrorIds, RemoveByHand(m)
      PROVE  /\ \A n \in MirrorIds, k \in Keys : MadeFor(n, k) => MadeFor(n, k)'
             /\ NoMirrorOfMirror'
  BY <1>8, ByHand DEF MadeFor, NoMirrorOfMirror
<1>9. ASSUME NEW r \in Rules, SwitchRule(r) \/ DeleteRule(r) PROVE mirror' = mirror
  BY <1>9, ByRule
<1> QED  BY <1>1, <1>2, <1>3, <1>4, <1>5, <1>6, <1>7, <1>8, <1>9, PerformMade, Steps

(* A link row changes only when a job is saved, or goes with its rule.     *)
LEMMA LinkSteps ==
    ASSUME TypeOK, [Next]_vars
    PROVE  \/ \E p \in Procs : SaveLink(p)
           \/ \A k \in Keys : link'[k] = link[k] \/ link'[k].target = NoMirror
<1>1. ASSUME NEW p \in Procs, Apply(p) PROVE link' = link \/ SaveLink(p)
  BY <1>1 DEF Apply, Skip, NothingToDo, Decide, CallSucceeds, CallFails, CallAnswerLost,
     SaveLinkFails, FinishPass, rows, switches
<1>2. ASSUME NEW p \in Procs, NEW c \in Cals, NEW L, NEW N, Begin(p, c, L, N) PROVE link' = link
  BY <1>2 DEF Begin, rows, switches
<1>3. ASSUME NEW c \in Cals, NEW e \in EventIds, Edit(c, e) \/ GoBy(c, e) PROVE link' = link
  BY <1>3 DEF Edit, GoBy, rows, switches
<1>4. ASSUME NEW c \in Cals, Toggle(c) PROVE link' = link  BY <1>4 DEF Toggle
<1>5. ASSUME NEW gone, Stop(gone) PROVE link' = link  BY <1>5 DEF Stop, rows, switches
<1>6. ASSUME NEW m \in MirrorIds, RemoveByHand(m) PROVE link' = link  BY <1>6, ByHand
<1>7. CASE UNCHANGED vars  BY <1>7 DEF vars, rows, switches
<1>8. ASSUME NEW r \in Rules, SwitchRule(r) \/ DeleteRule(r)
      PROVE  \A k \in Keys : link'[k] = link[k] \/ link'[k].target = NoMirror
  BY <1>8, ByRule
<1> QED  BY <1>1, <1>2, <1>3, <1>4, <1>5, <1>6, <1>7, <1>8, Steps

(* What saving a job does to the link rows.                                *)
LEMMA SaveEffect ==
    ASSUME TypeOK, NEW p \in Procs, SaveLink(p)
    PROVE  LET k == job[p].change.key
           IN /\ k \in Keys
              /\ \A x \in Keys : x # k => link'[x] = link[x]
              /\ job[p].op # "delete" =>
                    /\ link'[k].target = job[p].target
                    /\ Linked(k) => link'[k].id = link[k].id
                    /\ link'[k].etag = job[p].change.etag
              /\ job[p].op = "delete" =>
                    \/ link'[k].target = NoMirror /\ link[k].id = job[p].row
                    \/ link'[k] = link[k] /\ link[k].id # job[p].row
<1> DEFINE k == job[p].change.key
<1>1. k \in Keys  BY DEF TypeOK, Jobs, Changes
<1>2. CASE job[p].op = "delete"
  <2>1. link' = DeleteRow(k, job[p].row)  BY <1>2 DEF SaveLink
  <2>2. \A x \in Keys : x # k => link'[x] = link[x]  BY <2>1 DEF DeleteRow, TypeOK
  <2>3. link'[k] = IF link[k].id = job[p].row THEN Row(NoMirror, 0, job[p].row) ELSE link[k]
    BY <1>1, <2>1 DEF DeleteRow, TypeOK
  <2>4. Row(NoMirror, 0, job[p].row).target = NoMirror  BY DEF Row
  <2>5. \/ link'[k].target = NoMirror /\ link[k].id = job[p].row
        \/ link'[k] = link[k] /\ link[k].id # job[p].row
    BY <2>3, <2>4
  <2> QED  BY <1>1, <1>2, <2>2, <2>5
<1>3. CASE job[p].op # "delete"
  BY <1>1, <1>3 DEF SaveLink, Upsert, Row, TypeOK
<1> QED  BY <1>2, <1>3

LEMMA NextLinkIsOwn == Layer3 /\ [Next]_vars => LinkIsOwnMirror'
<1> SUFFICES ASSUME Layer3, [Next]_vars, NEW k \in Keys, Linked(k)'
             PROVE  MadeFor(link[k].target, k)'
  BY DEF LinkIsOwnMirror, MadeFor
<1> USE DEF Layer3, Layer2, Layer1
<1>1. CASE link'[k].target = link[k].target
  <2>1. Linked(k)  BY <1>1 DEF Linked
  <2>2. PICK n \in MirrorIds : n = link[k].target  BY <2>1 DEF Linked, TypeOK
  <2>3. MadeFor(n, k)  BY <2>1, <2>2 DEF LinkIsOwnMirror, MadeFor
  <2>4. MadeFor(n, k)'  BY <2>3, MadeStable
  <2> QED  BY <1>1, <2>2, <2>4 DEF MadeFor
<1>2. CASE link'[k].target # link[k].target
  <2>1. PICK p \in Procs : SaveLink(p)  BY <1>2, LinkSteps DEF Linked
  <2>2. k = job[p].change.key /\ link'[k].target = job[p].target
    <3>1. k = job[p].change.key  BY <1>2, <2>1, SaveEffect
    <3>2. job[p].op = "delete" => link'[k].target = NoMirror \/ link'[k] = link[k]
      BY <2>1, <3>1, SaveEffect
    <3>3. job[p].op # "delete"  BY <1>2, <3>2 DEF Linked
    <3>4. link'[job[p].change.key].target = job[p].target  BY <2>1, <3>3, SaveEffect
    <3> QED  BY <3>1, <3>4
  <2>3. MadeFor(job[p].target, k)  BY <2>1, <2>2 DEF JobTarget, SaveLink
  <2>4. mirror' = mirror  BY <2>1 DEF SaveLink, google
  <2> QED  BY <2>2, <2>3, <2>4 DEF MadeFor
<1> QED  BY <1>1, <1>2

LEMMA NextJobTarget == Layer3 /\ [Next]_vars => JobTarget'
<1> SUFFICES ASSUME Layer3, [Next]_vars, NEW q \in Procs, NEW k1, k1 = job'[q].change.key,
                    \/ pc'[q] = "calling" /\ job'[q].op # "insert"
                    \/ pc'[q] = "linking"
             PROVE  MadeFor(job[q].target, k1)'
  BY DEF JobTarget, MadeFor
<1> USE DEF Layer3, Layer2, Layer1
<1>1. ASSUME pc'[q] = pc[q], job'[q] = job[q] PROVE MadeFor(job[q].target, k1)'
  <2>1. k1 \in Keys /\ k1 = job[q].change.key  BY <1>1 DEF TypeOK, Jobs, Changes
  <2>2. MadeFor(job[q].target, k1)  BY <1>1, <2>1 DEF JobTarget
  <2>3. PICK n \in MirrorIds : n = job[q].target  BY <2>2 DEF MadeFor
  <2>4. MadeFor(n, k1)'  BY <2>1, <2>2, <2>3, MadeStable
  <2> QED  BY <1>1, <2>3, <2>4 DEF MadeFor
<1>2. ASSUME NEW p \in Procs, Apply(p) PROVE MadeFor(job[q].target, k1)'
  <2>1. CASE p # q
    BY <1>1, <1>2, <2>1 DEF Apply, Skip, NothingToDo, Decide, Drop, CallSucceeds, CallFails,
       CallAnswerLost, SaveLink, SaveLinkFails, GiveUp, FinishPass, TypeOK
  <2>2. CASE p = q
    <3>1. CASE Shrinks(q)  BY <1>1, <3>1 DEF Shrinks
    <3>2. ASSUME NEW ch \in todo[q], Decide(q, ch) PROVE MadeFor(job[q].target, k1)'
      <4>1. /\ job'[q].change = ch /\ job'[q].op = Operation(ch)
            /\ job'[q].target = link[ch.key].target /\ pc'[q] = "calling"
        BY <3>2 DEF Decide, TypeOK
      <4>2. ch.key \in Keys  BY DEF TypeOK, Changes
      <4>3. Linked(ch.key)  BY <3>2, <4>1 DEF Decide, Settled, Operation
      <4>4. PICK n \in MirrorIds : n = link[ch.key].target  BY <4>2, <4>3 DEF Linked, TypeOK
      <4>5. MadeFor(n, ch.key)  BY <4>2, <4>3, <4>4 DEF LinkIsOwnMirror, MadeFor
      <4>6. MadeFor(n, k1)'  BY <4>1, <4>2, <4>5, MadeStable
      <4> QED  BY <4>1, <4>4, <4>6 DEF MadeFor
    <3>3. CASE CallSucceeds(q)
      <4>1. PICK m \in MirrorIds : /\ Perform(job[q], m, at[q])
                                   /\ job' = [job EXCEPT ![q].target = m]
        BY <3>3 DEF CallSucceeds
      <4>2. job'[q].change = job[q].change /\ job'[q].target = m
        BY <4>1 DEF TypeOK, Jobs
      <4>3. MadeFor(m, k1)'  BY <3>3, <4>1, <4>2, PerformMade DEF CallSucceeds
      <4> QED  BY <4>2, <4>3 DEF MadeFor
    <3>4. CASE GivesUp(q)
      BY <3>4 DEF GivesUp, GiveUp, TypeOK
    <3>5. CASE Finishes(q)  BY <3>5 DEF Finishes, TypeOK
    <3> QED
      BY <1>2, <2>2, <3>1, <3>2, <3>3, <3>4, <3>5 DEF Apply, Skip, NothingToDo, Drop, Shrinks,
         CallFails, CallAnswerLost, SaveLink, SaveLinkFails, GivesUp, Busy, FinishPass, Finishes
  <2> QED  BY <2>1, <2>2
<1>3. ASSUME NEW p \in Procs, NEW c \in Cals, NEW L, NEW N, Begin(p, c, L, N)
      PROVE  MadeFor(job[q].target, k1)'
  BY <1>1, <1>3 DEF Begin, TypeOK
<1>4. ASSUME NEW gone \in SUBSET Procs, Stop(gone) PROVE MadeFor(job[q].target, k1)'
  <2>1. q \notin gone  BY <1>4 DEF Stop
  <2> QED  BY <1>1, <1>4, <2>1 DEF Stop
<1>5. ASSUME UNCHANGED procs PROVE MadeFor(job[q].target, k1)'  BY <1>1, <1>5 DEF procs
<1>6. ASSUME NEW c \in Cals, NEW e \in EventIds, Edit(c, e) \/ GoBy(c, e) PROVE UNCHANGED procs
  BY <1>6 DEF Edit, GoBy
<1>7. ASSUME NEW c \in Cals, Toggle(c) PROVE UNCHANGED procs  BY <1>7 DEF Toggle
<1>8. CASE UNCHANGED vars  BY <1>5, <1>8 DEF vars
<1>9. ASSUME NEW m \in MirrorIds, RemoveByHand(m) PROVE UNCHANGED procs  BY <1>9, ByHand
<1>10. ASSUME NEW r \in Rules, SwitchRule(r) \/ DeleteRule(r) PROVE UNCHANGED procs
  BY <1>10, ByRule
<1> QED  BY <1>2, <1>3, <1>4, <1>5, <1>6, <1>7, <1>8, <1>9, <1>10, Steps

LEMMA InitLayer3 == Init => Layer3
<1> SUFFICES ASSUME Init PROVE JobTarget /\ NoMirrorOfMirror /\ LinkIsOwnMirror
  BY InitLayer2 DEF Layer3
<1> QED  BY DEF Init, JobTarget, NoMirrorOfMirror, LinkIsOwnMirror, Linked, Row

LEMMA NextLayer3 == Layer3 /\ [Next]_vars => Layer3'
  BY NextLayer2, MadeStable, NextLinkIsOwn, NextJobTarget DEF Layer3

(* However rules are chained, and however passes interleave and fail, the  *)
(* engine makes no mirror of a mirror.                                     *)
THEOREM NoLoops == Spec => []NoMirrorOfMirror
<1>1. Spec => []Layer3  BY InitLayer3, NextLayer3, PTL DEF Spec
<1>2. Layer3 => NoMirrorOfMirror  BY DEF Layer3
<1> QED  BY <1>1, <1>2, PTL

(* Whatever races and failures happen, the engine only ever updates or     *)
(* deletes an event it made for the rule, direction and source event.      *)
THEOREM LinksAreOwn == Spec => []LinkIsOwnMirror
<1>1. Spec => []Layer3  BY InitLayer3, NextLayer3, PTL DEF Spec
<1>2. Layer3 => LinkIsOwnMirror  BY DEF Layer3
<1> QED  BY <1>1, <1>2, PTL
-------------------------------------------------------------------------------
(* Fourth layer: while a key is not at risk, what a job read of its link   *)
(* row is still so, and every live mirror of the key is known.             *)
Layer4 == Layer3 /\ JobLink /\ MirrorKnown

(* A goroutine that is not busy with key k leaves k's row and mirrors be.  *)
LEMMA OtherKey ==
    ASSUME Layer3, NEW p \in Procs, Apply(p), NEW k \in Keys,
           Busy(p) => job[p].change.key # k
    PROVE  link'[k] = link[k] /\ LiveMirrors(k)' = LiveMirrors(k)
<1> USE DEF Layer3, Layer2, Layer1
<1>1. ASSUME NEW m \in MirrorIds, Perform(job[p], m, at[p]), pc[p] = "calling"
      PROVE  LiveMirrors(k)' = LiveMirrors(k)
  <2> DEFINE j == job[p]
  <2>1. j.change.key # k  BY <1>1 DEF Busy
  <2>2. CASE j.op = "insert"
    <3>1. m \in Unborn /\ mirror' = Inserted(j, m, at[p])
      BY <1>1, <2>2 DEF Perform, FreshId
    <3>2. mirror'[m].key = j.change.key /\ \A n \in MirrorIds : n # m => mirror'[n] = mirror[n]
      BY <3>1 DEF Inserted, TypeOK
    <3> QED  BY <2>1, <3>1, <3>2 DEF LiveMirrors, Unborn
  <2>3. CASE j.op # "insert"
    <3>1. m = j.target /\ (mirror' = Updated(j) \/ mirror' = Deleted(j))
      BY <1>1, <2>3 DEF Perform
    <3>2. mirror[m].key = j.change.key  BY <1>1, <2>3, <3>1 DEF JobTarget, MadeFor
    <3>3. mirror'[m].key = j.change.key /\ \A n \in MirrorIds : n # m => mirror'[n] = mirror[n]
      BY <3>1, <3>2 DEF Updated, Deleted, TypeOK
    <3> QED  BY <2>1, <3>2, <3>3 DEF LiveMirrors
  <2> QED  BY <2>2, <2>3
<1>2. mirror' = mirror => LiveMirrors(k)' = LiveMirrors(k)  BY DEF LiveMirrors
<1>3. CASE SaveLink(p)
  <2>1. Busy(p) /\ mirror' = mirror  BY <1>3 DEF SaveLink, Busy, google
  <2> QED  BY <1>2, <1>3, <2>1, SaveEffect
<1>4. CASE CallSucceeds(p)
  BY <1>1, <1>4 DEF CallSucceeds, rows, switches
<1>5. CASE CallAnswerLost(p)
  BY <1>1, <1>5 DEF CallAnswerLost, rows, switches
<1>6. CASE mirror' = mirror /\ link' = link  BY <1>2, <1>6
<1> QED
  BY <1>3, <1>4, <1>5, <1>6 DEF Apply, Skip, NothingToDo, Decide, CallFails, SaveLinkFails,
     FinishPass, google, rows, switches

(* The live mirrors of a key that one goroutine alone holds, read but not  *)
(* yet acted upon, are the linked one at most.                             *)
LEMMA AtMostLinked ==
    ASSUME Layer4, NEW p \in Procs, NEW k \in Keys \ atRisk, Holds(p, k), pc[p] # "linking"
    PROVE  \A m \in LiveMirrors(k) : link[k].target = m
<1> SUFFICES ASSUME NEW m \in LiveMirrors(k), NEW q \in Procs, pc[q] = "linking",
                    job[q].op = "insert", job[q].change.key = k
             PROVE  FALSE
  BY DEF Layer4, MirrorKnown
<1>1. Holds(q, k)  BY DEF Holds
<1>2. p = q  BY <1>1 DEF Layer4, Layer3, Layer2, OneHolder
<1> QED  BY <1>2

(* JobLink for one goroutine.                                              *)
Reads(p) ==
    Busy(p) /\ job[p].change.key \notin atRisk =>
        LET k == job[p].change.key
        IN /\ job[p].op = "insert" => ~Linked(k)
           /\ job[p].op # "insert" => link[k].target = job[p].target /\ link[k].id = job[p].row
           /\ pc[p] = "calling" /\ job[p].op = "insert" => LiveMirrors(k) = {}
           /\ pc[p] = "linking" /\ job[p].op = "insert" => LiveMirrors(k) \subseteq {job[p].target}
           /\ pc[p] = "linking" /\ job[p].op = "delete" => LiveMirrors(k) = {}

LEMMA NextJobLink == Layer4 /\ [Next]_vars => JobLink'
<1> SUFFICES ASSUME Layer4, [Next]_vars, NEW p \in Procs PROVE Reads(p)'
  BY DEF JobLink, Reads
<1> USE DEF Layer4, Layer3, Layer2, Layer1
<1>0. Reads(p) /\ atRisk \subseteq atRisk'  BY RiskGrows DEF JobLink, Reads
<1>1. ASSUME pc'[p] = pc[p], job'[p] = job[p],
             Busy(p) /\ job[p].change.key \notin atRisk' =>
                /\ link'[job[p].change.key] = link[job[p].change.key]
                /\ \A k \in Keys : k = job[p].change.key => LiveMirrors(k)' \subseteq LiveMirrors(k)
      PROVE  Reads(p)'
  <2> SUFFICES ASSUME Busy(p)', job'[p].change.key \notin atRisk',
                      NEW k \in Keys, k = job'[p].change.key
               PROVE  /\ job'[p].op = "insert" => ~Linked(k)'
                      /\ job'[p].op # "insert" => link'[k].target = job'[p].target
                                                  /\ link'[k].id = job'[p].row
                      /\ pc'[p] = "calling" /\ job'[p].op = "insert" => LiveMirrors(k)' = {}
                      /\ pc'[p] = "linking" /\ job'[p].op = "insert"
                            => LiveMirrors(k)' \subseteq {job'[p].target}
                      /\ pc'[p] = "linking" /\ job'[p].op = "delete" => LiveMirrors(k)' = {}
    <3>1. job'[p].change.key \in Keys  BY <1>1 DEF TypeOK, Jobs, Changes
    <3> QED  BY <3>1 DEF Reads, Linked, LiveMirrors
  <2>1. k = job[p].change.key /\ Busy(p) /\ k \notin atRisk  BY <1>0, <1>1 DEF Busy
  <2>2. link'[k] = link[k] /\ LiveMirrors(k)' \subseteq LiveMirrors(k)  BY <1>1, <2>1
  <2> QED  BY <1>0, <1>1, <2>1, <2>2 DEF Reads, Linked
<1>2. ASSUME NEW q \in Procs, Apply(q), q # p PROVE Reads(p)'
  <2>1. pc'[p] = pc[p] /\ job'[p] = job[p]
    BY <1>2 DEF Apply, Skip, NothingToDo, Decide, Drop, CallSucceeds, CallFails,
       CallAnswerLost, SaveLink, SaveLinkFails, GiveUp, FinishPass, TypeOK
  <2>2. ASSUME Busy(p), NEW k \in Keys, k = job[p].change.key, k \notin atRisk
        PROVE  link'[k] = link[k] /\ LiveMirrors(k)' \subseteq LiveMirrors(k)
    <3>1. Holds(p, k)  BY <2>2 DEF Discipline, Holds
    <3>2. Busy(q) /\ job[q].change.key = k => Holds(q, k)  BY DEF Discipline, Holds
    <3>3. Busy(q) => job[q].change.key # k  BY <1>2, <2>2, <3>1, <3>2 DEF OneHolder
    <3> QED  BY <1>2, <3>3, OtherKey
  <2>3. job[p].change.key \in Keys  BY DEF TypeOK, Jobs, Changes
  <2> QED  BY <1>0, <1>1, <2>1, <2>2, <2>3
<1>3. ASSUME Apply(p) PROVE Reads(p)'
  <2>1. ASSUME pc'[p] \notin {"calling", "linking"} PROVE Reads(p)'  BY <2>1 DEF Reads, Busy
  <2>2. ASSUME NEW ch \in todo[p], Decide(p, ch) PROVE Reads(p)'
    <3>1. /\ job'[p].change = ch /\ job'[p].op = Operation(ch) /\ pc'[p] = "calling"
          /\ job'[p].target = link[ch.key].target /\ job'[p].row = link[ch.key].id
          /\ link' = link /\ mirror' = mirror /\ atRisk' = atRisk /\ pc[p] = "listed"
      BY <2>2 DEF Decide, TypeOK, rows, switches, google, history
    <3>2. PICK k \in Keys : k = ch.key  BY DEF TypeOK, Changes
    <3>3. Holds(p, k)  BY <3>2 DEF Holds
    <3>4. Operation(ch) = "insert" => ~Linked(k)  BY <3>2 DEF Operation
    <3>5. k \notin atRisk /\ ~Linked(k) => LiveMirrors(k) = {}
      <4>1. \A m \in LiveMirrors(k) : m # NoMirror  BY RuleAssumption DEF LiveMirrors
      <4>2. k \notin atRisk => \A m \in LiveMirrors(k) : link[k].target = m
        BY <3>1, <3>3, AtMostLinked
      <4> QED  BY <4>1, <4>2 DEF Linked
    <3> QED  BY <3>1, <3>2, <3>4, <3>5 DEF Reads, Linked, LiveMirrors
  <2>3. CASE CallSucceeds(p)
    <3> DEFINE j == job[p]
    <3>1. PICK m \in MirrorIds : /\ Perform(j, m, at[p])
                                 /\ job' = [job EXCEPT ![p].target = m]
      BY <2>3 DEF CallSucceeds
    <3>2. /\ job'[p].change = j.change /\ job'[p].op = j.op /\ job'[p].row = j.row
          /\ job'[p].target = m /\ link' = link /\ atRisk' = atRisk
          /\ pc'[p] = "linking" /\ pc[p] = "calling"
      BY <2>3, <3>1 DEF CallSucceeds, TypeOK, Jobs, rows, switches, history
    <3>3. PICK k \in Keys : k = j.change.key  BY DEF TypeOK, Jobs, Changes
    <3>4. Busy(p) /\ Holds(p, k)  BY <3>2, <3>3 DEF Busy, Discipline, Holds
    <3>5. ASSUME k \notin atRisk, j.op = "insert" PROVE LiveMirrors(k)' = {m}
      <4>1. LiveMirrors(k) = {}  BY <1>0, <3>2, <3>3, <3>4, <3>5 DEF Reads
      <4>2. mirror' = Inserted(j, m, at[p])  BY <3>1, <3>5 DEF Perform
      <4>3. /\ mirror'[m].state = "live" /\ mirror'[m].key = k
            /\ \A n \in MirrorIds : n # m => mirror'[n] = mirror[n]
        BY <3>3, <4>2 DEF Inserted, TypeOK
      <4> QED  BY <4>1, <4>3 DEF LiveMirrors
    <3>6. ASSUME k \notin atRisk, j.op = "delete" PROVE LiveMirrors(k)' = {}
      <4>1. \A n \in LiveMirrors(k) : link[k].target = n  BY <3>2, <3>4, <3>6, AtMostLinked
      <4>2. link[k].target = m
        BY <1>0, <3>1, <3>3, <3>4, <3>6 DEF Reads, Perform
      <4>3. mirror' = Deleted(j) /\ m = j.target  BY <3>1, <3>6 DEF Perform
      <4>4. /\ mirror'[m].state = "deleted"
            /\ \A n \in MirrorIds : n # m => mirror'[n] = mirror[n]
        BY <4>3 DEF Deleted, TypeOK
      <4> QED  BY <4>1, <4>2, <4>4 DEF LiveMirrors
    <3>7. ASSUME k \notin atRisk PROVE j.op # "insert" => m = j.target
      BY <3>1 DEF Perform
    <3> QED  BY <1>0, <3>2, <3>3, <3>4, <3>5, <3>6, <3>7 DEF Reads, Linked, LiveMirrors, Busy
  <2>4. CASE Shrinks(p)  BY <2>1, <2>4 DEF Shrinks
  <2>5. CASE GivesUp(p)  BY <2>1, <2>5 DEF GivesUp, GiveUp, TypeOK
  <2>6. CASE Finishes(p)  BY <2>1, <2>6 DEF Finishes, TypeOK
  <2> QED
    BY <1>3, <2>2, <2>3, <2>4, <2>5, <2>6 DEF Apply, Skip, NothingToDo, Drop, Shrinks,
       CallFails, CallAnswerLost, SaveLink, SaveLinkFails, GivesUp, Busy, FinishPass, Finishes
<1>4. ASSUME mirror' = mirror, link' = link, pc'[p] = pc[p], job'[p] = job[p] PROVE Reads(p)'
  BY <1>1, <1>4 DEF LiveMirrors
<1>5. ASSUME NEW q \in Procs, NEW c \in Cals, NEW L, NEW N, Begin(q, c, L, N) PROVE Reads(p)'
  <2>1. CASE p = q  BY <1>5, <2>1 DEF Begin, Reads, Busy, TypeOK
  <2>2. CASE p # q  BY <1>4, <1>5, <2>2 DEF Begin, TypeOK, google, rows, switches
  <2> QED  BY <2>1, <2>2
<1>6. ASSUME NEW gone \in SUBSET Procs, Stop(gone) PROVE Reads(p)'
  <2>1. CASE p \in gone  BY <1>6, <2>1 DEF Stop, Reads, Busy
  <2>2. CASE p \notin gone  BY <1>4, <1>6, <2>2 DEF Stop, google, rows, switches
  <2> QED  BY <2>1, <2>2
<1>7. ASSUME NEW c \in Cals, NEW e \in EventIds, Edit(c, e) \/ GoBy(c, e) PROVE Reads(p)'
  BY <1>4, <1>7 DEF Edit, GoBy, rows, switches, procs
<1>8. ASSUME NEW c \in Cals, Toggle(c) PROVE Reads(p)'
  BY <1>4, <1>8 DEF Toggle, google, procs
<1>9. CASE UNCHANGED vars  BY <1>4, <1>9 DEF vars, google, rows, switches, procs
<1>10. ASSUME NEW m \in MirrorIds, RemoveByHand(m) PROVE Reads(p)'
  BY <1>1, <1>10, ByHand DEF procs
<1>11. ASSUME NEW r \in Rules, SwitchRule(r) \/ DeleteRule(r) PROVE Reads(p)'
  <2>1. pc' = pc /\ job' = job /\ mirror' = mirror  BY <1>11, ByRule DEF procs
  <2>2. job[p].change.key \in Keys  BY DEF TypeOK, Jobs, Changes
  <2>3. \A k \in Keys : LiveMirrors(k)' = LiveMirrors(k)  BY <2>1 DEF LiveMirrors
  <2>4. CASE job[p].change.key \in atRisk'  BY <2>1, <2>4 DEF Reads
  <2>5. CASE link'[job[p].change.key] = link[job[p].change.key]
    BY <1>1, <2>1, <2>3, <2>5
  <2> QED  BY <1>11, <2>2, <2>4, <2>5, ByRule
<1> QED  BY <1>2, <1>3, <1>5, <1>6, <1>7, <1>8, <1>9, <1>10, <1>11, Steps

(* A goroutine about to link the mirror m it inserted for k.               *)
Linking(p, m, k) ==
    /\ pc[p] = "linking" /\ job[p].op = "insert"
    /\ job[p].target = m /\ job[p].change.key = k

LEMMA NextMirrorKnown == Layer4 /\ [Next]_vars => MirrorKnown'
<1> SUFFICES ASSUME Layer4, [Next]_vars, NEW k \in Keys, k \notin atRisk',
                    NEW m \in MirrorIds, m \in LiveMirrors(k)'
             PROVE  link'[k].target = m \/ \E q \in Procs : Linking(q, m, k)'
  BY DEF MirrorKnown, LiveMirrors, Linking
<1> USE DEF Layer4, Layer3, Layer2, Layer1
<1>0. k \notin atRisk  BY RiskGrows
<1>1. m \in LiveMirrors(k) => link[k].target = m \/ \E q \in Procs : Linking(q, m, k)
  BY <1>0 DEF MirrorKnown, Linking
<1>2. ASSUME NEW p \in Procs, Apply(p)
      PROVE  link'[k].target = m \/ \E q \in Procs : Linking(q, m, k)'
  <2>1. \A q \in Procs : q # p /\ Linking(q, m, k) => Linking(q, m, k)'
    BY <1>2 DEF Linking, Apply, Skip, NothingToDo, Decide, Drop, CallSucceeds, CallFails,
       CallAnswerLost, SaveLink, SaveLinkFails, GiveUp, FinishPass, TypeOK
  <2>2. CASE ~(Busy(p) /\ job[p].change.key = k)
    <3>1. link'[k] = link[k] /\ LiveMirrors(k)' = LiveMirrors(k)  BY <1>2, <2>2, OtherKey
    <3>2. ~Linking(p, m, k)  BY <2>2 DEF Linking, Busy
    <3> QED  BY <1>1, <2>1, <3>1, <3>2
  <2>3. CASE Busy(p) /\ job[p].change.key = k
    <3>1. Reads(p)  BY DEF JobLink, Reads
    <3>2. Holds(p, k)  BY <2>3 DEF Discipline, Holds
    <3>3. pc[p] = "calling" /\ m \in LiveMirrors(k) => link[k].target = m
      BY <1>0, <3>2, AtMostLinked
    <3>4. CASE SaveLink(p)
      <4>1. pc[p] = "linking" /\ LiveMirrors(k)' = LiveMirrors(k)
        BY <3>4 DEF SaveLink, google, LiveMirrors
      <4>2. job[p].op # "delete"  BY <1>0, <2>3, <3>1, <4>1 DEF Reads
      <4>3. link'[k].target = job[p].target  BY <2>3, <3>4, <4>2, SaveEffect
      <4>4. CASE job[p].op = "insert"
        BY <1>0, <2>3, <3>1, <4>1, <4>3, <4>4 DEF Reads
      <4>5. CASE job[p].op # "insert"
        <5>1. link[k].target = job[p].target  BY <1>0, <2>3, <3>1, <4>5 DEF Reads
        <5>2. link[k].target = m
          <6>1. \A q \in Procs : ~Linking(q, m, k)
            <7>1. \A q \in Procs : Linking(q, m, k) => Holds(q, k)  BY DEF Linking, Holds
            <7> QED  BY <1>0, <3>2, <4>5, <7>1 DEF OneHolder, Linking
          <6> QED  BY <1>1, <4>1, <6>1
        <5> QED  BY <4>3, <5>1, <5>2
      <4> QED  BY <4>4, <4>5
    <3>5. CASE CallSucceeds(p)
      <4>1. PICK n \in MirrorIds : /\ Perform(job[p], n, at[p])
                                   /\ job' = [job EXCEPT ![p].target = n]
        BY <3>5 DEF CallSucceeds
      <4>2. /\ job'[p].change = job[p].change /\ job'[p].op = job[p].op
            /\ job'[p].target = n /\ link' = link
            /\ pc'[p] = "linking" /\ pc[p] = "calling"
        BY <3>5, <4>1 DEF CallSucceeds, TypeOK, Jobs, rows, switches
      <4>3. CASE m \in LiveMirrors(k)  BY <3>3, <4>2, <4>3
      <4>4. CASE m \notin LiveMirrors(k)
        <5>1. job[p].op = "insert" /\ m = n
          <6>1. job[p].op # "insert" =>
                  n = job[p].target /\ (mirror' = Updated(job[p]) \/ mirror' = Deleted(job[p]))
            BY <4>1 DEF Perform
          <6>2. job[p].op = "update" => mirror[n].state = "live"  BY <4>1 DEF Perform
          <6>3. CASE job[p].op = "insert"
            <7>1. mirror' = Inserted(job[p], n, at[p])  BY <4>1, <6>3 DEF Perform
            <7> QED  BY <4>4, <6>3, <7>1 DEF Inserted, LiveMirrors, TypeOK
          <6>4. CASE job[p].op # "insert" /\ mirror' = Updated(job[p])
            BY <4>4, <6>1, <6>4 DEF Updated, LiveMirrors, TypeOK
          <6>5. CASE job[p].op # "insert" /\ mirror' = Deleted(job[p])
            BY <4>4, <6>1, <6>5 DEF Deleted, LiveMirrors, TypeOK
          <6> QED  BY <6>1, <6>3, <6>4, <6>5
        <5> QED  BY <2>3, <4>2, <5>1 DEF Linking
      <4> QED  BY <4>3, <4>4
    <3>6. CASE CallAnswerLost(p)
      <4>1. PICK n \in MirrorIds : Perform(job[p], n, at[p])  BY <3>6 DEF CallAnswerLost
      <4>2. job[p].op # "insert" /\ link' = link /\ pc[p] = "calling"
        BY <2>3, <3>6 DEF CallAnswerLost, rows, switches
      <4>3. n = job[p].target /\ (mirror' = Updated(job[p]) \/ mirror' = Deleted(job[p]))
        BY <4>1, <4>2 DEF Perform
      <4>4. m \in LiveMirrors(k)
        <5>1. CASE mirror' = Updated(job[p])
          BY <4>3, <5>1 DEF Updated, LiveMirrors, TypeOK
        <5>2. CASE mirror' = Deleted(job[p])
          BY <4>3, <5>2 DEF Deleted, LiveMirrors, TypeOK
        <5> QED  BY <4>3, <5>1, <5>2
      <4> QED  BY <3>3, <4>2, <4>4
    <3>7. CASE CallFails(p)
      <4>1. link' = link /\ LiveMirrors(k)' = LiveMirrors(k) /\ pc[p] = "calling"
        BY <3>7 DEF CallFails, rows, switches, google, LiveMirrors
      <4> QED  BY <3>3, <4>1
    <3>8. CASE SaveLinkFails(p)
      <4>1. link' = link /\ LiveMirrors(k)' = LiveMirrors(k) /\ job[p].op # "insert"
        BY <2>3, <3>8 DEF SaveLinkFails, rows, switches, google, LiveMirrors
      <4>2. ~Linking(p, m, k)  BY <4>1 DEF Linking
      <4> QED  BY <1>1, <2>1, <4>1, <4>2
    <3> QED
      BY <1>2, <2>3, <3>4, <3>5, <3>6, <3>7, <3>8 DEF Apply, Busy, Skip, NothingToDo, Decide,
         FinishPass
  <2> QED  BY <2>2, <2>3
<1>3. ASSUME mirror' = mirror, link' = link, UNCHANGED <<pc, job>>
      PROVE  link'[k].target = m \/ \E q \in Procs : Linking(q, m, k)'
  BY <1>1, <1>3 DEF LiveMirrors, Linking
<1>4. ASSUME NEW o \in Procs, NEW c \in Cals, NEW L, NEW N, Begin(o, c, L, N)
      PROVE  link'[k].target = m \/ \E q \in Procs : Linking(q, m, k)'
  <2>1. \A q \in Procs : Linking(q, m, k) => Linking(q, m, k)'
    BY <1>4 DEF Begin, Linking, TypeOK
  <2>2. link' = link /\ LiveMirrors(k)' = LiveMirrors(k)
    BY <1>4 DEF Begin, google, rows, switches, LiveMirrors
  <2> QED  BY <1>1, <2>1, <2>2
<1>5. ASSUME NEW gone \in SUBSET Procs, Stop(gone)
      PROVE  link'[k].target = m \/ \E q \in Procs : Linking(q, m, k)'
  <2>1. link' = link /\ LiveMirrors(k)' = LiveMirrors(k)
    BY <1>5 DEF Stop, google, rows, switches, LiveMirrors
  <2>2. \A q \in Procs : Linking(q, m, k) => q \notin gone
    BY <1>5 DEF Stop, Unlinked, Linking
  <2>3. \A q \in Procs : Linking(q, m, k) => Linking(q, m, k)'
    BY <1>5, <2>2 DEF Stop, Linking
  <2> QED  BY <1>1, <2>1, <2>3
<1>6. ASSUME NEW c \in Cals, NEW e \in EventIds, Edit(c, e) \/ GoBy(c, e)
      PROVE  mirror' = mirror /\ link' = link /\ UNCHANGED <<pc, job>>
  BY <1>6 DEF Edit, GoBy, rows, switches, procs
<1>7. ASSUME NEW c \in Cals, Toggle(c)
      PROVE  mirror' = mirror /\ link' = link /\ UNCHANGED <<pc, job>>
  BY <1>7 DEF Toggle, google, procs
<1>8. CASE UNCHANGED vars  BY <1>3, <1>8 DEF vars, google, rows, switches, procs
<1>9. ASSUME NEW n \in MirrorIds, RemoveByHand(n)
      PROVE  link'[k].target = m \/ \E q \in Procs : Linking(q, m, k)'
  <2>1. UNCHANGED procs /\ link' = link /\ LiveMirrors(k)' \subseteq LiveMirrors(k)
    BY <1>9, ByHand
  <2> QED  BY <1>1, <2>1 DEF Linking, procs
<1>10. ASSUME NEW r \in Rules, SwitchRule(r) \/ DeleteRule(r)
       PROVE  link'[k].target = m \/ \E q \in Procs : Linking(q, m, k)'
  <2>1. UNCHANGED procs /\ mirror' = mirror /\ link'[k] = link[k]  BY <1>10, ByRule
  <2> QED  BY <1>1, <2>1 DEF Linking, LiveMirrors, procs
<1> QED  BY <1>2, <1>3, <1>4, <1>5, <1>6, <1>7, <1>8, <1>9, <1>10, Steps

LEMMA InitLayer4 == Init => Layer4
<1> SUFFICES ASSUME Init PROVE JobLink /\ MirrorKnown
  BY InitLayer3 DEF Layer4
<1> QED  BY DEF Init, JobLink, MirrorKnown, LiveMirrors, Busy

LEMMA NextLayer4 == Layer4 /\ [Next]_vars => Layer4'
  BY NextLayer3, NextJobLink, NextMirrorKnown DEF Layer4

LEMMA KnownOnce == Layer4 => OneMirrorPerSource
<1> SUFFICES ASSUME Layer4, NEW k \in Keys \ atRisk, NEW m \in LiveMirrors(k)
             PROVE  /\ LiveMirrors(k) = {m}
                    /\ \/ link[k].target = m
                       \/ \E p \in Procs : pc[p] = "linking" /\ job[p].op = "insert"
                                           /\ job[p].target = m
  BY DEF OneMirrorPerSource
<1> USE DEF Layer4, Layer3, Layer2, Layer1
<1>1. \A n \in LiveMirrors(k) : link[k].target = n \/ \E p \in Procs : Linking(p, n, k)
  BY DEF MirrorKnown, Linking
<1>2. ASSUME NEW p \in Procs, NEW n, Linking(p, n, k) PROVE LiveMirrors(k) \subseteq {n}
  <2>1. Reads(p) /\ Busy(p)  BY <1>2 DEF JobLink, Reads, Linking, Busy
  <2> QED  BY <1>2, <2>1 DEF Reads, Linking
<1>3. LiveMirrors(k) = {m}
  <2>1. CASE \E n \in LiveMirrors(k), p \in Procs : Linking(p, n, k)  BY <1>2, <2>1
  <2>2. CASE \A n \in LiveMirrors(k) : link[k].target = n  BY <2>2
  <2> QED  BY <1>1, <2>1, <2>2
<1> QED  BY <1>1, <1>3 DEF Linking

(* Without a race for the key and without an insert cut off from its row,  *)
(* a source event has at most one mirror per rule and direction, and it is *)
(* the linked one or about to be linked.                                   *)
THEOREM OneMirror == Spec => []OneMirrorPerSource
<1>1. Spec => []Layer4  BY InitLayer4, NextLayer4, PTL DEF Spec
<1> QED  BY <1>1, KnownOnce, PTL
-------------------------------------------------------------------------------
(* Fifth layer: the versions that rows, changes and mirrors carry.         *)
Layer5 == Layer3 /\ NoNewer /\ NoOlder /\ EtagHonest

(* A source event only ever gets newer, and no newer than the clock.       *)
LEMMA VersionsGrow ==
    ASSUME TypeOK, NoNewer, [Next]_vars
    PROVE  \A c \in Cals, e \in EventIds :
              user[c][e].etag <= user'[c][e].etag /\ user'[c][e].etag <= clock'
<1> SUFFICES ASSUME NEW c \in Cals, NEW e \in EventIds
             PROVE  user[c][e].etag <= user'[c][e].etag /\ user'[c][e].etag <= clock'
  OBVIOUS
<1>1. user[c][e].etag \in Nat /\ clock \in Nat /\ user[c][e].etag <= clock
  BY DEF TypeOK, NoNewer
<1>2. ASSUME user' = user, clock' = clock
      PROVE  user[c][e].etag <= user'[c][e].etag /\ user'[c][e].etag <= clock'
  BY <1>1, <1>2
<1>3. ASSUME NEW d \in Cals, NEW f \in EventIds, Edit(d, f)
      PROVE  user[c][e].etag <= user'[c][e].etag /\ user'[c][e].etag <= clock'
  <2>1. \/ user'[c][e] = user[c][e]
        \/ user'[c][e].etag = clock + 1
    BY <1>3 DEF Edit, TypeOK
  <2>2. clock' = clock + 1  BY <1>3 DEF Edit
  <2> QED  BY <1>1, <2>1, <2>2
<1>4. ASSUME NEW d \in Cals, NEW f \in EventIds, GoBy(d, f)
      PROVE  user[c][e].etag <= user'[c][e].etag /\ user'[c][e].etag <= clock'
  <2>1. user'[c][e].etag = user[c][e].etag /\ clock' = clock
    BY <1>4 DEF GoBy, TypeOK
  <2> QED  BY <1>1, <2>1
<1>5. ASSUME NEW p \in Procs, Apply(p) PROVE user' = user /\ clock' = clock
  BY <1>5 DEF Apply, Skip, NothingToDo, Decide, CallSucceeds, CallFails, CallAnswerLost,
     SaveLink, SaveLinkFails, FinishPass, google
<1>6. ASSUME NEW p \in Procs, NEW d \in Cals, NEW L, NEW N, Begin(p, d, L, N)
      PROVE  user' = user /\ clock' = clock
  BY <1>6 DEF Begin, google
<1>7. ASSUME NEW d \in Cals, Toggle(d) PROVE user' = user /\ clock' = clock
  BY <1>7 DEF Toggle, google
<1>8. ASSUME NEW gone, Stop(gone) PROVE user' = user /\ clock' = clock
  BY <1>8 DEF Stop, google
<1>9. ASSUME NEW m \in MirrorIds, RemoveByHand(m) PROVE user' = user /\ clock' = clock
  BY <1>9 DEF RemoveByHand
<1>10. ASSUME NEW r \in Rules, SwitchRule(r) \/ DeleteRule(r) PROVE user' = user /\ clock' = clock
  BY <1>10 DEF SwitchRule, DeleteRule, google
<1>11. CASE UNCHANGED vars  BY <1>2, <1>11 DEF vars, google
<1> QED  BY <1>2, <1>3, <1>4, <1>5, <1>6, <1>7, <1>8, <1>9, <1>10, <1>11, Steps

(* The calendar and the event that a change of a pass stems from.          *)
LEMMA SourceOfPass ==
    ASSUME NEW k \in Keys, NEW p \in Procs, KeyOfPass(k, p)
    PROVE  SourceOf(k) = at[p] /\ k.id \in EventIds
  BY DEF KeyOfPass, SourceOf, Keys

(* A goroutine's changes are those it held before, or those it lists at    *)
(* this moment.                                                            *)
LEMMA HeldSteps ==
    ASSUME Layer1, [Next]_vars, NEW p \in Procs
    PROVE  \/ Held(p)' \subseteq Held(p)
           \/ /\ user' = user /\ link' = link
              /\ \A ch \in Held(p)' : ch.key \in Keys /\ ch.etag = Version(ch.key)
<1> USE DEF Layer1
<1>1. ASSUME todo'[p] \subseteq todo[p], job'[p].op = "none" \/ job'[p] = job[p]
      PROVE  Held(p)' \subseteq Held(p)
  BY <1>1 DEF Held
<1>2. ASSUME NEW q \in Procs, Apply(q) PROVE Held(p)' \subseteq Held(p)
  <2>1. CASE Shrinks(q)
    <3>1. todo'[p] \subseteq todo[p] /\ job' = job  BY <2>1 DEF Shrinks, TypeOK
    <3> QED  BY <1>1, <3>1
  <2>2. CASE Decides(q)
    <3>1. PICK ch \in todo[q] : Decide(q, ch)  BY <2>2 DEF Decides
    <3>2. todo'[q] \subseteq todo[q] /\ job'[q].change = ch  BY <3>1 DEF Decide, TypeOK
    <3>3. q # p => todo'[p] = todo[p] /\ job'[p] = job[p]  BY <3>1 DEF Decide, TypeOK
    <3>4. CASE q = p  BY <3>1, <3>2, <3>4 DEF Held
    <3> QED  BY <1>1, <3>3, <3>4
  <2>3. CASE Calls(q)
    <3>1. job'[p].change = job[p].change /\ job'[p].op = job[p].op /\ todo' = todo
      BY <2>3 DEF Calls, TypeOK, Jobs
    <3> QED  BY <3>1 DEF Held
  <2>4. CASE GivesUp(q)
    <3>1. todo' = todo /\ (job'[p].op = "none" \/ job'[p] = job[p])
      BY <2>4 DEF GivesUp, GiveUp, TypeOK, NoJob
    <3> QED  BY <1>1, <3>1
  <2>5. CASE Finishes(q)  BY <1>1, <2>5 DEF Finishes
  <2> QED  BY <1>2, <2>1, <2>2, <2>3, <2>4, <2>5, ApplyShapes
<1>3. ASSUME NEW q \in Procs, NEW c \in Cals, NEW events \in SUBSET EventIds, NEW rules \in SUBSET Rules,
             NEW unreached \in SUBSET Keys,
             rules \subseteq RulesFor(c), Begin(q, c, Listed(c, events, rules), unreached)
      PROVE  \/ Held(p)' \subseteq Held(p)
             \/ /\ user' = user /\ link' = link
                /\ \A ch \in Held(p)' : ch.key \in Keys /\ ch.etag = Version(ch.key)
  <2> DEFINE L == Listed(c, events, rules)
  <2>1. Begin(q, c, L, unreached)  BY <1>3
  <2>2. \A ch \in L : ch.key \in Keys /\ ch.etag = Version(ch.key)
    <3> SUFFICES ASSUME NEW ch \in L PROVE ch.key \in Keys /\ ch.etag = Version(ch.key)
      OBVIOUS
    <3>1. ch \in Changes
      BY <1>3, ListedFacts
    <3>2. PICK r \in rules, e \in events :
             ch = [key |-> Key(r, c, e), etag |-> user[c][e].etag, keep |-> r \in user[c][e].keep]
      BY DEF Listed
    <3>3. ch.key = Key(r, c, e) /\ ch.etag = user[c][e].etag  BY <3>2
    <3>4. ch.key.id = e
      BY <3>3 DEF Key
    <3>5. SourceOf(ch.key) = c
      <4>1. \/ ~ch.key.rev /\ RuleSrc[ch.key.rule] = c
            \/ ch.key.rev /\ RuleTgt[ch.key.rule] = c
        BY <1>3, ListedFacts
      <4>2. ch.key \in Keys  BY <3>1 DEF Changes
      <4> QED  BY <4>1, <4>2 DEF SourceOf, Keys
    <3> QED  BY <3>1, <3>3, <3>4, <3>5 DEF Version, Changes
  <2> HIDE DEF L
  <2>3. user' = user /\ link' = link /\ job' = job  BY <2>1 DEF Begin, google, rows, switches
  <2>4. CASE p = q
    <3>1. todo'[p] = L /\ job[p].op = "none"  BY <2>1, <2>4 DEF Begin, TypeOK, Discipline, Busy
    <3>2. Held(p)' = L  BY <2>3, <3>1 DEF Held
    <3> QED  BY <2>2, <2>3, <3>2
  <2>5. CASE p # q
    <3>1. todo'[p] = todo[p]  BY <2>1, <2>5 DEF Begin, TypeOK
    <3> QED  BY <1>1, <2>3, <3>1
  <2> QED  BY <2>4, <2>5
<1>4. ASSUME NEW gone \in SUBSET Procs, Stop(gone) PROVE Held(p)' \subseteq Held(p)
  BY <1>4 DEF Stop, Held, NoJob
<1>5. ASSUME UNCHANGED procs PROVE Held(p)' \subseteq Held(p)  BY <1>1, <1>5 DEF procs
<1>6. ASSUME NEW c \in Cals, NEW e \in EventIds, Edit(c, e) \/ GoBy(c, e) PROVE UNCHANGED procs
  BY <1>6 DEF Edit, GoBy
<1>7. ASSUME NEW c \in Cals, Toggle(c) PROVE UNCHANGED procs  BY <1>7 DEF Toggle
<1>8. CASE UNCHANGED vars  BY <1>5, <1>8 DEF vars
<1>9. ASSUME NEW m \in MirrorIds, RemoveByHand(m) PROVE UNCHANGED procs  BY <1>9, ByHand
<1>10. ASSUME NEW r \in Rules, SwitchRule(r) \/ DeleteRule(r) PROVE UNCHANGED procs
  BY <1>10, ByRule
<1> QED  BY <1>2, <1>3, <1>4, <1>5, <1>6, <1>7, <1>8, <1>9, <1>10, Steps

(* What is held has a type, a source and a holder.                         *)
LEMMA HeldFacts ==
    ASSUME Layer1, NEW p \in Procs, NEW ch \in Held(p)
    PROVE  /\ ch \in Changes /\ ch.key \in Keys /\ ch.etag \in Nat
           /\ ch.key.id \in EventIds /\ SourceOf(ch.key) \in Cals
           /\ Holds(p, ch.key)
<1>1. ch \in Changes  BY DEF Held, Layer1, TypeOK, Jobs
<1>2. ch.key \in Keys /\ ch.etag \in Nat  BY <1>1 DEF Changes
<1>3. Holds(p, ch.key)  BY DEF Held, Holds
<1>4. KeyOfPass(ch.key, p)  BY DEF Held, Layer1, HeldKeys, Discipline
<1>5. SourceOf(ch.key) \in Cals  BY <1>2, <1>4, SourceOfPass DEF Layer1, TypeOK
<1> QED  BY <1>1, <1>2, <1>3, <1>4, <1>5, SourceOfPass

LEMMA InitLayer5 == Init => Layer5
<1> SUFFICES ASSUME Init PROVE NoNewer /\ NoOlder /\ EtagHonest
  BY InitLayer3 DEF Layer5
<1>1. \A p \in Procs : Held(p) = {} /\ pc[p] = "idle"  BY DEF Init, Held, NoJob
<1>2. \A k \in Keys : ~Linked(k)  BY DEF Init, Linked, Row
<1>3. \A c \in Cals, e \in EventIds : user[c][e].etag <= clock  BY DEF Init
<1> QED  BY <1>1, <1>2, <1>3 DEF NoNewer, NoOlder, EtagHonest

(* A row that is linked after a step is the row as it was, or the one a    *)
(* goroutine wrote for the change it held.                                 *)
LEMMA RowSteps ==
    ASSUME Layer1, [Next]_vars, NEW k \in Keys, Linked(k)'
    PROVE  \/ link'[k] = link[k] /\ Linked(k)
           \/ \E p \in Procs : /\ SaveLink(p) /\ job[p].op # "delete"
                               /\ job[p].change \in Held(p) /\ job[p].change.key = k
                               /\ link'[k].target = job[p].target
                               /\ link'[k].etag = job[p].change.etag
                               /\ user' = user /\ mirror' = mirror /\ atRisk' = atRisk
<1> USE DEF Layer1
<1>1. CASE link'[k] = link[k]  BY <1>1 DEF Linked
<1>2. CASE link'[k] # link[k]
  <2>1. PICK p \in Procs : SaveLink(p)  BY <1>2, LinkSteps DEF Linked
  <2>2. job[p].change.key = k  BY <1>2, <2>1, SaveEffect
  <2>3. job[p].op # "delete"
    <3>1. job[p].op = "delete" => link'[k].target = NoMirror \/ link'[k] = link[k]
      BY <2>1, <2>2, SaveEffect
    <3> QED  BY <1>2, <3>1 DEF Linked
  <2>4. link'[k].target = job[p].target /\ link'[k].etag = job[p].change.etag
    BY <2>1, <2>2, <2>3, SaveEffect
  <2>5. job[p].change \in Held(p)  BY <2>1 DEF SaveLink, Discipline, Busy, Held
  <2> QED  BY <2>1, <2>2, <2>3, <2>4, <2>5 DEF SaveLink, google
<1> QED  BY <1>1, <1>2

(* The etag of an event that exists changes when a job updates it.         *)
LEMMA MirrorEtags ==
    ASSUME Layer3, [Next]_vars, NEW n \in MirrorIds, mirror[n].state # "unborn"
    PROVE  \/ mirror'[n].etag = mirror[n].etag
           \/ \E q \in Procs : /\ job[q].change \in Held(q)
                               /\ MadeFor(n, job[q].change.key)
                               /\ mirror'[n].etag = job[q].change.etag
                               /\ link' = link
<1> USE DEF Layer3, Layer2, Layer1
<1>1. ASSUME NEW q \in Procs, NEW m \in MirrorIds, Perform(job[q], m, at[q]), pc[q] = "calling",
             link' = link
      PROVE  \/ mirror'[n].etag = mirror[n].etag
             \/ \E p \in Procs : /\ job[p].change \in Held(p)
                                 /\ MadeFor(n, job[p].change.key)
                                 /\ mirror'[n].etag = job[p].change.etag
                                 /\ link' = link
  <2> DEFINE j == job[q]
  <2>1. j.change \in Held(q)  BY <1>1 DEF Discipline, Busy, Held
  <2>2. CASE j.op = "insert"
    <3>1. m # n /\ mirror' = Inserted(j, m, at[q])  BY <1>1, <2>2 DEF Perform, FreshId, Unborn
    <3> QED  BY <3>1 DEF Inserted, TypeOK
  <2>3. CASE j.op = "update"
    <3>1. m = j.target /\ mirror' = Updated(j)  BY <1>1, <2>3 DEF Perform
    <3>2. MadeFor(m, j.change.key)  BY <1>1, <2>3, <3>1 DEF JobTarget
    <3>3. m # n => mirror'[n] = mirror[n]  BY <3>1 DEF Updated, TypeOK
    <3>4. mirror'[m].etag = j.change.etag  BY <3>1 DEF Updated, TypeOK
    <3> QED  BY <1>1, <2>1, <3>2, <3>3, <3>4
  <2>4. CASE j.op = "delete"
    <3>1. mirror' = Deleted(j)  BY <1>1, <2>4 DEF Perform
    <3> QED  BY <3>1 DEF Deleted, TypeOK
  <2> QED  BY <1>1, <2>2, <2>3, <2>4 DEF Perform
<1>2. ASSUME NEW q \in Procs, Apply(q)
      PROVE  \/ mirror' = mirror
             \/ /\ pc[q] = "calling" /\ link' = link
                /\ \E m \in MirrorIds : Perform(job[q], m, at[q])
  BY <1>2 DEF Apply, Skip, NothingToDo, Decide, CallSucceeds, CallFails, CallAnswerLost,
     SaveLink, SaveLinkFails, FinishPass, google, rows
<1>3. ASSUME NEW p \in Procs, NEW c \in Cals, NEW L, NEW N, Begin(p, c, L, N) PROVE mirror' = mirror
  BY <1>3 DEF Begin, google
<1>4. ASSUME NEW c \in Cals, NEW e \in EventIds, Edit(c, e) \/ GoBy(c, e) PROVE mirror' = mirror
  BY <1>4 DEF Edit, GoBy
<1>5. ASSUME NEW c \in Cals, Toggle(c) PROVE mirror' = mirror  BY <1>5 DEF Toggle, google
<1>6. ASSUME NEW gone, Stop(gone) PROVE mirror' = mirror  BY <1>6 DEF Stop, google
<1>7. CASE UNCHANGED vars  BY <1>7 DEF vars, google
<1>8. ASSUME NEW m \in MirrorIds, RemoveByHand(m) PROVE mirror'[n].etag = mirror[n].etag
  BY <1>8 DEF RemoveByHand, TypeOK
<1>9. ASSUME NEW r \in Rules, SwitchRule(r) \/ DeleteRule(r) PROVE mirror' = mirror
  BY <1>9, ByRule
<1> QED  BY <1>1, <1>2, <1>3, <1>4, <1>5, <1>6, <1>7, <1>8, <1>9, Steps

LEMMA NextNoNewer == Layer5 /\ [Next]_vars => NoNewer'
<1> SUFFICES ASSUME Layer5, [Next]_vars PROVE NoNewer'  OBVIOUS
<1> USE DEF Layer5, Layer3, Layer2
<1>0. Layer1' /\ TypeOK /\ TypeOK'  BY NextLayer1 DEF Layer1
<1>1. ASSUME NEW c \in Cals, NEW e \in EventIds PROVE user'[c][e].etag <= clock'
  BY <1>0, VersionsGrow
<1>2. ASSUME NEW k \in Keys, SourceOf(k) \in Cals, k.id \in EventIds
      PROVE  Version(k) \in Nat /\ Version(k)' \in Nat /\ Version(k) <= Version(k)'
  <2>1. user[SourceOf(k)][k.id].etag \in Nat /\ user'[SourceOf(k)][k.id].etag \in Nat
    BY <1>0, <1>2 DEF TypeOK
  <2>2. user[SourceOf(k)][k.id].etag <= user'[SourceOf(k)][k.id].etag
    BY <1>0, <1>2, VersionsGrow
  <2> QED  BY <2>1, <2>2 DEF Version, SourceOf
<1>3. ASSUME NEW p \in Procs, NEW ch \in Held(p) PROVE ch.etag <= Version(ch.key)'
  <2>1. ch.etag <= Version(ch.key)  BY DEF NoNewer
  <2>2. ch.key \in Keys /\ ch.etag \in Nat /\ ch.key.id \in EventIds /\ SourceOf(ch.key) \in Cals
    BY HeldFacts
  <2> QED  BY <1>2, <2>1, <2>2
<1>4. ASSUME NEW p \in Procs, NEW ch \in Held(p)' PROVE ch.etag <= Version(ch.key)'
  <2>1. CASE ch \in Held(p)  BY <1>3, <2>1
  <2>2. CASE ch \notin Held(p)
    <3>1. user' = user /\ ch.etag = Version(ch.key)  BY <2>2, HeldSteps
    <3>2. ch.etag \in Nat
      <4>1. ch \in Changes  BY <1>0 DEF Held, TypeOK, Jobs
      <4> QED  BY <4>1 DEF Changes
    <3> QED  BY <3>1, <3>2 DEF Version, SourceOf
  <2> QED  BY <2>1, <2>2
<1>5. ASSUME NEW k \in Keys, Linked(k)' PROVE link'[k].etag <= Version(k)'
  <2>1. CASE link'[k] = link[k] /\ Linked(k)
    <3>1. link[k].etag <= Version(k) /\ link[k].etag \in Nat
      BY <1>0, <2>1 DEF NoNewer, TypeOK
    <3>2. k.id \in EventIds
      <4>1. link[k].target \in MirrorIds  BY <1>0, <2>1 DEF Linked, TypeOK
      <4> QED  BY <2>1, <4>1 DEF LinkIsOwnMirror, NoMirrorOfMirror
    <3>3. SourceOf(k) \in Cals  BY RuleAssumption DEF SourceOf, Keys
    <3> QED  BY <1>2, <2>1, <3>1, <3>2, <3>3
  <2>2. CASE ~(link'[k] = link[k] /\ Linked(k))
    <3>1. PICK p \in Procs : /\ job[p].change \in Held(p) /\ job[p].change.key = k
                             /\ link'[k].etag = job[p].change.etag
      BY <1>5, <2>2, RowSteps
    <3> QED  BY <1>3, <3>1
  <2> QED  BY <2>1, <2>2
<1> QED  BY <1>1, <1>4, <1>5 DEF NoNewer

LEMMA NextNoOlder == Layer5 /\ [Next]_vars => NoOlder'
<1> SUFFICES ASSUME Layer5, [Next]_vars, NEW p \in Procs PROVE
         /\ \A ch \in Held(p)' : ch.key \notin atRisk' /\ Linked(ch.key)'
                                   => link'[ch.key].etag <= ch.etag
         /\ pc'[p] = "linking" /\ job'[p].op # "delete" /\ job'[p].change.key \notin atRisk' =>
                job'[p].change.etag <= mirror'[job'[p].target].etag
  BY DEF NoOlder, Linked, Held
<1> USE DEF Layer5, Layer3, Layer2
<1>0. Layer1' /\ TypeOK /\ TypeOK' /\ atRisk \subseteq atRisk'
  BY NextLayer1, RiskGrows DEF Layer1
<1>1. ASSUME NEW ch \in Held(p)', ch.key \notin atRisk', Linked(ch.key)'
      PROVE  link'[ch.key].etag <= ch.etag
  <2> DEFINE k == ch.key
  <2>1. ch \in Changes /\ k \in Keys /\ ch.etag \in Nat /\ k \notin atRisk
    <3>1. ch \in Changes  BY <1>0 DEF Held, TypeOK, Jobs
    <3> QED  BY <1>0, <1>1, <3>1 DEF Changes
  <2>2. CASE ch \in Held(p)
    <3>1. CASE link'[k] = link[k] /\ Linked(k)
      BY <2>1, <2>2, <3>1 DEF NoOlder
    <3>2. CASE ~(link'[k] = link[k] /\ Linked(k))
      <4>1. PICK q \in Procs : /\ SaveLink(q) /\ job[q].change \in Held(q)
                               /\ job[q].change.key = k
        BY <1>0, <1>1, <2>1, <3>2, RowSteps
      <4>2. Holds(q, k) /\ Holds(p, k)  BY <2>2, <4>1, HeldFacts
      <4>3. p = q  BY <2>1, <4>2 DEF OneHolder
      <4>4. job'[p] = NoJob /\ todo' = todo  BY <1>0, <4>1, <4>3 DEF SaveLink, GiveUp, TypeOK
      <4>5. ch \in todo[p]  BY <4>4 DEF Held, NoJob
      <4>6. Busy(p)  BY <4>1, <4>3 DEF SaveLink, Busy
      <4> QED  BY <4>1, <4>3, <4>5, <4>6 DEF Layer1, HeldKeys
    <3> QED  BY <3>1, <3>2
  <2>3. CASE ch \notin Held(p)
    <3>1. link' = link /\ ch.etag = Version(k)  BY <2>3, HeldSteps
    <3>2. Linked(k)  BY <1>1, <3>1 DEF Linked
    <3> QED  BY <2>1, <3>1, <3>2 DEF NoNewer
  <2> QED  BY <2>2, <2>3
<1>2. ASSUME pc'[p] = "linking", job'[p].op # "delete", job'[p].change.key \notin atRisk'
      PROVE  job'[p].change.etag <= mirror'[job'[p].target].etag
  <2>0. job'[p].change.etag \in Nat  BY <1>0 DEF TypeOK, Jobs, Changes
  <2>1. CASE CallSucceeds(p)
    <3>1. PICK m \in MirrorIds : Perform(job[p], m, at[p]) /\ job' = [job EXCEPT ![p].target = m]
      BY <2>1 DEF CallSucceeds
    <3>2. job'[p].target = m /\ job'[p].change = job[p].change /\ job'[p].op = job[p].op
      BY <1>0, <3>1 DEF TypeOK, Jobs
    <3>3. mirror'[m].etag = job[p].change.etag
      <4>1. \/ mirror' = Inserted(job[p], m, at[p])
            \/ mirror' = Updated(job[p]) /\ m = job[p].target
        BY <1>2, <3>1, <3>2 DEF Perform
      <4> QED  BY <1>0, <4>1 DEF Inserted, Updated, TypeOK
    <3> QED  BY <2>0, <3>2, <3>3
  <2>2. CASE ~CallSucceeds(p)
    <3>1. pc[p] = "linking" /\ job'[p] = job[p]
      <4>1. ASSUME NEW q \in Procs, Apply(q) PROVE pc[p] = "linking" /\ job'[p] = job[p]
        <5>1. CASE \E ch \in todo[q] : Skip(q, ch) \/ NothingToDo(q, ch) \/ Decide(q, ch)
          BY <1>0, <1>2, <5>1 DEF Skip, NothingToDo, Decide, Drop, TypeOK
        <5>2. CASE CallSucceeds(q)  BY <1>0, <1>2, <2>2, <5>2 DEF CallSucceeds, TypeOK
        <5>3. CASE CallFails(q) \/ CallAnswerLost(q)
          BY <1>0, <1>2, <5>3 DEF CallFails, CallAnswerLost, GiveUp, TypeOK
        <5>4. CASE SaveLink(q) \/ SaveLinkFails(q)
          BY <1>0, <1>2, <5>4 DEF SaveLink, SaveLinkFails, GiveUp, TypeOK
        <5>5. CASE FinishPass(q)  BY <1>0, <1>2, <5>5 DEF FinishPass, TypeOK
        <5> QED  BY <4>1, <5>1, <5>2, <5>3, <5>4, <5>5 DEF Apply
      <4>2. ASSUME NEW q \in Procs, NEW c \in Cals, NEW L, NEW N, Begin(q, c, L, N)
            PROVE  pc[p] = "linking" /\ job'[p] = job[p]
        BY <1>0, <1>2, <4>2 DEF Begin, TypeOK
      <4>3. ASSUME NEW gone \in SUBSET Procs, Stop(gone)
            PROVE  pc[p] = "linking" /\ job'[p] = job[p]
        BY <1>2, <4>3 DEF Stop
      <4>4. ASSUME UNCHANGED procs PROVE pc[p] = "linking" /\ job'[p] = job[p]
        BY <1>2, <4>4 DEF procs
      <4>5. ASSUME NEW c \in Cals, NEW e \in EventIds, Edit(c, e) \/ GoBy(c, e)
            PROVE  UNCHANGED procs
        BY <4>5 DEF Edit, GoBy
      <4>6. ASSUME NEW c \in Cals, Toggle(c) PROVE UNCHANGED procs  BY <4>6 DEF Toggle
      <4>7. CASE UNCHANGED vars  BY <4>4, <4>7 DEF vars
      <4>8. ASSUME NEW m \in MirrorIds, RemoveByHand(m) PROVE UNCHANGED procs  BY <1>0, <4>8, ByHand
      <4>9. ASSUME NEW r \in Rules, SwitchRule(r) \/ DeleteRule(r) PROVE UNCHANGED procs
        BY <1>0, <4>9, ByRule
      <4> QED  BY <1>0, <4>1, <4>2, <4>3, <4>4, <4>5, <4>6, <4>7, <4>8, <4>9, Steps
    <3> DEFINE k == job[p].change.key
               n == job[p].target
    <3>2. k \notin atRisk /\ k \in Keys  BY <1>0, <1>2, <3>1 DEF TypeOK, Jobs, Changes
    <3>3. MadeFor(n, k)  BY <3>1 DEF JobTarget
    <3>4. job[p].change.etag <= mirror[n].etag  BY <1>2, <3>1, <3>2 DEF NoOlder
    <3>5. mirror[n].etag \in Nat  BY <1>0, <3>3 DEF MadeFor, TypeOK
    <3>6. job[p].change \in Held(p)  BY <3>1 DEF Layer1, Discipline, Busy, Held
    <3>7. CASE mirror'[n].etag = mirror[n].etag  BY <3>1, <3>4, <3>7
    <3>8. CASE mirror'[n].etag # mirror[n].etag
      <4>1. PICK q \in Procs : /\ job[q].change \in Held(q)
                               /\ MadeFor(n, job[q].change.key)
                               /\ mirror'[n].etag = job[q].change.etag
        BY <3>3, <3>8, MirrorEtags DEF MadeFor
      <4>2. job[q].change.key = k  BY <3>3, <4>1 DEF MadeFor
      <4>3. Holds(q, k) /\ Holds(p, k)  BY <3>6, <4>1, <4>2, HeldFacts
      <4>4. p = q  BY <3>2, <4>3 DEF OneHolder
      <4> QED  BY <2>0, <3>1, <4>1, <4>4
    <3> QED  BY <3>1, <3>7, <3>8
  <2> QED  BY <2>1, <2>2
<1> QED  BY <1>1, <1>2

LEMMA NextEtagHonest == Layer5 /\ [Next]_vars => EtagHonest'
<1> SUFFICES ASSUME Layer5, [Next]_vars, NEW k \in Keys, k \notin atRisk', Linked(k)'
             PROVE  mirror'[link'[k].target].etag >= link'[k].etag
  BY DEF EtagHonest, Linked
<1> USE DEF Layer5, Layer3, Layer2
<1>0. TypeOK /\ TypeOK' /\ atRisk \subseteq atRisk'  BY NextLayer1, RiskGrows DEF Layer1
<1>1. CASE link'[k] = link[k] /\ Linked(k)
  <2> DEFINE n == link[k].target
  <2>1. MadeFor(n, k)
    BY <1>0, <1>1 DEF LinkIsOwnMirror, MadeFor, Linked, TypeOK
  <2>2. mirror[n].etag >= link[k].etag  BY <1>0, <1>1 DEF EtagHonest
  <2>3. mirror[n].etag \in Nat /\ link[k].etag \in Nat  BY <1>0, <2>1 DEF MadeFor, TypeOK
  <2>4. CASE mirror'[n].etag = mirror[n].etag  BY <1>1, <2>2, <2>4
  <2>5. CASE mirror'[n].etag # mirror[n].etag
    <3>1. PICK q \in Procs : /\ job[q].change \in Held(q)
                             /\ MadeFor(n, job[q].change.key)
                             /\ mirror'[n].etag = job[q].change.etag
      BY <2>1, <2>5, MirrorEtags DEF MadeFor
    <3>2. job[q].change.key = k  BY <2>1, <3>1 DEF MadeFor
    <3>3. link[k].etag <= job[q].change.etag  BY <1>0, <1>1, <3>1, <3>2 DEF NoOlder
    <3>4. job[q].change.etag \in Nat  BY <3>1, HeldFacts
    <3> QED  BY <1>1, <2>3, <3>1, <3>3, <3>4
  <2> QED  BY <2>4, <2>5
<1>2. CASE ~(link'[k] = link[k] /\ Linked(k))
  <2>1. PICK p \in Procs : /\ SaveLink(p) /\ job[p].op # "delete"
                           /\ job[p].change \in Held(p) /\ job[p].change.key = k
                           /\ link'[k].target = job[p].target
                           /\ link'[k].etag = job[p].change.etag
                           /\ mirror' = mirror /\ atRisk' = atRisk
    BY <1>2, RowSteps
  <2>2. job[p].change.etag <= mirror[job[p].target].etag
    BY <2>1 DEF NoOlder, SaveLink
  <2>3. MadeFor(job[p].target, k)  BY <2>1 DEF JobTarget, SaveLink
  <2>4. job[p].change.etag \in Nat /\ mirror[job[p].target].etag \in Nat
    BY <1>0, <2>1, <2>3, HeldFacts DEF MadeFor, TypeOK
  <2> QED  BY <2>1, <2>2, <2>4
<1> QED  BY <1>1, <1>2

LEMMA NextLayer5 == Layer5 /\ [Next]_vars => Layer5'
  BY NextLayer3, NextNoNewer, NextNoOlder, NextEtagHonest DEF Layer5

(* Unless its key is at risk, a link row never claims a newer version than *)
(* the mirror it names shows: what applyRule takes for settled is settled. *)
THEOREM EtagsAreHonest == Spec => []EtagHonest
<1>1. Spec => []Layer5  BY InitLayer5, NextLayer5, PTL DEF Spec
<1>2. Layer5 => EtagHonest  BY DEF Layer5
<1> QED  BY <1>1, <1>2, PTL
=============================================================================
