# skulid in TLA+

skulid is a Go program that keeps Google calendars in step with one another: it mirrors events by
rules, pads meetings with buffers, shows free time as smart blocks, places tasks and habits, and lets an
AI assistant change calendars after the user's consent. Its state is spread over three places that no
transaction spans: rows in Postgres, events and push channels at Google, and goroutines with queues and
timers that a restart forgets. Most of what can go wrong goes wrong between two of these. These modules
model that part of the program, the TLC runs check it on small instances, and the proofs extend the most
important results to instances of every size.

Paths below are relative to the repository (`src/`). `PROJECT.json` names the source lines behind every
definition.

## 1. The system and its parts

| Part | Source | State it keeps | Operations | Talks to |
|---|---|---|---|---|
| Rule engine | `internal/sync/rule_engine.go`, `internal/db/event_links.go` | `event_link` rows (rule, source event) -> mirror; the mirrors at Google | apply a listing of changes, backfill | called by workers and backfill goroutines; calendar client |
| Account workers, polling | `internal/worker/worker.go`, `internal/db/sync_tokens.go`, `internal/webhook/google.go` | a queue (64 jobs) and a goroutine per account; `sync_token` rows; debounce timers | enqueue, poll, push notification, sync a calendar, arm and fire timers, clean up | webhook, settings pages, all engines |
| Push channels | `worker.go` (`RegisterWatch`), `sync_tokens.go` | watch columns of `sync_token`; channels at Google | register, renew, stop | Google, webhook |
| Buffer engine | `internal/sync/buffers.go`, `internal/db/bufferevents.go` | `buffer_event` rows; padding events | recompute a calendar | timers, settings page |
| Working hours and windows | `internal/hours/*.go` | none (pure functions) | expand, merge, subtract, fit | smart blocks, scheduler, planner |
| Smart blocks | `internal/sync/smart_block.go`, `internal/db/smart_blocks.go` | `managed_block` rows; blocks | recompute a block | timers, smart-block page, hours |
| Task and habit scheduler | `internal/sync/scheduler.go`, `internal/httpx/handlers_tasks.go`, `handlers_habits.go`, `internal/db/tasks.go`, `taskchunks.go`, `habits.go` | tasks, chunks, occurrences; their events | place, move, complete, delete, nightly pass | pages, assistant, hours |
| AI assistant | `internal/ai/*.go`, `internal/db/ai.go`, `internal/httpx/handlers_ai.go` | conversations, messages, pending actions | message, turn of the model, staging, apply, reject, delete | Anthropic API, calendars, scheduler |
| Token source | `internal/auth/tokensource.go`, `reauth.go` | sealed refresh tokens, `needs_reauth` | refresh, mark for reauthorisation | every call to Google |
| Calendar client, retrying transport | `internal/calendar/client.go`, `retry.go` | none | list, insert, update, delete, watch, stop; retry | Google |
| Filters, transforms, conflicts | `internal/sync/filter.go`, `transform.go`, `conflicts.go` | none | predicates and mappings on one event | rule engine, pages |
| Categories | `internal/category`, `internal/db/categories.go` | categories | match an event | scheduler, pages |
| Login and sessions | `internal/auth/oauth.go`, `session.go`, `tofu.go` | session cookie, owner | sign in, first claim | pages |
| Pages and planner | `internal/httpx` | none | forms, lists; start jobs, registrations and backfills | all |
| Configuration, sealing, start and stop | `internal/config`, `internal/crypto`, `cmd/skulid` | environment | validate, seal, run | all |

How they interact. A change reaches skulid as a push notification (webhook -> job) or is found by the
polling ticker (`sync_token` rows -> job). The account's worker takes jobs one at a time: it lists the
changes since the stored token, hands them to the rule engine, stores the new token and arms a timer.
The timer recomputes buffers and smart blocks. Backfills, recomputations from pages, registrations
and the assistant's requests run in goroutines of their own, beside the workers and beside each other.

What is hard, and what each part has to get right:

- *Rule engine.* Read a link row, call Google, write the row, with no lock: two passes over one event,
  a cut between the steps, a call whose answer is lost, mirrors that are seen as changes by the other
  direction. Right means: never mirror a mirror; never touch somebody else's event; one mirror per
  event; a mirror that ends up like its source.
- *Workers.* Jobs are dropped when the queue is full, notifications are lost, a restart forgets queues
  and timers. Right means: no change is skipped by a token that runs ahead, and an enabled calendar
  catches up.
- *Push channels.* Registrations overlap and are cut off between three calls. Right means: no channel is
  left behind, a calendar switched off goes quiet, a row never names a channel of another calendar.
- *Buffers and smart blocks.* Recomputations overlap, meetings and settings change under them, the range
  of days moves on. Right means: every event has its row, and an undisturbed recomputation leaves just
  what it should.
- *Hours.* Empty, touching and overlapping windows; spans that begin in the middle of a day.
- *Assistant.* Two tabs, a double click, a cut between running a tool and recording it. Right means: no
  tool that writes runs without consent or twice, a conversation can always go on, and its transcript
  stays one the API accepts.
- *Tasks and habits.* The nightly pass, the page and the assistant place one task or habit at the same time; a placement
  goes on while the user completes, edits or deletes what it places; a call in the middle fails. Right means: no event is
  left that no row names, a task is booked whole or not at all, what the user has ended stays ended, and what can be placed
  comes to be placed.
- *Token source.* Every goroutine has a token source of its own over one row; Google rotates refresh tokens; the user
  withdraws access and reconnects while a refresh is under way. Right means: a working refresh token is not lost,
  the account asks for a reconnect just when it needs one, and an insert is not sent twice.

`PROJECT.json` lists the hazards line by line with the properties that answer them, and those without one.

## 2. The modules

| Module | Models | Uses |
|---|---|---|
| `RuleEngine` | worker passes and backfills of the rule engine, call by call | |
| `RuleEngineProofs` | theorems about it | `RuleEngine` |
| `WatchChannels` | `RegisterWatch`, call by call, and all that starts it | |
| `SyncWorker` | job queues, webhook, polling, passes, timers | extends `WatchChannels` (whose specification is `ChannelSpec`): every action of a registration is an action of the composed system |
| `SyncWorkerProofs` | theorems about push channels and about the worker; that what is proved of push channels alone holds beside it | `SyncWorker` |
| `Buffers` | `BufferEngine.Recompute`, call by call | |
| `BuffersProofs` | theorems about it | `Buffers` |
| `Hours` | the window functions of `hours.go` and the assistant's free time, as recursive functions and folds | |
| `Planner` | the planner's pages, columns, clipping and lanes | extends `Hours` |
| `SmartBlocks` | `SmartBlockEngine.Recompute`, call by call | extends `Hours` |
| `SmartBlocksProofs` | theorems about it | `SmartBlocks` |
| `Tasks` | one task: placement, edit, completion, deletion, nightly pass | |
| `TasksProofs` | theorems about it | `Tasks` |
| `Habits` | one habit: placement day by day, edit, deletion, nightly pass | |
| `HabitsProofs` | theorems about it | `Habits` |
| `Access` | an account's tokens, the verdict on a failed refresh, retries, reconnecting | |
| `AccessProofs` | theorems about it | `Access` |
| `Agent` | the assistant's conversation protocol, statement by statement | instantiates `Consent` |
| `Consent` | what the assistant promises about consent, abstractly | |
| `AgentProofs` | theorems about `Agent`; that it implements `Consent` | `Agent` |
| `MC*` | constants, symmetry and small inputs for TLC; `MCHours` also holds the reference definitions of the pure functions | |

Conventions. One action is one call to Google or one SQL statement with the code that follows it up to the
next; what the code does between two calls cannot be observed by others. A goroutine's local variables are
a record per goroutine. Variables whose comment says *history* are never read by a guard: they record that a named race
or failure has happened, so that a property can say "except then". Every bound is a constant called
`Max...`/`Last...` or a finite set of ids, and appears in a guard. A failed call, an expired context and a crash count
against `MaxUpsets` (`MaxLosses` in `Agent`). A definition whose comment says "as if ..." is a mutation of the one after it
and is used by nothing else: it shows what kind of mistake a property would notice.

**RuleEngine.** `user` and `mirror` are the events at Google, `link` the `event_link` rows, `token` the stored
sync tokens; `pc`, `at`, `todo`, `job`, `next` are a goroutine's pass. `SyncCalendar` and `Backfill` list; `Decide`
is `applyRule` up to the call (link row read, operation chosen, or nothing to do); `CallSucceeds`, `CallFails` and
`CallAnswerLost` are the call; `SaveLink` and `SaveLinkFails` the write of the row; `FinishPass` stores the token; `Timeout` and `Crash` end passes anywhere. Filters, transforms,
working hours and all-day modes only decide whether an event meets a rule, so a user event carries the set of
rules it meets (`keep`), which an edit may change. An event that no longer meets a rule, or was cancelled, is handled as the
code does: its mirror is deleted. Etags are stamps of one clock: what matters is which version a mirror shows.
`SwitchRule` and `DeleteRule` are the rule page, `RemoveByHand` a user who deletes a mirror in Google Calendar, and `GoBy` the time
that makes an event one of the past, which a listing without a token no longer sees.

**WatchChannels / SyncWorker.** A registration reads the switch, reads the row, stops the old channel, opens
one, writes the row (`reg[g].pc` says where it is). A change of a calendar is a number; `applied[c]` collects those handed to
the rule engine and `shown[c]` what the last recomputation saw; a pass is `next -> listed -> applied -> idle`.
`List` lists the changes since the stored token or, without one and after a 410, the events from yesterday on: `old[c]` are the changes whose
event has ended before (`GoBy`), and `passed[c]` records those such a listing left out and whose pass stored its token. A restart empties queues, passes, timers and registrations and keeps
rows. Time appears as two facts: a channel that is about to expire or has, and a poll that is "long ago".

**Buffers / SmartBlocks.** `now` (`today`) is the clock, in units in which a meeting, a buffer and an
hour are small numbers. `proc[p]` is what a recomputation has read and where it is. For `SmartBlocks` the listing of busy time,
the matching of wanted windows with rows, inserts, updates and deletions are the code's, in its order; windows come from
`Hours`. Settings include the target calendar, and `DeleteBlock` is the page's deletion, which cascades to the rows.
`alone` and `inStep` record whether a recomputation ran undisturbed and nothing has changed since. In `Buffers` two histories are kept apart:
`unseen` are keys of which a buffer was wanted while its row lay outside the span that was read (`Missing`), `lost` those of which a row was
refused, not written, or written beside its event for any other reason.

**Tasks / Habits.** `task` (`habit`) is the row, `chunk` (`occ`) the rows of its events, `block` (`event`) the events themselves, `busy` what other
events of the user take, `hours` the hours of the task's kind. `proc[p].at` is the statement of `PlaceTask`, `applyChunks`, `PlaceHabit` or of a
deletion that goroutine `p` is at. The pages and the assistant start placements (`SaveTask`, `PlaceNow`, `SaveHabit`), and so does the
nightly pass (`Maintain`, for what `Due` or `ListEnabled` lists). A slot is as long as a chunk or an occurrence: which windows of
arbitrary length are free is a question to `Hours` (`Chunks`, `NearestFit`), what becomes of the answer is one to these modules. That a window skulid has a
row for is taken out of the busy time, whoever's event lies there, is the code's and is in `Taken`. `DayFails` is a day that fails at any
of its statements, the deletion of a row whose event is gone among them: the code passes over that error, the row stays, and such a
placement no longer counts as undisturbed.

**Access.** `row` is the account's row (both tokens, `needs_reauth`), `valid` the refresh tokens Google honours. A client goes
`send -> read -> ask -> keep -> rotate -> clear -> send`, each a statement of `Token` or a request; `Attempt` is one try of the retrying
transport, with the four things Google may answer. One client is the poll, which lists and comes back for ever, the
others insert: the retry rule tells them apart. `Revoke` and `Consent` are the user, `Store` the callback that writes the row.

**Agent / Consent.** One conversation (they share nothing): its state, its transcript as roles with the tool uses asked for or
answered, the rows of pending actions. `request[r]` is one HTTP request with the step of
`SendUserMessage`, `ResolvePendingAction` and `advance` it is at. Whether a tool fails does not matter to the
protocol, so `Execute` has an effect or not. `Accepted` is the API's rule (each tool use answered in the next message), the one thing
here that is not in the repository. `Consent` has cards, clicks and runs and nothing else; `CardOf` and `ClickOf` of `Agent` are the refinement
mapping, and `Consented` is the abstract specification as a property.

**Hours / Planner.** Pure functions, written as the code's loops are (folds and recursive functions). The run compares them with definitions that say
what they should compute, point by point. In `Planner` days are integers, months have any length from 28 to 31, and a zone names one
day that is an hour longer or shorter.

## 3. The runs

| Run | What it asks | Instance |
|---|---|---|
| `rule_engine` | mirrors are never mirrored; links name own mirrors only; one mirror per event outside recorded races; etags honest; what changed up to the stored token is mirrored; mirrors converge | one bidirectional rule, two accounts, an event id both calendars carry, one backfill; 2 edits; 1 upset, which may also be the rule switched off or deleted, a mirror removed by hand, an event gone by |
| `rule_engine_rerun` *(violated)* | a re-run backfill updates in place and never duplicates (`wiki/Sync-Rules.md:129`) | the same without failures |
| `watch_channels` | no stray channel, quiet when off, rows name own channels | 2 calendars, 2 registrations, 3 channels, 1 upset |
| `sync_worker` | tokens skip nothing but changes of events ended before yesterday, at a listing without a token; an enabled calendar with a row catches up but for these | 1 calendar, a registration, a channel, a queue of one job, 2 changes, one of whose events goes by, 1 upset |
| `buffers` | no buffer out of sight; undisturbed recomputations lose none, leave every buffer earned in its place and no other, without overlap | 1 meeting of 1 or 2 units, 2 recomputations, 4 ids, a horizon of 2, a clock of one tick, 1 edit, 1 upset |
| `hours` | merge, subtract, nearest fit, chunking, expansion and the assistant's free time agree with their meaning point by point; lanes never lay one event on another; pages show what falls on them | all sequences of up to two available and two busy windows within 4 units, days of 5; all small months, zones with one day an hour longer or shorter |
| `smart_blocks` | no block out of sight; undisturbed recomputations show just the free slots; in step means no write | 2 recomputations, 3 ids, 2 targets, 2 meetings, 2 settings, one midnight, 1 edit (or the deletion), 1 upset |
| `smart_blocks_own_source` *(violated)* | focus blocks fill every empty slot (`wiki/Smart-Blocks.md`), with the target as its own source | 1 recomputation, 4 ids, nothing else |
| `agent` | consent once per tool, never stuck, cards hold the turn, transcripts accepted; every step is one `Consent` allows | 2 requests, 2 tool uses, 2 messages, 2 round trips, 1 loss |
| `tasks` | no block out of sight; booked whole or not at all; ended stays ended; pending comes to be placed | the nightly pass and one more goroutine, 2 calendars, 4 ids, 2 slots, tasks of 1 or 2 blocks, 1 request of the user, 1 upset |
| `habits` | no event out of sight; kept on each day; comes into tune | the same over 2 days of 2 slots, a flexibility of 1, any hours to begin with |
| `access` | inserts sent once; locked out only for a reason, shown, and ended; a working grant kept | the poll and an inserting client, 3 refresh tokens, 2 tries, 2 acts of the user, 1 upset |

*Why the bounds are enough.* The races here are between two actors over one row or one event: a third actor repeats what
the second can do, so two suffice to show them, and one upset shows what each
single cut leaves behind. Two edits let a change arrive while an earlier one is being applied and once more after it.
Two windows of each kind within a day of five units give every order, touching, overlap, containment and emptiness; a merge gap, a flexibility or a length of
0 to 3 covers below, at and above each distance. For the assistant, a transcript of two tool uses has a read beside a write, two
writes that wait for each other, and two turns; three tool uses with one message were checked too (17.6
million states). A queue of one job is full at once, which is the case that matters. Two slots and tasks of up to two blocks
have a task that fits, one that does not, one that must move, grow and shrink; two days let a habit fail on one and go on with the
next. Three ids for smart blocks are two windows and one duplicate, four for tasks two blocks and their duplicates. For the rule engine and
the assistant's consent the proofs of section 4 need no bound at all.

*What the exceptions mean.* A property that says "except for what `lost`, `atRisk`, `untidy`, `doubled` ... record" does not excuse
the behaviour; it says precisely how the code can come to it. `atRisk`: two passes held a change of one key, an
insert was cut off from its row, or the rule was deleted. `missed`: the last change of a key was dropped by a failed call or a dormant rule, its
mirror was removed by hand, or a listing without a token did not reach back to it. `untidy`: registrations
of a calendar overlapped or were cut off. `passed`: a change a listing without a token left out, its event having ended before yesterday.
`unseen` (`Buffers`): a buffer was wanted while its row lay outside the span read; it is still required to be there, but not to be there once
(that is `MadeOnce`, and violated). `lost`: a row was refused, not written or not removed, an answer was lost, a
delete failed, two moves crossed, or an event was left on the calendar its task, habit or block had before; `UndisturbedLosesNothing` says that in `Buffers` no undisturbed recomputation adds to it. `doubled`: two clicks on one card overlapped. `crossed`: a request
began during another's turn of the model. `paired`: two clicks were handled at once. `cut`: where a request ended early.
`orderly` (`Tasks`): no two goroutines were at work at once and none was cut off. `Sound` (`Tasks`, `Habits`): the rows name
events that are there, on the calendar of today, without gaps in their numbers. `ByHand`: the user set the status "scheduled".
`late`: the flag went up on a token that had been replaced. `strayed`: a working refresh token was lost, or written over by a dead one.
Each exception is needed: with it removed, TLC finds the property violated in the same instance (a lost state, in
`NeverStuck`, takes three losses and one request to matter).

*What the violated runs show.*
- `rule_engine_rerun`: the worker and the backfill both read "no link", both insert, the second row overwrites the
  first; the first mirror is never updated or removed. No failure is involved.
- `smart_blocks_own_source`: blocks are opaque and count as busy in the next recomputation, which removes them, and so on.

*Statements the code does not keep.* Four more statements of the repository are written down beside the properties, each with a configuration
under which TLC refutes it (`tlc -config <name>.cfg <module>`). They are kept to show exactly where the properties above stop, and none of the runs
relies on them.

| Statement | Made by | Module, configuration | What TLC shows |
|---|---|---|---|
| `ResyncIsFull`: an emptied token gives a full resync | `wiki/Operations.md:198` | `MCSyncWorker`, `sync_worker_resync` | a listing without a token starts at yesterday, and the token stored after it is past the changes of events that ended earlier (`worker.go:572`) |
| `MadeOnce`: a recomputation brings the buffers into sync, so each is there once | `buffers.go:57`, `wiki/Buffers.md:57` | `MCBuffers`, `buffers_again` | rows are read by the buffer's span, meetings by theirs (`buffers.go:80`): a meeting is under way, so its way there is over, or runs past the last day, so what follows it begins beyond; the row is not read, the buffer is inserted again, its row is refused, and so at every recomputation |
| `ReapedForCause`: rows go because the meeting was moved, cancelled or lost its location, or the minutes are zero | `buffers.go:107` | `MCBuffers`, `buffers_over` | a meeting that is over is not listed, while the rows of its decompression and way back are still read: they are reaped as they begin (`buffers.go:110`) |
| `ExpandCovers`: hours across [from, to) | `hours.go:59` | `MCHours`, `hours_expand_span` | from 15:00 today to 10:00 the day after tomorrow, `day` is 15:00 each day and never comes to the last one (`hours.go:65`); `scheduler.go:98-106` passes now and the due date, `smart_block.go` now and so many days on |

*Fairness.* Weak fairness on the steps of a goroutine: the Go scheduler runs it, and every call it makes is bounded by a
context deadline, so that it ends one way or the other. Strong fairness on the poll of a calendar (`PollQueued`) and, in `RuleEngine`, on
`SyncCalendar`: the five-minute ticker queues a job again and again, and a first-in-first-out queue that is
drained has room at some tick. Weak fairness on the passing of time (`Age`) and on a timer that has been
armed; in `Tasks` and `Habits` on `Maintain`, which a ticker starts every six hours for what is due by then; in `Access` on the poll's
next request, on the lapse of access tokens, which last an hour, and on the callback that stores a grant. Nothing is assumed of notifications, users, failures or restarts; failures are bounded in number, so "eventually" is measured from the last
of them. `Buffers`, `SmartBlocks`, `WatchChannels`, `Hours` and `Agent` assume no fairness and state
safety only.

*Deadlock* checking is off everywhere: with the edits, messages and upsets of an instance used up, the system may rightly be at rest.

*Type invariants* stand in every module with state; each is a theorem (`TypeCorrect`), and none takes a place among the runs' properties.

## 4. The proofs

The theorems hold for every value of the constants: any number of calendars, accounts, rules (chained in any way), backfills,
registrations, recomputations, clients, requests, tool uses, days, slots, sizes of tasks and failures. They assume the named assumptions of the
modules and, but for three theorems of `SmartBlocksProofs`, nothing else:

| Assumption | Says |
|---|---|
| `RuleAssumption` | maps have their domains, a rule does not write to its own source, ids of the user's events are not those Google gives to mirrors |
| `WatchAssumption` | there is a calendar, those registered before are calendars, "no channel" is none, the bound is a number |
| `WorkerAssumption` | a calendar has one account, accounts are told apart from jobs, a queue holds a job |
| `BufferAssumption` | there is a meeting, "no event" is none, the clock and the bounds are numbers |
| `DayAssumption`, `BlockAssumption` | a day has a length, there is a target and a setting, a block's least length is not nothing, the bounds are numbers |
| `TaskAssumption` | there is a calendar, a slot and a chunk, "no block" is none, the nightly pass is no page's goroutine, the bounds are numbers |
| `HabitAssumption` | there is a calendar, a day and a slot, "no event" is none, the nightly pass is no page's goroutine |
| `AccessAssumption` | there is a refresh token, "none" is no token, good and dead access tokens differ, the poll is a client, there is a try |
| `AgentAssumption` | the bounds are numbers |

`TypeCorrect`, `FocusFollows` and `QuietInStep` of `SmartBlocksProofs` take two hypotheses more. `PlansApart` says of
`Desired` - whatever the meetings, the settings and the day - that the windows it wants are of the coming days and apart: a
statement about constants, not about states, which needs induction over the lists `Desired` folds and is therefore left to TLC
(`MCSmartBlocks` evaluates it on every run). `~OwnSource` says that the target calendar is not among its own sources: where
it is, the code does what the run `smart_blocks_own_source` shows, and `FocusInEmptySlots` is false.

Most of the properties are not inductive, and for the same reason: a goroutine in the middle of something
carries the knowledge that makes its next step right. Each invariant says what that knowledge is. TLC checked each on
the instance of its run, or on larger ones, before it was proved.

**RuleEngineProofs.** `TypeCorrect`, `NoLoops` (`NoMirrorOfMirror`), `LinksAreOwn` (`LinkIsOwnMirror`), `OneMirror`
(`OneMirrorPerSource`), `EtagsAreHonest` (`EtagHonest`). The invariant is built in layers, each proved with the earlier ones as hypotheses.
1. *What is held*: an idle goroutine holds nothing; the changes of a pass stem from the listed calendar and differ in their keys.
2. *One holder*: two goroutines hold a change of one key only if the key is at risk.
3. *Own mirrors*: the event named by a job or a link row was made for its key on its calendar. It needs no assumption about races, which is why
   `LinksAreOwn` holds without exceptions: rows are overwritten by races, but only with ids of the same key.
4. *Nothing changes under a job*: while a key is not at risk, the link row is the one the job read, and a live mirror is linked or
   about to be. It rests on 2 (nobody else touches the key) and 3.
5. *Versions* (`Layer5`): nothing is newer than what it stems from (`NoNewer`); while a key is not at risk, a change that is held is no
   older than its link row, and what was carried out shows in the mirror (`NoOlder`). It rests on 2 and 3.

**SyncWorkerProofs.** About push channels: `ChannelTypesCorrect`, `RowsNameOwnChannels` (`RowNamesOwnChannel`), `NoChannelStrays` (`NoStrayChannel`),
`QuietOnceOff` (`QuietWhenOff`). A row names a channel of its own calendar because a registration that has opened one knows which
(`HandsOver`): no race breaks that. The other two follow a calendar whose registrations came one at a time (`OneAtATime`) through each
of their steps: what was seen of the switch is still so, and at most the channel of the row, then none, then the new one is
alive (`Progress`); at rest that is the row's, and none if the calendar is off (`Settled`).

About the worker: `TypeCorrect`, `NoChangeSkipped` (`NothingSkipped`) and `ChannelsStayInStep`. A pass lists from a token up to which each change was
given to the engine or passed over, and stores one after the same holds of what leads up to it (`InOrder`), whatever is dropped, repeated or cut
off. Only a listing without a token leaves changes out, and only those of events ended before yesterday, which no passing of days
undoes (`PassedOver`). `ChannelsStayInStep` carries the theorems on push channels over to the composition: every step of the worker is a step of
`WatchChannels`, leaves its variables alone, or makes sure of a row, and the last keeps the invariant too.

**BuffersProofs.** `TypeCorrect`, `BuffersAreKnown` (`EveryBufferKnown`), `CalendarsAreInStep` (`CalendarInStep`),
`NothingIsLostUndisturbed` (`UndisturbedLosesNothing`), `BuffersDoNotOverlap` (`NoOverlap`). That no buffer is lost sight of rests on what rows say: a row, stored or read, names an event inserted for its key (`Ours`), an
event without a row is in the hands of one recomputation (`Saved`), a row whose event is gone is about to go (`Alive`), one that
misstates its event is being moved (`InPlace`). That the calendar is in step is a matter of one recomputation that runs alone
(`Alone`): what it read is still so for the keys it has not come to, what it is done with is as planned or, if its row was not read, at least there (`Kept`,
`OnCourse`), and when it ends nothing else is in range (`Settled`). Such a recomputation finds no row in its way that it did not read
unless the key is `unseen`, and moves no event but the one its row names (`AtWork`), so it makes nothing lost. Since rows say where events are, what holds of rows holds of the calendar.

**SmartBlocksProofs.** `BlocksAreKnown` (`EveryBlockKnown`), `TypeCorrect`, `FocusFollows` (`FocusInEmptySlots`), `QuietInStep` (`NoChurn`).
That no block is lost sight of does not depend on which windows are wanted, so its invariant (`Inv`) says nothing of them: a row, stored
or read, names an event that was made (`Made`), an event without a row is in the hands of the recomputation that inserted it (`Saved`), a
row is dropped only after its event or when that is known to be left behind (`Dropped`). The other two add `Ordered`. A new event
is known to its recomputation alone (`Secret`); rows say where events are, but for one that is being moved and one that is about to be
forgotten (`InPlace`), as long as no event is lost. One recomputation that runs alone (`Lone`) has placed the first *k* of the
wanted windows: the rows it is done with are those of these windows, each once, and the rest are as it read them (`OnCourse`,
by `Fit` and `Left`). A match takes the row of the next window - no other wanted window has it, since the wanted windows are apart -, a
move or an insert gives it one, and once all are placed the rows left over go; so at the end the rows are the wanted ones (`Settled`), and by
`InPlace` the calendar too. One that begins in step finds each row matched until the end (`InTune`), and so never writes.

**TasksProofs.** `TypeCorrect`, `BlocksAreKnown` (`EveryBlockKnown`), `PlacedAllOrNothing` (`AllOrNothing`), `EndedTasksStay` (`EndedStays`).
`Books` is what holds in spite of every overlap, failure and crash: a new block whose row is yet to be written is its placement's alone
(`Secret`), the numbers of chunks differ (`Numbers`), whoever is about to remove a row has removed its event
(`Gone`), hence an event without a row is new, a row without an event about to go, and a row that misstates its event about to be
rewritten (`Accounted`). `Course` follows one placement that nothing disturbs: it is the only one at work (`OneAtWork`), the task,
clock, hours and busy times are as it read them (`OnCourse`), the rows listed before it are in line with its plan as far as it
has come, and as they were beyond (`InOrder`, by `Filed`); what it ends with is all or nothing (`Settled`). As long as nothing was ever
out of order, the numbers have no gap and the summary in the task's row is its first chunk (`Tidy`). That the chosen slots are
as many as the task needs, ascending and free is a lemma about `Nth`, whose *i*-th member of a finite set of numbers is shown
to exist by counting how many members are no greater.

**HabitsProofs.** `TypeCorrect`, `EventsAreKnown` (`EveryEventKnown`), `HabitIsKept` (`HabitKept`), `ChurnsNothing` (`NoChurn`, which no run checks, the theorem being for every instance). The first two parts are
built as for buffers: an occurrence, stored or read, names an event of its day (`Ours`); what was read of a live event is so still (`Tracked`); what was
dropped or erased is not live (`Gone`); rows say where live events are, but for those just moved (`InPlace`). `HabitKept` follows one placement that runs alone through the
days: the days behind it are kept, and what it has chosen for the day it is at is still the best slot, before the event is moved
(the day's other events aside) and after (`OnCourse`). That `Nearest` and `First` are what they claim - a finite set of numbers has a
least one - is proved too, from the well-foundedness of strict inclusion on finite sets, since induction over numbers is not at hand.
The attempt to prove `HabitKept` showed that the model once let a placement whose deletion of a row had failed count as undisturbed: the
property was false beyond the bounds of the run, and the failure is now one of `DayFails`.

**AccessProofs.** `TypeCorrect`, `InsertsAreSentOnce` (`InsertsOnce`), `LockoutsAreReal` (`LockoutIsReal`), `GrantsAreKept`
(`GrantKept`). What the row says is right because of what is true of tokens on their way to it: one that Google handed out and nobody stored yet is in
one pair of hands (`Exclusive`), one that was denied is dead (`Denied`), and a grant outlives its way to the row unless the user
withdraws it (`Granted`).

**AgentProofs.** `TypeCorrect`, `AppliedExactlyOnce` (`AppliedOnce`), `NeverLeftStuck` (`NeverStuck`), `OpenCardsHoldTheTurn`
(`CardsHoldTheTurn`), `TranscriptsAreAccepted` (`TranscriptAccepted`). For consent, the invariant adds: only a writer of pending actions has something
left to write; a tool use not yet asked for has no row and no run; cards, and the requests they start, are about tools that write
(`Cards`); a tool use waiting to be staged has no past and one owner (`Staged`); on a card on which no clicks overlapped at most one request is at work, and the
step it is at says whether the tool has run (`Course`); a deleted conversation has no cards (`Gone`). For the conversation (`TurnInv`): no tool use is
asked for twice (`Fresh`); while requests have not crossed, one has the turn, and its step says what the transcript owes - nothing, the results in hand,
or answers to open cards (`Conversation`); the cards a turn has written are open and no click is on them (`Offered`); a conversation
that waits has an open card or a request that has just closed the last one (`Unstuck`).

`ImplementsConsent`: `Agent` implements `Consent` under the mapping `CardOf`, `ClickOf`, `executed`. Initial states map to
the initial state. Every step of `Agent` maps to a step of `Consent` or to a stutter: most leave cards and clicks alone; `Stage` offers a card,
which was not there before by `Staged`; a click is one on an open card, by `Cards` and `Gone`; `Execute` carries the change out or is refused;
`Resolve` rules; a cut drops the click. The one fact added to the invariant is that a request about a card has it in hand (`Handed`).
`Consent` allows two clicks on one card at once and does not say that a change runs once: that the code runs it twice then is
what `doubled` records, and `AppliedOnce` is the stronger statement where it holds.

**Only model-checked.**
- `TokenVouches` of `RuleEngine`, which needs for every listing what it left out and for every key what has been seen of it since.
- The liveness properties (`Converges`, `CatchesUp`, `PendingIsPlaced`, `ComesInTune`, `LockoutShows`, `LockoutEnds`), which the
  prover cannot treat.
- What the functions of `Hours` and `Planner` compute (the properties of `MCHours`): they recurse over sequences, and induction over data is out of the prover's reach.
- `PlansApart`, for the same reason: that what `Desired` computes is apart is a hypothesis of the theorems that need it, and evaluated by TLC.

## 5. What is not modelled, and why

- A rule's calendars, direction and filter are constants of an instance. Filters are a choice of the environment already; retargeting
  would give every key a second target, for which no instance is small enough.
- The debounce that a calendar which changes more often than every fifteen seconds restarts for ever, and the cap of 250
  listed meetings: they need a finer clock or more events than a run can enumerate.
- Daylight saving in `Hours`: a day has a fixed length there (`Planner` has longer and shorter days).
- Several tasks or habits at once. That skulid's own windows are taken out of the busy time, so that a task and a habit do not see each other, is in
  the code's `busyEverywhere` and in `Taken`; what two of them do to one another beyond that is nothing.
- The assistant's tools on events, its exclusion of accounts, and titles, priorities and categories of tasks. A tool that calls Google is `Execute`, with or without effect.
- Account deletion, which cascades to everything; a reconnect to another Google account than the one meant is `FlowFails` in `Access`.
- The start of a worker for a new account and the clean-up of old rows and audit entries.
- Filters, transforms, conflicts, categories, descriptions, time-zone names: pure functions of one event without state.
- Login, sessions, sealing, configuration, templates, migrations, static files: request handling and start-up without behaviour over
  time. Audit rows are written and never read by an engine.
- The length of the pauses between retries, and wrong credentials of skulid itself: `invalid_client` flags an account too
  (`internal/auth/reauth.go:24`), though its token may be alive.

## 6. What the models show of the code

Besides the violated runs, the exceptions above were found by TLC. What a reader of the code should know of:
- *Smart blocks, tasks and habits that get another target calendar* keep rows of events on the old one. A row whose window stays is left there; one that
  should move fails for ever, since the event is looked for on the new calendar; a deletion does not find the event either and drops the row (`wiki/Tasks.md:81` has
  the deletion of a task delete all of its blocks).
- *Tasks.* A status "scheduled" set by hand on a task without blocks is not retried by the nightly pass. Overlapping placements can leave gaps in the
  numbers of the chunks, after which an insert is refused and its event orphaned. A placement cut off before `UpdateScheduled` leaves the
  summary in the row out of step with the first chunk (`migrations/0015_task_chunks.sql`). `UpdateScheduled` is written over whatever the row says, so it reopens a task
  completed meanwhile (`EndedStays` names the exception). The check of `placementHolds` for busy time cannot fail, since the task's own windows were taken out.
- *Habits.* An edit wipes the rows from today on and leaves their events (`internal/httpx/handlers_habits.go:159`, against the comment at 193); the
  events left count as busy in the next placement. A placement that writes the row of an event which another has dropped leaves an occurrence that never comes back.
- *Busy time.* Taking out every managed window also hides a meeting that lies on one (`wiki/Tasks.md:27` describes the intent).
- *Polling* selects from `sync_token`, so a calendar enabled while its job is dropped and its registration ends before `Ensure` is found by no
  tick (`internal/db/calendars.go:125` says the next one picks it up): hence "with a row" in `CatchesUp`.
- *Buffers.* Rows are chosen by the buffer's span, meetings by their own; at the far end of the week a trailing buffer's row is outside
  the range while its meeting is inside, and so is the row of the way there of a meeting that has begun: each recomputation inserts such a
  buffer again (`buffers_again`). The buffers after a meeting are reaped once it is over (`buffers_over`).
- *Hours.* `Expand` steps by whole days from `from`, so if `to` is no later in the day than `from` the last day is left out (`hours_expand_span`, against the comment at `internal/hours/hours.go:59`).
  `ExpandRight` is what holds: no time but working times of the span, and all of them where `from` is a midnight or `to` is later in the day.
- *Planner.* The last hour of a day of 25 is never drawn; a week that crosses into a month is of the month it begins in, and its later days are
  marked as of another.
- *Rules.* After a 410, or at the first sync, changes of events that ended before yesterday are passed over for good
  (`internal/worker/worker.go:572-576`; `sync_worker_resync`, against the "full resync" of `wiki/Operations.md:198`). The mirrors of a deleted rule stay at Google; a mirror removed by hand never comes back, and updates of it fail.
- *Access.* A late `UpdateRefreshToken` can overwrite the token of a reconnect that came between (`strayed`); then a reconnect is asked for again.
- *Assistant.* `internal/ai/agent.go:262` says the API must not be called again until the user resolves writes; a message sent while a turn is being staged
  does call it (the `crossed` of `TranscriptAccepted`).
- The comment of `ChunkPlan` calls its slots chronological; with ranges typed out of order they are not, and `ChunksRight` asks for
  it only when the available windows come in order.

## 7. Plan

1. **Core** (done): `RuleEngine`, `WatchChannels`, `SyncWorker`, `Buffers`, `Hours`, `SmartBlocks`, `Agent`; proofs of the rule engine and of the
   assistant's consent.
2. **Extend the model** (done): `Tasks`, `Habits`, `Access`, `Planner`; rules and smart blocks edited and deleted; `Consent` and the proof that `Agent` implements it.
3. **Prove more** (done): every safety invariant and every action property the passing runs check of a component with state is a theorem, but for `TokenVouches`, and `Agent` implements `Consent`.
4. **Further abstract specifications**: *kept copy* - a target eventually equals its source and only the copier writes it - for `RuleEngine` and keys not at risk;
   *kept in step* - a set of managed events replaced by the wanted set - for an undisturbed
   recomputation of `Buffers` and `SmartBlocks`.
5. A second rule in `RuleEngine`'s instance (a ring of two one-way rules) when the state space allows it.
