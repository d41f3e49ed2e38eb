----------------------------- MODULE WatchChannels -----------------------------
(***************************************************************************)
(* skulid's push channels at Google: Manager.RegisterWatch of              *)
(* internal/worker/worker.go over the rows of internal/db/sync_tokens.go.  *)
(*                                                                         *)
(* A registration stops the channel the row names, opens a new one and     *)
(* writes it to the row; for a calendar that is switched off it only stops *)
(* and forgets.  Registrations start whenever a calendar is switched, a    *)
(* channel is about to expire, or the user asks, each in a goroutine of    *)
(* its own or in a request's; nothing keeps two of them from handling one  *)
(* calendar at the same time.  SyncWorker extends this module with the     *)
(* worker; the names that both need say Channel here.                      *)
(***************************************************************************)
EXTENDS Naturals, FiniteSets

CONSTANTS
    Cals,        \* calendars
    Channels,    \* the random channel ids; none left: Google refuses to open a channel
    Registrars,  \* goroutines that run Manager.RegisterWatch
    NoChannel,   \* an empty watch_channel_id
    Before,      \* calendars an earlier run of the program left switched on, with a row
    MaxUpsets    \* bound on failures, timeouts and crashes

ASSUME WatchAssumption ==
    /\ Cals # {}
    /\ NoChannel \notin Channels
    /\ Before \subseteq Cals
    /\ MaxUpsets \in Nat

VARIABLES
    enabled,  \* calendars switched on
    row,      \* row[c]: the watch columns of c's sync_token row, if it has one
    chan,     \* chan[h]: the channel h at Google
    reg,      \* reg[g]: what registration goroutine g is doing
    untidy,   \* history: calendars whose registrations overlapped or were cut off
    upsets    \* history: failures so far

watchVars == <<enabled, row, chan, reg, untidy, upsets>>

Ids == Channels \cup {NoChannel}
Rows == [kept : BOOLEAN, channel : Ids, expiry : {"none", "valid", "past"}]
ChannelStates == [state : {"unused", "live", "dead"}, cal : Cals]
RegStates == [pc : {"idle", "begun", "looked", "read", "stopped", "watched"},
              cal : Cals, sees : BOOLEAN, prior : Ids, new : Ids]

AnyCal == CHOOSE c \in Cals : TRUE
NoReg  == [pc |-> "idle", cal |-> AnyCal, sees |-> FALSE, prior |-> NoChannel, new |-> NoChannel]

ChannelTypeOK ==
    /\ enabled \subseteq Cals
    /\ row \in [Cals -> Rows]
    /\ chan \in [Channels -> ChannelStates]
    /\ reg \in [Registrars -> RegStates]
    /\ untidy \subseteq Cals
    /\ upsets \in 0..MaxUpsets

(* New calendars are switched off and have no row.                         *)
ChannelInit ==
    /\ enabled = Before
    /\ row = [c \in Cals |-> [kept |-> c \in Before, channel |-> NoChannel, expiry |-> "none"]]
    /\ chan = [h \in Channels |-> [state |-> "unused", cal |-> AnyCal]]
    /\ reg = [g \in Registrars |-> NoReg]
    /\ untidy = {}
    /\ upsets = 0
-------------------------------------------------------------------------------
Upset == upsets < MaxUpsets /\ upsets' = upsets + 1

Ensure(c) == [row EXCEPT ![c].kept = TRUE]

(* A channel reaches the end of its week.                                  *)
Expire(h) ==
    /\ chan[h].state = "live"
    /\ chan' = [chan EXCEPT ![h].state = "dead"]
    /\ row' = [c \in Cals |-> IF row[c].channel = h THEN [row[c] EXCEPT !.expiry = "past"] ELSE row[c]]
    /\ UNCHANGED <<enabled, reg, untidy, upsets>>

(* Starting a registration.                                                *)
Busy(c) == \E g \in Registrars : reg[g].pc # "idle" /\ reg[g].cal = c

Begin(g, c) ==
    /\ reg[g].pc = "idle"
    /\ reg' = [reg EXCEPT ![g] = [NoReg EXCEPT !.pc = "begun", !.cal = c]]
    /\ untidy' = IF Busy(c) THEN untidy \cup {c} ELSE untidy

(* The hourly renewal, "re-register all webhooks", and the discovery of an *)
(* account's calendars: any time, for any calendar.                        *)
Rewatch(g, c) ==
    /\ Begin(g, c)
    /\ UNCHANGED <<enabled, row, chan, upsets>>

(* handleCalendarToggleEnabled sets the flag and starts a registration.    *)
Switch(g, c) ==
    /\ Begin(g, c)
    /\ enabled' = IF c \in enabled THEN enabled \ {c} ELSE enabled \cup {c}
    /\ UNCHANGED <<row, chan, upsets>>
-------------------------------------------------------------------------------
(* Manager.RegisterWatch, call by call.                                    *)

Goes(g, pc) == reg' = [reg EXCEPT ![g].pc = pc]
Ends(g) == reg' = [reg EXCEPT ![g] = NoReg]

(* calendars.Get                                                           *)
LookAtCalendar(g) ==
    /\ reg[g].pc = "begun"
    /\ reg' = [reg EXCEPT ![g].pc = "looked", ![g].sees = reg[g].cal \in enabled]
    /\ UNCHANGED <<enabled, row, chan, untidy, upsets>>

(* As if the registration of a disabled calendar had nothing to do.        *)
ReadRowIfOn(g) ==
    /\ reg[g].pc = "looked"
    /\ IF ~reg[g].sees
       THEN Ends(g)
       ELSE reg' = [reg EXCEPT ![g].pc = "read", ![g].prior = row[reg[g].cal].channel]
    /\ UNCHANGED <<enabled, row, chan, untidy, upsets>>

(* tokens.Get; a disabled calendar without a channel needs no more.        *)
ReadRow(g) ==
    /\ reg[g].pc = "looked"
    /\ LET prior == row[reg[g].cal].channel
       IN IF ~reg[g].sees /\ prior = NoChannel
          THEN Ends(g)
          ELSE reg' = [reg EXCEPT ![g].pc = "read", ![g].prior = prior]
    /\ UNCHANGED <<enabled, row, chan, untidy, upsets>>

(* That the row cannot be read is not noticed: there seems to be none.     *)
ReadRowFails(g) ==
    /\ reg[g].pc = "looked"
    /\ Upset
    /\ IF reg[g].sees THEN Goes(g, "read") ELSE Ends(g)
    /\ untidy' = untidy \cup {reg[g].cal}
    /\ UNCHANGED <<enabled, row, chan>>

(* Stop the channel that was read; a failure is ignored.  (StopForgotten:  *)
(* as if it were left to expire.)                                          *)
StopForgotten(h) == chan
Stopped(h) == IF h = NoChannel THEN chan ELSE [chan EXCEPT ![h].state = "dead"]

StopChannel(g) ==
    /\ reg[g].pc = "read"
    /\ \/ /\ chan' = Stopped(reg[g].prior)
          /\ UNCHANGED <<untidy, upsets>>
       \/ /\ reg[g].prior # NoChannel /\ Upset
          /\ untidy' = untidy \cup {reg[g].cal}
          /\ UNCHANGED chan
    /\ Goes(g, "stopped")
    /\ UNCHANGED <<enabled, row>>

(* As if only the channel's id were cleared.                               *)
ClearChannelId(g) ==
    /\ reg[g].pc = "stopped" /\ ~reg[g].sees
    /\ row' = [row EXCEPT ![reg[g].cal].channel = NoChannel]
    /\ Ends(g)
    /\ UNCHANGED <<enabled, chan, untidy, upsets>>

(* A disabled calendar: forget whatever channel the row names by now.      *)
ClearWatch(g) ==
    /\ reg[g].pc = "stopped" /\ ~reg[g].sees
    /\ row' = [row EXCEPT ![reg[g].cal].channel = NoChannel, ![reg[g].cal].expiry = "none"]
    /\ Ends(g)
    /\ UNCHANGED <<enabled, chan, untidy, upsets>>

Unused == {h \in Channels : chan[h].state = "unused"}
Fresh  == CHOOSE h \in Unused : TRUE
Opened(c) == [chan EXCEPT ![Fresh] = [state |-> "live", cal |-> c]]

(* An enabled calendar: make sure of the row and open a new channel.       *)
Watch(g) ==
    /\ reg[g].pc = "stopped" /\ reg[g].sees
    /\ Unused # {}
    /\ row' = Ensure(reg[g].cal)
    /\ chan' = Opened(reg[g].cal)
    /\ reg' = [reg EXCEPT ![g].pc = "watched", ![g].new = Fresh]
    /\ UNCHANGED <<enabled, untidy, upsets>>

(* Google opens the channel but its answer is lost.                        *)
WatchAnswerLost(g) ==
    /\ reg[g].pc = "stopped" /\ reg[g].sees
    /\ Unused # {}
    /\ Upset
    /\ row' = Ensure(reg[g].cal)
    /\ chan' = Opened(reg[g].cal)
    /\ Ends(g)
    /\ untidy' = untidy \cup {reg[g].cal}
    /\ UNCHANGED enabled

(* Google does not open channels to this installation, whose URL is not    *)
(* public, say: the row is there, without a channel that is alive.         *)
WatchRefused(g) ==
    /\ reg[g].pc = "stopped" /\ reg[g].sees
    /\ Unused = {}
    /\ row' = Ensure(reg[g].cal)
    /\ Ends(g)
    /\ UNCHANGED <<enabled, chan, untidy, upsets>>

UpdateWatch(g) ==
    /\ reg[g].pc = "watched"
    /\ row' = [row EXCEPT ![reg[g].cal].channel = reg[g].new, ![reg[g].cal].expiry = "valid"]
    /\ Ends(g)
    /\ UNCHANGED <<enabled, chan, untidy, upsets>>

(* A step fails or the registration's time runs out: it ends there.  The   *)
(* row may have been made before opening the channel failed.               *)
RegisterFails(g) ==
    /\ reg[g].pc # "idle"
    /\ Upset
    /\ \/ UNCHANGED row
       \/ reg[g].pc = "stopped" /\ reg[g].sees /\ row' = Ensure(reg[g].cal)
    /\ Ends(g)
    /\ untidy' = untidy \cup {reg[g].cal}
    /\ UNCHANGED <<enabled, chan>>

RegisterWatch(g) ==
    \/ LookAtCalendar(g) \/ ReadRow(g) \/ ReadRowFails(g) \/ StopChannel(g) \/ ClearWatch(g)
    \/ Watch(g) \/ WatchAnswerLost(g) \/ WatchRefused(g) \/ UpdateWatch(g) \/ RegisterFails(g)

(* The program is killed and started again: the goroutines are gone.       *)
Restart ==
    /\ Upset
    /\ reg' = [g \in Registrars |-> NoReg]
    /\ untidy' = untidy \cup {c \in Cals : Busy(c)}
    /\ UNCHANGED <<enabled, row, chan>>

ChannelNext ==
    \/ \E g \in Registrars : RegisterWatch(g) \/ \E c \in Cals : Rewatch(g, c) \/ Switch(g, c)
    \/ \E h \in Channels : Expire(h)
    \/ Restart

ChannelSpec == ChannelInit /\ [][ChannelNext]_watchVars
-------------------------------------------------------------------------------
(* Properties.                                                             *)

LiveOn(c) == {h \in Channels : chan[h].state = "live" /\ chan[h].cal = c}

(* Unless registrations of a calendar overlapped or were cut off, Google   *)
(* notifies only through the channel its row names, or is about to.        *)
NoStrayChannel ==
    \A c \in Cals \ untidy : \A h \in LiveOn(c) :
        \/ row[c].channel = h
        \/ \E g \in Registrars : reg[g].pc = "watched" /\ reg[g].new = h

(* Nor does it notify at all once the calendar is off and its registration *)
(* done: the switch is read by the registration that the switch starts.    *)
QuietWhenOff ==
    \A c \in Cals \ untidy : c \notin enabled /\ ~Busy(c) => LiveOn(c) = {}

(* Even after overlaps and failures, a row names a channel that was opened *)
(* for its own calendar, so that a notification syncs the right calendar,  *)
(* and a row that says "valid" names one.                                  *)
RowNamesOwnChannel ==
    \A c \in Cals :
        /\ row[c].channel # NoChannel =>
              row[c].kept /\ chan[row[c].channel].cal = c /\ chan[row[c].channel].state # "unused"
        /\ row[c].expiry = "none" <=> row[c].channel = NoChannel
        /\ row[c].expiry = "past" => chan[row[c].channel].state = "dead"
===============================================================================
