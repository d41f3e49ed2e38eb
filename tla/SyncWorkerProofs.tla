---------------------------- MODULE SyncWorkerProofs ----------------------------
(***************************************************************************)
(* Proofs about modules WatchChannels and SyncWorker, for any number of    *)
(* accounts, calendars, channels and registration goroutines, any queue    *)
(* length, any number of changes, any failures and any restarts.           *)
(*                                                                         *)
(* First the push channels alone.  A row names a channel of its own        *)
(* calendar because a registration that has opened one knows which         *)
(* (HandsOver).  A calendar whose registrations came one after the other,  *)
(* without a failure, is followed through them: only one works for it      *)
(* (OneAtATime), what it saw of the switch is still so, and at each of its *)
(* steps one channel at most can be alive (Progress); at rest that is the  *)
(* one the row names, and none if the calendar is off (Settled).           *)
(*                                                                         *)
(* Then the worker.  A stored token is one that a listing returned, and it *)
(* is stored after the changes up to it went to the engine, but for those  *)
(* the listing left out (InOrder).  The                                    *)
(* channels keep what was shown of them alone: besides registering them, a *)
(* worker only makes sure of rows.                                         *)
(***************************************************************************)
EXTENDS SyncWorker, TLAPS

(* What WatchChannels assumes of its constants.                            *)
LEMMA ChannelConstants ==
    Cals # {} /\ NoChannel \notin Channels /\ Before \subseteq Cals /\ MaxUpsets \in Nat
  BY WatchAssumption DEF WatchAssumption

(* The push channels.                                                      *)
Handles(g, c) == reg[g].pc # "idle" /\ reg[g].cal = c

(* A registration that has opened a channel hands over one of its own      *)
(* calendar's to a row that is there.                                      *)
HandsOver ==
    \A g \in Registrars : reg[g].pc = "watched" =>
        /\ reg[g].new # NoChannel
        /\ chan[reg[g].new].cal = reg[g].cal /\ chan[reg[g].new].state # "unused"
        /\ row[reg[g].cal].kept

OneAtATime ==
    \A c \in Cals \ untidy : \A g, k \in Registrars : Handles(g, c) /\ Handles(k, c) => g = k

Follows(g, c) ==
    /\ reg[g].pc # "begun" => (reg[g].sees <=> c \in enabled)
    /\ reg[g].pc \in {"begun", "looked"} => LiveOn(c) \subseteq {row[c].channel}
    /\ reg[g].pc = "read" => reg[g].prior = row[c].channel /\ LiveOn(c) \subseteq {reg[g].prior}
    /\ reg[g].pc = "stopped" => LiveOn(c) = {}
    /\ reg[g].pc = "watched" => reg[g].sees /\ LiveOn(c) \subseteq {reg[g].new}

Progress == \A c \in Cals \ untidy : \A g \in Registrars : Handles(g, c) => Follows(g, c)

AtRest(c) ==
    /\ LiveOn(c) \subseteq {row[c].channel}
    /\ c \notin enabled => LiveOn(c) = {}

Settled == \A c \in Cals \ untidy : ~Busy(c) => AtRest(c)

ChannelInv == ChannelTypeOK /\ RowNamesOwnChannel /\ HandsOver /\ OneAtATime /\ Progress /\ Settled
-------------------------------------------------------------------------------
LEMMA FreshIsUnused ==
    ASSUME ChannelTypeOK, Unused # {}
    PROVE  Fresh \in Channels /\ Fresh # NoChannel /\ chan[Fresh].state = "unused"
  BY ChannelConstants DEF Fresh, Unused

LEMMA AnyCalIsOne == AnyCal \in Cals
  BY ChannelConstants DEF AnyCal

LEMMA NoRegIsOne == NoReg \in RegStates /\ NoReg.pc = "idle" /\ NoReg.prior = NoChannel
  BY AnyCalIsOne DEF NoReg, RegStates, Ids

(* The steps of a registration, one by one: what they leave of the goroutine. *)
LEMMA RegMoves ==
    ASSUME ChannelTypeOK, NEW g \in Registrars
    PROVE  /\ LookAtCalendar(g) =>
                 reg' = [reg EXCEPT ![g] = [reg[g] EXCEPT !.pc = "looked", !.sees = reg[g].cal \in enabled]]
           /\ ReadRow(g) =>
                 \/ ~reg[g].sees /\ row[reg[g].cal].channel = NoChannel /\ Ends(g)
                 \/ reg' = [reg EXCEPT ![g] = [reg[g] EXCEPT !.pc = "read",
                                                             !.prior = row[reg[g].cal].channel]]
           /\ ReadRowFails(g) => Ends(g) \/ reg' = [reg EXCEPT ![g] = [reg[g] EXCEPT !.pc = "read"]]
           /\ StopChannel(g) => reg' = [reg EXCEPT ![g] = [reg[g] EXCEPT !.pc = "stopped"]]
           /\ Watch(g) => reg' = [reg EXCEPT ![g] = [reg[g] EXCEPT !.pc = "watched", !.new = Fresh]]
           /\ \/ ClearWatch(g) \/ WatchAnswerLost(g) \/ WatchRefused(g) \/ UpdateWatch(g)
              \/ RegisterFails(g)
              => Ends(g)
<1>1. LookAtCalendar(g) =>
          reg' = [reg EXCEPT ![g] = [reg[g] EXCEPT !.pc = "looked", !.sees = reg[g].cal \in enabled]]
  BY DEF LookAtCalendar
<1>2. ReadRow(g) =>
          \/ ~reg[g].sees /\ row[reg[g].cal].channel = NoChannel /\ Ends(g)
          \/ reg' = [reg EXCEPT ![g] = [reg[g] EXCEPT !.pc = "read", !.prior = row[reg[g].cal].channel]]
  BY DEF ReadRow
<1>3. Watch(g) => reg' = [reg EXCEPT ![g] = [reg[g] EXCEPT !.pc = "watched", !.new = Fresh]]
  BY DEF Watch
<1>4. /\ ReadRowFails(g) => Ends(g) \/ reg' = [reg EXCEPT ![g] = [reg[g] EXCEPT !.pc = "read"]]
      /\ StopChannel(g) => reg' = [reg EXCEPT ![g] = [reg[g] EXCEPT !.pc = "stopped"]]
  BY DEF ReadRowFails, StopChannel, Goes
<1>5. \/ ClearWatch(g) \/ WatchAnswerLost(g) \/ WatchRefused(g) \/ UpdateWatch(g)
      \/ RegisterFails(g)
      => Ends(g)
  BY DEF ClearWatch, WatchAnswerLost, WatchRefused, UpdateWatch, RegisterFails
<1> QED  BY <1>1, <1>2, <1>3, <1>4, <1>5

(* Of the other goroutines and calendars a registration changes nothing,   *)
(* and it stays with its own calendar until it ends.                       *)
LEMMA OwnBusiness ==
    ASSUME ChannelTypeOK, NEW g \in Registrars, RegisterWatch(g)
    PROVE  /\ reg' \in [Registrars -> RegStates]
           /\ \A k \in Registrars \ {g} : reg'[k] = reg[k]
           /\ \A c \in Cals \ {reg[g].cal} : row'[c] = row[c]
           /\ UNCHANGED enabled
           /\ reg[g].pc # "idle" /\ reg[g].cal \in Cals
           /\ reg'[g].pc = "idle" \/ reg'[g].cal = reg[g].cal
           /\ untidy' \in {untidy, untidy \cup {reg[g].cal}}
<1> USE DEF ChannelTypeOK
<1>p. reg[g] \in RegStates /\ reg[g].cal \in Cals /\ row[reg[g].cal].channel \in Ids
  BY DEF RegStates, Rows
<1>f. Unused # {} => Fresh \in Ids  BY FreshIsUnused DEF Ids
<1>1. PICK x \in RegStates : reg' = [reg EXCEPT ![g] = x] /\ (x.pc = "idle" \/ x.cal = reg[g].cal)
  <2>1. /\ [reg[g] EXCEPT !.pc = "looked", !.sees = reg[g].cal \in enabled] \in RegStates
        /\ [reg[g] EXCEPT !.pc = "looked", !.sees = reg[g].cal \in enabled].cal = reg[g].cal
    <3>1. (reg[g].cal \in enabled) \in BOOLEAN  OBVIOUS
    <3> HIDE DEF ChannelTypeOK
    <3> QED  BY <1>p, <3>1 DEF RegStates
  <2>2. /\ [reg[g] EXCEPT !.pc = "read", !.prior = row[reg[g].cal].channel] \in RegStates
        /\ [reg[g] EXCEPT !.pc = "read", !.prior = row[reg[g].cal].channel].cal = reg[g].cal
    BY <1>p DEF RegStates
  <2>3. ASSUME NEW pc \in {"read", "stopped"}
        PROVE  [reg[g] EXCEPT !.pc = pc] \in RegStates /\ [reg[g] EXCEPT !.pc = pc].cal = reg[g].cal
    BY <1>p DEF RegStates
  <2>4. Unused # {} => /\ [reg[g] EXCEPT !.pc = "watched", !.new = Fresh] \in RegStates
                       /\ [reg[g] EXCEPT !.pc = "watched", !.new = Fresh].cal = reg[g].cal
    BY <1>p, <1>f DEF RegStates
  <2>5. CASE Ends(g)  BY <2>5, NoRegIsOne DEF Ends
  <2>6. CASE LookAtCalendar(g)  BY <2>6, <2>1, RegMoves
  <2>7. CASE ReadRow(g)  BY <2>7, <2>2, <2>5, RegMoves
  <2>8. CASE ReadRowFails(g)  BY <2>8, <2>3, <2>5, RegMoves
  <2>9. CASE StopChannel(g)  BY <2>9, <2>3, RegMoves
  <2>10. CASE Watch(g)
    <3>1. Unused # {}  BY <2>10 DEF Watch
    <3> QED  BY <2>10, <3>1, <2>4, RegMoves
  <2> QED  BY <2>5, <2>6, <2>7, <2>8, <2>9, <2>10, RegMoves DEF RegisterWatch
<1>2. \A c \in Cals \ {reg[g].cal} : row'[c] = row[c]
  BY DEF RegisterWatch, LookAtCalendar, ReadRow, ReadRowFails, StopChannel, ClearWatch,
         Watch, WatchAnswerLost, WatchRefused, UpdateWatch, RegisterFails, Ensure
<1>3. UNCHANGED enabled /\ untidy' \in {untidy, untidy \cup {reg[g].cal}} /\ reg[g].pc # "idle"
  BY DEF RegisterWatch, LookAtCalendar, ReadRow, ReadRowFails, StopChannel, ClearWatch,
         Watch, WatchAnswerLost, WatchRefused, UpdateWatch, RegisterFails
<1> QED  BY <1>p, <1>1, <1>2, <1>3

(* Only opening a channel makes one live, for the registration's calendar. *)
LEMMA Opens ==
    ASSUME ChannelTypeOK, NEW g \in Registrars, RegisterWatch(g)
    PROVE  /\ chan' \in [Channels -> ChannelStates]
           /\ \A h \in Channels : chan[h].state # "unused" =>
                 chan'[h].state # "unused" /\ chan'[h].cal = chan[h].cal
           /\ \A h \in Channels : chan[h].state = "dead" => chan'[h].state = "dead"
           /\ \A c \in Cals :
                 LiveOn(c)' \subseteq LiveOn(c) \cup (IF c = reg[g].cal THEN {Fresh} ELSE {})
           /\ ~Watch(g) /\ ~WatchAnswerLost(g) => \A c \in Cals : LiveOn(c)' \subseteq LiveOn(c)
<1> USE DEF ChannelTypeOK
<1>p. reg[g].cal \in Cals /\ reg[g].prior \in Ids  BY DEF RegStates
<1>1. CASE Watch(g) \/ WatchAnswerLost(g)
  <2>1. Unused # {} /\ chan' = [chan EXCEPT ![Fresh] = [state |-> "live", cal |-> reg[g].cal]]
    BY <1>1 DEF Watch, WatchAnswerLost, Opened
  <2>2. Fresh \in Channels /\ chan[Fresh].state = "unused"  BY <2>1, FreshIsUnused
  <2> QED  BY <1>1, <1>p, <2>1, <2>2 DEF ChannelStates, LiveOn
<1>2. CASE ~Watch(g) /\ ~WatchAnswerLost(g)
  <2>1. UNCHANGED chan \/ (reg[g].prior # NoChannel /\ chan' = [chan EXCEPT ![reg[g].prior].state = "dead"])
    BY <1>2 DEF RegisterWatch, LookAtCalendar, ReadRow, ReadRowFails, StopChannel, Stopped,
                ClearWatch, WatchRefused, UpdateWatch, RegisterFails
  <2>2. CASE UNCHANGED chan  BY <1>2, <2>2 DEF LiveOn
  <2>3. CASE reg[g].prior # NoChannel /\ chan' = [chan EXCEPT ![reg[g].prior].state = "dead"]
    <3>1. reg[g].prior \in Channels  BY <2>3, <1>p DEF Ids
    <3> QED  BY <1>2, <2>3, <3>1 DEF ChannelStates, LiveOn
  <2> QED  BY <2>1, <2>2, <2>3
<1> QED  BY <1>1, <1>2

(* What a registration makes of its calendar's row.                        *)
LEMMA RowMoves ==
    ASSUME ChannelTypeOK, NEW g \in Registrars, RegisterWatch(g), NEW c \in Cals, c = reg[g].cal
    PROVE  /\ row' \in [Cals -> Rows]
           /\ row[c].kept => row'[c].kept
           /\ \/ row'[c].channel = row[c].channel /\ row'[c].expiry = row[c].expiry
              \/ ClearWatch(g) /\ row'[c].channel = NoChannel /\ row'[c].expiry = "none"
              \/ UpdateWatch(g) /\ row'[c].channel = reg[g].new /\ row'[c].expiry = "valid"
           /\ Watch(g) => row'[c].kept
<1> USE DEF ChannelTypeOK
<1>p. row[c] \in Rows /\ reg[g].new \in Ids  BY DEF RegStates
<1>1. CASE ClearWatch(g)
  <2>1. row' = [row EXCEPT ![c] = [row[c] EXCEPT !.channel = NoChannel, !.expiry = "none"]]
    BY <1>1 DEF ClearWatch
  <2>2. ~Watch(g)  BY <1>1 DEF ClearWatch, Watch
  <2> QED  BY <1>1, <1>p, <2>1, <2>2 DEF Rows, Ids
<1>2. CASE UpdateWatch(g)
  <2>1. row' = [row EXCEPT ![c] = [row[c] EXCEPT !.channel = reg[g].new, !.expiry = "valid"]]
    BY <1>2 DEF UpdateWatch
  <2>2. ~Watch(g)  BY <1>2 DEF UpdateWatch, Watch
  <2> QED  BY <1>2, <1>p, <2>1, <2>2 DEF Rows
<1>3. CASE UNCHANGED row /\ ~Watch(g)  BY <1>3
<1>4. CASE row' = Ensure(c)
  <2>1. row' = [row EXCEPT ![c] = [row[c] EXCEPT !.kept = TRUE]]  BY <1>4 DEF Ensure
  <2> QED  BY <1>p, <2>1 DEF Rows
<1> QED  BY <1>1, <1>2, <1>3, <1>4
         DEF RegisterWatch, LookAtCalendar, ReadRow, ReadRowFails, StopChannel, Watch,
             WatchAnswerLost, WatchRefused, RegisterFails
-------------------------------------------------------------------------------
(* The steps that are no registration's, in one view.                      *)
LEMMA Starts ==
    ASSUME ChannelTypeOK, NEW g \in Registrars, NEW c \in Cals, Rewatch(g, c) \/ Switch(g, c)
    PROVE  /\ reg[g].pc = "idle"
           /\ reg' \in [Registrars -> RegStates]
           /\ reg'[g].pc = "begun" /\ reg'[g].cal = c /\ reg'[g].prior = NoChannel
           /\ \A k \in Registrars \ {g} : reg'[k] = reg[k]
           /\ untidy' = IF Busy(c) THEN untidy \cup {c} ELSE untidy
           /\ UNCHANGED <<row, chan, upsets>>
           /\ enabled' \subseteq Cals /\ \A d \in Cals \ {c} : d \in enabled' <=> d \in enabled
<1>1. Begin(g, c)  BY DEF Rewatch, Switch
<1>2. [NoReg EXCEPT !.pc = "begun", !.cal = c] \in RegStates  BY NoRegIsOne DEF RegStates
<1>3. /\ reg' = [reg EXCEPT ![g] = [NoReg EXCEPT !.pc = "begun", !.cal = c]]
      /\ reg[g].pc = "idle" /\ untidy' = IF Busy(c) THEN untidy \cup {c} ELSE untidy
  BY <1>1 DEF Begin
<1>4. UNCHANGED <<row, chan, upsets>>  BY DEF Rewatch, Switch
<1>5. enabled' \subseteq Cals /\ \A d \in Cals \ {c} : d \in enabled' <=> d \in enabled
  BY DEF Rewatch, Switch, ChannelTypeOK
<1> QED  BY <1>2, <1>3, <1>4, <1>5 DEF ChannelTypeOK, NoReg

LEMMA Expires ==
    ASSUME ChannelTypeOK, NEW h \in Channels, Expire(h)
    PROVE  /\ chan' \in [Channels -> ChannelStates] /\ row' \in [Cals -> Rows]
           /\ \A i \in Channels : /\ chan'[i].cal = chan[i].cal
                                  /\ chan'[i].state = IF i = h THEN "dead" ELSE chan[i].state
           /\ chan[h].state = "live"
           /\ \A c \in Cals : /\ row'[c].channel = row[c].channel /\ row'[c].kept = row[c].kept
                              /\ row'[c].expiry = IF row[c].channel = h THEN "past" ELSE row[c].expiry
           /\ UNCHANGED <<enabled, reg, untidy, upsets>>
<1> USE DEF ChannelTypeOK
<1>1. chan' = [chan EXCEPT ![h] = [chan[h] EXCEPT !.state = "dead"]] /\ chan[h].state = "live"
      /\ UNCHANGED <<enabled, reg, untidy, upsets>>
  BY DEF Expire
<1>2. ASSUME NEW c \in Cals
      PROVE  /\ row'[c] \in Rows
             /\ row'[c].channel = row[c].channel /\ row'[c].kept = row[c].kept
             /\ row'[c].expiry = IF row[c].channel = h THEN "past" ELSE row[c].expiry
  <2>1. row'[c] = IF row[c].channel = h THEN [row[c] EXCEPT !.expiry = "past"] ELSE row[c]
    BY DEF Expire
  <2>2. row[c] \in Rows  OBVIOUS
  <2> QED  BY <2>1, <2>2 DEF Rows
<1>3. row' \in [Cals -> Rows]
  <2>1. row' = [c \in Cals |-> row'[c]]  BY DEF Expire
  <2> QED  BY <2>1, <1>2
<1> QED  BY <1>1, <1>2, <1>3 DEF ChannelStates
-------------------------------------------------------------------------------
LEMMA ChannelTypeInit == ChannelInit => ChannelTypeOK
<1> SUFFICES ASSUME ChannelInit  PROVE ChannelTypeOK  OBVIOUS
<1>1. \A c \in Cals : (c \in Before) \in BOOLEAN  OBVIOUS
<1>2. row \in [Cals -> Rows]  BY <1>1 DEF ChannelInit, Rows, Ids
<1> QED  BY <1>2, ChannelConstants, AnyCalIsOne, NoRegIsOne DEF ChannelInit, ChannelTypeOK, ChannelStates

LEMMA ChannelTypeStep == ChannelTypeOK /\ [ChannelNext]_watchVars => ChannelTypeOK'
<1> SUFFICES ASSUME ChannelTypeOK, [ChannelNext]_watchVars  PROVE ChannelTypeOK'  OBVIOUS
<1> USE DEF ChannelTypeOK
<1>u. Upset => upsets' \in 0..MaxUpsets  BY ChannelConstants DEF Upset
<1>1. CASE UNCHANGED watchVars  BY <1>1 DEF watchVars
<1>2. ASSUME NEW g \in Registrars, RegisterWatch(g)  PROVE ChannelTypeOK'
  <2>1. upsets' \in 0..MaxUpsets
    BY <1>2, <1>u DEF RegisterWatch, LookAtCalendar, ReadRow, ReadRowFails, StopChannel,
                      ClearWatch, Watch, WatchAnswerLost, WatchRefused, UpdateWatch,
                      RegisterFails
  <2> QED  BY <1>2, <2>1, OwnBusiness, Opens, RowMoves
<1>3. ASSUME NEW g \in Registrars, NEW c \in Cals, Rewatch(g, c) \/ Switch(g, c)  PROVE ChannelTypeOK'
  BY <1>3, Starts
<1>4. ASSUME NEW h \in Channels, Expire(h)  PROVE ChannelTypeOK'  BY <1>4, Expires
<1>5. CASE Restart  BY <1>5, <1>u, NoRegIsOne DEF Restart
<1> QED  BY <1>1, <1>2, <1>3, <1>4, <1>5 DEF ChannelNext

(* A registration comes to have opened a channel only by opening it.       *)
LEMMA HandsOverStep ==
    ASSUME ChannelTypeOK, HandsOver, [ChannelNext]_watchVars
    PROVE  HandsOver'
<1> SUFFICES ASSUME NEW k \in Registrars, reg'[k].pc = "watched"
             PROVE  /\ reg'[k].new # NoChannel
                    /\ chan'[reg'[k].new].cal = reg'[k].cal /\ chan'[reg'[k].new].state # "unused"
                    /\ row'[reg'[k].cal].kept
  BY DEF HandsOver
<1> USE DEF ChannelTypeOK
<1>p. reg[k] \in RegStates  OBVIOUS
<1>1. CASE reg'[k] = reg[k]
  <2>1. /\ reg[k].new \in Channels /\ reg[k].cal \in Cals
        /\ chan[reg[k].new].cal = reg[k].cal /\ chan[reg[k].new].state # "unused" /\ row[reg[k].cal].kept
    BY <1>1, <1>p DEF HandsOver, RegStates, Ids
  <2>2. chan'[reg[k].new].cal = chan[reg[k].new].cal /\ chan'[reg[k].new].state # "unused"
    <3>1. ASSUME NEW g \in Registrars, RegisterWatch(g)
          PROVE chan'[reg[k].new].cal = chan[reg[k].new].cal /\ chan'[reg[k].new].state # "unused"
      BY <2>1, <3>1, Opens
    <3>2. ASSUME NEW h \in Channels, Expire(h)
          PROVE chan'[reg[k].new].cal = chan[reg[k].new].cal /\ chan'[reg[k].new].state # "unused"
      BY <2>1, <3>2, Expires
    <3> QED  BY <2>1, <3>1, <3>2 DEF ChannelNext, Rewatch, Switch, Restart, watchVars
  <2>3. row'[reg[k].cal].kept
    <3>1. ASSUME NEW g \in Registrars, RegisterWatch(g)  PROVE row'[reg[k].cal].kept
      BY <2>1, <3>1, OwnBusiness, RowMoves
    <3>2. ASSUME NEW h \in Channels, Expire(h)  PROVE row'[reg[k].cal].kept
      BY <2>1, <3>2, Expires
    <3> QED  BY <2>1, <3>1, <3>2 DEF ChannelNext, Rewatch, Switch, Restart, watchVars
  <2> QED  BY <1>1, <2>1, <2>2, <2>3, ChannelConstants
<1>2. CASE reg'[k] # reg[k]
  <2>1. Watch(k)
    <3>1. ASSUME NEW g \in Registrars, RegisterWatch(g)  PROVE Watch(k)
      <4>1. g = k  BY <1>2, <3>1, OwnBusiness
      <4>2. CASE ~Watch(k) /\ ~Ends(k)
        <5>1. PICK x \in {[reg[k] EXCEPT !.pc = "looked", !.sees = reg[k].cal \in enabled],
                          [reg[k] EXCEPT !.pc = "read", !.prior = row[reg[k].cal].channel],
                          [reg[k] EXCEPT !.pc = "read"], [reg[k] EXCEPT !.pc = "stopped"]} :
                  reg' = [reg EXCEPT ![k] = x]
          BY <3>1, <4>1, <4>2, RegMoves DEF RegisterWatch
        <5>2. x.pc # "watched"  BY <1>p, <5>1 DEF RegStates
        <5> QED  BY <5>1, <5>2
      <4>3. CASE Ends(k)  BY <4>3, NoRegIsOne DEF Ends
      <4> QED  BY <4>2, <4>3
    <3>2. ASSUME NEW g \in Registrars, NEW c \in Cals, Rewatch(g, c) \/ Switch(g, c)  PROVE FALSE
      BY <1>2, <3>2, Starts
    <3>3. ~Restart  BY NoRegIsOne DEF Restart
    <3> QED  BY <1>2, <3>1, <3>2, <3>3 DEF ChannelNext, Expire, watchVars
  <2>2. Unused # {} /\ chan' = [chan EXCEPT ![Fresh] = [state |-> "live", cal |-> reg[k].cal]]
    BY <2>1 DEF Watch, Opened
  <2>3. Fresh \in Channels /\ Fresh # NoChannel  BY <2>2, FreshIsUnused
  <2>4. reg'[k].new = Fresh /\ reg'[k].cal = reg[k].cal
    <3> DEFINE x == [reg[k] EXCEPT !.pc = "watched", !.new = Fresh]
    <3>1. reg' = [reg EXCEPT ![k] = x]  BY <2>1, RegMoves
    <3>2. x.new = Fresh /\ x.cal = reg[k].cal  BY <1>p DEF RegStates
    <3> QED  BY <3>1, <3>2
  <2>5. row'[reg[k].cal].kept  BY <1>p, <2>1, RowMoves DEF RegisterWatch, RegStates
  <2> QED  BY <2>2, <2>3, <2>4, <2>5
<1> QED  BY <1>1, <1>2

LEMMA RowStep ==
    ASSUME ChannelTypeOK, RowNamesOwnChannel, HandsOver, [ChannelNext]_watchVars
    PROVE  RowNamesOwnChannel'
<1> SUFFICES ASSUME NEW c \in Cals
             PROVE  /\ row'[c].channel # NoChannel =>
                          /\ row'[c].kept /\ chan'[row'[c].channel].cal = c
                          /\ chan'[row'[c].channel].state # "unused"
                    /\ row'[c].expiry = "none" <=> row'[c].channel = NoChannel
                    /\ row'[c].expiry = "past" => chan'[row'[c].channel].state = "dead"
  BY DEF RowNamesOwnChannel
<1> USE DEF ChannelTypeOK
<1>p. row[c] \in Rows  OBVIOUS
<1>c. row[c].channel # NoChannel => row[c].channel \in Channels  BY <1>p DEF Rows, Ids
<1>1. ASSUME NEW g \in Registrars, RegisterWatch(g), UpdateWatch(g), reg[g].cal = c
      PROVE  /\ row'[c].channel # NoChannel /\ row'[c].expiry = "valid" /\ row'[c].kept
             /\ chan'[row'[c].channel].cal = c /\ chan'[row'[c].channel].state # "unused"
  <2>1. row'[c].channel = reg[g].new /\ row'[c].expiry = "valid"
    <3>1. row' = [row EXCEPT ![c] = [row[c] EXCEPT !.channel = reg[g].new, !.expiry = "valid"]]
      BY <1>1 DEF UpdateWatch
    <3> QED  BY <1>p, <3>1 DEF Rows
  <2>2. reg[g].pc = "watched" /\ UNCHANGED chan  BY <1>1 DEF UpdateWatch
  <2>3. /\ reg[g].new # NoChannel /\ row[c].kept
        /\ chan[reg[g].new].cal = c /\ chan[reg[g].new].state # "unused"
    BY <1>1, <2>2 DEF HandsOver
  <2>4. row'[c].kept  BY <1>1, <2>3, RowMoves
  <2> QED  BY <2>1, <2>2, <2>3, <2>4
<1>2. ASSUME NEW g \in Registrars, RegisterWatch(g), ~(UpdateWatch(g) /\ reg[g].cal = c)
      PROVE  /\ row[c].kept => row'[c].kept
             /\ \/ row'[c].channel = row[c].channel /\ row'[c].expiry = row[c].expiry
                \/ row'[c].channel = NoChannel /\ row'[c].expiry = "none"
             /\ \A h \in Channels : chan[h].state # "unused" =>
                   chan'[h].state # "unused" /\ chan'[h].cal = chan[h].cal
             /\ \A h \in Channels : chan[h].state = "dead" => chan'[h].state = "dead"
  <2>1. CASE reg[g].cal = c  BY <1>2, <2>1, RowMoves, Opens
  <2>2. CASE reg[g].cal # c  BY <1>2, <2>2, OwnBusiness, Opens
  <2> QED  BY <2>1, <2>2
<1>3. ASSUME NEW h \in Channels, Expire(h)
      PROVE  /\ row'[c].channel # NoChannel =>
                   /\ row'[c].kept /\ chan'[row'[c].channel].cal = c
                   /\ chan'[row'[c].channel].state # "unused"
             /\ row'[c].expiry = "none" <=> row'[c].channel = NoChannel
             /\ row'[c].expiry = "past" => chan'[row'[c].channel].state = "dead"
  BY <1>3, <1>c, Expires, ChannelConstants DEF RowNamesOwnChannel
<1>4. CASE UNCHANGED <<row, chan>>  BY <1>4 DEF RowNamesOwnChannel
<1> QED  BY <1>c, <1>1, <1>2, <1>3, <1>4
         DEF ChannelNext, Rewatch, Switch, Restart, watchVars, RowNamesOwnChannel
-------------------------------------------------------------------------------
(* What a step leaves of a calendar that is tidy afterwards.  Either no    *)
(* registration of its own moves, or its only one does.                    *)
Unmoved(c) ==
    /\ \A g \in Registrars : Handles(g, c)' <=> Handles(g, c)
    /\ \A g \in Registrars : Handles(g, c) => reg'[g] = reg[g]
    /\ row'[c].channel = row[c].channel
    /\ c \in enabled' <=> c \in enabled
    /\ LiveOn(c)' \subseteq LiveOn(c)

LEMMA TidyStays ==
    ASSUME ChannelTypeOK, [ChannelNext]_watchVars
    PROVE  untidy \subseteq untidy'
<1>1. ASSUME NEW g \in Registrars, RegisterWatch(g)  PROVE untidy \subseteq untidy'
  BY <1>1, OwnBusiness
<1>2. ASSUME NEW g \in Registrars, NEW c \in Cals, Rewatch(g, c) \/ Switch(g, c)
      PROVE  untidy \subseteq untidy'
  BY <1>2, Starts
<1> QED  BY <1>1, <1>2 DEF ChannelNext, Expire, Restart, watchVars

LEMMA TidyStep ==
    ASSUME ChannelTypeOK, OneAtATime, [ChannelNext]_watchVars, NEW c \in Cals, c \notin untidy'
    PROVE  \/ Unmoved(c)
           \/ \E g \in Registrars : (Rewatch(g, c) \/ Switch(g, c)) /\ ~Busy(c)
           \/ \E g \in Registrars : RegisterWatch(g) /\ Handles(g, c)
<1> USE DEF ChannelTypeOK
<1>t. c \notin untidy  BY TidyStays
<1>1. ASSUME NEW g \in Registrars, RegisterWatch(g), ~Handles(g, c)  PROVE Unmoved(c)
  <2>1. reg[g].cal # c  BY <1>1, OwnBusiness DEF Handles
  <2>2. ~Handles(g, c)'  BY <1>1, <2>1, OwnBusiness DEF Handles
  <2>3. LiveOn(c)' \subseteq LiveOn(c)  BY <1>1, <2>1, Opens
  <2> QED  BY <1>1, <2>1, <2>2, <2>3, OwnBusiness DEF Unmoved, Handles
<1>2. ASSUME NEW g \in Registrars, NEW d \in Cals, Rewatch(g, d) \/ Switch(g, d)
      PROVE  Unmoved(c) \/ (d = c /\ ~Busy(c))
  <2>1. CASE d = c  BY <1>2, <2>1, Starts
  <2>2. CASE d # c  BY <1>2, <2>2, Starts DEF Unmoved, Handles, LiveOn
  <2> QED  BY <2>1, <2>2
<1>3. ASSUME NEW h \in Channels, Expire(h)  PROVE Unmoved(c)
  BY <1>3, Expires DEF Unmoved, Handles, LiveOn
<1>4. CASE Restart
  <2>1. ~Busy(c)  BY <1>4 DEF Restart
  <2> QED  BY <1>4, <2>1, NoRegIsOne DEF Restart, Busy, Unmoved, Handles, LiveOn
<1>5. CASE UNCHANGED watchVars  BY <1>5 DEF watchVars, Unmoved, Handles, LiveOn
<1> QED  BY <1>1, <1>2, <1>3, <1>4, <1>5 DEF ChannelNext

LEMMA OneStep ==
    ASSUME ChannelTypeOK, OneAtATime, [ChannelNext]_watchVars
    PROVE  OneAtATime'
<1> SUFFICES ASSUME NEW c \in Cals, c \notin untidy',
                    NEW g \in Registrars, NEW k \in Registrars, Handles(g, c)', Handles(k, c)'
             PROVE  g = k
  BY DEF OneAtATime
<1>t. c \notin untidy  BY TidyStays
<1>1. CASE Unmoved(c)  BY <1>1, <1>t DEF Unmoved, OneAtATime
<1>2. ASSUME NEW m \in Registrars, Rewatch(m, c) \/ Switch(m, c), ~Busy(c)  PROVE g = k
  BY <1>2, Starts DEF Busy, Handles
<1>3. ASSUME NEW m \in Registrars, RegisterWatch(m), Handles(m, c)  PROVE g = k
  <2>1. \A n \in Registrars : Handles(n, c)' => Handles(n, c)
    BY <1>3, OwnBusiness DEF Handles
  <2> QED  BY <2>1, <1>t DEF OneAtATime
<1> QED  BY <1>1, <1>2, <1>3, TidyStep

(* The one registration of a tidy calendar makes a step.                   *)
LEMMA OwnStep ==
    ASSUME ChannelTypeOK, NEW g \in Registrars, RegisterWatch(g), NEW c \in Cals, Handles(g, c), Follows(g, c),
           c \notin untidy'
    PROVE  IF reg'[g].pc = "idle" THEN AtRest(c)' ELSE Follows(g, c)'
<1> USE DEF ChannelTypeOK
<1>p. reg[g] \in RegStates /\ row[c] \in Rows /\ reg[g].cal = c  BY DEF Handles
<1>l. LiveOn(c) \subseteq Channels  BY DEF LiveOn
<1>e. Ends(g) => reg'[g].pc = "idle"  BY NoRegIsOne DEF Ends
<1>1. CASE LookAtCalendar(g)
  <2>1. reg'[g] = [reg[g] EXCEPT !.pc = "looked", !.sees = reg[g].cal \in enabled]  BY <1>1, RegMoves
  <2>2. reg'[g].pc = "looked" /\ (reg'[g].sees <=> c \in enabled)  BY <1>p, <2>1 DEF RegStates
  <2>3. UNCHANGED <<enabled, row, chan>> /\ reg[g].pc = "begun"  BY <1>1 DEF LookAtCalendar
  <2> QED  BY <2>2, <2>3 DEF Follows, LiveOn
<1>2. CASE ReadRow(g)
  <2>1. UNCHANGED <<enabled, row, chan>> /\ reg[g].pc = "looked"  BY <1>2 DEF ReadRow
  <2>2. CASE ~reg[g].sees /\ row[c].channel = NoChannel /\ Ends(g)
    <3>1. LiveOn(c) = {} /\ c \notin enabled  BY <1>l, <2>1, <2>2, ChannelConstants DEF Follows
    <3> QED  BY <1>e, <2>1, <2>2, <3>1 DEF AtRest, LiveOn
  <2>3. CASE reg' = [reg EXCEPT ![g] = [reg[g] EXCEPT !.pc = "read", !.prior = row[c].channel]]
    <3>1. reg'[g].pc = "read" /\ reg'[g].prior = row[c].channel /\ reg'[g].sees = reg[g].sees
      BY <1>p, <2>3 DEF RegStates
    <3> QED  BY <2>1, <3>1 DEF Follows, LiveOn
  <2> QED  BY <1>2, <1>p, <2>2, <2>3, RegMoves
<1>3. CASE StopChannel(g)
  <2>1. reg'[g] = [reg[g] EXCEPT !.pc = "stopped"]  BY <1>3, RegMoves
  <2>2. reg'[g].pc = "stopped" /\ reg'[g].sees = reg[g].sees  BY <1>p, <2>1 DEF RegStates
  <2>3. UNCHANGED <<enabled, row>> /\ reg[g].pc = "read" /\ chan' = Stopped(reg[g].prior)
    BY <1>3, <1>p DEF StopChannel
  <2>4. LiveOn(c)' = {}
    <3>1. LiveOn(c)' \subseteq LiveOn(c)  BY <1>3, Opens DEF StopChannel, Watch, WatchAnswerLost
    <3>2. LiveOn(c) \subseteq {reg[g].prior}  BY <2>3 DEF Follows
    <3>3. reg[g].prior \in Channels => chan'[reg[g].prior].state = "dead"
      BY <2>3, ChannelConstants DEF Stopped, ChannelStates
    <3> QED  BY <1>l, <3>1, <3>2, <3>3 DEF LiveOn
  <2> QED  BY <2>2, <2>3, <2>4 DEF Follows
<1>4. CASE ClearWatch(g)
  <2>1. UNCHANGED <<enabled, chan>> /\ reg[g].pc = "stopped" /\ ~reg[g].sees  BY <1>4 DEF ClearWatch
  <2> QED  BY <1>4, <1>e, <2>1, RegMoves DEF Follows, AtRest, LiveOn
<1>5. CASE Watch(g)
  <2>1. reg'[g] = [reg[g] EXCEPT !.pc = "watched", !.new = Fresh]  BY <1>5, RegMoves
  <2>2. reg'[g].pc = "watched" /\ reg'[g].new = Fresh /\ reg'[g].sees = reg[g].sees  BY <1>p, <2>1 DEF RegStates
  <2>3. UNCHANGED enabled /\ reg[g].pc = "stopped" /\ reg[g].sees  BY <1>5 DEF Watch
  <2>4. LiveOn(c)' \subseteq {Fresh}  BY <1>p, <2>3, Opens DEF Follows
  <2> QED  BY <2>2, <2>3, <2>4 DEF Follows
<1>6. CASE WatchRefused(g)
  <2>1. UNCHANGED <<enabled, chan>> /\ reg[g].pc = "stopped" /\ reg[g].sees  BY <1>6 DEF WatchRefused
  <2> QED  BY <1>6, <1>e, <2>1, RegMoves DEF Follows, AtRest, LiveOn
<1>7. CASE UpdateWatch(g)
  <2>1. UNCHANGED <<enabled, chan>> /\ reg[g].pc = "watched"  BY <1>7 DEF UpdateWatch
  <2>2. row'[c].channel = reg[g].new
    <3>1. row' = [row EXCEPT ![c] = [row[c] EXCEPT !.channel = reg[g].new, !.expiry = "valid"]]
      BY <1>7, <1>p DEF UpdateWatch
    <3> QED  BY <1>p, <3>1 DEF Rows
  <2> QED  BY <1>7, <1>e, <2>1, <2>2, RegMoves DEF Follows, AtRest, LiveOn
<1>8. ~ReadRowFails(g) /\ ~WatchAnswerLost(g) /\ ~RegisterFails(g)
  BY <1>p DEF ReadRowFails, WatchAnswerLost, RegisterFails
<1> QED  BY <1>1, <1>2, <1>3, <1>4, <1>5, <1>6, <1>7, <1>8 DEF RegisterWatch

LEMMA ProgressStep ==
    ASSUME ChannelTypeOK, OneAtATime, Progress, Settled, [ChannelNext]_watchVars
    PROVE  Progress'
<1> SUFFICES ASSUME NEW c \in Cals, c \notin untidy', NEW g \in Registrars, Handles(g, c)'
             PROVE  Follows(g, c)'
  BY DEF Progress
<1>t. c \notin untidy  BY TidyStays
<1>1. CASE Unmoved(c)
  <2>1. Handles(g, c) /\ reg'[g] = reg[g]  BY <1>1 DEF Unmoved
  <2>2. Follows(g, c)  BY <1>t, <2>1 DEF Progress
  <2> QED  BY <1>1, <2>1, <2>2 DEF Unmoved, Follows
<1>2. ASSUME NEW k \in Registrars, Rewatch(k, c) \/ Switch(k, c), ~Busy(c)  PROVE Follows(g, c)'
  <2>1. g = k  BY <1>2, Starts DEF Busy, Handles
  <2>2. reg'[g].pc = "begun" /\ UNCHANGED <<row, chan>>  BY <1>2, <2>1, Starts
  <2>3. AtRest(c)  BY <1>2, <1>t DEF Settled
  <2> QED  BY <2>2, <2>3 DEF Follows, AtRest, LiveOn
<1>3. ASSUME NEW k \in Registrars, RegisterWatch(k), Handles(k, c)  PROVE Follows(g, c)'
  <2>1. Handles(g, c)  BY <1>3, OwnBusiness DEF Handles
  <2>2. g = k  BY <1>3, <1>t, <2>1 DEF OneAtATime
  <2>3. Follows(k, c)  BY <1>3, <1>t DEF Progress
  <2>4. reg'[g].pc # "idle"  BY DEF Handles
  <2> QED  BY <1>3, <2>2, <2>3, <2>4, OwnStep
<1> QED  BY <1>1, <1>2, <1>3, TidyStep

LEMMA SettledStep ==
    ASSUME ChannelTypeOK, OneAtATime, Progress, Settled, [ChannelNext]_watchVars
    PROVE  Settled'
<1> SUFFICES ASSUME NEW c \in Cals, c \notin untidy', ~Busy(c)'
             PROVE  AtRest(c)'
  BY DEF Settled
<1>t. c \notin untidy  BY TidyStays
<1>1. CASE Unmoved(c)
  <2>1. AtRest(c)  BY <1>1, <1>t DEF Settled, Unmoved, Busy, Handles
  <2> QED  BY <1>1, <2>1 DEF Unmoved, AtRest
<1>2. ASSUME NEW k \in Registrars, Rewatch(k, c) \/ Switch(k, c)  PROVE FALSE
  BY <1>2, Starts DEF Busy
<1>3. ASSUME NEW k \in Registrars, RegisterWatch(k), Handles(k, c)  PROVE AtRest(c)'
  <2>1. Follows(k, c)  BY <1>3, <1>t DEF Progress
  <2>2. reg'[k].pc = "idle"  BY <1>3, OwnBusiness DEF Busy, Handles
  <2> QED  BY <1>3, <2>1, <2>2, OwnStep
<1> QED  BY <1>1, <1>2, <1>3, TidyStep
-------------------------------------------------------------------------------
LEMMA ChannelInvInit == ChannelInit => ChannelInv
<1> SUFFICES ASSUME ChannelInit  PROVE ChannelInv  OBVIOUS
<1>1. ChannelTypeOK  BY ChannelTypeInit
<1>2. \A g \in Registrars : reg[g].pc = "idle"  BY NoRegIsOne DEF ChannelInit
<1>3. \A c \in Cals : LiveOn(c) = {}  BY DEF ChannelInit, LiveOn
<1>4. RowNamesOwnChannel  BY DEF ChannelInit, RowNamesOwnChannel
<1>5. HandsOver /\ OneAtATime /\ Progress  BY <1>2 DEF HandsOver, OneAtATime, Progress, Handles
<1>6. Settled  BY <1>3 DEF Settled, AtRest
<1> QED  BY <1>1, <1>4, <1>5, <1>6 DEF ChannelInv

LEMMA ChannelInvStep == ChannelInv /\ [ChannelNext]_watchVars => ChannelInv'
  BY ChannelTypeStep, RowStep, HandsOverStep, OneStep, ProgressStep, SettledStep DEF ChannelInv

(* Whoever makes sure of a calendar's row, besides the registrations, and  *)
(* whatever fails elsewhere, leaves all this as it is.                     *)
LEMMA EnsureStep ==
    ASSUME ChannelInv, NEW c \in Cals, row' \in {row, Ensure(c)}, UNCHANGED <<enabled, chan, reg, untidy>>,
           Upset \/ UNCHANGED upsets
    PROVE  ChannelInv'
<1> USE DEF ChannelInv
<1>1. upsets' \in 0..MaxUpsets  BY ChannelConstants DEF ChannelTypeOK, Upset
<1>2. /\ row' \in [Cals -> Rows]
      /\ \A d \in Cals : /\ row'[d].channel = row[d].channel /\ row'[d].expiry = row[d].expiry
                         /\ row[d].kept => row'[d].kept
  <2>1. CASE row' = row  BY <2>1 DEF ChannelTypeOK
  <2>2. CASE row' = Ensure(c)
    <3>1. row' = [row EXCEPT ![c] = [row[c] EXCEPT !.kept = TRUE]]  BY <2>2 DEF Ensure
    <3> QED  BY <3>1 DEF ChannelTypeOK, Rows
  <2> QED  BY <2>1, <2>2
<1>3. ChannelTypeOK'  BY <1>1, <1>2 DEF ChannelTypeOK
<1>4. RowNamesOwnChannel'
  <2>1. \A d \in Cals : row[d].channel \in Ids  BY DEF ChannelTypeOK, Rows
  <2> QED  BY <1>2, <2>1 DEF RowNamesOwnChannel
<1>5. HandsOver'
  <2>1. \A g \in Registrars : reg[g].cal \in Cals  BY DEF ChannelTypeOK, RegStates
  <2> QED  BY <1>2, <2>1 DEF HandsOver
<1>6. OneAtATime' /\ Progress' /\ Settled'
  BY <1>2 DEF OneAtATime, Progress, Settled, Handles, Follows, AtRest, Busy, LiveOn
<1> QED  BY <1>3, <1>4, <1>5, <1>6

LEMMA ChannelInvImplies == ChannelInv => RowNamesOwnChannel /\ NoStrayChannel /\ QuietWhenOff
<1> SUFFICES ASSUME ChannelInv  PROVE NoStrayChannel /\ QuietWhenOff  BY DEF ChannelInv
<1>1. NoStrayChannel
  <2> SUFFICES ASSUME NEW c \in Cals, c \notin untidy, NEW h \in LiveOn(c)
               PROVE  \/ row[c].channel = h
                      \/ \E g \in Registrars : reg[g].pc = "watched" /\ reg[g].new = h
    BY DEF NoStrayChannel
  <2>1. CASE ~Busy(c)  BY <2>1 DEF ChannelInv, Settled, AtRest
  <2>2. ASSUME NEW g \in Registrars, Handles(g, c)
        PROVE  row[c].channel = h \/ (reg[g].pc = "watched" /\ reg[g].new = h)
    <3>1. Follows(g, c)  BY <2>2 DEF ChannelInv, Progress
    <3>2. reg[g].pc \in {"begun", "looked", "read", "stopped", "watched"}
      BY <2>2 DEF ChannelInv, ChannelTypeOK, RegStates, Handles
    <3> QED  BY <3>1, <3>2 DEF Follows
  <2> QED  BY <2>1, <2>2 DEF Busy, Handles
<1>2. QuietWhenOff  BY DEF ChannelInv, Settled, AtRest, QuietWhenOff
<1> QED  BY <1>1, <1>2

LEMMA ChannelInvHolds == ChannelSpec => []ChannelInv
  BY ChannelInvInit, ChannelInvStep, PTL DEF ChannelSpec, watchVars

(* Rows, channels and registrations keep their types.                      *)
THEOREM ChannelTypesCorrect == ChannelSpec => []ChannelTypeOK
<1>1. ChannelInv => ChannelTypeOK  BY DEF ChannelInv
<1> QED  BY <1>1, ChannelInvHolds, PTL

(* However registrations overlap, fail and are cut off, UpdateWatch writes *)
(* to a row only channels opened for its own calendar, so that             *)
(* FindByChannel leads to the right one, and ClearWatch forgets the expiry *)
(* with the channel.                                                       *)
THEOREM RowsNameOwnChannels == ChannelSpec => []RowNamesOwnChannel
<1> QED  BY ChannelInvImplies, ChannelInvHolds, PTL

(* RegisterWatch loses no channel by itself: of a calendar whose           *)
(* registrations did not overlap and were not cut off, every live channel  *)
(* is in the row or about to be.                                           *)
THEOREM NoChannelStrays == ChannelSpec => []NoStrayChannel
<1> QED  BY ChannelInvImplies, ChannelInvHolds, PTL

(* Once a calendar is off and its registration done, Google notifies no    *)
(* more: RegisterWatch has stopped the channel it found.                   *)
THEOREM QuietOnceOff == ChannelSpec => []QuietWhenOff
<1> QED  BY ChannelInvImplies, ChannelInvHolds, PTL
-------------------------------------------------------------------------------
(* A pass lists from where nothing was skipped before, leaves out only     *)
(* what is old, and stores a token after the engine has been given what    *)
(* leads up to it and was not left out.                                    *)
Covered(c) == applied[c] \cup passed[c]

OrderOf(a) ==
    /\ pass[a].at \in {"listed", "applied"} =>
          /\ 1..pass[a].from \subseteq Covered(pass[a].cal)
          /\ pass[a].unlisted \subseteq old[pass[a].cal]
    /\ pass[a].at = "applied" =>
          1..pass[a].upto \subseteq Covered(pass[a].cal) \cup pass[a].unlisted

InOrder == \A a \in Accounts : OrderOf(a)

WorkerTypeOK ==
    /\ version \in [Cals -> 1..MaxChanges]
    /\ old \in [Cals -> SUBSET (1..MaxChanges)]
    /\ poll \in [Cals -> Polls]
    /\ queue \in [Accounts -> Seq(Cals \cup {All})]
    /\ \A a \in Accounts : Len(queue[a]) <= QueueMax
    /\ pass \in [Accounts -> Passes]
    /\ timer \subseteq Cals
    /\ applied \in [Cals -> SUBSET (1..MaxChanges)]
    /\ passed \in [Cals -> SUBSET (1..MaxChanges)]
    /\ shown \in [Cals -> 0..MaxChanges]

Inv == WorkerTypeOK /\ NothingSkipped /\ InOrder
-------------------------------------------------------------------------------
(* The channels in the composition: every step is one of theirs, or makes  *)
(* sure of a row.                                                          *)
LEMMA ChannelsInit == Init => ChannelInv
  BY ChannelInvInit DEF Init

LEMMA ChannelsStep ==
    ASSUME ChannelInv, WorkerTypeOK, [Next]_vars
    PROVE  ChannelInv'
<1>1. ASSUME [ChannelNext]_watchVars  PROVE ChannelInv'
  BY <1>1, ChannelInvStep
<1>2. ASSUME NEW c \in Cals, row' \in {row, Ensure(c)}, UNCHANGED <<enabled, chan, reg, untidy>>,
             Upset \/ UNCHANGED upsets
      PROVE  ChannelInv'
  BY <1>2, EnsureStep
<1>c. PICK any \in Cals : TRUE  BY WatchAssumption DEF WatchAssumption
<1>3. CASE UNCHANGED watchVars  BY <1>1, <1>3
<1>4. ASSUME NEW g \in Registrars, NEW c \in Cals, Toggle(g, c)  PROVE ChannelInv'
  BY <1>1, <1>4 DEF Toggle, ChannelNext
<1>5. CASE Channelling  BY <1>1, <1>5 DEF Channelling, ChannelNext
<1>6. CASE Crash  BY <1>1, <1>6 DEF Crash, ChannelNext
<1>7. ASSUME NEW a \in Accounts, Work(a)  PROVE ChannelInv'
  <2>1. CASE Take(a) \/ SaveToken(a) \/ TimesOut(a)
    <3>1. UNCHANGED <<enabled, row, chan, reg, untidy>> /\ (Upset \/ UNCHANGED upsets)
      BY <2>1 DEF Take, SaveToken, TimesOut
    <3> QED  BY <3>1, <1>2, <1>c
  <2>2. ASSUME NEW c \in pass[a].todo, List(a, c) \/ ListFails(a, c)  PROVE ChannelInv'
    <3>1. /\ row' \in {row, Ensure(c)} /\ UNCHANGED <<enabled, chan, reg, untidy>>
          /\ Upset \/ UNCHANGED upsets
      BY <2>2 DEF List, ListFails
    <3>2. c \in Cals  BY DEF WorkerTypeOK, Passes
    <3> QED  BY <3>1, <3>2, <1>2
  <2>3. CASE ProcessChanges(a)  BY <1>3, <2>3 DEF ProcessChanges
  <2> QED  BY <1>7, <2>1, <2>2, <2>3 DEF Work
<1> QED  BY <1>3, <1>4, <1>5, <1>6, <1>7
         DEF Next, vars, Change, GoBy, Age, SyncNow, Poll, Recompute, Webhook, RefreshAccount
-------------------------------------------------------------------------------
(* The queues, the passes and the tokens.                                  *)
LEMMA NoPassIsOne == NoPass \in Passes /\ NoPass.at = "idle"
<1>1. AnyCal \in Cals  BY WatchAssumption DEF AnyCal, WatchAssumption
<1> QED  BY <1>1, WorkerAssumption DEF NoPass, Passes

LEMMA WorkerInit == Init => Inv
<1> SUFFICES ASSUME Init  PROVE Inv  OBVIOUS
<1>1. WorkerTypeOK
  BY NoPassIsOne, WorkerAssumption DEF Init, WorkerTypeOK, Polls
<1>2. NothingSkipped /\ InOrder  BY NoPassIsOne DEF Init, NothingSkipped, InOrder, OrderOf
<1> QED  BY <1>1, <1>2 DEF Inv

(* A full queue stays as it is, another grows by one job.                  *)
LEMMA QueueGrows ==
    ASSUME WorkerTypeOK, NEW a \in Accounts, NEW j \in Cals \cup {All}, Enqueue(a, j)
    PROVE  /\ queue' \in [Accounts -> Seq(Cals \cup {All})]
           /\ \A b \in Accounts : Len(queue'[b]) <= QueueMax
<1>1. CASE Len(queue[a]) < QueueMax
  <2>1. queue' = [queue EXCEPT ![a] = Append(queue[a], j)]  BY <1>1 DEF Enqueue
  <2>2. queue[a] \in Seq(Cals \cup {All})  BY DEF WorkerTypeOK
  <2>3. /\ Append(queue[a], j) \in Seq(Cals \cup {All})
        /\ Len(Append(queue[a], j)) = Len(queue[a]) + 1 /\ Len(queue[a]) \in Nat
    BY <2>2
  <2>4. Len(Append(queue[a], j)) <= QueueMax  BY <1>1, <2>3, WorkerAssumption
  <2> QED  BY <2>1, <2>3, <2>4 DEF WorkerTypeOK
<1>2. CASE ~(Len(queue[a]) < QueueMax)  BY <1>2 DEF Enqueue, WorkerTypeOK
<1> QED  BY <1>1, <1>2

LEMMA QueueStep ==
    ASSUME WorkerTypeOK, [Next]_vars
    PROVE  /\ queue' \in [Accounts -> Seq(Cals \cup {All})]
           /\ \A b \in Accounts : Len(queue'[b]) <= QueueMax
<1>1. CASE UNCHANGED queue  BY <1>1 DEF WorkerTypeOK
<1>2. ASSUME NEW c \in Cals, EnqueueCalendar(c)
      PROVE  /\ queue' \in [Accounts -> Seq(Cals \cup {All})]
             /\ \A b \in Accounts : Len(queue'[b]) <= QueueMax
  BY <1>2, QueueGrows, WorkerAssumption DEF EnqueueCalendar
<1>3. ASSUME NEW a \in Accounts, RefreshAccount(a)
      PROVE  /\ queue' \in [Accounts -> Seq(Cals \cup {All})]
             /\ \A b \in Accounts : Len(queue'[b]) <= QueueMax
  BY <1>3, QueueGrows DEF RefreshAccount
<1>4. ASSUME NEW a \in Accounts, Take(a)
      PROVE  /\ queue' \in [Accounts -> Seq(Cals \cup {All})]
             /\ \A b \in Accounts : Len(queue'[b]) <= QueueMax
  <2>1. queue' = [queue EXCEPT ![a] = Tail(queue[a])] /\ queue[a] # <<>>  BY <1>4 DEF Take
  <2>2. queue[a] \in Seq(Cals \cup {All}) /\ Len(queue[a]) <= QueueMax  BY DEF WorkerTypeOK
  <2>3. Tail(queue[a]) \in Seq(Cals \cup {All}) /\ Len(Tail(queue[a])) = Len(queue[a]) - 1
        /\ Len(queue[a]) \in Nat
    BY <2>1, <2>2
  <2>4. Len(Tail(queue[a])) <= QueueMax  BY <2>2, <2>3, WorkerAssumption
  <2> QED  BY <2>1, <2>3, <2>4 DEF WorkerTypeOK
<1>5. CASE Crash
  <2>1. <<>> \in Seq(Cals \cup {All}) /\ Len(<<>>) <= QueueMax  BY WorkerAssumption
  <2> QED  BY <1>5, <2>1 DEF Crash
<1> QED  BY <1>1, <1>2, <1>3, <1>4, <1>5
         DEF Next, vars, volatile, Work, Change, GoBy, Age, SyncNow, Poll, Recompute, Webhook, Toggle, List, ListFails,
             ProcessChanges, SaveToken, TimesOut, Channelling

(* What a step makes of a worker's pass, and of what is stored and known   *)
(* of its calendar.                                                        *)
LEMMA RestIsPass ==
    ASSUME NEW p \in Passes, NEW c
    PROVE  Rest(p, c) \in Passes /\ Rest(p, c).at \in {"idle", "next"}
<1>1. [NoPass EXCEPT !.at = "next", !.todo = p.todo \ {c}] \in Passes
  <2>1. p.todo \ {c} \in SUBSET Cals  BY DEF Passes
  <2> QED  BY <2>1, NoPassIsOne DEF Passes
<1>2. [NoPass EXCEPT !.at = "next", !.todo = p.todo \ {c}].at = "next"  BY DEF NoPass
<1> QED  BY <1>1, <1>2, NoPassIsOne DEF Rest

LEMMA PassMoves ==
    ASSUME WorkerTypeOK, enabled \subseteq Cals, NEW a \in Accounts, Work(a)
    PROVE  /\ \A b \in Accounts \ {a} : pass'[b] = pass[b]
           /\ pass' \in [Accounts -> Passes]
           /\ \/ pass'[a].at \in {"idle", "next"} \/ pass'[a] = pass[a]
              \/ /\ pass'[a].at = "listed" /\ pass'[a].from \in {poll[pass'[a].cal].token, 0}
                 /\ pass'[a].unlisted \subseteq old[pass'[a].cal]
              \/ /\ ProcessChanges(a) /\ pass'[a].at = "applied" /\ pass'[a].cal = pass[a].cal
                 /\ pass'[a].from = pass[a].from /\ pass'[a].upto = pass[a].upto
                 /\ pass'[a].unlisted = pass[a].unlisted
           /\ ~ProcessChanges(a) => UNCHANGED applied
<1>p. pass \in [Accounts -> Passes] /\ pass[a] \in Passes  BY DEF WorkerTypeOK
<1>a. ~ProcessChanges(a) => UNCHANGED applied
  BY DEF Work, Take, List, ListFails, SaveToken, TimesOut, known
<1>m. ASSUME NEW x \in Passes, pass' = [pass EXCEPT ![a] = x]
      PROVE  /\ \A b \in Accounts \ {a} : pass'[b] = pass[b]
             /\ pass' \in [Accounts -> Passes] /\ pass'[a] = x
  BY <1>m, <1>p
<1>1. CASE Take(a)
  <2>1. CASE UNCHANGED pass  BY <2>1, <1>p, <1>a, <1>1 DEF Take, ProcessChanges
  <2>2. CASE ~UNCHANGED pass
    <3> DEFINE todo == Wanted(a, Head(queue[a]))
               x == [NoPass EXCEPT !.at = "next", !.todo = todo]
    <3>1. pass' = [pass EXCEPT ![a] = x]  BY <1>1, <2>2 DEF Take
    <3>2. todo \in SUBSET Cals  BY DEF Wanted
    <3>3. x \in Passes /\ x.at = "next"
      <4> HIDE DEF todo
      <4> QED  BY <3>2, NoPassIsOne DEF Passes
    <3>4. ~ProcessChanges(a)  BY <1>1 DEF Take, ProcessChanges
    <3> QED  BY <1>a, <1>m, <3>1, <3>3, <3>4
  <2> QED  BY <2>1, <2>2
<1>2. ASSUME NEW c \in pass[a].todo, List(a, c)
      PROVE  /\ \A b \in Accounts \ {a} : pass'[b] = pass[b]
             /\ pass' \in [Accounts -> Passes]
             /\ pass'[a].at = "listed" /\ pass'[a].from \in {poll[pass'[a].cal].token, 0}
             /\ pass'[a].unlisted \subseteq old[pass'[a].cal]
  <2>1. c \in Cals /\ version[c] \in 0..MaxChanges /\ poll[c].token \in 0..MaxChanges /\ 0 \in 0..MaxChanges
    <3>1. c \in Cals  BY <1>p DEF Passes
    <3>2. poll[c] \in Polls /\ version[c] \in 1..MaxChanges  BY <3>1 DEF WorkerTypeOK
    <3>3. poll[c].token \in 0..MaxChanges  BY <3>2 DEF Polls
    <3> QED  BY <3>1, <3>2, <3>3, WorkerAssumption
  <2>2. PICK l \in Listings(c) :
           pass' = [pass EXCEPT ![a] = [pass[a] EXCEPT !.at = "listed", !.cal = c, !.from = l.from,
                                                       !.upto = version[c], !.unlisted = l.unlisted]]
    BY <1>2 DEF List
  <2>3. l.from \in {poll[c].token, 0} /\ l.unlisted \subseteq old[c]
    BY <2>2 DEF Listings
  <2>4. l.from \in 0..MaxChanges /\ l.unlisted \in SUBSET (1..MaxChanges)
    BY <2>1, <2>3 DEF WorkerTypeOK
  <2> DEFINE x == [pass[a] EXCEPT !.at = "listed", !.cal = c, !.from = l.from,
                                  !.upto = version[c], !.unlisted = l.unlisted]
  <2>5. /\ x \in Passes /\ x.at = "listed" /\ x.cal = c
        /\ x.from = l.from /\ x.unlisted = l.unlisted
    BY <1>p, <2>1, <2>4 DEF Passes
  <2> HIDE DEF x
  <2>6. pass' = [pass EXCEPT ![a] = x]  BY <2>2 DEF x
  <2> QED  BY <1>m, <2>3, <2>5, <2>6
<1>3. ASSUME NEW c \in pass[a].todo, ListFails(a, c)
      PROVE  /\ \A b \in Accounts \ {a} : pass'[b] = pass[b]
             /\ pass' \in [Accounts -> Passes] /\ pass'[a].at \in {"idle", "next"}
  <2>1. pass' = [pass EXCEPT ![a] = Rest(pass[a], c)]  BY <1>3 DEF ListFails
  <2> QED  BY <1>m, <1>p, <2>1, RestIsPass
<1>4. CASE ProcessChanges(a)
  <2> DEFINE x == [pass[a] EXCEPT !.at = "applied"]
  <2>1. pass' = [pass EXCEPT ![a] = x]  BY <1>4 DEF ProcessChanges
  <2>2. /\ x \in Passes /\ x.at = "applied" /\ x.cal = pass[a].cal
        /\ x.from = pass[a].from /\ x.upto = pass[a].upto /\ x.unlisted = pass[a].unlisted
    BY <1>p DEF Passes
  <2> HIDE DEF x
  <2> QED  BY <1>4, <1>a, <1>m, <2>1, <2>2
<1>5. CASE SaveToken(a)
  <2>1. pass' = [pass EXCEPT ![a] = Rest(pass[a], pass[a].cal)]  BY <1>5 DEF SaveToken
  <2> QED  BY <1>a, <1>m, <1>p, <1>5, <2>1, RestIsPass DEF SaveToken, ProcessChanges
<1>6. CASE TimesOut(a)
  <2>1. pass' = [pass EXCEPT ![a] = NoPass] /\ UNCHANGED applied  BY <1>6 DEF TimesOut, known
  <2> QED  BY <1>m, <2>1, NoPassIsOne
<1>7. ASSUME NEW c \in pass[a].todo, List(a, c) \/ ListFails(a, c)
      PROVE  UNCHANGED applied
  BY <1>7 DEF List, ListFails, known
<1> QED  BY <1>1, <1>2, <1>3, <1>4, <1>5, <1>6, <1>7 DEF Work

(* What the engine was given only grows; a stored token is an old one, or  *)
(* the listing's.                                                          *)
LEMMA Given ==
    ASSUME WorkerTypeOK, enabled \subseteq Cals, [Next]_vars
    PROVE  /\ applied' \in [Cals -> SUBSET (1..MaxChanges)]
           /\ \A c \in Cals : applied[c] \subseteq applied'[c]
           /\ \A a \in Accounts : ProcessChanges(a) =>
                 Brought(pass[a]) \subseteq applied'[pass[a].cal]
<1>1. ASSUME NEW a \in Accounts, ProcessChanges(a)
      PROVE  /\ applied' \in [Cals -> SUBSET (1..MaxChanges)]
             /\ \A c \in Cals : applied[c] \subseteq applied'[c]
             /\ Brought(pass[a]) \subseteq applied'[pass[a].cal]
  <2> DEFINE p == pass[a]
             new == Brought(p)
  <2>1. p.cal \in Cals /\ p.from \in 0..MaxChanges /\ p.upto \in 0..MaxChanges
    <3>1. pass[a] \in Passes  BY DEF WorkerTypeOK
    <3> QED  BY <3>1 DEF Passes
  <2>2. new \subseteq 1..MaxChanges  BY <2>1, WorkerAssumption DEF Brought
  <2>3. applied' = [applied EXCEPT ![p.cal] = applied[p.cal] \cup new]  BY <1>1 DEF ProcessChanges
  <2> HIDE DEF new, p
  <2>4. /\ applied' \in [Cals -> SUBSET (1..MaxChanges)]
        /\ \A c \in Cals : applied[c] \subseteq applied'[c]
        /\ new \subseteq applied'[p.cal]
    BY <2>1, <2>2, <2>3 DEF WorkerTypeOK
  <2> QED  BY <2>4 DEF new, p
<1>2. CASE UNCHANGED applied /\ \A a \in Accounts : ~ProcessChanges(a)  BY <1>2 DEF WorkerTypeOK
<1>3. UNCHANGED applied \/ \E a \in Accounts : ProcessChanges(a)
  BY PassMoves DEF Next, vars, known, Change, GoBy, Age, SyncNow, Poll, Recompute, Webhook, Toggle, RefreshAccount,
         Channelling, Crash
<1> QED  BY <1>1, <1>3 DEF WorkerTypeOK

(* What counts as passed over grows by what a listing seen through left    *)
(* out, and no event becomes young again.                                  *)
LEMMA PassedOver ==
    ASSUME WorkerTypeOK, [Next]_vars
    PROVE  /\ passed' \in [Cals -> SUBSET (1..MaxChanges)]
           /\ old' \in [Cals -> SUBSET (1..MaxChanges)]
           /\ \A c \in Cals :
                 /\ passed[c] \subseteq passed'[c] /\ old[c] \subseteq old'[c]
                 /\ \A n \in passed'[c] \ passed[c] : \E a \in Accounts :
                       pass[a].at = "applied" /\ pass[a].cal = c /\ n \in pass[a].unlisted
<1>1. ASSUME NEW a \in Accounts, SaveToken(a), ~UNCHANGED passed
      PROVE  /\ passed' \in [Cals -> SUBSET (1..MaxChanges)]
             /\ \A c \in Cals :
                   /\ passed[c] \subseteq passed'[c]
                   /\ \A n \in passed'[c] \ passed[c] :
                         pass[a].at = "applied" /\ pass[a].cal = c /\ n \in pass[a].unlisted
  <2> DEFINE d == pass[a].cal
             more == pass[a].unlisted \ applied[d]
  <2>1. d \in Cals /\ pass[a].unlisted \subseteq 1..MaxChanges
    <3>1. pass[a] \in Passes  BY DEF WorkerTypeOK
    <3> QED  BY <3>1 DEF Passes
  <2>2. passed' = [passed EXCEPT ![d] = passed[d] \cup more] /\ pass[a].at = "applied"
    BY <1>1 DEF SaveToken
  <2> QED  BY <2>1, <2>2 DEF WorkerTypeOK
<1>2. UNCHANGED passed \/ \E a \in Accounts : SaveToken(a)
  BY DEF Next, vars, known, Work, Change, GoBy, Age, SyncNow, Poll, Recompute, Webhook, Toggle, RefreshAccount,
         Take, List, ListFails, ProcessChanges, TimesOut, Channelling, Crash
<1>3. ASSUME NEW c \in Cals, NEW n \in 1..MaxChanges, GoBy(c, n)
      PROVE  /\ old' \in [Cals -> SUBSET (1..MaxChanges)]
             /\ \A d \in Cals : old[d] \subseteq old'[d]
  <2>1. old' = [old EXCEPT ![c] = old[c] \cup {n}]  BY <1>3 DEF GoBy
  <2> QED  BY <2>1 DEF WorkerTypeOK
<1>4. UNCHANGED old \/ \E c \in Cals, n \in 1..MaxChanges : GoBy(c, n)
  BY DEF Next, vars, google, Work, Change, Age, SyncNow, Poll, Recompute, Webhook, Toggle, RefreshAccount,
         Take, List, ListFails, ProcessChanges, SaveToken, TimesOut, Channelling, Crash
<1>5. /\ passed' \in [Cals -> SUBSET (1..MaxChanges)]
      /\ \A c \in Cals :
            /\ passed[c] \subseteq passed'[c]
            /\ \A n \in passed'[c] \ passed[c] : \E a \in Accounts :
                  pass[a].at = "applied" /\ pass[a].cal = c /\ n \in pass[a].unlisted
  BY <1>1, <1>2 DEF WorkerTypeOK
<1>6. old' \in [Cals -> SUBSET (1..MaxChanges)] /\ \A c \in Cals : old[c] \subseteq old'[c]
  BY <1>3, <1>4 DEF WorkerTypeOK
<1> QED  BY <1>5, <1>6

LEMMA Stores ==
    ASSUME WorkerTypeOK, [Next]_vars, NEW c \in Cals
    PROVE  /\ poll'[c] \in Polls
           /\ \/ poll'[c].token = poll[c].token
              \/ \E a \in Accounts : /\ pass[a].at = "applied" /\ pass[a].cal = c
                                     /\ poll'[c].token = pass[a].upto
                                     /\ pass[a].unlisted \subseteq Covered(c)'
<1>p. poll \in [Cals -> Polls] /\ poll[c] \in Polls  BY DEF WorkerTypeOK
<1>1. ASSUME NEW d \in Cals, Age(d)  PROVE poll'[c] \in Polls /\ poll'[c].token = poll[c].token
  <2>1. poll' = [poll EXCEPT ![d] = [poll[d] EXCEPT !.last = "long ago"]]  BY <1>1 DEF Age
  <2>2. poll'[c] \in {poll[c], [poll[c] EXCEPT !.last = "long ago"]}  BY <2>1, <1>p
  <2> QED  BY <2>2, <1>p DEF Polls
<1>2. ASSUME NEW a \in Accounts, SaveToken(a)
      PROVE  /\ poll'[c] \in Polls
             /\ \/ poll'[c].token = poll[c].token
                \/ /\ pass[a].at = "applied" /\ pass[a].cal = c /\ poll'[c].token = pass[a].upto
                   /\ pass[a].unlisted \subseteq Covered(c)'
  <2>1. CASE UNCHANGED poll \/ pass[a].cal # c  BY <1>2, <1>p, <2>1 DEF SaveToken, Stored
  <2>2. CASE ~UNCHANGED poll /\ pass[a].cal = c
    <3>1. PICK token \in {pass[a].upto, poll[c].token} :
             poll' = [poll EXCEPT ![c] = [token |-> token, last |-> "recently"]]
      BY <1>2, <2>2 DEF SaveToken, Stored, NewTokens
    <3>2. pass[a].upto \in 0..MaxChanges /\ poll[c].token \in 0..MaxChanges
      BY <1>p DEF WorkerTypeOK, Passes, Polls
    <3>3. poll'[c] = [token |-> token, last |-> "recently"]  BY <3>1, <1>p
    <3>4. token \in 0..MaxChanges  BY <3>1, <3>2
    <3>5. poll'[c] \in Polls /\ poll'[c].token = token  BY <3>3, <3>4 DEF Polls
    <3>6. pass[a].unlisted \subseteq Covered(c)'
      <4>1. /\ passed' = [passed EXCEPT ![c] = passed[c] \cup (pass[a].unlisted \ applied[c])]
            /\ UNCHANGED applied
        BY <1>2, <2>2 DEF SaveToken
      <4> QED  BY <4>1 DEF WorkerTypeOK, Covered
    <3> QED  BY <1>2, <2>2, <3>1, <3>5, <3>6 DEF SaveToken
  <2> QED  BY <2>1, <2>2
<1>3. CASE UNCHANGED poll  BY <1>3, <1>p
<1> QED  BY <1>1, <1>2, <1>3
         DEF Next, vars, Work, Change, GoBy, SyncNow, Poll, Recompute, Webhook, Toggle, RefreshAccount, Take, List,
             ListFails, ProcessChanges, TimesOut, Channelling, Crash

LEMMA WorkerTypeStep ==
    ASSUME WorkerTypeOK, enabled \subseteq Cals, [Next]_vars
    PROVE  WorkerTypeOK'
<1>1. version' \in [Cals -> 1..MaxChanges]
  <2>1. ASSUME NEW c \in Cals, Change(c)  PROVE version' \in [Cals -> 1..MaxChanges]
    <3>1. version[c] \in 1..MaxChanges  BY DEF WorkerTypeOK
    <3>2. version[c] + 1 \in 1..MaxChanges  BY <2>1, <3>1, WorkerAssumption DEF Change
    <3> QED  BY <2>1, <3>2 DEF Change, WorkerTypeOK
  <2>2. CASE UNCHANGED version  BY <2>2 DEF WorkerTypeOK
  <2> QED  BY <2>1, <2>2
           DEF Next, vars, google, Work, GoBy, Age, SyncNow, Poll, Recompute, Webhook, Toggle, RefreshAccount, Take, List,
               ListFails, ProcessChanges, SaveToken, TimesOut, Channelling, Crash
<1>2. poll' \in [Cals -> Polls]
  <2>1. DOMAIN poll' = Cals /\ poll' = [c \in Cals |-> poll'[c]]
    BY DEF WorkerTypeOK, Next, vars, Work, Change, GoBy, Age, SyncNow, Poll, Recompute, Webhook, Toggle,
           RefreshAccount, Take, List, ListFails, ProcessChanges, SaveToken, Stored, TimesOut, Channelling, Crash
  <2> QED  BY <2>1, Stores
<1>3. pass' \in [Accounts -> Passes]
  BY PassMoves, NoPassIsOne
     DEF WorkerTypeOK, Next, vars, volatile, Change, GoBy, Age, SyncNow, Poll, Recompute, Webhook, Toggle, RefreshAccount,
         Channelling, Crash
<1>4. timer' \subseteq Cals
  <2>1. \A a \in Accounts : pass[a].cal \in Cals  BY DEF WorkerTypeOK, Passes
  <2>2. timer \subseteq Cals  BY DEF WorkerTypeOK
  <2>3. ASSUME NEW a \in Accounts, Work(a)  PROVE timer' \subseteq Cals
    <3>1. CASE SaveToken(a)  BY <2>1, <2>2, <3>1 DEF SaveToken, Arms
    <3>2. CASE TimesOut(a)  BY <2>1, <2>2, <3>2 DEF TimesOut
    <3> QED  BY <2>2, <2>3, <3>1, <3>2 DEF Work, Take, List, ListFails, ProcessChanges
  <2> QED  BY <2>2, <2>3
           DEF Next, vars, volatile, Change, GoBy, Age, SyncNow, Poll, Recompute, Webhook, Toggle, RefreshAccount,
               Channelling, Crash
<1>5. shown' \in [Cals -> 0..MaxChanges]
  <2>1. ASSUME NEW c \in Cals, Recompute(c)  PROVE shown' \in [Cals -> 0..MaxChanges]
    <3>1. version[c] \in 0..MaxChanges /\ shown' = [shown EXCEPT ![c] = version[c]]
      BY <2>1, WorkerAssumption DEF Recompute, WorkerTypeOK
    <3> QED  BY <3>1 DEF WorkerTypeOK
  <2>2. CASE UNCHANGED shown  BY <2>2 DEF WorkerTypeOK
  <2> QED  BY <2>1, <2>2
           DEF Next, vars, known, Work, Change, GoBy, Age, SyncNow, Poll, Webhook, Toggle,
               RefreshAccount, Take, List, ListFails, ProcessChanges, SaveToken, TimesOut, Channelling, Crash
<1> QED  BY <1>1, <1>2, <1>3, <1>4, <1>5, QueueStep, Given, PassedOver DEF WorkerTypeOK

LEMMA OrderStep ==
    ASSUME WorkerTypeOK, enabled \subseteq Cals, NothingSkipped, InOrder, [Next]_vars
    PROVE  NothingSkipped' /\ InOrder'
<1>g. \A c \in Cals : Covered(c) \subseteq Covered(c)' /\ old[c] \subseteq old'[c]
  BY Given, PassedOver DEF Covered
<1>p. \A a \in Accounts : /\ pass[a].cal \in Cals
                          /\ pass[a].from \in 0..MaxChanges /\ pass[a].upto \in 0..MaxChanges
  <2>1. \A a \in Accounts : pass[a] \in Passes  BY DEF WorkerTypeOK
  <2> QED  BY <2>1 DEF Passes
<1>s. \A c \in Cals : 1..poll[c].token \subseteq Covered(c) /\ passed[c] \subseteq old[c]
  BY DEF NothingSkipped, Covered
<1>1. NothingSkipped'
  <2> SUFFICES ASSUME NEW c \in Cals
               PROVE  1..poll'[c].token \subseteq Covered(c)' /\ passed'[c] \subseteq old'[c]
    BY DEF NothingSkipped, Covered
  <2>1. 1..poll'[c].token \subseteq Covered(c)'
    <3>1. CASE poll'[c].token = poll[c].token  BY <1>g, <1>s, <3>1
    <3>2. ASSUME NEW a \in Accounts, pass[a].at = "applied", pass[a].cal = c,
                 poll'[c].token = pass[a].upto, pass[a].unlisted \subseteq Covered(c)'
          PROVE  1..poll'[c].token \subseteq Covered(c)'
      <4>1. 1..pass[a].upto \subseteq Covered(c) \cup pass[a].unlisted  BY <3>2 DEF InOrder, OrderOf
      <4> QED  BY <1>g, <3>2, <4>1
    <3> QED  BY <3>1, <3>2, Stores
  <2>2. passed'[c] \subseteq old'[c]
    <3>1. \A n \in passed'[c] \ passed[c] : n \in old[c]
      BY PassedOver DEF InOrder, OrderOf
    <3> QED  BY <1>g, <1>s, <3>1
  <2> QED  BY <2>1, <2>2
<1>2. InOrder'
  <2> SUFFICES ASSUME NEW b \in Accounts  PROVE OrderOf(b)'  BY DEF InOrder
  <2>o. OrderOf(b)  BY DEF InOrder
  <2>1. CASE pass'[b] = pass[b]
    <3>1. pass[b].cal \in Cals  BY <1>p
    <3>2. Covered(pass[b].cal) \subseteq Covered(pass[b].cal)' /\ old[pass[b].cal] \subseteq old'[pass[b].cal]
      <4>1. /\ applied[pass[b].cal] \cup passed[pass[b].cal]
                  \subseteq applied'[pass[b].cal] \cup passed'[pass[b].cal]
            /\ old[pass[b].cal] \subseteq old'[pass[b].cal]
        BY <1>g, <3>1 DEF Covered
      <4> QED  BY <2>1, <4>1 DEF Covered
    <3> QED  BY <2>1, <2>o, <3>2 DEF OrderOf
  <2>2. CASE pass'[b].at \in {"idle", "next"}  BY <2>2 DEF OrderOf
  <2>3. CASE /\ pass'[b].at = "listed" /\ pass'[b].from \in {poll[pass'[b].cal].token, 0}
             /\ pass'[b].unlisted \subseteq old[pass'[b].cal] /\ pass'[b].cal \in Cals
    <3>1. 1..pass'[b].from \subseteq Covered(pass[b].cal)'
      <4>1. CASE pass'[b].from = 0  BY <4>1
      <4>2. CASE pass'[b].from = poll[pass'[b].cal].token
        <5>1. 1..pass'[b].from \subseteq applied[pass'[b].cal] \cup passed[pass'[b].cal]
          BY <2>3, <4>2 DEF NothingSkipped
        <5>2. applied[pass'[b].cal] \cup passed[pass'[b].cal] \subseteq applied'[pass'[b].cal] \cup passed'[pass'[b].cal]
          BY <2>3, <1>g DEF Covered
        <5> QED  BY <5>1, <5>2 DEF Covered
      <4> QED  BY <2>3, <4>1, <4>2
    <3>2. pass'[b].unlisted \subseteq old'[pass'[b].cal]  BY <2>3, <1>g
    <3> QED  BY <2>3, <3>1, <3>2 DEF OrderOf
  <2>4. CASE /\ ProcessChanges(b) /\ pass'[b].at = "applied" /\ pass'[b].cal = pass[b].cal
             /\ pass'[b].from = pass[b].from /\ pass'[b].upto = pass[b].upto
             /\ pass'[b].unlisted = pass[b].unlisted
    <3> DEFINE now == applied'[pass[b].cal] \cup passed'[pass[b].cal]
    <3>0. Covered(pass[b].cal) \subseteq now /\ old[pass[b].cal] \subseteq old'[pass[b].cal]
      BY <1>g, <1>p DEF Covered
    <3>1. 1..pass[b].from \subseteq now /\ pass[b].unlisted \subseteq old'[pass[b].cal]
      BY <2>4, <2>o, <3>0 DEF ProcessChanges, OrderOf
    <3>2. Brought(pass[b]) \subseteq now  BY <2>4, Given
    <3>3. 1..pass[b].upto \subseteq (1..pass[b].from) \cup Brought(pass[b]) \cup pass[b].unlisted
      BY <1>p, WorkerAssumption DEF Brought
    <3>4. Covered(pass[b].cal)' = now  BY <2>4 DEF Covered
    <3> HIDE DEF now
    <3> QED  BY <2>4, <3>1, <3>2, <3>3, <3>4 DEF OrderOf
  <2>5. CASE pass' = pass  BY <2>1, <2>5
  <2>6. CASE Crash  BY <2>2, <2>6, NoPassIsOne DEF Crash
  <2>7. ASSUME NEW a \in Accounts, Work(a)  PROVE OrderOf(b)'
    <3>1. CASE a # b  BY <2>1, <2>7, <3>1, PassMoves
    <3>2. CASE a = b
      <4>1. pass'[b].cal \in Cals  BY <2>7, PassMoves DEF Passes
      <4> QED  BY <2>1, <2>2, <2>3, <2>4, <2>7, <3>2, <4>1, PassMoves
    <3> QED  BY <3>1, <3>2
  <2> QED  BY <2>5, <2>6, <2>7
           DEF Next, vars, volatile, Change, GoBy, Age, SyncNow, Poll, Recompute, Webhook, Toggle, RefreshAccount,
               Channelling
<1> QED  BY <1>1, <1>2
-------------------------------------------------------------------------------
LEMMA InvHolds == Spec => [](ChannelInv /\ Inv)
<1>1. Init => ChannelInv /\ Inv  BY ChannelsInit, WorkerInit
<1>2. (ChannelInv /\ Inv) /\ [Next]_vars => (ChannelInv /\ Inv)'
  <2> SUFFICES ASSUME ChannelInv, Inv, [Next]_vars  PROVE ChannelInv' /\ Inv'  OBVIOUS
  <2>1. enabled \subseteq Cals  BY DEF ChannelInv, ChannelTypeOK
  <2>2. ChannelInv'  BY ChannelsStep DEF Inv
  <2>3. Inv'  BY <2>1, WorkerTypeStep, OrderStep DEF Inv
  <2> QED  BY <2>2, <2>3
<1> QED  BY <1>1, <1>2, PTL DEF Spec

(* The rows, queues, passes and timers keep their types.                   *)
THEOREM TypeCorrect == Spec => []TypeOK
<1>1. ChannelInv /\ Inv => TypeOK  BY DEF ChannelInv, Inv, WorkerTypeOK, TypeOK
<1> QED  BY <1>1, InvHolds, PTL

(* syncCalendar stores a sync token only after ProcessChanges has given    *)
(* the engine every listed change up to it: with listings, writes and      *)
(* passes cut off anywhere, tokens refused and the program killed, the     *)
(* only changes skipped are those of events that ended before yesterday    *)
(* when a listing without a token was made.                                *)
THEOREM NoChangeSkipped == Spec => []NothingSkipped
<1>1. Inv => NothingSkipped  BY DEF Inv
<1> QED  BY <1>1, InvHolds, PTL

(* The channels stay in step in the composition: the worker and the polls  *)
(* that make rows do not come between a registration and its row.          *)
THEOREM ChannelsStayInStep ==
    Spec => [](NoStrayChannel /\ QuietWhenOff /\ RowNamesOwnChannel)
<1>1. ChannelInv => NoStrayChannel /\ QuietWhenOff /\ RowNamesOwnChannel
  BY ChannelInvImplies
<1> QED  BY <1>1, InvHolds, PTL
===============================================================================
