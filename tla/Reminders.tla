----------------------------- MODULE Reminders -----------------------------
(***************************************************************************)
(* Reminders (crates/commands/src/reminder.rs): schedule, cancel, and the  *)
(* tick that turns every due reminder into an announcement on the bus,     *)
(* which somebody else delivers.  Cancel and tick both write back whole    *)
(* rows that they read earlier.  The tick saves the row as sent and then   *)
(* announces it, best effort and without an outbox.                        *)
(***************************************************************************)
EXTENDS Naturals, Sequences, FiniteSets

CONSTANTS
    Reminders,     \* reminder ids
    RemTickers,    \* processes that may run reminders_tick
    Cancellers,    \* requests to cancel that may be in flight
    MaxTime,       \* bound on the clock
    MaxCuts        \* bound on the ticks cut short and announcements lost

Times == 1..MaxTime

ASSUME ReminderAssumption ==
    /\ Reminders # {} /\ IsFiniteSet(Reminders) /\ IsFiniteSet(RemTickers)
    /\ MaxTime \in Nat \ {0} /\ MaxCuts \in Nat

VARIABLES
    now,        \* the injected clock
    reminder,   \* the reminders table
    remTick,    \* the tick a process is in
    cancel,     \* the cancellation a request is in
    emitted,    \* how often inv.billing.reminder.sent went out
    quiet,      \* reminders cancelled while scheduled and in no tick's hands
    cut,        \* reminders whose announcement was lost
    cuts

remVars == <<now, reminder, remTick, cancel, emitted, quiet, cut, cuts>>
-----------------------------------------------------------------------------
Reminder == [state : {"absent", "scheduled", "sent", "cancelled"}, at : Nat, sentAt : Nat]
NoReminder == [state |-> "absent", at |-> 0, sentAt |-> 0]

\* A tick: the clock it read, and the rows it has still to work on.
NoRemTick == [pc |-> "idle", at |-> 0, due |-> <<>>]
NoCancel == [pc |-> "idle", id |-> CHOOSE r \in Reminders : TRUE, row |-> NoReminder]

RemInit ==
    /\ now = 1
    /\ reminder = [r \in Reminders |-> NoReminder]
    /\ remTick = [t \in RemTickers |-> NoRemTick]
    /\ cancel = [c \in Cancellers |-> NoCancel]
    /\ emitted = [r \in Reminders |-> 0]
    /\ quiet = {} /\ cut = {} /\ cuts = 0
-----------------------------------------------------------------------------
\* reminder_schedule: only for an instant in the future.  The invoice is not
\* looked at.
ScheduleReminder(r, t) ==
    /\ reminder[r].state = "absent"
    /\ t > now
    /\ reminder' = [reminder EXCEPT ![r] = [state |-> "scheduled", at |-> t, sentAt |-> 0]]
    /\ UNCHANGED <<now, remTick, cancel, emitted, quiet, cut, cuts>>

\* reminder_cancel reads the row; anything but a scheduled reminder is left as
\* it is ...
CancelLoad(c, r) ==
    /\ cancel[c].pc = "idle"
    /\ reminder[r].state = "scheduled"
    /\ cancel' = [cancel EXCEPT ![c] = [pc |-> "save", id |-> r, row |-> reminder[r]]]
    /\ UNCHANGED <<now, reminder, remTick, emitted, quiet, cut, cuts>>

\* The reminder is among the rows that a tick has read and not finished.
InHand(r) == \E t \in RemTickers : \E i \in DOMAIN remTick[t].due : remTick[t].due[i].id = r

Quietly(c) ==
    IF reminder[cancel[c].id].state = "scheduled" /\ ~InHand(cancel[c].id)
    THEN quiet \union {cancel[c].id} ELSE quiet

\* Mutant of CancelSave: the row is not saved.
CancelUnsaved(c) ==
    /\ cancel[c].pc = "save"
    /\ quiet' = Quietly(c)
    /\ cancel' = [cancel EXCEPT ![c] = NoCancel]
    /\ UNCHANGED <<now, reminder, remTick, emitted, cut, cuts>>

\* ... and a scheduled one is written back as cancelled, with the other columns
\* as they were read.
CancelSave(c) ==
    /\ cancel[c].pc = "save"
    /\ reminder' = [reminder EXCEPT ![cancel[c].id] = [cancel[c].row EXCEPT !.state = "cancelled"]]
    /\ quiet' = Quietly(c)
    /\ cancel' = [cancel EXCEPT ![c] = NoCancel]
    /\ UNCHANGED <<now, remTick, emitted, cut, cuts>>
-----------------------------------------------------------------------------
(* reminders_tick *)

\* Mutant of DueReminders: strictly before the cutoff.
DueEarlier == {r \in Reminders : reminder[r].state = "scheduled" /\ reminder[r].at < now}

\* WHERE state = 'scheduled' AND scheduled_at <= cutoff
DueReminders == {r \in Reminders : reminder[r].state = "scheduled" /\ reminder[r].at <= now}

\* The due rows, ORDER BY scheduled_at.
RemTickStart(t) ==
    /\ remTick[t].pc = "idle" /\ DueReminders # {}
    /\ \E b \in [1..Cardinality(DueReminders) -> DueReminders] :
          /\ \A i, j \in DOMAIN b :
                i < j => b[i] # b[j] /\ reminder[b[i]].at <= reminder[b[j]].at
          /\ remTick' = [remTick EXCEPT ![t] =
                [pc |-> "save", at |-> now,
                 due |-> [i \in DOMAIN b |-> [id |-> b[i], row |-> reminder[b[i]]]]]]
    /\ UNCHANGED <<now, reminder, cancel, emitted, quiet, cut, cuts>>

\* Mutant of RemTickSave: sent_at is set and the state is not.
RemTickSaveUnmarked(t) ==
    LET h == Head(remTick[t].due)
    IN  /\ remTick[t].pc = "save"
        /\ reminder' = [reminder EXCEPT ![h.id] = [h.row EXCEPT !.sentAt = remTick[t].at]]
        /\ remTick' = [remTick EXCEPT ![t].pc = "publish"]
        /\ UNCHANGED <<now, cancel, emitted, quiet, cut, cuts>>

\* The snapshot is written back as sent ...
RemTickSave(t) ==
    LET h == Head(remTick[t].due)
    IN  /\ remTick[t].pc = "save"
        /\ reminder' = [reminder EXCEPT ![h.id] =
              [h.row EXCEPT !.state = "sent", !.sentAt = remTick[t].at]]
        /\ remTick' = [remTick EXCEPT ![t].pc = "publish"]
        /\ UNCHANGED <<now, cancel, emitted, quiet, cut, cuts>>

\* On with the next row, or the tick ends.
RemTickOn(t) ==
    LET rest == Tail(remTick[t].due)
    IN  remTick' = [remTick EXCEPT ![t] =
            IF rest = <<>> THEN NoRemTick ELSE [@ EXCEPT !.pc = "save", !.due = rest]]

\* ... and announced.
RemTickPublish(t) ==
    LET h == Head(remTick[t].due)
    IN  /\ remTick[t].pc = "publish"
        /\ emitted' = [emitted EXCEPT ![h.id] = @ + 1]
        /\ RemTickOn(t)
        /\ UNCHANGED <<now, reminder, cancel, quiet, cut, cuts>>

\* try_publish logs a failed announcement and the tick goes on.
RemPublishLost(t) ==
    LET h == Head(remTick[t].due)
    IN  /\ remTick[t].pc = "publish" /\ cuts < MaxCuts
        /\ cuts' = cuts + 1 /\ cut' = cut \union {h.id}
        /\ RemTickOn(t)
        /\ UNCHANGED <<now, reminder, cancel, emitted, quiet>>

\* A statement fails or the process stops.
RemTickFail(t) ==
    /\ remTick[t].pc # "idle" /\ cuts < MaxCuts
    /\ cuts' = cuts + 1
    /\ cut' = IF remTick[t].pc = "publish" THEN cut \union {Head(remTick[t].due).id} ELSE cut
    /\ remTick' = [remTick EXCEPT ![t] = NoRemTick]
    /\ UNCHANGED <<now, reminder, cancel, emitted, quiet>>

TimePasses ==
    /\ now < MaxTime
    /\ now' = now + 1
    /\ UNCHANGED <<reminder, remTick, cancel, emitted, quiet, cut, cuts>>

RemTickStep(t) == RemTickStart(t) \/ RemTickSave(t) \/ RemTickPublish(t) \/ RemPublishLost(t)

RemNext ==
    \/ TimePasses
    \/ \E r \in Reminders, t \in Times : ScheduleReminder(r, t)
    \/ \E c \in Cancellers : (\E r \in Reminders : CancelLoad(c, r)) \/ CancelSave(c)
    \/ \E t \in RemTickers : RemTickStep(t) \/ RemTickFail(t)

RemSpec == RemInit /\ [][RemNext]_remVars
-----------------------------------------------------------------------------
\* Every variable stays within its type, and a sent row has its sent_at.
RemTypeOK ==
    /\ now \in Times
    /\ reminder \in [Reminders -> Reminder]
    /\ \A r \in Reminders : (reminder[r].state = "sent") = (reminder[r].sentAt # 0)
    /\ \A t \in RemTickers :
          /\ remTick[t].pc \in {"idle", "save", "publish"} /\ remTick[t].at \in 0..MaxTime
          /\ remTick[t].pc # "idle" => remTick[t].due # <<>>
          /\ \A i \in DOMAIN remTick[t].due : remTick[t].due[i] \in [id : Reminders, row : Reminder]
    /\ cancel \in [Cancellers -> [pc : {"idle", "save"}, id : Reminders, row : Reminder]]
    /\ emitted \in [Reminders -> Nat]
    /\ quiet \subseteq Reminders /\ cut \subseteq Reminders /\ cuts \in 0..MaxCuts

\* A reminder goes out before its time never, and at most once for each process
\* that ticks, although cancellations overwrite rows and ticks are repeated
\* after a failure: a saved row never becomes due again.
AnnouncedBounded ==
    \A r \in Reminders :
        /\ emitted[r] <= Cardinality(RemTickers)
        /\ emitted[r] > 0 => reminder[r].at <= now

\* A cancellation that found the reminder scheduled and in the hands of no tick
\* is final: the reminder is never announced, by any tick, at any later time.
CancelledIsQuiet == \A r \in quiet : emitted[r] = 0

\* A due reminder is eventually announced, or cancelled, or its one announcement
\* was lost between the save and the bus: no other way for it to be forgotten.
DueIsAnnounced ==
    \A r \in Reminders :
        (reminder[r].state = "scheduled" /\ reminder[r].at <= now)
            ~> (emitted[r] > 0 \/ reminder[r].state = "cancelled" \/ r \in cut)
-----------------------------------------------------------------------------
(* What ticks and cancellations in flight rely on: the strengthening for the *)
(* proofs                                                                    *)

RemTickVal == [pc : {"idle", "save", "publish"}, at : Nat,
               due : Seq([id : Reminders, row : Reminder])]

\* A tick holds each reminder once, with the time it is still scheduled for; it
\* has saved the one that it is about to announce.
RemTickSound(t) ==
    /\ (remTick[t].pc = "idle") = (remTick[t].due = <<>>)
    /\ remTick[t].pc # "idle" => remTick[t].at \in Times
    /\ \A i, j \in DOMAIN remTick[t].due : remTick[t].due[i].id = remTick[t].due[j].id => i = j
    /\ \A i \in DOMAIN remTick[t].due :
          LET d == remTick[t].due[i]
          IN  /\ d.row.at = reminder[d.id].at /\ d.row.at <= now /\ d.row.sentAt = 0
              /\ reminder[d.id].state # "absent"
    /\ remTick[t].pc = "publish" =>
          reminder[Head(remTick[t].due).id].state \in {"sent", "cancelled"}

CancelSound(c) ==
    cancel[c].pc = "save" =>
        /\ cancel[c].row.at = reminder[cancel[c].id].at /\ cancel[c].row.sentAt = 0
        /\ reminder[cancel[c].id].state # "absent"

\* The ticks that may still announce a reminder.
Holders(r) == {t \in RemTickers : \E i \in DOMAIN remTick[t].due : remTick[t].due[i].id = r}

\* Nothing is announced before it is saved, and the announcements made and
\* still to come are bounded.
RemRowSound(r) ==
    /\ reminder[r].state \in {"absent", "scheduled"} => emitted[r] = 0
    /\ emitted[r] > 0 => reminder[r].at <= now
    /\ emitted[r] + Cardinality(Holders(r)) <= Cardinality(RemTickers)
    /\ r \in quiet => reminder[r].state = "cancelled" /\ Holders(r) = {} /\ emitted[r] = 0

RemSound ==
    /\ remTick \in [RemTickers -> RemTickVal] /\ \A t \in RemTickers : RemTickSound(t)
    /\ \A c \in Cancellers : CancelSound(c)
    /\ \A r \in Reminders : RemRowSound(r)
=============================================================================
