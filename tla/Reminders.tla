------------------------------ MODULE Reminders ------------------------------
(***************************************************************************)
(* Reminders, the scheduler process that fires them and announces events   *)
(* ahead of time, and the commands that users give about them:             *)
(*   - ReminderRepository (adapters/storage/sqlite/repositories.py),       *)
(*   - ReminderScheduler and NotificationLeadScheduler                     *)
(*     (application/scheduler.py), run in turn by runtime/worker.py,       *)
(*   - the reminder and agenda commands of application/services.py.        *)
(* A command reads the rows it is about in one transaction and updates     *)
(* them in another, or in one for each row; the scheduler reads the clock, *)
(* reads the agenda and writes in separate steps.  All of them interleave. *)
(*                                                                         *)
(* The agenda is one timed event that happens once.  A lead reminder is    *)
(* identified by the event, the start it was made for and how far ahead it *)
(* speaks, so a moved event has other lead reminders.                      *)
(***************************************************************************)
EXTENDS Clock

CONSTANTS
  Own,        \* the reminders users create
  Lead,       \* the lead reminders
  StartOf,    \* the start of the event a lead reminder was made for
  AheadOf,    \* how far ahead of it the reminder speaks
  Skip,       \* the reminders with missed_policy SKIP; leads have FIRE
  Grace,      \* late_grace_seconds
  Horizon,    \* horizon_days of the lead scheduler
  Caller,     \* bound: commands that run at the same time
  MaxRestarts \* bound: restarts of the scheduler process

ASSUME ReminderAssumption ==
  /\ Own \cap Lead = {} /\ Skip \subseteq Own
  /\ StartOf \in [Lead -> Nat] /\ AheadOf \in [Lead -> Nat]
  /\ \A l \in Lead : AheadOf[l] <= StartOf[l]
  /\ Grace \in Nat /\ Horizon \in Nat
  /\ MaxTime \in Nat /\ MaxRestarts \in Nat

VARIABLES
  status, fireAt, version,  \* the reminders table
  queued,                   \* idempotency keys of the outbox: reminder, fire_at
  event,                    \* the start of the event, in a set; {} when deleted
  leads,                    \* what leads.resolve gives for the event
  phase, now, ahead, todo,  \* the scheduler: next step, clock reading, the lead
                            \* times it has read, and the lead reminders it is
                            \* about to create
  op, plan, to,             \* a command: what it does, the rows it has read and
                            \* has yet to update, and the new fire_at of a snooze
  restarts                  \* how much of MaxRestarts is used up

tableVars == <<status, fireAt, version, queued>>
eventVars == <<event, leads>>
workVars  == <<phase, now, ahead, todo, restarts>>
callVars  == <<op, plan, to>>
vars == <<clock, tableVars, eventVars, workVars, callVars>>

Reminder == Own \cup Lead
Status   == {"absent", "pending", "fired", "cancelled"}
Update   == {"cancel", "acknowledge", "snooze"}
AheadSet == {AheadOf[l] : l \in Lead}
Starts   == {StartOf[l] : l \in Lead}
Row      == [id : Reminder, version : Nat, status : Status, fireAt : Nat]

TypeOK ==
  /\ clock \in Time
  /\ status \in [Reminder -> Status]
  /\ fireAt \in [Reminder -> Nat]
  /\ version \in [Reminder -> Nat]
  /\ queued \subseteq Reminder \X Nat
  /\ event \subseteq Starts
  /\ leads \subseteq AheadSet
  /\ phase \in {"agenda", "occurrences", "create", "clock", "fire"}
  /\ now \in Time
  /\ ahead \subseteq AheadSet
  /\ todo \subseteq Lead
  /\ op \in [Caller -> Update \cup {"none", "delete"}]
  /\ plan \in [Caller -> SUBSET Row]
  /\ to \in [Caller -> Time]
  /\ restarts \in Nat

Init ==
  /\ clock = 0
  /\ status = [r \in Reminder |-> "absent"]
  /\ fireAt = [r \in Reminder |-> 0]
  /\ version = [r \in Reminder |-> 0]
  /\ queued = {}
  /\ event \in {{}} \cup {{s} : s \in Starts}
  /\ leads = AheadSet
  /\ phase = "agenda" /\ now = 0 /\ ahead = {} /\ todo = {}
  /\ op = [c \in Caller |-> "none"]
  /\ plan = [c \in Caller |-> {}]
  /\ to = [c \in Caller |-> 0]
  /\ restarts = 0

Tick ==
  /\ clock < MaxTime
  /\ clock' = clock + 1
  /\ UNCHANGED <<tableVars, eventVars, workVars, callVars>>

-----------------------------------------------------------------------------
(* ReminderRepository.                                                     *)

\* create; an id that exists is a ConflictError.
Insert(r, t) ==
  /\ status[r] = "absent"
  /\ status' = [status EXCEPT ![r] = "pending"]
  /\ fireAt' = [fireAt EXCEPT ![r] = t]
  /\ version' = [version EXCEPT ![r] = 1]
  /\ UNCHANGED queued

\* get.
RowOf(r) == [id |-> r, version |-> version[r], status |-> status[r],
             fireAt |-> fireAt[r]]

\* Mutant of UpdatableFrom: status<>'pending' in place of status='fired'.
MutUpdatableFrom(o) == IF o = "cancel" THEN {"pending", "fired"}
                       ELSE {"fired", "cancelled"}

\* The status a reminder must have for an update.
UpdatableFrom(o) == IF o = "cancel" THEN {"pending", "fired"} ELSE {"fired"}

\* Mutant of Matches: the version is not compared.
MutMatches(o, row) == status[row.id] \in UpdatableFrom(o)

\* The WHERE clause of cancel, acknowledge and snooze.
Matches(o, row) ==
  /\ version[row.id] = row.version
  /\ status[row.id] \in UpdatableFrom(o)

\* Mutant of Apply: a status of its own for acknowledged reminders.
MutApply(o, row, t) ==
  /\ status' = [status EXCEPT ![row.id] =
                  IF o = "snooze" THEN "pending"
                  ELSE IF o = "acknowledge" THEN "acknowledged" ELSE "cancelled"]
  /\ fireAt' = [fireAt EXCEPT ![row.id] = IF o = "snooze" THEN t ELSE @]
  /\ version' = [version EXCEPT ![row.id] = @ + 1]
  /\ UNCHANGED queued

\* Their UPDATE.
Apply(o, row, t) ==
  /\ status' = [status EXCEPT ![row.id] =
                  IF o = "snooze" THEN "pending" ELSE "cancelled"]
  /\ fireAt' = [fireAt EXCEPT ![row.id] = IF o = "snooze" THEN t ELSE @]
  /\ version' = [version EXCEPT ![row.id] = @ + 1]
  /\ UNCHANGED queued

\* Mutant of Due: what comes due within the next unit is taken along.
MutDueSoon(t) == {r \in Reminder : status[r] = "pending" /\ fireAt[r] <= t + 1}

\* Mutant of Due: a reminder is due only after its time.
MutDue(t) == {r \in Reminder : status[r] = "pending" /\ fireAt[r] < t}

\* The reminders enqueue_due finds at time t, and those among them that it
\* skips because they are too late.
Due(t) == {r \in Reminder : status[r] = "pending" /\ fireAt[r] <= t}

TooLate(t) == {r \in Due(t) \cap Skip : t - fireAt[r] > Grace}

\* Mutant of EnqueueDue: the version is left as it was.
MutEnqueueDue(t) ==
  /\ queued' = queued \cup {<<r, fireAt[r]>> : r \in Due(t) \ TooLate(t)}
  /\ status' = [r \in Reminder |-> IF r \in TooLate(t) THEN "cancelled"
                                   ELSE IF r \in Due(t) THEN "fired"
                                   ELSE status[r]]
  /\ UNCHANGED <<fireAt, version>>

\* enqueue_due: one transaction that inserts the deliveries of all due reminders
\* (unless the key is there) and moves the reminders on.
EnqueueDue(t) ==
  /\ queued' = queued \cup {<<r, fireAt[r]>> : r \in Due(t) \ TooLate(t)}
  /\ status' = [r \in Reminder |-> IF r \in TooLate(t) THEN "cancelled"
                                   ELSE IF r \in Due(t) THEN "fired"
                                   ELSE status[r]]
  /\ version' = [r \in Reminder |-> IF r \in Due(t) THEN version[r] + 1
                                    ELSE version[r]]
  /\ UNCHANGED fireAt

-----------------------------------------------------------------------------
(* The scheduler process: lead reminders, then due reminders, over and over*)
(* again.  An exception ends the process, which is started anew.           *)

\* NotificationLeadScheduler.tick reads the clock, lists the events that begin
\* within the horizon and resolves their lead times.  An event that has begun is
\* listed until it ends, which the model leaves open.
ReadLeads ==
  /\ phase = "agenda"
  /\ now' = clock
  /\ \/ (\E s \in event : s <= clock + Horizon) /\ ahead' = leads
     \/ (\A s \in event : s > clock + Horizon \/ s < clock) /\ ahead' = {}
  /\ phase' = "occurrences"
  /\ UNCHANGED <<clock, tableVars, eventVars, callVars, todo, restarts>>

\* Then it reads when the event occurs; lead times that have passed are left out.
ReadOccurrences ==
  /\ phase = "occurrences"
  /\ todo' = {l \in Lead : /\ StartOf[l] \in event /\ AheadOf[l] \in ahead
                           /\ StartOf[l] < now + Horizon
                           /\ now + AheadOf[l] <= StartOf[l]}
  /\ ahead' = {}
  /\ phase' = "create"
  /\ UNCHANGED <<clock, tableVars, eventVars, callVars, now, restarts>>

\* _materialize: the next lead reminder that is not there is created.
CreateLead(l) ==
  /\ phase = "create" /\ l \in todo
  /\ \/ Insert(l, StartOf[l] - AheadOf[l])
     \/ status[l] # "absent" /\ UNCHANGED tableVars
  /\ todo' = todo \ {l}
  /\ UNCHANGED <<clock, eventVars, callVars, phase, now, ahead, restarts>>

LeadsDone ==
  /\ phase = "create" /\ todo = {}
  /\ phase' = "clock"
  /\ UNCHANGED <<clock, tableVars, eventVars, callVars, now, ahead, todo, restarts>>

\* ReminderScheduler.tick reads the clock, and then the transaction begins.
ReadClock ==
  /\ phase = "clock"
  /\ now' = clock
  /\ phase' = "fire"
  /\ UNCHANGED <<clock, tableVars, eventVars, callVars, ahead, todo, restarts>>

Fire ==
  /\ phase = "fire"
  /\ EnqueueDue(now)
  /\ phase' = "agenda"
  /\ UNCHANGED <<clock, eventVars, callVars, now, ahead, todo, restarts>>

Restart ==
  /\ restarts < MaxRestarts
  /\ restarts' = restarts + 1
  /\ phase' = "agenda" /\ ahead' = {} /\ todo' = {}
  /\ UNCHANGED <<clock, tableVars, eventVars, callVars, now>>

SchedulerStep ==
  \/ ReadLeads \/ ReadOccurrences \/ LeadsDone \/ ReadClock \/ Fire
  \/ \E l \in Lead : CreateLead(l)

-----------------------------------------------------------------------------
(* Commands.                                                               *)

CreateReminder(r, t) ==
  /\ r \in Own
  /\ Insert(r, t)
  /\ UNCHANGED <<clock, eventVars, workVars, callVars>>

\* cancel_reminder, acknowledge_reminder and snooze_reminder read the reminder,
\* and the authorization notes the time.  A snooze must lie after that.
BeginUpdate(c, o, r, t) ==
  /\ op[c] = "none" /\ status[r] # "absent"
  /\ o = "snooze" => t > clock
  /\ op' = [op EXCEPT ![c] = o]
  /\ plan' = [plan EXCEPT ![c] = {RowOf(r)}]
  /\ to' = [to EXCEPT ![c] = t]
  /\ UNCHANGED <<clock, tableVars, eventVars, workVars>>

Return(c) ==
  /\ op' = [op EXCEPT ![c] = "none"]
  /\ plan' = [plan EXCEPT ![c] = {}]
  /\ to' = [to EXCEPT ![c] = 0]

\* The update, or a ConflictError.
CommitUpdate(c) ==
  /\ op[c] \in Update
  /\ \E row \in plan[c] :
       \/ Matches(op[c], row) /\ Apply(op[c], row, to[c])
       \/ ~Matches(op[c], row) /\ UNCHANGED tableVars
  /\ Return(c)
  /\ UNCHANGED <<clock, eventVars, workVars>>

\* delete_agenda lists the event's pending reminders ...
BeginDelete(c) ==
  /\ op[c] = "none" /\ event # {}
  /\ op' = [op EXCEPT ![c] = "delete"]
  /\ plan' = [plan EXCEPT ![c] = {RowOf(l) : l \in {k \in Lead : status[k] = "pending"}}]
  /\ UNCHANGED <<clock, tableVars, eventVars, workVars, to>>

\* ... cancels them one by one, giving up at the first conflict ...
DeleteCancel(c) ==
  /\ op[c] = "delete"
  /\ \E row \in plan[c] :
       \/ /\ Matches("cancel", row)
          /\ Apply("cancel", row, 0)
          /\ plan' = [plan EXCEPT ![c] = @ \ {row}]
          /\ UNCHANGED <<op, to>>
       \/ /\ ~Matches("cancel", row)
          /\ Return(c)
          /\ UNCHANGED tableVars
  /\ UNCHANGED <<clock, eventVars, workVars>>

\* ... and deletes the event, if it is still there.
DeleteEvent(c) ==
  /\ op[c] = "delete" /\ plan[c] = {}
  /\ event' = {}
  /\ Return(c)
  /\ UNCHANGED <<clock, tableVars, leads, workVars>>

\* update_agenda with a new start.  Reminders are left alone.
MoveEvent(s) ==
  /\ event # {} /\ event' = {s}
  /\ UNCHANGED <<clock, tableVars, leads, workVars, callVars>>

\* set_notification_leads.  Reminders are left alone.
SetLeads(L) ==
  /\ leads' = L
  /\ UNCHANGED <<clock, tableVars, event, workVars, callVars>>

CommandStep(c) ==
  \/ \E o \in Update, r \in Reminder :
       \E t \in IF o = "snooze" THEN Time ELSE {0} : BeginUpdate(c, o, r, t)
  \/ CommitUpdate(c)
  \/ BeginDelete(c) \/ DeleteCancel(c) \/ DeleteEvent(c)

Next ==
  \/ Tick
  \/ SchedulerStep \/ Restart
  \/ \E r \in Own, t \in Time : CreateReminder(r, t)
  \/ \E c \in Caller : CommandStep(c)
  \/ \E s \in Starts : MoveEvent(s)
  \/ \E L \in SUBSET AheadSet : SetLeads(L)

Spec == Init /\ [][Next]_vars

\* Time passes and the scheduler keeps turning; commands need not come.
FairSpec == Spec /\ WF_vars(Tick) /\ WF_vars(SchedulerStep)

-----------------------------------------------------------------------------
(* Properties.                                                             *)

\* Every firing of a reminder has a delivery of its own: the delivery of a fired
\* reminder is in the outbox, and that of a pending one is not there yet, so
\* that INSERT OR IGNORE cannot swallow it.  This rests on versions that make a
\* late snooze fail, and on snoozing to the future only.
OneDeliveryPerFiring ==
  \A r \in Reminder :
    /\ status[r] = "fired" => <<r, fireAt[r]>> \in queued
    /\ status[r] = "pending" => <<r, fireAt[r]>> \notin queued

\* The version tells a command whether the reminder is as it was read: an update
\* that passes the version check is made on the state the user decided on,
\* whatever the scheduler and other commands did in between.
VersionTellsChange ==
  \A c \in Caller : \A row \in plan[c] :
    version[row.id] = row.version => RowOf(row.id) = row

\* A cancelled or acknowledged reminder neither comes back nor is delivered once
\* more, although snoozes and firings may be under way when it is cancelled.
CancelledIsFinal ==
  [][\A r \in Reminder : status[r] = "cancelled" =>
       /\ status'[r] = "cancelled"
       /\ \A k \in queued' : k[1] = r => k \in queued]_vars

\* The times a reminder can be set to.
Instant == Time \cup {StartOf[l] - AheadOf[l] : l \in Lead}

Promise == INSTANCE ReminderContract WITH
  MayMiss <- Skip, time <- clock, stage <- status, due <- fireAt, sent <- queued

\* What the user is promised is kept, with a scheduler that works on earlier
\* readings of the clock and of the agenda, commands that write rows they read in
\* another transaction, and restarts: nothing is announced before its time, twice
\* for one time, or after it was cancelled, and nothing is missed without leave.
KeepsContract == Promise!Spec

\* A pending reminder is fired, skipped or cancelled in the end, also when the
\* scheduler is restarted at the wrong moment.
EventuallyHandled ==
  \A r \in Reminder : status[r] = "pending" ~> status[r] # "pending"

-----------------------------------------------------------------------------
(* The inductive invariant behind the properties above.                    *)

\* What is in the outbox was due when it was put there, and so was the reminder.
QueueInv ==
  /\ \A k \in queued : status[k[1]] # "absent" /\ k[2] <= fireAt[k[1]]
  /\ \A r \in Reminder : status[r] = "fired" => fireAt[r] <= clock
  /\ now <= clock

\* A row that was read is no newer than the table, and a snooze lies after the
\* firing it was given for.
PlanInv ==
  /\ VersionTellsChange
  /\ \A c \in Caller : \A row \in plan[c] :
       /\ row.version <= version[row.id]
       /\ status[row.id] # "absent"
       /\ op[c] = "snooze" /\ row.status = "fired" => row.fireAt < to[c]

IndInv == TypeOK /\ OneDeliveryPerFiring /\ QueueInv /\ PlanInv

=============================================================================
