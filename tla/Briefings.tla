------------------------------ MODULE Briefings ------------------------------
(***************************************************************************)
(* Daily briefings and agenda notification rules:                          *)
(*   - DailyBriefingScheduler and AgendaNotificationScheduler              *)
(*     (application/scheduler.py), two of the schedulers that              *)
(*     runtime/worker.py runs in turn,                                     *)
(*   - DailyBriefingRepository (adapters/storage/sqlite/repositories.py),  *)
(*   - the briefing commands of application/services.py.                   *)
(* The scheduler reads the clock, then the rows that are due, and then for *)
(* each of them composes a message, puts it into the outbox and marks the  *)
(* row, in separate transactions.  Commands change the rows meanwhile, and *)
(* the process may end anywhere; systemd starts it again.                  *)
(*                                                                         *)
(* Time is counted in units of which DayLength make a day.  What a message *)
(* says is left out, except that an important day whose date is still to   *)
(* come makes its day count less than one.                                 *)
(***************************************************************************)
EXTENDS Clock

CONSTANTS
  Briefing,    \* ids of briefings, numbers: due() returns them in their order
  Initial,     \* the briefings that exist at the start
  Zone, Offset,  \* time zones and how far each is ahead of UTC
  DayLength,
  Anchor,      \* the latest date of an important day of a briefing's owner
  Rule, RuleAt,  \* notification rules, and their time_of_day
  Never,       \* last_sent_on is NULL
  Absent, Deleted, \* no such row: not made yet, or deleted (ids are not reused)
  MaxCommands, \* bound: commands in all
  MaxCrashes   \* bound: ends of the process that are not caused by its input

ASSUME BriefingAssumption ==
  /\ Briefing \subseteq Nat /\ Anchor \in [Briefing -> Nat]
  /\ Initial \subseteq Briefing
  /\ DayLength \in Nat \ {0}
  /\ Offset \in [Zone -> Nat]
  /\ RuleAt \in [Rule -> 0 .. DayLength - 1]
  /\ Never \notin Nat
  /\ MaxTime \in Nat /\ MaxCommands \in Nat /\ MaxCrashes \in Nat

VARIABLES
  rows,    \* the table daily_briefings
  routed,  \* briefings whose target has a known route
  outbox,  \* idempotency keys: briefing and date
  rules,   \* enabled notification rules
  made,    \* reminders made for a rule and the date of an occurrence
  step, reading, due, \* the scheduler: next step, its reading of the clock,
                      \* and the due briefings with their dates, as read
  ruleTodo, \* the rules it has read and not yet looked at
  command, \* the update a user is about to make, as computed from what was read
  commands, crashes \* how much of the bounds is used up

briefingTables == <<rows, outbox, rules, made>>
passVars == <<step, reading, due, ruleTodo, crashes>>
userVars == <<command, commands>>
briefingVars == <<clock, briefingTables, routed, passVars, userVars>>

Slot == 0 .. DayLength - 1
Date == Nat
BriefingRow ==
  [enabled : BOOLEAN, at : Slot, zone : Zone, sentOn : Date \cup {Never}]

LocalDate(t, z) == (t + Offset[z]) \div DayLength
LocalTime(t, z) == (t + Offset[z]) % DayLength

Exists(row) == row \notin {Absent, Deleted}
NewRow(at, z) == [enabled |-> TRUE, at |-> at, zone |-> z, sentOn |-> Never]

BriefingInit ==
  /\ clock = 0
  /\ \E at \in Slot, z \in Zone :
       rows = [b \in Briefing |-> IF b \in Initial THEN NewRow(at, z) ELSE Absent]
  /\ routed = Initial
  /\ outbox = {}
  /\ rules = Rule
  /\ made = {}
  /\ step = "clock" /\ reading = 0 /\ due = {} /\ ruleTodo = {}
  /\ command = Absent /\ commands = 0 /\ crashes = 0

-----------------------------------------------------------------------------
(* Commands.                                                               *)

CreateDailyBriefing(b) ==
  /\ commands < MaxCommands /\ rows[b] = Absent
  /\ \E at \in Slot, z \in Zone :
       rows' = [rows EXCEPT ![b] = NewRow(at, z)]
  /\ commands' = commands + 1
  /\ UNCHANGED <<clock, routed, outbox, rules, made, passVars, command>>

\* The row is read, and the update of one of its fields computed from it.
BeginBriefingUpdate(b) ==
  /\ commands < MaxCommands /\ command = Absent /\ Exists(rows[b])
  /\ \E row \in {[rows[b] EXCEPT !.enabled = ~ @]}
                  \cup {[rows[b] EXCEPT !.at = at] : at \in Slot}
                  \cup {[rows[b] EXCEPT !.zone = z] : z \in Zone} :
       /\ row # rows[b]
       /\ command' = [id |-> b, row |-> row]
  /\ commands' = commands + 1
  /\ UNCHANGED <<clock, routed, briefingTables, passVars>>

\* The update does not touch last_sent_on.
UpdateDailyBriefing ==
  /\ command # Absent
  /\ rows' = IF Exists(rows[command.id])
             THEN [rows EXCEPT ![command.id] =
                     [command.row EXCEPT !.sentOn = rows[command.id].sentOn]]
             ELSE rows
  /\ command' = Absent
  /\ UNCHANGED <<clock, routed, outbox, rules, made, passVars, commands>>

DeleteDailyBriefing(b) ==
  /\ commands < MaxCommands /\ Exists(rows[b])
  /\ rows' = [rows EXCEPT ![b] = Deleted]
  /\ commands' = commands + 1
  /\ UNCHANGED <<clock, routed, outbox, rules, made, passVars, command>>

\* A rule is made, enabled, disabled or deleted.
ChangeRule(r) ==
  /\ commands < MaxCommands
  /\ rules' \in {rules \cup {r}, rules \ {r}} \ {rules}
  /\ commands' = commands + 1
  /\ UNCHANGED <<clock, routed, rows, outbox, made, passVars, command>>

\* The target of a briefing is seen for the first time.
Observe(b) ==
  /\ routed' = routed \cup {b}
  /\ routed' # routed
  /\ UNCHANGED <<clock, briefingTables, passVars, userVars>>

PassTime ==
  /\ clock < MaxTime
  /\ clock' = clock + 1
  /\ UNCHANGED <<briefingTables, routed, passVars, userVars>>

-----------------------------------------------------------------------------
(* AgendaNotificationScheduler.tick, for a daily agenda item and a rule in *)
(* the zone of UTC with day_offset 0.                                      *)

ReadRules ==
  /\ step = "clock"
  /\ reading' = clock
  /\ ruleTodo' = rules
  /\ step' = "rules"
  /\ UNCHANGED <<clock, briefingTables, routed, due, crashes, userVars>>

\* A reminder has an id made of the rule and the occurrence: a second one is
\* not made, also when the first was cancelled since.
MaterializeRule(r) ==
  /\ step = "rules" /\ r \in ruleTodo
  /\ ruleTodo' = ruleTodo \ {r}
  /\ made' = IF reading % DayLength < RuleAt[r] THEN made
             ELSE made \cup {<<r, reading \div DayLength>>}
  /\ UNCHANGED <<clock, rows, outbox, rules, routed, step, reading, due,
                 crashes, userVars>>

-----------------------------------------------------------------------------
(* DailyBriefingScheduler.tick                                             *)

\* Mutant of Due: exactly at the time of day.
MutExactly(row, t) ==
  /\ Exists(row) /\ row.enabled
  /\ LocalTime(t, row.zone) = row.at
  /\ row.sentOn # LocalDate(t, row.zone)

BriefingDue(row, t) ==
  /\ Exists(row) /\ row.enabled
  /\ LocalTime(t, row.zone) >= row.at
  /\ row.sentOn # LocalDate(t, row.zone)

\* Its own reading of the clock, then the rows.
ReadDue ==
  /\ step = "rules" /\ ruleTodo = {}
  /\ reading' = clock
  /\ due' = {<<b, LocalDate(clock, rows[b].zone)>> :
               b \in {c \in Briefing : BriefingDue(rows[c], clock)}}
  /\ step' = "route"
  /\ UNCHANGED <<clock, briefingTables, routed, ruleTodo, crashes, userVars>>

\* The first of the due briefings, in the order of their ids.
First == CHOOSE p \in due : \A q \in due : p[1] <= q[1]

\* Mutant of LookUpRoute: a briefing without a route is dropped and composed.
MutNoSkip ==
  /\ step = "route" /\ due # {}
  /\ step' = "compose"
  /\ due' = IF First[1] \in routed THEN due ELSE due \ {First}
  /\ UNCHANGED <<clock, briefingTables, routed, reading, ruleTodo, crashes,
                 userVars>>

\* Without a route the briefing is passed over.
LookUpRoute ==
  /\ step = "route" /\ due # {}
  /\ IF First[1] \in routed
     THEN step' = "compose" /\ UNCHANGED due
     ELSE step' = "route" /\ due' = due \ {First}
  /\ UNCHANGED <<clock, briefingTables, routed, reading, ruleTodo, crashes,
                 userVars>>

\* DailyAgendaPreview refuses a day count less than one, which an important day
\* has before its date, and nothing catches the error: the process ends.
Compose ==
  /\ step = "compose"
  /\ IF First[2] < Anchor[First[1]]
     THEN step' = "clock" /\ due' = {}
     ELSE step' = "enqueue" /\ UNCHANGED due
  /\ UNCHANGED <<clock, briefingTables, routed, reading, ruleTodo, crashes,
                 userVars>>

\* Mutant of Enqueue: the row is marked before the message is in the outbox.
MutMarkFirst ==
  /\ step = "enqueue"
  /\ rows' = IF Exists(rows[First[1]]) /\ rows[First[1]].enabled
             THEN [rows EXCEPT ![First[1]].sentOn = First[2]] ELSE rows
  /\ step' = "mark"
  /\ UNCHANGED <<clock, outbox, rules, made, routed, reading, due, ruleTodo,
                 crashes, userVars>>

Enqueue ==
  /\ step = "enqueue"
  /\ outbox' = outbox \cup {First}
  /\ step' = "mark"
  /\ UNCHANGED <<clock, rows, rules, made, routed, reading, due, ruleTodo,
                 crashes, userVars>>

MarkSent ==
  /\ step = "mark"
  /\ rows' = IF Exists(rows[First[1]]) /\ rows[First[1]].enabled
             THEN [rows EXCEPT ![First[1]].sentOn = First[2]] ELSE rows
  /\ due' = due \ {First}
  /\ step' = "route"
  /\ UNCHANGED <<clock, outbox, rules, made, routed, reading, ruleTodo, crashes,
                 userVars>>

\* The pass is over; after the interval there is another.
EndPass ==
  /\ step = "route" /\ due = {}
  /\ step' = "clock"
  /\ UNCHANGED <<clock, briefingTables, routed, reading, due, ruleTodo,
                 crashes, userVars>>

\* The process ends and is started again.
Crash ==
  /\ crashes < MaxCrashes /\ step # "clock"
  /\ step' = "clock" /\ due' = {} /\ ruleTodo' = {}
  /\ crashes' = crashes + 1
  /\ UNCHANGED <<clock, briefingTables, routed, reading, userVars>>

-----------------------------------------------------------------------------
(* The specification.                                                      *)

DailyStep ==
  \/ ReadRules \/ (\E r \in Rule : MaterializeRule(r))
  \/ ReadDue \/ LookUpRoute \/ Compose \/ Enqueue \/ MarkSent \/ EndPass

BriefingNext ==
  \/ \E b \in Briefing :
       \/ CreateDailyBriefing(b) \/ BeginBriefingUpdate(b)
       \/ DeleteDailyBriefing(b) \/ Observe(b)
  \/ UpdateDailyBriefing
  \/ \E r \in Rule : ChangeRule(r)
  \/ PassTime
  \/ DailyStep
  \/ Crash

BriefingSpec == BriefingInit /\ [][BriefingNext]_briefingVars

\* The worker is a loop that systemd restarts, a command runs to its end, and
\* time passes.
BriefingFairSpec ==
  /\ BriefingSpec
  /\ WF_briefingVars(DailyStep) /\ WF_briefingVars(PassTime)
  /\ WF_briefingVars(UpdateDailyBriefing)

-----------------------------------------------------------------------------
(* Properties.                                                             *)

BriefingTypeOK ==
  /\ clock \in Time /\ reading \in Time
  /\ rows \in [Briefing -> BriefingRow \cup {Absent, Deleted}]
  /\ routed \subseteq Briefing
  /\ outbox \subseteq Briefing \X Date
  /\ rules \subseteq Rule /\ ruleTodo \subseteq Rule
  /\ made \subseteq Rule \X Date
  /\ step \in {"clock", "rules", "route", "compose", "enqueue", "mark"}
  /\ due \subseteq Briefing \X Date
  /\ step \in {"compose", "enqueue", "mark"} => due # {}
  /\ command = Absent \/ command \in [id : Briefing, row : BriefingRow]
  /\ commands \in 0 .. MaxCommands /\ crashes \in 0 .. MaxCrashes

\* A briefing that is marked as sent for a date is in the outbox, wherever the
\* process ended between the two transactions, and whatever commands changed
\* the row meanwhile.  (A mark without a message would lose the day's
\* briefing.)
MarkedIsQueued ==
  \A b \in Briefing :
    Exists(rows[b]) /\ rows[b].sentOn # Never => <<b, rows[b].sentOn>> \in outbox

\* The clock stands still at MaxTime.  A briefing that is enabled, has a route
\* and whose time has come by then is put into the outbox on that day; and a
\* rule that is enabled has its reminder.
EventuallyAnnounced ==
  /\ \A b \in Briefing :
       <>[](/\ Exists(rows[b]) /\ b \in routed /\ rows[b].enabled
            /\ LocalTime(MaxTime, rows[b].zone) >= rows[b].at)
         => <>(/\ Exists(rows[b])
               /\ <<b, LocalDate(MaxTime, rows[b].zone)>> \in outbox)
  /\ \A r \in Rule :
       <>[](r \in rules /\ MaxTime % DayLength >= RuleAt[r])
         => <>(<<r, MaxTime \div DayLength>> \in made)

-----------------------------------------------------------------------------
(* What makes them inductive.                                              *)

\* A row is only marked when the message is in the outbox.
MarkInv == step = "mark" => First \in outbox

BriefingIndInv == BriefingTypeOK /\ MarkedIsQueued /\ MarkInv

=============================================================================
