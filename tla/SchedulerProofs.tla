--------------------------- MODULE SchedulerProofs ---------------------------
(***************************************************************************)
(* Proofs about what the scheduler process runs: Reminders, with its       *)
(* inductive invariant IndInv and what follows, and then Briefings.        *)
(***************************************************************************)
EXTENDS Reminders, Briefings, WellFoundedInduction, TLAPS

USE DEF tableVars, eventVars, workVars, callVars

-----------------------------------------------------------------------------
(* Every step does one of four things to the reminders table.              *)

\* A row that a command has read and that still passes its WHERE clause.
Fresh(o, row) == row \in Row /\ Matches(o, row) /\ RowOf(row.id) = row

\* What a step may do to the table.
TableStep ==
  \/ UNCHANGED tableVars
  \/ \E r \in Reminder, t \in Instant : Insert(r, t)
  \/ EnqueueDue(now)
  \/ \E o \in Update, row \in Row, t \in Instant :
       /\ Fresh(o, row)
       /\ o = "snooze" => row.fireAt < t
       /\ Apply(o, row, t)

LEMMA TimeNat == ASSUME NEW t \in Time PROVE t \in Nat
  BY ReminderAssumption DEF Time

LEMMA InstantNat == Instant \subseteq Nat
  BY ReminderAssumption DEF Instant, Time

\* Versions and the snooze check make every step one of these.
LEMMA StepsOnTable ==
  ASSUME TypeOK, QueueInv, PlanInv, [Next]_vars PROVE TableStep
  <1> USE DEF TableStep
  <1>1. ASSUME NEW l \in Lead, CreateLead(l) PROVE TableStep
    BY <1>1 DEF CreateLead, Reminder, Instant
  <1>2. CASE Fire
    BY <1>2 DEF Fire
  <1>3. ASSUME NEW r \in Own, NEW t \in Time, CreateReminder(r, t)
        PROVE  TableStep
    BY <1>3 DEF CreateReminder, Reminder, Instant
  <1>4. ASSUME NEW c \in Caller, CommitUpdate(c) PROVE TableStep
    <2>1. PICK row \in plan[c] :
            \/ Matches(op[c], row) /\ Apply(op[c], row, to[c])
            \/ ~Matches(op[c], row) /\ UNCHANGED tableVars
      BY <1>4 DEF CommitUpdate
    <2>2. row \in Row /\ op[c] \in Update /\ to[c] \in Instant
      BY <1>4 DEF CommitUpdate, TypeOK, Instant
    <2>3. ASSUME Matches(op[c], row)
          PROVE  Fresh(op[c], row) /\ (op[c] = "snooze" => row.fireAt < to[c])
      <3>1. RowOf(row.id) = row
        BY <2>3 DEF PlanInv, VersionTellsChange, Matches
      <3>2. ASSUME op[c] = "snooze" PROVE row.status = "fired"
        <4>1. status[row.id] = "fired"
          BY <2>3, <3>2 DEF Matches, UpdatableFrom
        <4>2. RowOf(row.id).status = status[row.id]
          BY DEF RowOf
        <4> QED BY <3>1, <4>1, <4>2
      <3> QED BY <2>2, <2>3, <3>1, <3>2 DEF PlanInv, Fresh
    <2> QED BY <2>1, <2>2, <2>3
  <1>5. ASSUME NEW c \in Caller, DeleteCancel(c) PROVE TableStep
    <2>1. PICK row \in plan[c] :
            \/ Matches("cancel", row) /\ Apply("cancel", row, 0)
            \/ UNCHANGED tableVars
      BY <1>5 DEF DeleteCancel
    <2>2. row \in Row /\ "cancel" \in Update /\ 0 \in Instant
      BY ReminderAssumption DEF TypeOK, Update, Instant, Time
    <2>3. ASSUME Matches("cancel", row) PROVE Fresh("cancel", row)
      BY <2>2, <2>3 DEF PlanInv, VersionTellsChange, Matches, Fresh
    <2> QED BY <2>1, <2>2, <2>3
  <1>6. CASE UNCHANGED tableVars
    BY <1>6
  <1> QED
    BY <1>1, <1>2, <1>3, <1>4, <1>5, <1>6
    DEF Next, SchedulerStep, CommandStep, Tick, Restart, ReadLeads, ReadOccurrences, LeadsDone,
        ReadClock, BeginUpdate, BeginDelete, DeleteEvent, MoveEvent, SetLeads,
        vars

-----------------------------------------------------------------------------
(* Types.                                                                  *)

LEMMA InitType == Init => TypeOK
  <1> SUFFICES ASSUME Init PROVE TypeOK
    OBVIOUS
  <1>1. 0 \in Time
    BY ReminderAssumption DEF Time
  <1> QED BY <1>1 DEF Init, TypeOK, Status

LEMMA TableType ==
  ASSUME TypeOK, TableStep
  PROVE  /\ status' \in [Reminder -> Status]
         /\ fireAt' \in [Reminder -> Nat]
         /\ version' \in [Reminder -> Nat]
         /\ queued' \subseteq Reminder \X Nat
  <1> USE DEF TypeOK, Status
  <1>1. CASE UNCHANGED tableVars
    BY <1>1
  <1>2. ASSUME NEW r \in Reminder, NEW t \in Nat, Insert(r, t)
        PROVE  /\ status' \in [Reminder -> Status]
               /\ fireAt' \in [Reminder -> Nat]
               /\ version' \in [Reminder -> Nat]
               /\ queued' \subseteq Reminder \X Nat
    BY <1>2 DEF Insert
  <1>3. CASE EnqueueDue(now)
    BY <1>3 DEF EnqueueDue, Due
  <1>4. ASSUME NEW o \in Update, NEW row \in Row, NEW t \in Nat,
               Apply(o, row, t)
        PROVE  /\ status' \in [Reminder -> Status]
               /\ fireAt' \in [Reminder -> Nat]
               /\ version' \in [Reminder -> Nat]
               /\ queued' \subseteq Reminder \X Nat
    <2>1. row.id \in Reminder
      BY DEF Row
    <2> QED BY <1>4, <2>1 DEF Apply
  <1> QED BY <1>1, <1>2, <1>3, <1>4, InstantNat DEF TableStep

LEMMA RowType == ASSUME TypeOK, NEW r \in Reminder PROVE RowOf(r) \in Row
  BY DEF TypeOK, RowOf, Row

LEMMA NextType ==
  ASSUME TypeOK, QueueInv, PlanInv, [Next]_vars PROVE TypeOK'
  <1>1. /\ status' \in [Reminder -> Status]
        /\ fireAt' \in [Reminder -> Nat]
        /\ version' \in [Reminder -> Nat]
        /\ queued' \subseteq Reminder \X Nat
    BY StepsOnTable, TableType
  <1>2. 0 \in Time
    BY ReminderAssumption DEF Time
  <1> USE DEF TypeOK
  <1>3. CASE Tick
    <2>1. clock' \in Time
      BY <1>3, ReminderAssumption DEF Tick, Time
    <2> QED BY <1>1, <1>3, <2>1 DEF Tick
  <1>4. CASE SchedulerStep
    BY <1>1, <1>4
    DEF SchedulerStep, ReadLeads, ReadOccurrences, LeadsDone, ReadClock, Fire, CreateLead
  <1>5. CASE Restart
    BY <1>1, <1>5 DEF Restart
  <1>6. ASSUME NEW r \in Own, NEW t \in Time, CreateReminder(r, t) PROVE TypeOK'
    BY <1>1, <1>6 DEF CreateReminder
  <1>7. ASSUME NEW c \in Caller, NEW o \in Update, NEW r \in Reminder,
               NEW t \in Time, BeginUpdate(c, o, r, t)
        PROVE  TypeOK'
    <2>1. RowOf(r) \in Row
      BY RowType
    <2> QED BY <1>1, <1>7, <2>1 DEF BeginUpdate
  <1>8. ASSUME NEW c \in Caller, CommitUpdate(c) PROVE TypeOK'
    BY <1>1, <1>2, <1>8 DEF CommitUpdate, Return
  <1>9. ASSUME NEW c \in Caller, BeginDelete(c) PROVE TypeOK'
    <2>1. \A l \in Lead : RowOf(l) \in Row
      BY RowType DEF Reminder
    <2> QED BY <1>1, <1>9, <2>1 DEF BeginDelete
  <1>10. ASSUME NEW c \in Caller, DeleteCancel(c) PROVE TypeOK'
    BY <1>1, <1>2, <1>10 DEF DeleteCancel, Return
  <1>11. ASSUME NEW c \in Caller, DeleteEvent(c) PROVE TypeOK'
    BY <1>1, <1>2, <1>11 DEF DeleteEvent, Return
  <1>12. ASSUME NEW s \in Starts, MoveEvent(s) PROVE TypeOK'
    BY <1>1, <1>12 DEF MoveEvent
  <1>13. ASSUME NEW L \in SUBSET AheadSet, SetLeads(L) PROVE TypeOK'
    BY <1>1, <1>13 DEF SetLeads
  <1>14. CASE UNCHANGED vars
    BY <1>14 DEF vars
  <1>15. ASSUME NEW o \in Update, NEW t \in IF o = "snooze" THEN Time ELSE {0}
         PROVE  t \in Time
    BY <1>2
  <1> QED
    BY <1>3, <1>4, <1>5, <1>6, <1>7, <1>8, <1>9, <1>10, <1>11, <1>12, <1>13,
       <1>14, <1>15
    DEF Next, CommandStep

-----------------------------------------------------------------------------
(* The outbox.                                                             *)

\* What the table says about the clock is kept by every step on the table.
LEMMA TableQueue ==
  ASSUME TypeOK, OneDeliveryPerFiring, QueueInv, TableStep
  PROVE  /\ OneDeliveryPerFiring'
         /\ \A k \in queued' : status'[k[1]] # "absent" /\ k[2] <= fireAt'[k[1]]
         /\ \A r \in Reminder : status'[r] = "fired" => fireAt'[r] <= clock
         /\ \A r \in Reminder : status[r] # "absent" => status'[r] # "absent"
  <1> DEFINE
    Kept == /\ OneDeliveryPerFiring'
            /\ \A k \in queued' :
                 status'[k[1]] # "absent" /\ k[2] <= fireAt'[k[1]]
            /\ \A r \in Reminder : status'[r] = "fired" => fireAt'[r] <= clock
            /\ \A r \in Reminder : status[r] # "absent" => status'[r] # "absent"
  <1>1. \A k \in queued : k[1] \in Reminder /\ k[2] \in Nat /\ k = <<k[1], k[2]>>
    BY DEF TypeOK
  <1>2. CASE UNCHANGED tableVars
    BY <1>2 DEF OneDeliveryPerFiring, QueueInv
  <1>3. ASSUME NEW r \in Reminder, NEW t \in Nat, Insert(r, t) PROVE Kept
    <2>1. \A k \in queued : k[1] # r
      BY <1>3 DEF Insert, QueueInv
    <2>2. \A q \in Reminder : q # r =>
            status'[q] = status[q] /\ fireAt'[q] = fireAt[q]
      BY <1>3 DEF Insert, TypeOK
    <2>3. status'[r] = "pending" /\ <<r, fireAt'[r]>> \notin queued
      BY <1>3, <2>1 DEF Insert, TypeOK
    <2>4. queued' = queued
      BY <1>3 DEF Insert
    <2> QED
      BY <1>1, <2>1, <2>2, <2>3, <2>4 DEF OneDeliveryPerFiring, QueueInv
  <1>4. CASE EnqueueDue(now)
    <2>1. \A r \in Due(now) : /\ r \in Reminder /\ status[r] = "pending"
                              /\ fireAt[r] <= now
      BY DEF Due
    <2>2. \A r \in Reminder :
            /\ fireAt'[r] = fireAt[r]
            /\ r \in TooLate(now) => status'[r] = "cancelled"
            /\ r \in Due(now) \ TooLate(now) => status'[r] = "fired"
            /\ r \notin Due(now) => status'[r] = status[r]
      BY <1>4 DEF EnqueueDue, TooLate
    <2>3. \A k \in queued' :
            k \in queued \/ \E r \in Due(now) \ TooLate(now) : k = <<r, fireAt[r]>>
      BY <1>4 DEF EnqueueDue
    <2>4. /\ queued \subseteq queued'
          /\ \A r \in Due(now) \ TooLate(now) : <<r, fireAt[r]>> \in queued'
      BY <1>4 DEF EnqueueDue
    <2>5. now \in Nat /\ clock \in Nat /\ now <= clock
      BY TimeNat DEF TypeOK, QueueInv
    <2>6. \A r \in Reminder : fireAt[r] \in Nat
      BY DEF TypeOK
    <2>7. ASSUME NEW k \in queued'
          PROVE  status'[k[1]] # "absent" /\ k[2] <= fireAt'[k[1]]
      <3>1. CASE k \in queued
        BY <1>1, <2>1, <2>2, <3>1 DEF QueueInv
      <3>2. ASSUME NEW r \in Due(now) \ TooLate(now), k = <<r, fireAt[r]>>
            PROVE  status'[k[1]] # "absent" /\ k[2] <= fireAt'[k[1]]
        BY <2>1, <2>2, <2>6, <3>2
      <3> QED BY <2>3, <3>1, <3>2
    <2>8. ASSUME NEW r \in Reminder
          PROVE  /\ status'[r] = "fired" =>
                      <<r, fireAt'[r]>> \in queued' /\ fireAt'[r] <= clock
                 /\ status'[r] = "pending" => <<r, fireAt'[r]>> \notin queued'
                 /\ status[r] # "absent" => status'[r] # "absent"
      <3>1. CASE r \in Due(now)
        BY <2>1, <2>2, <2>4, <2>5, <2>6, <3>1
      <3>2. CASE r \notin Due(now)
        <4>1. status'[r] = status[r] /\ fireAt'[r] = fireAt[r]
          BY <2>2, <3>2
        <4>2. <<r, fireAt[r]>> \in queued' => <<r, fireAt[r]>> \in queued
          BY <2>3, <3>2
        <4> QED BY <2>4, <4>1, <4>2 DEF OneDeliveryPerFiring, QueueInv
      <3> QED BY <3>1, <3>2
    <2> QED BY <2>7, <2>8 DEF OneDeliveryPerFiring
  <1>5. ASSUME NEW o \in Update, NEW row \in Row, NEW t \in Nat,
               Fresh(o, row), o = "snooze" => row.fireAt < t, Apply(o, row, t)
        PROVE  Kept
    <2>1. row.id \in Reminder
      BY DEF Row
    <2>2. fireAt[row.id] = row.fireAt /\ status[row.id] # "absent"
      <3>1. RowOf(row.id).fireAt = fireAt[row.id]
        BY DEF RowOf
      <3> QED BY <1>5, <3>1 DEF Fresh, Matches, UpdatableFrom
    <2>3. \A r \in Reminder : r # row.id =>
            status'[r] = status[r] /\ fireAt'[r] = fireAt[r]
      BY <1>5, <2>1 DEF Apply, TypeOK
    <2>4. queued' = queued
      BY <1>5 DEF Apply
    <2>5. fireAt[row.id] \in Nat
      BY <2>1 DEF TypeOK
    <2>6. CASE o = "snooze"
      <3>1. status'[row.id] = "pending" /\ fireAt'[row.id] = t
        BY <1>5, <2>1, <2>6 DEF Apply, TypeOK
      <3>2. fireAt[row.id] < t
        BY <1>5, <2>2, <2>6
      <3>3. \A k \in queued : k[1] = row.id => k[2] < t /\ k[2] <= t
        BY <1>1, <2>5, <3>2 DEF QueueInv
      <3>4. <<row.id, t>> \notin queued
        BY <3>3
      <3> QED
        BY <1>1, <2>1, <2>2, <2>3, <2>4, <3>1, <3>3, <3>4
        DEF OneDeliveryPerFiring, QueueInv
    <2>7. CASE o # "snooze"
      <3>1. status'[row.id] = "cancelled" /\ fireAt'[row.id] = fireAt[row.id]
        BY <1>5, <2>1, <2>7 DEF Apply, TypeOK
      <3> QED
        BY <1>1, <2>1, <2>3, <2>4, <3>1 DEF OneDeliveryPerFiring, QueueInv
    <2> QED BY <2>6, <2>7
  <1> QED BY <1>2, <1>3, <1>4, <1>5, InstantNat DEF TableStep

LEMMA NextQueue ==
  ASSUME TypeOK, OneDeliveryPerFiring, QueueInv, PlanInv, [Next]_vars
  PROVE  OneDeliveryPerFiring' /\ QueueInv'
  <1>1. /\ OneDeliveryPerFiring'
        /\ \A k \in queued' : status'[k[1]] # "absent" /\ k[2] <= fireAt'[k[1]]
        /\ \A r \in Reminder : status'[r] = "fired" => fireAt'[r] <= clock
    BY StepsOnTable, TableQueue
  <1>2. clock \in Nat /\ now \in Nat /\ now <= clock
    BY TimeNat DEF TypeOK, QueueInv
  <1>3. clock' \in Nat /\ clock <= clock' /\ now' <= clock'
    BY <1>2
    DEF Next, SchedulerStep, CommandStep, Tick, Restart, ReadLeads, ReadOccurrences, LeadsDone,
        CreateLead, ReadClock, Fire, CreateReminder, CommitUpdate, DeleteCancel,
        BeginUpdate, BeginDelete, DeleteEvent, MoveEvent, SetLeads, vars
  <1>4. \A r \in Reminder : fireAt'[r] \in Nat
    BY StepsOnTable, TableType
  <1> QED BY <1>1, <1>2, <1>3, <1>4 DEF QueueInv

-----------------------------------------------------------------------------
(* Commands.                                                               *)

\* A table step raises the version of every row it changes, and a row that a
\* command has read exists.
LEMMA TableVersion ==
  ASSUME TypeOK, TableStep, NEW r \in Reminder, status[r] # "absent"
  PROVE  \/ version'[r] = version[r] /\ RowOf(r)' = RowOf(r)
         \/ version'[r] = version[r] + 1
  <1>1. CASE UNCHANGED tableVars
    BY <1>1 DEF RowOf
  <1>2. ASSUME NEW q \in Reminder, NEW t \in Nat, Insert(q, t)
        PROVE  version'[r] = version[r] /\ RowOf(r)' = RowOf(r)
    BY <1>2 DEF Insert, TypeOK, RowOf
  <1>3. CASE EnqueueDue(now)
    BY <1>3 DEF EnqueueDue, TypeOK, RowOf, TooLate
  <1>4. ASSUME NEW o \in Update, NEW row \in Row, NEW t \in Nat, Apply(o, row, t)
        PROVE  \/ version'[r] = version[r] /\ RowOf(r)' = RowOf(r)
               \/ version'[r] = version[r] + 1
    BY <1>4 DEF Apply, TypeOK, RowOf
  <1> QED BY <1>1, <1>2, <1>3, <1>4, InstantNat DEF TableStep

\* The part of PlanInv that is about one row of one command.
RowInv(c, row) ==
  /\ version[row.id] = row.version => RowOf(row.id) = row
  /\ row.version <= version[row.id]
  /\ status[row.id] # "absent"
  /\ op[c] = "snooze" /\ row.status = "fired" => row.fireAt < to[c]

LEMMA PlanRows == PlanInv <=> \A c \in Caller : \A row \in plan[c] : RowInv(c, row)
  BY DEF PlanInv, VersionTellsChange, RowInv

LEMMA NextPlan ==
  ASSUME TypeOK, OneDeliveryPerFiring, QueueInv, PlanInv, [Next]_vars
  PROVE  PlanInv'
  <1>0. ASSUME \A c \in Caller : \A row \in plan'[c] : RowInv(c, row)'
        PROVE  PlanInv'
    BY <1>0 DEF PlanInv, VersionTellsChange, RowInv
  <1>1. TableStep /\ TypeOK'
    BY StepsOnTable, NextType
  <1>2. ASSUME NEW c \in Caller, NEW row \in plan[c],
               op'[c] = op[c] \/ op'[c] # "snooze", to'[c] = to[c]
        PROVE  RowInv(c, row)'
    <2>1. row \in Row /\ RowInv(c, row)
      BY PlanRows DEF TypeOK
    <2>2. row.id \in Reminder /\ row.version \in Nat
      BY <2>1 DEF Row
    <2>3. /\ version[row.id] \in Nat /\ row.version <= version[row.id]
          /\ status[row.id] # "absent"
      BY <2>1, <2>2 DEF TypeOK, RowInv
    <2>4. \/ version'[row.id] = version[row.id] /\ RowOf(row.id)' = RowOf(row.id)
          \/ version'[row.id] = version[row.id] + 1
      BY <1>1, <2>2, <2>3, TableVersion
    <2>5. status'[row.id] # "absent"
      BY <1>1, <2>2, <2>3, TableQueue
    <2>6. version'[row.id] = row.version => RowOf(row.id)' = row
      BY <2>1, <2>2, <2>3, <2>4 DEF RowInv
    <2>7. row.version <= version'[row.id]
      BY <2>2, <2>3, <2>4
    <2> QED BY <1>2, <2>1, <2>5, <2>6, <2>7 DEF RowInv
  <1>3. ASSUME NEW c \in Caller, NEW o \in Update, NEW r \in Reminder,
               NEW t \in Time, BeginUpdate(c, o, r, t)
        PROVE  PlanInv'
    <2>1. RowInv(c, RowOf(r))'
      <3>1. /\ RowOf(r).id = r /\ RowOf(r).version = version[r]
            /\ RowOf(r).status = status[r] /\ RowOf(r).fireAt = fireAt[r]
        BY DEF RowOf
      <3>2. status[r] = "fired" => fireAt[r] <= clock
        BY DEF QueueInv
      <3>3. clock \in Nat /\ t \in Nat /\ fireAt[r] \in Nat /\ version[r] \in Nat
        BY TimeNat DEF TypeOK
      <3>4. /\ op'[c] = o /\ to'[c] = t /\ status[r] # "absent"
            /\ o = "snooze" => t > clock
        BY <1>3 DEF BeginUpdate, TypeOK
      <3>5. RowOf(r)' = RowOf(r) /\ UNCHANGED <<status, version>>
        BY <1>3 DEF BeginUpdate, RowOf
      <3> QED BY <3>1, <3>2, <3>3, <3>4, <3>5 DEF RowInv
    <2>2. ASSUME NEW d \in Caller, NEW row \in plan'[d] PROVE RowInv(d, row)'
      <3>1. CASE d = c
        <4>1. row = RowOf(r)
          BY <1>3, <2>2, <3>1 DEF BeginUpdate, TypeOK
        <4>2. RowOf(r)' = RowOf(r)
          BY <1>3 DEF BeginUpdate, RowOf
        <4> QED BY <2>1, <3>1, <4>1, <4>2
      <3>2. CASE d # c
        <4>1. row \in plan[d] /\ op'[d] = op[d] /\ to'[d] = to[d]
          BY <1>3, <2>2, <3>2 DEF BeginUpdate, TypeOK
        <4> QED BY <1>2, <4>1
      <3> QED BY <3>1, <3>2
    <2> QED BY <1>0, <2>2
  <1>4. ASSUME NEW c \in Caller, BeginDelete(c) PROVE PlanInv'
    <2>1. UNCHANGED tableVars
      BY <1>4 DEF BeginDelete
    <2>2. op'[c] = "delete"
      BY <1>4 DEF BeginDelete, TypeOK
    <2>3. ASSUME NEW d \in Caller, NEW row \in plan'[d] PROVE RowInv(d, row)'
      <3>1. CASE d = c
        <4>1. PICK l \in Lead : status[l] = "pending" /\ row = RowOf(l)
          BY <1>4, <2>3, <3>1 DEF BeginDelete, TypeOK
        <4>2. /\ row.id = l /\ row.version = version[l] /\ version[l] \in Nat
              /\ RowOf(l)' = RowOf(l)
          BY <2>1, <4>1 DEF RowOf, TypeOK, Reminder
        <4> QED BY <2>1, <2>2, <3>1, <4>1, <4>2 DEF RowInv
      <3>2. CASE d # c
        <4>1. row \in plan[d] /\ op'[d] = op[d] /\ to'[d] = to[d]
          BY <1>4, <2>3, <3>2 DEF BeginDelete, TypeOK
        <4> QED BY <1>2, <4>1
      <3> QED BY <3>1, <3>2
    <2> QED BY <1>0, <2>3
  <1>5. ASSUME NEW c \in Caller, Return(c) PROVE PlanInv'
    <2>1. ASSUME NEW d \in Caller, NEW row \in plan'[d] PROVE RowInv(d, row)'
      <3>1. d # c /\ row \in plan[d] /\ op'[d] = op[d] /\ to'[d] = to[d]
        BY <1>5, <2>1 DEF Return, TypeOK
      <3> QED BY <1>2, <3>1
    <2> QED BY <1>0, <2>1
  <1>6. ASSUME UNCHANGED <<op, to>>, \A d \in Caller : plan'[d] \subseteq plan[d]
        PROVE  PlanInv'
    <2>1. ASSUME NEW d \in Caller, NEW row \in plan'[d] PROVE RowInv(d, row)'
      <3>1. row \in plan[d] /\ op'[d] = op[d] /\ to'[d] = to[d]
        BY <1>6, <2>1
      <3> QED BY <1>2, <3>1
    <2> QED BY <1>0, <2>1
  <1>7. ASSUME NEW c \in Caller, DeleteCancel(c) PROVE PlanInv'
    <2>1. PICK row \in plan[c] :
            \/ plan' = [plan EXCEPT ![c] = @ \ {row}] /\ UNCHANGED <<op, to>>
            \/ Return(c)
      BY <1>7 DEF DeleteCancel
    <2>2. CASE plan' = [plan EXCEPT ![c] = @ \ {row}] /\ UNCHANGED <<op, to>>
      <3>1. \A d \in Caller : plan'[d] \subseteq plan[d]
        BY <2>2 DEF TypeOK
      <3> QED BY <1>6, <2>2, <3>1
    <2> QED BY <1>5, <2>1, <2>2
  <1>8. CASE UNCHANGED callVars
    BY <1>6, <1>8
  <1>9. ASSUME NEW o \in Update, NEW t \in IF o = "snooze" THEN Time ELSE {0}
        PROVE  t \in Time
    BY ReminderAssumption DEF Time
  <1> QED
    BY <1>3, <1>4, <1>5, <1>7, <1>8, <1>9
    DEF Next, SchedulerStep, CommandStep, Tick, Restart, ReadLeads, ReadOccurrences, LeadsDone,
        CreateLead, ReadClock, Fire, CreateReminder, CommitUpdate, DeleteEvent,
        MoveEvent, SetLeads, vars

-----------------------------------------------------------------------------
(* Theorems.                                                               *)

LEMMA InitInv == Init => IndInv
  <1> SUFFICES ASSUME Init PROVE IndInv
    OBVIOUS
  <1>1. TypeOK
    BY InitType
  <1>2. OneDeliveryPerFiring /\ PlanInv
    BY DEF Init, OneDeliveryPerFiring, PlanInv, VersionTellsChange
  <1>3. QueueInv
    BY DEF Init, QueueInv
  <1> QED BY <1>1, <1>2, <1>3 DEF IndInv

LEMMA NextInv == IndInv /\ [Next]_vars => IndInv'
  BY NextType, NextQueue, NextPlan DEF IndInv

\* The invariant holds in every state: rows, outbox and the commands under way
\* fit together as IndInv says.
THEOREM Invariance == Spec => []IndInv
  BY InitInv, NextInv, PTL DEF Spec

\* Every variable keeps its type.
THEOREM TypeCorrect == Spec => []TypeOK
  <1>1. IndInv => TypeOK
    BY DEF IndInv
  <1> QED BY Invariance, <1>1, PTL

\* enqueue_due never loses a firing to INSERT OR IGNORE and never leaves a fired
\* reminder without its delivery, for any number of commands, restarts and
\* reminders.
THEOREM EveryFiringDelivered == Spec => []OneDeliveryPerFiring
  <1>1. IndInv => OneDeliveryPerFiring
    BY DEF IndInv
  <1> QED BY Invariance, <1>1, PTL

\* The optimistic version check is sound: equal versions mean an equal row.
THEOREM VersionsSound == Spec => []VersionTellsChange
  <1>1. IndInv => VersionTellsChange
    BY DEF IndInv, PlanInv
  <1> QED BY Invariance, <1>1, PTL

\* Nothing revives or delivers a cancelled reminder.
THEOREM CancellationHolds == Spec => CancelledIsFinal
  <1>1. ASSUME IndInv, [Next]_vars
        PROVE  [\A r \in Reminder : status[r] = "cancelled" =>
                  /\ status'[r] = "cancelled"
                  /\ \A k \in queued' : k[1] = r => k \in queued]_vars
    <2>1. TableStep /\ TypeOK
      BY <1>1, StepsOnTable DEF IndInv
    <2> SUFFICES ASSUME NEW r \in Reminder, status[r] = "cancelled"
                 PROVE  /\ status'[r] = "cancelled"
                        /\ \A k \in queued' : k[1] = r => k \in queued
      OBVIOUS
    <2>2. CASE UNCHANGED tableVars
      BY <2>2
    <2>3. ASSUME NEW q \in Reminder, NEW t \in Nat, Insert(q, t)
          PROVE  status'[r] = "cancelled" /\ queued' = queued
      BY <2>1, <2>3 DEF Insert, TypeOK
    <2>4. CASE EnqueueDue(now)
      <3>1. r \notin Due(now)
        BY DEF Due
      <3> QED BY <2>1, <2>4, <3>1 DEF EnqueueDue, TooLate, TypeOK
    <2>5. ASSUME NEW o \in Update, NEW row \in Row, NEW t \in Nat,
                 Fresh(o, row), Apply(o, row, t)
          PROVE  status'[r] = "cancelled" /\ queued' = queued
      <3>1. row.id # r
        BY <2>5 DEF Fresh, Matches, UpdatableFrom
      <3> QED BY <2>1, <2>5, <3>1 DEF Apply, TypeOK
    <2> QED BY <2>1, <2>2, <2>3, <2>4, <2>5, InstantNat DEF TableStep
  <1> QED BY Invariance, <1>1, PTL DEF Spec, CancelledIsFinal

-----------------------------------------------------------------------------
(* The refinement of ReminderContract.                                     *)

LEMMA InitRefines == Init => Promise!Init
  BY DEF Init, Promise!Init

\* What the contract says of a step of the table while the clock stands.
LEMMA TableRefines ==
  ASSUME IndInv, TableStep, clock' = clock
  PROVE  [Promise!Next]_(Promise!contractVars)
  <1> USE DEF IndInv
  <1>1. CASE UNCHANGED tableVars
    BY <1>1 DEF Promise!contractVars
  <1>2. ASSUME NEW r \in Reminder, NEW t \in Instant, Insert(r, t)
        PROVE  Promise!Set(r, t)
    BY <1>2 DEF Insert, Promise!Set
  <1>3. ASSUME EnqueueDue(now)
        PROVE  Promise!Announce(Due(now) \ TooLate(now), TooLate(now))
    <2>1. TooLate(now) \subseteq Due(now) /\ TooLate(now) \subseteq Skip
      BY DEF TooLate
    <2>2. now \in Nat /\ clock \in Nat /\ now <= clock /\ Grace \in Nat
      BY TimeNat, ReminderAssumption DEF TypeOK, QueueInv
    <2>3. \A r \in Due(now) : /\ r \in Reminder /\ status[r] = "pending"
                              /\ fireAt[r] \in Nat /\ fireAt[r] <= clock
      BY <2>2 DEF Due, TypeOK
    <2>4. \A r \in TooLate(now) : fireAt[r] + Grace < clock
      BY <2>1, <2>2, <2>3 DEF TooLate
    <2>5. \A r \in Due(now) : <<r, fireAt[r]>> \notin queued
      BY <2>3 DEF OneDeliveryPerFiring
    <2>6. status' = [r \in Reminder |-> IF r \in Due(now) \ TooLate(now) THEN "fired"
                                        ELSE IF r \in TooLate(now) THEN "cancelled"
                                        ELSE status[r]]
      BY <1>3, <2>1 DEF EnqueueDue
    <2>7. /\ queued' = queued \cup {<<r, fireAt[r]>> : r \in Due(now) \ TooLate(now)}
          /\ fireAt' = fireAt
      BY <1>3 DEF EnqueueDue
    <2> QED
      BY <1>3, <2>1, <2>3, <2>4, <2>5, <2>6, <2>7 DEF Promise!Announce
  <1>4. ASSUME NEW o \in Update, NEW row \in Row, NEW t \in Instant, Fresh(o, row),
               o = "snooze" => row.fireAt < t, Apply(o, row, t)
        PROVE  Promise!Set(row.id, t) \/ Promise!Close(row.id)
    <2>1. status[row.id] \in UpdatableFrom(o) /\ row.id \in Reminder
      BY <1>4 DEF Fresh, Matches, Row
    <2>2. CASE o = "snooze"
      <3>1. fireAt[row.id] = row.fireAt
        BY <1>4 DEF Fresh, RowOf
      <3>2. status[row.id] = "fired" /\ t > fireAt[row.id]
        <4>1. row.fireAt \in Nat /\ t \in Nat /\ row.fireAt < t
          BY <1>4, <2>2, InstantNat DEF Row
        <4> QED BY <2>1, <2>2, <3>1, <4>1 DEF UpdatableFrom
      <3> QED BY <1>4, <2>1, <2>2, <3>2 DEF Apply, Promise!Set
    <2>3. CASE o # "snooze"
      <3>1. status[row.id] \in {"pending", "fired"}
        BY <2>1 DEF UpdatableFrom
      <3>2. fireAt' = fireAt
        BY <1>4, <2>1, <2>3 DEF Apply, TypeOK
      <3> QED BY <1>4, <2>3, <3>1, <3>2 DEF Apply, Promise!Close
    <2> QED BY <2>2, <2>3
  <1>5. Due(now) \subseteq Reminder /\ TooLate(now) \subseteq Reminder
    BY DEF Due, TooLate
  <1>6. \A row \in Row : row.id \in Reminder
    BY DEF Row
  <1>7. CASE EnqueueDue(now)
    BY <1>3, <1>5, <1>7 DEF Promise!Next
  <1>8. ASSUME NEW r \in Reminder, NEW t \in Instant,
               Promise!Set(r, t) \/ Promise!Close(r)
        PROVE  Promise!Next
    BY <1>8 DEF Promise!Next
  <1> QED BY <1>1, <1>2, <1>4, <1>6, <1>7, <1>8 DEF TableStep

\* The clock only goes on, by one, and while it does the table stands still.
LEMMA ClockSteps ==
  ASSUME [Next]_vars
  PROVE  clock' = clock \/ (clock' = clock + 1 /\ UNCHANGED tableVars)
  BY DEF Next, SchedulerStep, CommandStep, Tick, Restart, ReadLeads, ReadOccurrences,
         LeadsDone, CreateLead, ReadClock, Fire, CreateReminder, BeginUpdate,
         CommitUpdate, BeginDelete, DeleteCancel, DeleteEvent, MoveEvent, SetLeads, vars

\* The reminders keep what ReminderContract promises, for any number of them, of
\* commands under way and of restarts, and any lead times, grace and horizon.
THEOREM Refinement == Spec => KeepsContract
  <1>1. ASSUME IndInv, [Next]_vars PROVE [Promise!Next]_(Promise!contractVars)
    <2>1. TableStep
      BY <1>1, StepsOnTable DEF IndInv
    <2>2. CASE clock' = clock
      BY <1>1, <2>1, <2>2, TableRefines
    <2>3. CASE clock' = clock + 1 /\ UNCHANGED tableVars
      BY <2>3 DEF Promise!Next, Promise!Pass
    <2> QED BY <1>1, <2>2, <2>3, ClockSteps
  <1> QED
    BY Invariance, InitRefines, <1>1, PTL DEF Spec, KeepsContract, Promise!Spec

-----------------------------------------------------------------------------
(* What the contract is good for: nothing is announced before its time.    *)

NothingEarly == \A k \in queued : k[2] <= clock

\* The invariant of the contract that says so.
ContractInv ==
  /\ clock \in Nat /\ fireAt \in [Reminder -> Nat]
  /\ \A k \in queued : k[2] \in Nat /\ k[2] <= clock

LEMMA ContractInvNext ==
  ASSUME ContractInv, [Promise!Next]_(Promise!contractVars)
  PROVE  ContractInv'
  <1> USE DEF ContractInv
  <1>1. CASE Promise!Pass
    BY <1>1 DEF Promise!Pass
  <1>2. ASSUME NEW r \in Reminder, Promise!Close(r) PROVE ContractInv'
    BY <1>2 DEF Promise!Close
  <1>3. ASSUME NEW r \in Reminder, NEW t \in Instant, Promise!Set(r, t)
        PROVE  ContractInv'
    BY <1>3, InstantNat DEF Promise!Set
  <1>4. ASSUME NEW A \in SUBSET Reminder, NEW M \in SUBSET Reminder,
               Promise!Announce(A, M)
        PROVE  ContractInv'
    <2>1. \A r \in A : fireAt[r] \in Nat /\ fireAt[r] <= clock
      BY <1>4 DEF Promise!Announce
    <2>2. \A k \in queued' : k \in queued \/ \E r \in A : k = <<r, fireAt[r]>>
      BY <1>4 DEF Promise!Announce
    <2>3. UNCHANGED <<clock, fireAt>>
      BY <1>4 DEF Promise!Announce
    <2> QED BY <2>1, <2>2, <2>3
  <1>5. CASE UNCHANGED Promise!contractVars
    BY <1>5 DEF Promise!contractVars
  <1> QED BY <1>1, <1>2, <1>3, <1>4, <1>5 DEF Promise!Next

\* No reminder is put into the outbox before the time it is set to, which follows
\* from the contract alone (enqueue_due, materialised leads and snoozes).
THEOREM NeverAhead == Spec => []NothingEarly
  <1>1. Promise!Init => ContractInv
    BY DEF Promise!Init, ContractInv
  <1>2. ContractInv => NothingEarly
    BY DEF ContractInv, NothingEarly
  <1> QED
    BY Refinement, <1>1, <1>2, ContractInvNext, PTL DEF KeepsContract, Promise!Spec

-----------------------------------------------------------------------------
(* Briefings, which the same process runs after the reminders.  They share *)
(* nothing with them but the clock.                                        *)
USE DEF briefingTables, passVars, userVars, Time, Date

\* A set of numbers has a least one.
LEMMA LeastExists ==
  ASSUME NEW S, S \subseteq Nat, S # {}
  PROVE  \E x \in S : \A y \in S : x <= y
  <1>1. PICK x \in S : \A y \in S : <<y, x>> \notin OpToRel(<, Nat)
    BY WFMin, NatLessThanWellFounded
  <1>2. ASSUME NEW y \in S PROVE ~ (y < x)
    <2>1. <<y, x>> \in Nat \X Nat /\ <<y, x>>[1] = y /\ <<y, x>>[2] = x
      OBVIOUS
    <2>2. SUFFICES ASSUME y < x PROVE FALSE
      OBVIOUS
    <2>3. <<y, x>>[1] < <<y, x>>[2]
      BY <2>1, <2>2
    <2>4. <<y, x>> \in OpToRel(<, Nat)
      BY <2>1, <2>3, Zenon DEF OpToRel
    <2> QED BY <1>1, <2>4
  <1> QED
    BY <1>2, \A a, b \in Nat : ~ (a < b) => b <= a

\* Among the due briefings there is one to begin with.
LEMMA FirstExists ==
  ASSUME due \subseteq Briefing \X Nat, due # {}
  PROVE  First \in due
  <1> DEFINE Ids == {p[1] : p \in due}
  <1>1. Ids \subseteq Nat /\ Ids # {}
    <2>1. Briefing \subseteq Nat
      BY BriefingAssumption
    <2>2. \A p \in due : p[1] \in Briefing
      OBVIOUS
    <2>3. Ids # {}
      OBVIOUS
    <2> QED BY <2>1, <2>2, <2>3
  <1>2. PICK x \in Ids : \A y \in Ids : x <= y
    BY <1>1, LeastExists
  <1>3. \E p \in due : \A q \in due : p[1] <= q[1]
    BY <1>2
  <1> QED BY <1>3 DEF First

\* Dates and times of day are what they should be.
LEMMA LocalDateNat ==
  ASSUME NEW t \in Nat, NEW z \in Zone
  PROVE  LocalDate(t, z) \in Nat
  <1>1. t + Offset[z] \in Nat /\ DayLength \in Nat \ {0}
    BY BriefingAssumption
  <1> QED BY <1>1 DEF LocalDate

LEMMA DayNat ==
  ASSUME NEW t \in Nat
  PROVE  t \div DayLength \in Nat
  <1>1. DayLength \in Nat \ {0}
    BY BriefingAssumption
  <1> QED BY <1>1

LEMMA DailyInit == BriefingInit => BriefingIndInv
  <1> SUFFICES ASSUME BriefingInit PROVE BriefingIndInv
    OBVIOUS
  <1> USE BriefingAssumption DEF BriefingInit
  <1>1. PICK at \in Slot, z \in Zone :
          rows = [b \in Briefing |->
                    IF b \in Initial THEN NewRow(at, z) ELSE Absent]
    OBVIOUS
  <1>2. NewRow(at, z) \in BriefingRow /\ NewRow(at, z).sentOn = Never
    BY DEF NewRow, BriefingRow
  <1>3. rows \in [Briefing -> BriefingRow \cup {Absent, Deleted}]
    BY <1>1, <1>2
  <1>4. BriefingTypeOK
    BY <1>3 DEF BriefingTypeOK
  <1>5. MarkedIsQueued
    BY <1>1, <1>2 DEF MarkedIsQueued, Exists
  <1> QED BY <1>4, <1>5 DEF BriefingIndInv, MarkInv

\* A row that there is has the fields of one.
LEMMA DailyRow ==
  ASSUME BriefingTypeOK, NEW b \in Briefing, Exists(rows[b])
  PROVE  rows[b] \in BriefingRow
  BY DEF BriefingTypeOK, Exists

\* A step that writes at most one row of the table keeps the invariant when the
\* new row has its types and, if it is marked, its message is in the outbox.
LEMMA DailyWrite ==
  ASSUME BriefingIndInv, NEW b \in Briefing, NEW row,
         rows' = [rows EXCEPT ![b] = row],
         row \in BriefingRow \cup {Absent, Deleted},
         Exists(row) /\ row.sentOn # Never => <<b, row.sentOn>> \in outbox,
         outbox' = outbox
  PROVE  /\ rows' \in [Briefing -> BriefingRow \cup {Absent, Deleted}]
         /\ MarkedIsQueued'
  <1> USE DEF BriefingIndInv, BriefingTypeOK
  <1>1. rows'[b] = row /\ \A c \in Briefing : c # b => rows'[c] = rows[c]
    OBVIOUS
  <1>2. rows' \in [Briefing -> BriefingRow \cup {Absent, Deleted}]
    OBVIOUS
  <1>3. ASSUME NEW c \in Briefing, Exists(rows'[c]), rows'[c].sentOn # Never
        PROVE  <<c, rows'[c].sentOn>> \in outbox'
    <2>1. CASE c = b
      BY <1>1, <1>3, <2>1
    <2>2. CASE c # b
      BY <1>1, <1>3, <2>2 DEF MarkedIsQueued
    <2> QED BY <2>1, <2>2
  <1> QED BY <1>2, <1>3 DEF MarkedIsQueued, Exists

\* The commands about briefings.
LEMMA DailyCommands ==
  ASSUME BriefingIndInv, NEW b \in Briefing,
         \/ CreateDailyBriefing(b) \/ BeginBriefingUpdate(b)
         \/ DeleteDailyBriefing(b) \/ Observe(b)
  PROVE  BriefingIndInv'
  <1> USE BriefingAssumption
  <1>1. CASE CreateDailyBriefing(b)
    <2>1. PICK at \in Slot, z \in Zone :
            rows' = [rows EXCEPT ![b] = NewRow(at, z)]
      BY <1>1 DEF CreateDailyBriefing
    <2>2. NewRow(at, z) \in BriefingRow /\ NewRow(at, z).sentOn = Never
      BY DEF NewRow, BriefingRow
    <2>3. /\ rows' \in [Briefing -> BriefingRow \cup {Absent, Deleted}]
          /\ MarkedIsQueued'
      BY <1>1, <2>1, <2>2, DailyWrite DEF CreateDailyBriefing
    <2> QED
      BY <1>1, <2>3
      DEF CreateDailyBriefing, BriefingIndInv, BriefingTypeOK, MarkInv,
          First
  <1>2. CASE BeginBriefingUpdate(b)
    <2>1. rows[b] \in BriefingRow
      BY <1>2, DailyRow DEF BeginBriefingUpdate, BriefingIndInv
    <2>2. PICK row \in {[rows[b] EXCEPT !.enabled = ~ @]}
                         \cup {[rows[b] EXCEPT !.at = at] : at \in Slot}
                         \cup {[rows[b] EXCEPT !.zone = z] : z \in Zone} :
            command' = [id |-> b, row |-> row]
      BY <1>2 DEF BeginBriefingUpdate
    <2>3. row \in BriefingRow
      <3>1. PICK old : old = rows[b]
        OBVIOUS
      <3>2. /\ old.enabled \in BOOLEAN /\ old.at \in Slot /\ old.zone \in Zone
            /\ old.sentOn \in Nat \cup {Never}
            /\ old = [enabled |-> old.enabled, at |-> old.at, zone |-> old.zone,
                      sentOn |-> old.sentOn]
        BY <2>1, <3>1 DEF BriefingRow
      <3>3. ASSUME row = [old EXCEPT !.enabled = ~ @] PROVE row \in BriefingRow
        <4>1. PICK on \in BOOLEAN : on = ~ old.enabled
          OBVIOUS
        <4>2. row = [old EXCEPT !.enabled = on]
          BY <3>3, <4>1
        <4>3. row = [enabled |-> on, at |-> old.at, zone |-> old.zone,
                     sentOn |-> old.sentOn]
          BY <3>2, <4>2
        <4> QED BY <3>2, <4>3 DEF BriefingRow
      <3>4. ASSUME NEW at \in Slot, row = [old EXCEPT !.at = at]
            PROVE  row \in BriefingRow
        BY <3>2, <3>4 DEF BriefingRow
      <3>5. ASSUME NEW z \in Zone, row = [old EXCEPT !.zone = z]
            PROVE  row \in BriefingRow
        BY <3>2, <3>5 DEF BriefingRow
      <3> QED BY <2>2, <3>1, <3>3, <3>4, <3>5
    <2>4. command' \in [id : Briefing, row : BriefingRow]
      BY <2>2, <2>3
    <2> QED
      BY <1>2, <2>4
      DEF BeginBriefingUpdate, BriefingIndInv, BriefingTypeOK, MarkInv,
          First, MarkedIsQueued
  <1>3. CASE DeleteDailyBriefing(b)
    <2>1. rows' = [rows EXCEPT ![b] = Deleted] /\ ~ Exists(Deleted)
      BY <1>3 DEF DeleteDailyBriefing, Exists
    <2>2. /\ rows' \in [Briefing -> BriefingRow \cup {Absent, Deleted}]
          /\ MarkedIsQueued'
      BY <1>3, <2>1, DailyWrite DEF DeleteDailyBriefing
    <2> QED
      BY <1>3, <2>2
      DEF DeleteDailyBriefing, BriefingIndInv, BriefingTypeOK, MarkInv,
          First
  <1>4. CASE Observe(b)
    BY <1>4
    DEF Observe, BriefingIndInv, BriefingTypeOK, MarkInv, First,
        MarkedIsQueued
  <1> QED BY <1>1, <1>2, <1>3, <1>4

\* An update writes what was computed from an earlier reading of the row, but for
\* the mark, which it leaves as it is.
LEMMA DailyUpdate ==
  ASSUME BriefingIndInv, UpdateDailyBriefing
  PROVE  BriefingIndInv'
  <1>1. command.id \in Briefing /\ command.row \in BriefingRow
    BY DEF UpdateDailyBriefing, BriefingIndInv, BriefingTypeOK
  <1>2. CASE Exists(rows[command.id])
    <2>1. PICK old : old = rows[command.id]
      OBVIOUS
    <2>2. PICK row : row = [command.row EXCEPT !.sentOn = old.sentOn]
      OBVIOUS
    <2>3. old \in BriefingRow
      BY <1>1, <1>2, <2>1, DailyRow DEF BriefingIndInv
    <2>4. row \in BriefingRow /\ row.sentOn = old.sentOn
      BY <1>1, <2>2, <2>3 DEF BriefingRow
    <2>5. row.sentOn # Never => <<command.id, row.sentOn>> \in outbox
      BY <1>1, <1>2, <2>1, <2>4 DEF BriefingIndInv, MarkedIsQueued
    <2>6. rows' = [rows EXCEPT ![command.id] = row]
      BY <1>2, <2>1, <2>2 DEF UpdateDailyBriefing
    <2>7. /\ rows' \in [Briefing -> BriefingRow \cup {Absent, Deleted}]
          /\ MarkedIsQueued'
      BY <1>1, <2>4, <2>5, <2>6, DailyWrite DEF UpdateDailyBriefing
    <2> QED
      BY <2>7
      DEF UpdateDailyBriefing, BriefingIndInv, BriefingTypeOK, MarkInv,
          First
  <1>3. CASE ~ Exists(rows[command.id])
    BY <1>3
    DEF UpdateDailyBriefing, BriefingIndInv, BriefingTypeOK, MarkInv,
        First, MarkedIsQueued
  <1> QED BY <1>2, <1>3

\* Rules, the passing of time and the ends of the process.
LEMMA DailyOthers ==
  ASSUME BriefingIndInv,
         \/ \E r \in Rule : ChangeRule(r) \/ MaterializeRule(r)
         \/ PassTime \/ ReadRules \/ EndPass \/ Crash
         \/ UNCHANGED briefingVars
  PROVE  BriefingIndInv'
  <1> USE DEF BriefingIndInv, BriefingTypeOK, MarkInv, First,
              MarkedIsQueued
  <1>1. ASSUME NEW r \in Rule, ChangeRule(r) PROVE BriefingIndInv'
    <2>1. rules' \subseteq Rule /\ commands' \in 0 .. MaxCommands
      BY <1>1, BriefingAssumption DEF ChangeRule
    <2> QED BY <1>1, <2>1 DEF ChangeRule
  <1>2. ASSUME NEW r \in Rule, MaterializeRule(r) PROVE BriefingIndInv'
    <2>1. reading \in Nat
      BY BriefingAssumption
    <2>2. <<r, reading \div DayLength>> \in Rule \X Nat
      BY <2>1, DayNat
    <2>3. made' \subseteq Rule \X Nat
      BY <1>2, <2>2 DEF MaterializeRule
    <2> QED BY <1>2, <2>3 DEF MaterializeRule
  <1>3. CASE PassTime
    <2>1. clock' \in 0 .. MaxTime
      BY <1>3, BriefingAssumption DEF PassTime
    <2> QED BY <1>3, <2>1 DEF PassTime
  <1>4. CASE ReadRules
    BY <1>4 DEF ReadRules
  <1>5. CASE EndPass
    BY <1>5 DEF EndPass
  <1>6. CASE Crash
    <2>1. crashes' \in 0 .. MaxCrashes
      BY <1>6, BriefingAssumption DEF Crash
    <2> QED BY <1>6, <2>1 DEF Crash
  <1>7. CASE UNCHANGED briefingVars
    BY <1>7 DEF briefingVars
  <1> QED BY <1>1, <1>2, <1>3, <1>4, <1>5, <1>6, <1>7

\* DailyBriefingScheduler.tick.
LEMMA DailyPass ==
  ASSUME BriefingIndInv,
         ReadDue \/ LookUpRoute \/ Compose \/ Enqueue
           \/ MarkSent
  PROVE  BriefingIndInv'
  <1>1. due # {} => First \in due /\ First \in Briefing \X Nat
    BY FirstExists DEF BriefingIndInv, BriefingTypeOK
  <1>2. CASE ReadDue
    <2>1. clock \in Nat
      BY BriefingAssumption DEF BriefingIndInv, BriefingTypeOK
    <2>2. ASSUME NEW b \in Briefing, BriefingDue(rows[b], clock)
          PROVE  <<b, LocalDate(clock, rows[b].zone)>> \in Briefing \X Nat
      <3>1. rows[b].zone \in Zone
        BY <2>2, DailyRow DEF BriefingDue, BriefingIndInv, BriefingRow
      <3> QED BY <2>1, <3>1, LocalDateNat
    <2>3. due' \subseteq Briefing \X Nat
      BY <1>2, <2>2 DEF ReadDue
    <2> QED
      BY <1>2, <2>3
      DEF ReadDue, BriefingIndInv, BriefingTypeOK, MarkInv,
          MarkedIsQueued
  <1>3. CASE LookUpRoute
    BY <1>3
    DEF LookUpRoute, BriefingIndInv, BriefingTypeOK, MarkInv,
        MarkedIsQueued
  <1>4. CASE Compose
    BY <1>4
    DEF Compose, BriefingIndInv, BriefingTypeOK, MarkInv,
        MarkedIsQueued
  <1>5. CASE Enqueue
    <2>1. due # {}
      BY <1>5 DEF Enqueue, BriefingIndInv, BriefingTypeOK
    <2>2. outbox' = outbox \cup {First} /\ outbox' \subseteq Briefing \X Nat
      BY <1>1, <1>5, <2>1 DEF Enqueue, BriefingIndInv, BriefingTypeOK
    <2>3. First' = First
      BY <1>5 DEF Enqueue, First
    <2>4. MarkInv'
      BY <2>2, <2>3 DEF MarkInv
    <2> QED
      BY <1>5, <2>1, <2>2, <2>4
      DEF Enqueue, BriefingIndInv, BriefingTypeOK, MarkedIsQueued
  <1>6. CASE MarkSent
    <2>1. due # {} /\ First \in outbox
      BY <1>6 DEF MarkSent, BriefingIndInv, BriefingTypeOK, MarkInv
    <2>2. PICK b \in Briefing, d \in Nat : First = <<b, d>>
      <3>1. PICK p \in Briefing \X Nat : p = First
        BY <1>1, <2>1
      <3>2. p[1] \in Briefing /\ p[2] \in Nat /\ p = <<p[1], p[2]>>
        OBVIOUS
      <3> QED BY <3>1, <3>2
    <2>3. First[1] = b /\ First[2] = d
      BY <2>2
    <2>4. /\ rows' \in [Briefing -> BriefingRow \cup {Absent, Deleted}]
          /\ MarkedIsQueued'
      <3>1. CASE Exists(rows[b]) /\ rows[b].enabled
        <4>1. PICK old : old = rows[b]
          OBVIOUS
        <4>2. PICK row : row = [old EXCEPT !.sentOn = d]
          OBVIOUS
        <4>3. old \in BriefingRow
          BY <3>1, <4>1, DailyRow DEF BriefingIndInv
        <4>4. row \in BriefingRow /\ row.sentOn = d
          BY <4>2, <4>3 DEF BriefingRow
        <4>5. rows' = [rows EXCEPT ![b] = row]
          BY <1>6, <2>3, <3>1, <4>1, <4>2 DEF MarkSent
        <4>6. <<b, row.sentOn>> \in outbox /\ outbox' = outbox
          BY <1>6, <2>1, <2>2, <4>4 DEF MarkSent
        <4> QED BY <4>4, <4>5, <4>6, DailyWrite
      <3>2. CASE ~ (Exists(rows[b]) /\ rows[b].enabled)
        BY <1>6, <2>3, <3>2
        DEF MarkSent, BriefingIndInv, BriefingTypeOK, MarkedIsQueued
      <3> QED BY <3>1, <3>2
    <2> QED
      BY <1>6, <2>4
      DEF MarkSent, BriefingIndInv, BriefingTypeOK, MarkInv
  <1> QED BY <1>2, <1>3, <1>4, <1>5, <1>6

LEMMA DailyNext == BriefingIndInv /\ [BriefingNext]_briefingVars => BriefingIndInv'
  BY DailyCommands, DailyUpdate, DailyOthers, DailyPass
  DEF BriefingNext, DailyStep

\* Briefings, what is due, outbox and the scheduler fit together in every state.
THEOREM DailyInvariance == BriefingSpec => []BriefingIndInv
  BY DailyInit, DailyNext, PTL DEF BriefingSpec

\* Every variable of the briefings keeps its type.
THEOREM DailyTypeCorrect == BriefingSpec => []BriefingTypeOK
  <1>1. BriefingIndInv => BriefingTypeOK
    BY DEF BriefingIndInv
  <1> QED BY DailyInvariance, <1>1, PTL

\* No mark without a message, for any number of briefings, time zones and rules:
\* wherever the scheduler ends, and whatever commands write meanwhile, a briefing
\* that is marked as sent for a date is in the outbox for it.
THEOREM NoBriefingIsLost == BriefingSpec => []MarkedIsQueued
  <1>1. BriefingIndInv => MarkedIsQueued
    BY DEF BriefingIndInv
  <1> QED BY DailyInvariance, <1>1, PTL
=============================================================================
