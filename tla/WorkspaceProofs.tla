--------------------------- MODULE WorkspaceProofs ---------------------------
(***************************************************************************)
(* Proofs about module Workspace: the inductive invariant, and what        *)
(* follows from it about lost edits, deleted rows, the transitions of      *)
(* tasks, the search index and dangling rows.                              *)
(***************************************************************************)
EXTENDS Workspace, SequenceTheorems, TLAPS

-----------------------------------------------------------------------------
(* Writes and ids.                                                         *)

\* The kind of a write tells its table.
LEMMA WriteKind ==
  ASSUME NEW w \in Write
  PROVE  /\ w # Idle /\ w.step \in Step /\ w.expected \in Nat
         /\ w.auth.kind \in Kind /\ w.auth.id \in Id /\ w.auth.edit \in Nat
         /\ w.auth.actor \in User /\ w.auth.action \in Action
         /\ w.auth.kind = "agenda" => w \in WriteOf("agenda", AgendaId, AgendaRow)
         /\ w.auth.kind = "agenda_notification" =>
              w \in WriteOf("agenda_notification", RuleId, RuleRow)
         /\ w.auth.kind = "task" => w \in WriteOf("task", TaskId, TaskRow)
         /\ w.auth.kind = "note" => w \in WriteOf("note", NoteId, NoteRow)
         /\ w.auth.kind = "anniversary" => w \in WriteOf("anniversary", DayId, DayRow)
PROOF
<1>1. CASE w \in WriteOf("agenda", AgendaId, AgendaRow)
  BY <1>1 DEF WriteOf, Idle, Step, Kind, Id
<1>2. CASE w \in WriteOf("agenda_notification", RuleId, RuleRow)
  BY <1>2 DEF WriteOf, Idle, Step, Kind, Id
<1>3. CASE w \in WriteOf("task", TaskId, TaskRow)
  BY <1>3 DEF WriteOf, Idle, Step, Kind, Id
<1>4. CASE w \in WriteOf("note", NoteId, NoteRow)
  BY <1>4 DEF WriteOf, Idle, Step, Kind, Id
<1>5. CASE w \in WriteOf("anniversary", DayId, DayRow)
  BY <1>5 DEF WriteOf, Idle, Step, Kind, Id
<1>6. QED
  BY <1>1, <1>2, <1>3, <1>4, <1>5 DEF Write

\* What is about to be written is a write.
LEMMA PendingWrite ==
  ASSUME TypeOK, NEW c \in Caller, Pending(c)
  PROVE  call[c] \in Write
PROOF
BY DEF TypeOK, Pending

\* A row is present under its id in its own table and in no other.
LEMMA PresentIn ==
  /\ \A i \in AgendaId : i \in Present <=> agenda[i] # Absent
  /\ \A i \in RuleId : i \in Present <=> rules[i] # Absent
  /\ \A i \in TaskId : i \in Present <=> tasks[i] # Absent
  /\ \A i \in NoteId : i \in Present <=> notes[i] # Absent
  /\ \A i \in DayId : i \in Present <=> days[i] # Absent
PROOF
BY StoreAssumption DEF Present

-----------------------------------------------------------------------------
(* The first half of a command.                                            *)

\* The part of the invariant that is about the tables alone.
LEMMA StoreStays ==
  ASSUME IndInv, UNCHANGED storeVars
  PROVE  StoreTypeOK' /\ NothingDangling' /\ GoneInv' /\ IndexInv' /\ Present' = Present
PROOF
<1>1. UNCHANGED <<agenda, recurrence, exceptions, overrides, rules, tasks, notes,
                  index, categories, days, acl, audit>>
  BY DEF storeVars, agendaVars, noteVars
<1>2. Present' = Present
  BY <1>1 DEF Present
<1>3. StoreTypeOK'
  BY <1>1 DEF IndInv, TypeOK, StoreTypeOK
<1>4. NothingDangling'
  BY <1>1 DEF IndInv, NothingDangling
<1>5. GoneInv' /\ IndexInv'
  BY <1>1, <1>2 DEF IndInv, GoneInv, IndexInv
<1>6. QED
  BY <1>2, <1>3, <1>4, <1>5

\* What a command has to show about the write it prepares: the id is a new one or
\* that of a row there is, and an update has read the row it is going to replace.
WellPrepared(w) ==
  /\ w \in Write
  /\ w.auth.action = "delete" <=> w.step = "delete"
  /\ IF w.step = "create" THEN w.auth.id \notin issued ELSE w.auth.id \in Present
  /\ w.step = "update" /\ w.auth.kind = "agenda" =>
       /\ w.expected = agenda[w.auth.id].version
       /\ agenda[w.auth.id].edits \subseteq w.row.edits
  /\ w.step = "update" /\ w.auth.kind = "task" =>
       /\ w.expected = tasks[w.auth.id].version
       /\ tasks[w.auth.id].edits \subseteq w.row.edits
       /\ w.row.status \in {tasks[w.auth.id].status}
                             \cup AllowedTransitions[tasks[w.auth.id].status]
  /\ w.step = "update" /\ w.auth.kind = "note" =>
       /\ w.expected = notes[w.auth.id].version
       /\ notes[w.auth.id].edits \subseteq w.row.edits

LEMMA BeginInv ==
  ASSUME IndInv, NEW c \in Caller, Ready(c), NEW w, WellPrepared(w), Begin(c, w),
         issued' = issued \cup {w.auth.id}
  PROVE  IndInv'
PROOF
<1>1. StoreTypeOK' /\ NothingDangling' /\ GoneInv' /\ IndexInv' /\ Present' = Present
  BY StoreStays DEF Begin
<1>2. UNCHANGED <<agenda, tasks, notes, audit>>
  BY DEF Begin, storeVars, agendaVars, noteVars
<1>3. w \in Write /\ w # Idle /\ w.auth.id \in Id /\ w.expected \in Nat
  BY WriteKind DEF WellPrepared
<1>4. call' = [call EXCEPT ![c] = w] /\ call \in [Caller -> Write \cup {Idle}]
  BY DEF Begin, IndInv, TypeOK
<1>5. /\ call'[c] = w
      /\ \A d \in Caller \ {c} : call'[d] = call[d]
  BY <1>4
<1>6. TypeOK'
  <2>1. call' \in [Caller -> Write \cup {Idle}]
    BY <1>3, <1>4
  <2>2. issued' \subseteq Id
    BY <1>3 DEF IndInv, TypeOK
  <2>3. edits' \in 0 .. MaxEdits
    BY WorkspaceAssumption DEF Begin, Ready, IndInv, TypeOK
  <2>4. QED
    BY <1>1, <2>1, <2>2, <2>3 DEF TypeOK
<1>7. IdInv'
  <2>1. Present' \subseteq issued' /\ \A a \in audit' : a.id \in issued'
    BY <1>1, <1>2 DEF IndInv, IdInv
  <2>2. ASSUME NEW d \in Caller, Pending(d)'
        PROVE  /\ call'[d].auth.id \in issued'
               /\ call'[d].auth.action = "delete" <=> call'[d].step = "delete"
    <3>1. CASE d = c
      BY <3>1, <1>5 DEF WellPrepared
    <3>2. CASE d # c
      BY <3>2, <1>5, <2>2 DEF Pending, IndInv, IdInv
    <3>3. QED
      BY <3>1, <3>2
  <2>3. ASSUME NEW d \in Caller, Pending(d)', call'[d].step = "create"
        PROVE  /\ call'[d].auth.id \notin Present'
               /\ \A e \in Caller : Pending(e)' /\ call'[e].auth.id = call'[d].auth.id
                                      => e = d
               /\ \A a \in audit' : a.id = call'[d].auth.id => a.action # "delete"
    <3>1. CASE d = c
      <4>1. w.auth.id \notin issued
        BY <3>1, <1>5, <2>3 DEF WellPrepared
      <4>2. w.auth.id \notin Present'
        BY <4>1, <1>1 DEF IndInv, IdInv
      <4>3. \A e \in Caller : Pending(e)' /\ call'[e].auth.id = w.auth.id => e = c
        BY <4>1, <1>5 DEF Pending, IndInv, IdInv
      <4>4. \A a \in audit' : a.id # w.auth.id
        BY <4>1, <1>2 DEF IndInv, IdInv
      <4>5. QED
        BY <4>2, <4>3, <4>4, <3>1, <1>5
    <3>2. CASE d # c
      <4>1. Pending(d) /\ call[d].step = "create" /\ call'[d] = call[d]
        BY <3>2, <1>5, <2>3 DEF Pending
      <4>2. call[d].auth.id \notin Present /\ call[d].auth.id \in issued
        BY <4>1 DEF IndInv, IdInv
      <4>3. w.auth.id # call[d].auth.id
        BY <4>2 DEF WellPrepared
      <4>4. \A e \in Caller : Pending(e)' /\ call'[e].auth.id = call'[d].auth.id => e = d
        BY <4>1, <4>3, <1>5 DEF Pending, IndInv, IdInv
      <4>5. \A a \in audit' : a.id = call'[d].auth.id => a.action # "delete"
        BY <4>1, <1>2 DEF IndInv, IdInv
      <4>6. QED
        BY <4>1, <4>2, <4>4, <4>5, <1>1
    <3>3. QED
      BY <3>1, <3>2
  <2>4. QED
    BY <2>1, <2>2, <2>3 DEF IdInv
<1>8. SeenInv'
  <2>1. Seen(agenda, "agenda")'
    BY <1>2, <1>3, <1>5, WriteKind
      DEF Seen, Pending, WellPrepared, IndInv, SeenInv, TypeOK, StoreTypeOK,
          WriteOf, AgendaRow
  <2>2. Seen(tasks, "task")'
    BY <1>2, <1>3, <1>5, WriteKind
      DEF Seen, Pending, WellPrepared, IndInv, SeenInv, TypeOK, StoreTypeOK,
          WriteOf, TaskRow
  <2>3. Seen(notes, "note")'
    BY <1>2, <1>3, <1>5, WriteKind
      DEF Seen, Pending, WellPrepared, IndInv, SeenInv, TypeOK, StoreTypeOK,
          WriteOf, NoteRow
  <2>4. QED
    BY <2>1, <2>2, <2>3 DEF SeenInv
<1>9. StatusInv'
  BY <1>2, <1>5 DEF StatusInv, Pending, WellPrepared, IndInv
<1>10. QED
  BY <1>1, <1>6, <1>7, <1>8, <1>9 DEF IndInv

\* An id and a row of the kind.
Typed(kind, id, row) ==
  \/ kind = "agenda" /\ id \in AgendaId /\ row \in AgendaRow
  \/ kind = "agenda_notification" /\ id \in RuleId /\ row \in RuleRow
  \/ kind = "task" /\ id \in TaskId /\ row \in TaskRow
  \/ kind = "note" /\ id \in NoteId /\ row \in NoteRow
  \/ kind = "anniversary" /\ id \in DayId /\ row \in DayRow

LEMMA MakesWrite ==
  ASSUME IndInv, NEW x \in Context, NEW step \in Step, NEW action \in Action,
         NEW kind, NEW id, NEW row, Typed(kind, id, row), NEW expected \in Nat,
         NEW owner \in User, NEW class \in Class
  PROVE  [step |-> step, row |-> row, expected |-> expected,
          auth |-> Capability(x, action, kind, id, owner, class)] \in Write
PROOF
<1>1. edits + 1 \in Nat /\ x.actor \in User
  BY WorkspaceAssumption DEF IndInv, TypeOK
<1>2. PICK auth : auth = Capability(x, action, kind, id, owner, class)
  OBVIOUS
<1>3. auth \in [edit : Nat, actor : User, action : Action, kind : {kind}, id : {id},
                owner : User, class : Class]
  BY <1>1, <1>2 DEF Capability
<1>4. QED
  BY <1>2, <1>3 DEF Typed, Write, WriteOf

LEMMA TypedRow ==
  ASSUME NEW kind, NEW id, NEW row, Typed(kind, id, row)
  PROVE  row.owner \in User /\ row.class \in Class /\ row.edits \subseteq Nat
PROOF
BY DEF Typed, AgendaRow, RuleRow, TaskRow, NoteRow, DayRow

LEMMA BeginCreateInv ==
  ASSUME IndInv, NEW c \in Caller, Ready(c), NEW x \in Context,
         NEW kind, NEW id, NEW row, Typed(kind, id, row),
         BeginCreate(c, x, kind, id, row)
  PROVE  IndInv'
PROOF
<1>1. PICK w : w = [step |-> "create", row |-> row, expected |-> 0,
          auth |-> Capability(x, "create", kind, id, row.owner, row.class)]
  OBVIOUS
<1>2. w \in Write
  BY <1>1, TypedRow, MakesWrite DEF Step, Action
<1>3. w.step = "create" /\ w.auth.action = "create" /\ w.auth.id = id
  BY <1>1 DEF Capability
<1>4. id \notin issued /\ issued' = issued \cup {id} /\ Begin(c, w)
  BY <1>1 DEF BeginCreate
<1>5. WellPrepared(w)
  BY <1>2, <1>3, <1>4 DEF WellPrepared
<1>6. QED
  BY <1>3, <1>4, <1>5, BeginInv

\* A command on a row there is takes no new id.
LEMMA NoNewId ==
  ASSUME IndInv, NEW id \in Present, UNCHANGED issued
  PROVE  issued' = issued \cup {id}
PROOF
BY DEF IndInv, IdInv

LEMMA BeginOtherInv ==
  ASSUME IndInv, NEW c \in Caller, Ready(c), NEW x \in Context,
         NEW step \in {"delete", "exception", "override"}, NEW action \in Action,
         action = "delete" <=> step = "delete",
         NEW kind, NEW id \in Present, NEW row, Typed(kind, id, row),
         BeginOther(c, x, step, action, kind, id, row)
  PROVE  IndInv'
PROOF
<1>1. PICK w : w = [step |-> step, row |-> row, expected |-> 0,
          auth |-> Capability(x, action, kind, id, row.owner, row.class)]
  OBVIOUS
<1>2. w \in Write
  BY <1>1, TypedRow, MakesWrite DEF Step
<1>3. w.step = step /\ w.auth.action = action /\ w.auth.id = id
  BY <1>1 DEF Capability
<1>4. issued' = issued \cup {id} /\ Begin(c, w)
  BY <1>1, NoNewId DEF BeginOther
<1>5. WellPrepared(w)
  BY <1>2, <1>3 DEF WellPrepared
<1>6. QED
  BY <1>3, <1>4, <1>5, BeginInv

\* The row that an update is made from, as the table has it.
ReadRow(kind, id) ==
  CASE kind = "agenda" -> agenda[id]
    [] kind = "agenda_notification" -> rules[id]
    [] kind = "task" -> tasks[id]
    [] kind = "note" -> notes[id]
    [] kind = "anniversary" -> days[id]

LEMMA BeginUpdateInv ==
  ASSUME IndInv, NEW c \in Caller, Ready(c), NEW x \in Context,
         NEW kind, NEW id \in Present, NEW row, Typed(kind, id, row),
         NEW expected \in Nat, BeginUpdate(c, x, kind, id, row, expected),
         ReadRow(kind, id).edits \subseteq row.edits,
         kind \in {"agenda", "task", "note"} => expected = ReadRow(kind, id).version,
         kind = "task" =>
           row.status \in {tasks[id].status} \cup AllowedTransitions[tasks[id].status]
  PROVE  IndInv'
PROOF
<1>1. PICK new : new = [row EXCEPT !.edits = @ \cup {edits + 1}]
  OBVIOUS
<1>2. edits + 1 \in Nat
  BY DEF IndInv, TypeOK
<1>3. Typed(kind, id, new) /\ row.edits \subseteq new.edits
      /\ (kind = "task" => new.status = row.status)
  BY <1>1, <1>2 DEF Typed, AgendaRow, RuleRow, TaskRow, NoteRow, DayRow
<1>4. PICK w : w = [step |-> "update", row |-> new, expected |-> expected,
          auth |-> Capability(x, "update", kind, id, row.owner, row.class)]
  OBVIOUS
<1>5. w \in Write
  BY <1>3, <1>4, TypedRow, MakesWrite DEF Step, Action
<1>6. /\ w.step = "update" /\ w.auth.action = "update" /\ w.auth.id = id
      /\ w.auth.kind = kind /\ w.row = new /\ w.expected = expected
  BY <1>4 DEF Capability
<1>7. issued' = issued \cup {id} /\ Begin(c, w)
  BY <1>1, <1>4, NoNewId DEF BeginUpdate
<1>8. WellPrepared(w)
  <2>1. ReadRow(kind, id).edits \subseteq new.edits
    BY <1>3
  <2>2. kind = "agenda" => ReadRow(kind, id) = agenda[id]
    BY DEF ReadRow
  <2>3. kind = "task" => ReadRow(kind, id) = tasks[id]
    BY DEF ReadRow
  <2>4. kind = "note" => ReadRow(kind, id) = notes[id]
    BY DEF ReadRow
  <2>5. QED
    BY <1>3, <1>5, <1>6, <2>1, <2>2, <2>3, <2>4 DEF WellPrepared
<1>9. QED
  BY <1>6, <1>7, <1>8, BeginInv

LEMMA CreateOwnerIsUser ==
  ASSUME NEW x \in Context, NEW private \in BOOLEAN
  PROVE  CreateOwner(x, private) \in User /\ x.actor \in User
PROOF
BY WorkspaceAssumption DEF CreateOwner

LEMMA AgendaCommandInv ==
  ASSUME IndInv, NEW c \in Caller, Ready(c), NEW x \in Context, AgendaCommand(c, x)
  PROVE  IndInv'
PROOF
<1>1. edits \in Nat /\ edits + 1 \in Nat
  BY DEF IndInv, TypeOK
<1>2. /\ \A i \in AgendaId : agenda[i] # Absent => agenda[i] \in AgendaRow /\ i \in Present
      /\ \A i \in RuleId : rules[i] # Absent => rules[i] \in RuleRow /\ i \in Present
  BY PresentIn DEF IndInv, TypeOK, StoreTypeOK
<1>3. ASSUME NEW id \in AgendaId, CreateAgenda(c, x, id)
      PROVE  IndInv'
  <2>1. PICK private, recurring \in BOOLEAN, class \in Class :
          BeginCreate(c, x, "agenda", id,
            NewAgenda(CreateOwner(x, private), x.actor, class, edits + 1, recurring))
    BY <1>3 DEF CreateAgenda
  <2>2. PICK row : row = NewAgenda(CreateOwner(x, private), x.actor, class, edits + 1,
                                   recurring)
    OBVIOUS
  <2>3. Typed("agenda", id, row)
    BY <1>1, <2>2, CreateOwnerIsUser DEF Typed, AgendaRow, NewAgenda
  <2>4. QED
    BY <2>1, <2>2, <2>3, BeginCreateInv
<1>4. ASSUME NEW id \in AgendaId, UpdateAgenda(c, x, id)
      PROVE  IndInv'
  <2>1. PICK recurring \in BOOLEAN, class \in Class :
          BeginUpdate(c, x, "agenda", id,
            [agenda[id] EXCEPT !.version = @ + 1, !.recurring = recurring,
                               !.class = class], agenda[id].version)
    BY <1>4 DEF UpdateAgenda
  <2>2. PICK old \in AgendaRow : old = agenda[id]
    BY <1>2, <1>4 DEF UpdateAgenda
  <2>3. PICK row : row = [old EXCEPT !.version = @ + 1, !.recurring = recurring,
                                     !.class = class]
    OBVIOUS
  <2>4. Typed("agenda", id, row) /\ old.edits \subseteq row.edits /\ old.version \in Nat
    <3>1. old.version \in Nat /\ old.version + 1 \in Nat
      BY DEF AgendaRow
    <3>2. row = [owner |-> old.owner, creator |-> old.creator, class |-> class,
                 edits |-> old.edits, version |-> old.version + 1,
                 recurring |-> recurring]
      BY <2>3 DEF AgendaRow
    <3>3. QED
      BY <3>1, <3>2 DEF Typed, AgendaRow
  <2>5. id \in Present
    BY <1>2, <1>4 DEF UpdateAgenda
  <2>6. ReadRow("agenda", id) = old
    BY <2>2 DEF ReadRow
  <2>7. BeginUpdate(c, x, "agenda", id, row, old.version)
    BY <2>1, <2>2, <2>3
  <2>8. QED
    BY <2>4, <2>5, <2>6, <2>7, BeginUpdateInv
<1>5. ASSUME NEW id \in AgendaId, DeleteAgenda(c, x, id)
      PROVE  IndInv'
  BY <1>2, <1>5, BeginOtherInv DEF DeleteAgenda, Typed, Action
<1>6. ASSUME NEW id \in AgendaId, SetAgendaException(c, x, id)
      PROVE  IndInv'
  BY <1>2, <1>6, BeginOtherInv DEF SetAgendaException, Typed, Action
<1>7. ASSUME NEW id \in AgendaId, SetNotificationLeads(c, x, id)
      PROVE  IndInv'
  BY <1>2, <1>7, BeginOtherInv DEF SetNotificationLeads, Typed, Action
<1>8. ASSUME NEW id \in RuleId, NEW item \in AgendaId,
             CreateAgendaNotification(c, x, item, id)
      PROVE  IndInv'
  <2>1. PICK old \in AgendaRow : old = agenda[item]
    BY <1>2, <1>8 DEF CreateAgendaNotification
  <2>2. PICK class \in Class :
          BeginCreate(c, x, "agenda_notification", id,
            [owner |-> old.owner, creator |-> x.actor, item |-> item,
             class |-> IF "confidential" \in {old.class, class}
                       THEN "confidential" ELSE "personal",
             edits |-> {edits + 1}])
    BY <1>8, <2>1 DEF CreateAgendaNotification
  <2>3. PICK row : row = [owner |-> old.owner, creator |-> x.actor, item |-> item,
                          class |-> IF "confidential" \in {old.class, class}
                                    THEN "confidential" ELSE "personal",
                          edits |-> {edits + 1}]
    OBVIOUS
  <2>4. Typed("agenda_notification", id, row)
    BY <1>1, <2>3, CreateOwnerIsUser DEF Typed, AgendaRow, RuleRow, Class
  <2>5. QED
    BY <2>2, <2>3, <2>4, BeginCreateInv
<1>9. ASSUME NEW id \in RuleId, UpdateAgendaNotification(c, x, id)
      PROVE  IndInv'
  <2>1. PICK old \in RuleRow : old = rules[id]
    BY <1>2, <1>9 DEF UpdateAgendaNotification
  <2>2. PICK class \in Class :
          BeginUpdate(c, x, "agenda_notification", id, [old EXCEPT !.class = class], 0)
    BY <1>9, <2>1 DEF UpdateAgendaNotification
  <2>3. PICK row : row = [old EXCEPT !.class = class]
    OBVIOUS
  <2>4. Typed("agenda_notification", id, row) /\ old.edits \subseteq row.edits
    BY <2>3 DEF Typed, RuleRow
  <2>5. id \in Present /\ ReadRow("agenda_notification", id) = old
    BY <1>2, <1>9, <2>1 DEF UpdateAgendaNotification, ReadRow
  <2>6. QED
    BY <2>2, <2>3, <2>4, <2>5, BeginUpdateInv
<1>10. ASSUME NEW id \in RuleId, DeleteAgendaNotification(c, x, id)
       PROVE  IndInv'
  BY <1>2, <1>10, BeginOtherInv DEF DeleteAgendaNotification, Typed, Action
<1>11. QED
  BY <1>3, <1>4, <1>5, <1>6, <1>7, <1>8, <1>9, <1>10 DEF AgendaCommand

\* A grant is a row of its own; the tables do not move.
LEMMA ChangeAclInv ==
  ASSUME IndInv, NEW c \in Caller, Ready(c), NEW x \in Context,
         NEW id \in TaskId, id \in Present, ChangeAcl(c, x, "task", id, tasks[id])
  PROVE  IndInv'
PROOF
<1>1. PICK user, action, auth :
        /\ user \in User /\ action \in {"update", "delete"}
        /\ auth = Capability(x, "grant", "task", id, tasks[id].owner, tasks[id].class)
        /\ GrantAccess(user, action, auth) \/ RevokeAccess(user, action, auth)
  BY DEF ChangeAcl
<1>2. PICK a : a = [edit |-> auth.edit, actor |-> auth.actor, action |-> auth.action,
                    kind |-> auth.kind, id |-> auth.id]
  OBVIOUS
<1>3. PICK given : given = [user |-> user, action |-> action, kind |-> auth.kind,
                            id |-> auth.id]
  OBVIOUS
<1>4. /\ audit' = audit \cup {a} /\ (acl' = acl \cup {given} \/ acl' = acl \ {given})
      /\ UNCHANGED <<agenda, recurrence, exceptions, overrides, rules, tasks, notes,
                     index, categories, days, call, issued>>
      /\ edits' = edits + 1
  BY <1>1, <1>2, <1>3
    DEF ChangeAcl, GrantAccess, RevokeAccess, Audit, agendaVars, noteVars
<1>5. a.action = "grant" /\ a.id = id /\ a \in AuditRow
  <2>1. edits + 1 \in Nat /\ x.actor \in User
    BY WorkspaceAssumption DEF IndInv, TypeOK
  <2>2. auth.edit = edits + 1 /\ auth.actor = x.actor /\ auth.action = "grant"
        /\ auth.kind = "task" /\ auth.id = id
    BY <1>1 DEF Capability
  <2>3. QED
    BY <1>2, <2>1, <2>2 DEF AuditRow, Action, Kind, Id
<1>6. given \in Grant
  BY <1>1, <1>3 DEF Capability, Grant, Action, Kind, Id
<1>7. Present' = Present
  BY <1>4 DEF Present
<1>8. TypeOK'
  <2>1. StoreTypeOK'
    BY <1>4, <1>5, <1>6 DEF IndInv, TypeOK, StoreTypeOK
  <2>2. edits' \in 0 .. MaxEdits
    BY <1>4, WorkspaceAssumption DEF Ready, IndInv, TypeOK
  <2>3. QED
    BY <1>4, <2>1, <2>2 DEF IndInv, TypeOK
<1>9. NothingDangling' /\ IndexInv'
  BY <1>4 DEF IndInv, NothingDangling, IndexInv
<1>10. GoneInv'
  BY <1>4, <1>5, <1>7 DEF IndInv, GoneInv
<1>11. IdInv'
  <2>1. id \in issued
    BY DEF IndInv, IdInv
  <2>2. QED
    BY <1>4, <1>5, <1>7, <2>1 DEF IndInv, IdInv, Pending
<1>12. SeenInv' /\ StatusInv'
  BY <1>4 DEF IndInv, SeenInv, Seen, StatusInv, Pending
<1>13. QED
  BY <1>8, <1>9, <1>10, <1>11, <1>12 DEF IndInv

LEMMA AllowedStatus ==
  ASSUME NEW s \in TaskStatus
  PROVE  AllowedTransitions[s] \subseteq TaskStatus
PROOF
BY DEF AllowedTransitions, TaskStatus

LEMMA TaskCommandInv ==
  ASSUME IndInv, NEW c \in Caller, Ready(c), NEW x \in Context, TaskCommand(c, x)
  PROVE  IndInv'
PROOF
<1>1. edits \in Nat /\ edits + 1 \in Nat
  BY DEF IndInv, TypeOK
<1>2. \A i \in TaskId : tasks[i] # Absent => tasks[i] \in TaskRow /\ i \in Present
  BY PresentIn DEF IndInv, TypeOK, StoreTypeOK
<1>3. ASSUME NEW id \in TaskId, CreateTask(c, x, id)
      PROVE  IndInv'
  <2>1. PICK private \in BOOLEAN, class \in Class :
          BeginCreate(c, x, "task", id,
            NewTask(CreateOwner(x, private), x.actor, class, edits + 1))
    BY <1>3 DEF CreateTask
  <2>2. PICK row : row = NewTask(CreateOwner(x, private), x.actor, class, edits + 1)
    OBVIOUS
  <2>3. Typed("task", id, row)
    BY <1>1, <2>2, CreateOwnerIsUser DEF Typed, TaskRow, NewTask, TaskStatus
  <2>4. QED
    BY <2>1, <2>2, <2>3, BeginCreateInv
\* The three commands that change a task change its class and its status.
<1>4. ASSUME NEW id \in TaskId, tasks[id] # Absent, NEW class \in Class, NEW status,
             status \in {tasks[id].status} \cup AllowedTransitions[tasks[id].status],
             NEW row,
             row = [tasks[id] EXCEPT !.version = @ + 1, !.class = class,
                                     !.status = status],
             BeginUpdate(c, x, "task", id, row, tasks[id].version)
      PROVE  IndInv'
  <2>1. PICK old \in TaskRow : old = tasks[id]
    BY <1>2, <1>4
  <2>2. old.version \in Nat /\ old.version + 1 \in Nat /\ status \in TaskStatus
    BY <1>4, <2>1, AllowedStatus DEF TaskRow
  <2>3. row = [owner |-> old.owner, creator |-> old.creator, class |-> class,
               edits |-> old.edits, version |-> old.version + 1, status |-> status]
    BY <1>4, <2>1 DEF TaskRow
  <2>4. Typed("task", id, row) /\ row.edits = old.edits /\ row.status = status
    BY <2>2, <2>3 DEF Typed, TaskRow
  <2>5. id \in Present /\ ReadRow("task", id) = old
    BY <1>2, <1>4, <2>1 DEF ReadRow
  <2>6. BeginUpdate(c, x, "task", id, row, old.version)
    BY <1>4, <2>1
  <2>7. row.status \in {tasks[id].status} \cup AllowedTransitions[tasks[id].status]
    BY <1>4, <2>4
  <2>8. QED
    BY <2>2, <2>4, <2>5, <2>6, <2>7, BeginUpdateInv
<1>5. ASSUME NEW id \in TaskId, UpdateTask(c, x, id)
      PROVE  IndInv'
  <2>1. PICK class, row :
          /\ class \in Class
          /\ row = [tasks[id] EXCEPT !.version = @ + 1, !.class = class]
          /\ BeginUpdate(c, x, "task", id, row, tasks[id].version)
    BY <1>5 DEF UpdateTask
  <2>2. tasks[id] # Absent /\ tasks[id] \in TaskRow
    BY <1>2, <1>5 DEF UpdateTask
  <2>3. row = [tasks[id] EXCEPT !.version = @ + 1, !.class = class,
                                !.status = tasks[id].status]
    BY <2>1, <2>2 DEF TaskRow
  <2>4. QED
    BY <1>4, <2>1, <2>2, <2>3
<1>6. ASSUME NEW id \in TaskId, DeleteTask(c, x, id)
      PROVE  IndInv'
  BY <1>2, <1>6, BeginOtherInv DEF DeleteTask, Typed, Action
<1>7. ASSUME NEW id \in TaskId, TransitionTask(c, x, id)
      PROVE  IndInv'
  <2>1. PICK status, row :
          /\ status \in AllowedTransitions[tasks[id].status]
          /\ row = [tasks[id] EXCEPT !.version = @ + 1, !.status = status]
          /\ BeginUpdate(c, x, "task", id, row, tasks[id].version)
    BY <1>7 DEF TransitionTask
  <2>2. tasks[id] # Absent /\ tasks[id] \in TaskRow
    BY <1>2, <1>7 DEF TransitionTask
  <2>3. row = [tasks[id] EXCEPT !.version = @ + 1, !.class = tasks[id].class,
                                !.status = status]
    BY <2>1, <2>2 DEF TaskRow
  <2>4. tasks[id].class \in Class
    BY <2>2 DEF TaskRow
  <2>5. QED
    BY <1>4, <2>1, <2>2, <2>3, <2>4
<1>8. ASSUME NEW id \in TaskId, PostponeTask(c, x, id)
      PROVE  IndInv'
  <2>1. PICK row : /\ row = [tasks[id] EXCEPT !.version = @ + 1]
                   /\ BeginUpdate(c, x, "task", id, row, tasks[id].version)
    BY <1>8 DEF PostponeTask
  <2>2. tasks[id] # Absent /\ tasks[id] \in TaskRow
    BY <1>2, <1>8 DEF PostponeTask
  <2>3. row = [tasks[id] EXCEPT !.version = @ + 1, !.class = tasks[id].class,
                                !.status = tasks[id].status]
    BY <2>1, <2>2 DEF TaskRow
  <2>4. tasks[id].class \in Class
    BY <2>2 DEF TaskRow
  <2>5. QED
    BY <1>4, <2>1, <2>2, <2>3, <2>4
<1>9. ASSUME NEW id \in TaskId, tasks[id] # Absent, ChangeAcl(c, x, "task", id, tasks[id])
      PROVE  IndInv'
  BY <1>2, <1>9, ChangeAclInv
<1>10. QED
  BY <1>3, <1>5, <1>6, <1>7, <1>8, <1>9 DEF TaskCommand

LEMMA NoteCommandInv ==
  ASSUME IndInv, NEW c \in Caller, Ready(c), NEW x \in Context, NoteCommand(c, x)
  PROVE  IndInv'
PROOF
<1>1. edits \in Nat /\ edits + 1 \in Nat
  BY DEF IndInv, TypeOK
<1>2. \A i \in NoteId : notes[i] # Absent => notes[i] \in NoteRow /\ i \in Present
  BY PresentIn DEF IndInv, TypeOK, StoreTypeOK
<1>3. ASSUME NEW id \in NoteId, CreateNote(c, x, id)
      PROVE  IndInv'
  <2>1. PICK private \in BOOLEAN, class \in Class, category \in Category,
             name \in BlockName :
          BeginCreate(c, x, "note", id,
            NewNote(CreateOwner(x, private), x.actor, class, edits + 1, category,
                    name))
    BY <1>3 DEF CreateNote
  <2>2. PICK row : row = NewNote(CreateOwner(x, private), x.actor, class, edits + 1,
                                 category, name)
    OBVIOUS
  <2>3. <<[name |-> name, body |-> edits + 1]>> \in Seq(Block)
    BY <1>1 DEF Block
  <2>4. Typed("note", id, row)
    BY <1>1, <2>2, <2>3, CreateOwnerIsUser DEF Typed, NoteRow, NewNote
  <2>5. QED
    BY <2>1, <2>2, <2>4, BeginCreateInv
\* The three commands that change a note change its class, text, category and blocks.
<1>4. ASSUME NEW id \in NoteId, notes[id] # Absent, NEW class \in Class,
             NEW text \in Nat, NEW category \in Category, NEW blocks \in Seq(Block),
             NEW row,
             row = [owner |-> notes[id].owner, creator |-> notes[id].creator,
                    class |-> class, edits |-> notes[id].edits,
                    version |-> notes[id].version + 1, text |-> text,
                    category |-> category, blocks |-> blocks],
             BeginUpdate(c, x, "note", id, row, notes[id].version)
      PROVE  IndInv'
  <2>1. PICK old \in NoteRow : old = notes[id]
    BY <1>2, <1>4
  <2>2. old.version \in Nat /\ old.version + 1 \in Nat
    BY DEF NoteRow
  <2>3. row = [owner |-> old.owner, creator |-> old.creator, class |-> class,
               edits |-> old.edits, version |-> old.version + 1, text |-> text,
               category |-> category, blocks |-> blocks]
    BY <1>4, <2>1
  <2>4. Typed("note", id, row) /\ row.edits = old.edits
    BY <2>2, <2>3 DEF Typed, NoteRow
  <2>5. id \in Present /\ ReadRow("note", id) = old
    BY <1>2, <1>4, <2>1 DEF ReadRow
  <2>6. BeginUpdate(c, x, "note", id, row, old.version)
    BY <1>4, <2>1
  <2>7. QED
    BY <2>2, <2>4, <2>5, <2>6, BeginUpdateInv
<1>5. ASSUME NEW id \in NoteId, UpdateNote(c, x, id)
      PROVE  IndInv'
  <2>1. PICK class, row :
          /\ class \in Class
          /\ row = [notes[id] EXCEPT !.version = @ + 1, !.text = edits + 1,
                                     !.class = class]
          /\ BeginUpdate(c, x, "note", id, row, notes[id].version)
    BY <1>5 DEF UpdateNote
  <2>2. notes[id] # Absent /\ notes[id] \in NoteRow
    BY <1>2, <1>5 DEF UpdateNote
  <2>3. row = [owner |-> notes[id].owner, creator |-> notes[id].creator,
               class |-> class, edits |-> notes[id].edits,
               version |-> notes[id].version + 1, text |-> edits + 1,
               category |-> notes[id].category, blocks |-> notes[id].blocks]
    BY <2>1, <2>2 DEF NoteRow
  <2>4. notes[id].category \in Category /\ notes[id].blocks \in Seq(Block)
    BY <2>2 DEF NoteRow
  <2>5. QED
    BY <1>1, <1>4, <2>1, <2>2, <2>3, <2>4
<1>6. ASSUME NEW id \in NoteId, DeleteNote(c, x, id)
      PROVE  IndInv'
  BY <1>2, <1>6, BeginOtherInv DEF DeleteNote, Typed, Action
<1>7. ASSUME NEW id \in NoteId, AddNoteContentBlock(c, x, id)
      PROVE  IndInv'
  <2>0. PICK name \in BlockName :
          BeginUpdate(c, x, "note", id,
            [notes[id] EXCEPT !.version = @ + 1,
                              !.blocks = Append(@, [name |-> name,
                                                    body |-> edits + 1])],
            notes[id].version)
    BY <1>7 DEF AddNoteContentBlock
  <2>1. PICK block, row :
          /\ block \in Block
          /\ row = [notes[id] EXCEPT !.version = @ + 1, !.blocks = Append(@, block)]
          /\ BeginUpdate(c, x, "note", id, row, notes[id].version)
    <3>1. PICK block : block = [name |-> name, body |-> edits + 1]
      OBVIOUS
    <3>2. block \in Block
      BY <1>1, <3>1 DEF Block
    <3>3. QED
      BY <2>0, <3>1, <3>2
  <2>2. notes[id] # Absent /\ notes[id] \in NoteRow
    BY <1>2, <1>7 DEF AddNoteContentBlock
  <2>3. PICK blocks : blocks = Append(notes[id].blocks, block)
    OBVIOUS
  <2>4. row = [owner |-> notes[id].owner, creator |-> notes[id].creator,
               class |-> notes[id].class, edits |-> notes[id].edits,
               version |-> notes[id].version + 1, text |-> notes[id].text,
               category |-> notes[id].category, blocks |-> blocks]
    BY <2>1, <2>2, <2>3 DEF NoteRow
  <2>5. notes[id].category \in Category /\ notes[id].class \in Class
        /\ notes[id].text \in Nat /\ notes[id].blocks \in Seq(Block)
    BY <2>2 DEF NoteRow
  <2>6. blocks \in Seq(Block)
    BY <2>1, <2>3, <2>5
  <2>7. QED
    BY <1>4, <2>1, <2>2, <2>4, <2>5, <2>6
<1>8. ASSUME NEW id \in NoteId, MoveNoteCategory(c, x, id)
      PROVE  IndInv'
  <2>1. PICK category, row :
          /\ category \in Category
          /\ row = [notes[id] EXCEPT !.version = @ + 1, !.category = category]
          /\ BeginUpdate(c, x, "note", id, row, notes[id].version)
    BY <1>8 DEF MoveNoteCategory
  <2>2. notes[id] # Absent /\ notes[id] \in NoteRow
    BY <1>2, <1>8 DEF MoveNoteCategory
  <2>3. row = [owner |-> notes[id].owner, creator |-> notes[id].creator,
               class |-> notes[id].class, edits |-> notes[id].edits,
               version |-> notes[id].version + 1, text |-> notes[id].text,
               category |-> category, blocks |-> notes[id].blocks]
    BY <2>1, <2>2 DEF NoteRow
  <2>4. notes[id].blocks \in Seq(Block) /\ notes[id].class \in Class
        /\ notes[id].text \in Nat
    BY <2>2 DEF NoteRow
  <2>5. QED
    BY <1>4, <2>1, <2>2, <2>3, <2>4
<1>9. QED
  BY <1>3, <1>5, <1>6, <1>7, <1>8 DEF NoteCommand

LEMMA DayCommandInv ==
  ASSUME IndInv, NEW c \in Caller, Ready(c), NEW x \in Context, DayCommand(c, x)
  PROVE  IndInv'
PROOF
<1>1. edits \in Nat /\ edits + 1 \in Nat
  BY DEF IndInv, TypeOK
<1>2. \A i \in DayId : days[i] # Absent => days[i] \in DayRow /\ i \in Present
  BY PresentIn DEF IndInv, TypeOK, StoreTypeOK
<1>3. ASSUME NEW id \in DayId, CreateAnniversary(c, x, id)
      PROVE  IndInv'
  <2>1. PICK private \in BOOLEAN, class \in Class, day \in Day :
          BeginCreate(c, x, "anniversary", id,
            NewDay(CreateOwner(x, private), x.actor, class, edits + 1, day))
    BY <1>3 DEF CreateAnniversary
  <2>2. PICK row : row = NewDay(CreateOwner(x, private), x.actor, class, edits + 1, day)
    OBVIOUS
  <2>3. Typed("anniversary", id, row)
    BY <1>1, <2>2, CreateOwnerIsUser DEF Typed, DayRow, NewDay
  <2>4. QED
    BY <2>1, <2>2, <2>3, BeginCreateInv
<1>4. ASSUME NEW id \in DayId, UpdateAnniversary(c, x, id)
      PROVE  IndInv'
  <2>1. PICK old \in DayRow : old = days[id]
    BY <1>2, <1>4 DEF UpdateAnniversary
  <2>2. PICK class, day, row :
          /\ class \in Class /\ day \in Day
          /\ row = [old EXCEPT !.class = class, !.day = day]
          /\ BeginUpdate(c, x, "anniversary", id, row, 0)
    BY <1>4, <2>1 DEF UpdateAnniversary
  <2>3. Typed("anniversary", id, row) /\ old.edits \subseteq row.edits
    BY <2>2 DEF Typed, DayRow
  <2>4. id \in Present /\ ReadRow("anniversary", id) = old
    BY <1>2, <1>4, <2>1 DEF UpdateAnniversary, ReadRow
  <2>5. QED
    BY <2>2, <2>3, <2>4, BeginUpdateInv
<1>5. ASSUME NEW id \in DayId, DeleteAnniversary(c, x, id)
      PROVE  IndInv'
  BY <1>2, <1>5, BeginOtherInv DEF DeleteAnniversary, Typed, Action
<1>6. QED
  BY <1>3, <1>4, <1>5 DEF DayCommand

-----------------------------------------------------------------------------
(* The second half of a command.                                           *)

\* The caller is done with its write.
Done(c) ==
  /\ Pending(c)
  /\ call' = [call EXCEPT ![c] = Idle]
  /\ UNCHANGED <<issued, edits>>

LEMMA DoneCalls ==
  ASSUME IndInv, NEW c \in Caller, Done(c)
  PROVE  /\ call[c] \in Write
         /\ ~ Pending(c)'
         /\ \A d \in Caller : Pending(d)' => Pending(d) /\ d # c /\ call'[d] = call[d]
PROOF
BY DEF Done, Pending, IndInv, TypeOK

LEMMA DoneType ==
  ASSUME IndInv, NEW c \in Caller, Done(c), StoreTypeOK'
  PROVE  TypeOK'
PROOF
BY DEF Done, IndInv, TypeOK

\* A transaction makes the row it is for if it creates one, removes it if it
\* deletes one, and says so in the audit.
LEMMA DoneIds ==
  ASSUME IndInv, NEW c \in Caller, Done(c), NEW w, w = call[c],
         \A a \in audit' : a \in audit \/ (a.id = w.auth.id /\ a.action = w.auth.action),
         \A i \in Present' : i \in Present \/ (w.step = "create" /\ i = w.auth.id),
         w.step = "delete" => w.auth.id \notin Present'
  PROVE  IdInv' /\ GoneInv'
PROOF
<1>1. /\ w.auth.id \in issued /\ (w.auth.action = "delete" <=> w.step = "delete")
      /\ w.step = "create" =>
           /\ \A d \in Caller : Pending(d) /\ call[d].auth.id = w.auth.id => d = c
           /\ \A a \in audit : a.id = w.auth.id => a.action # "delete"
  BY DEF Done, IndInv, IdInv
<1>2. \A d \in Caller : Pending(d)' => Pending(d) /\ d # c /\ call'[d] = call[d]
  BY DoneCalls
<1>3. issued' = issued
  BY DEF Done
<1>4. GoneInv'
  BY <1>1 DEF IndInv, GoneInv
<1>5. Present' \subseteq issued' /\ \A a \in audit' : a.id \in issued'
  BY <1>1, <1>3 DEF IndInv, IdInv
<1>6. ASSUME NEW d \in Caller, Pending(d)'
      PROVE  /\ call'[d].auth.id \in issued'
             /\ call'[d].auth.action = "delete" <=> call'[d].step = "delete"
  BY <1>2, <1>3, <1>6 DEF IndInv, IdInv
<1>7. ASSUME NEW d \in Caller, Pending(d)', call'[d].step = "create"
      PROVE  /\ call'[d].auth.id \notin Present'
             /\ \A e \in Caller : Pending(e)' /\ call'[e].auth.id = call'[d].auth.id
                                    => e = d
             /\ \A a \in audit' : a.id = call'[d].auth.id => a.action # "delete"
  <2>1. Pending(d) /\ d # c /\ call'[d] = call[d] /\ call[d].step = "create"
    BY <1>2, <1>7
  <2>2. /\ call[d].auth.id \notin Present
        /\ \A e \in Caller : Pending(e) /\ call[e].auth.id = call[d].auth.id => e = d
        /\ \A a \in audit : a.id = call[d].auth.id => a.action # "delete"
    BY <2>1 DEF IndInv, IdInv
  <2>3. w.auth.id # call[d].auth.id
    BY <2>1, <2>2 DEF Done
  <2>4. QED
    BY <2>1, <2>2, <2>3, <1>2
<1>8. QED
  BY <1>4, <1>5, <1>6, <1>7 DEF IdInv

\* A write leaves a row alone, removes it, makes it or gives it the next version.
MovesOn(old, new, w) ==
  \A i \in DOMAIN old :
    \/ new[i] = old[i] \/ new[i] = Absent
    \/ i = w.auth.id /\ w.step = "create"
    \/ i = w.auth.id /\ old[i] # Absent /\ new[i].version = old[i].version + 1

\* Nobody but its maker is about to write the row that is made.
LEMMA OnlyMaker ==
  ASSUME IndInv, NEW c \in Caller, Done(c), call[c].step = "create",
         NEW d \in Caller, Pending(d)'
  PROVE  call'[d].auth.id # call[c].auth.id
PROOF
<1>1. Pending(d) /\ d # c /\ call'[d] = call[d]
  BY DoneCalls
<1>2. QED
  BY <1>1 DEF Done, IndInv, IdInv

LEMMA DoneSeen ==
  ASSUME IndInv, NEW c \in Caller, Done(c),
         MovesOn(agenda, agenda', call[c]), MovesOn(tasks, tasks', call[c]),
         MovesOn(notes, notes', call[c])
  PROVE  SeenInv' /\ StatusInv'
PROOF
<1>1. \A d \in Caller : Pending(d)' =>
        /\ Pending(d) /\ d # c /\ call'[d] = call[d] /\ call[d] \in Write
        /\ call[c].step = "create" => call[d].auth.id # call[c].auth.id
  BY DoneCalls, OnlyMaker, PendingWrite DEF IndInv
<1>2. Seen(agenda, "agenda")'
  <2>1. SUFFICES ASSUME NEW d \in Caller, Pending(d)', call'[d].step = "update",
                        call'[d].auth.kind = "agenda",
                        agenda'[call'[d].auth.id] # Absent
                 PROVE  /\ agenda'[call'[d].auth.id].version >= call'[d].expected
                        /\ agenda'[call'[d].auth.id].version = call'[d].expected =>
                             agenda'[call'[d].auth.id].edits \subseteq call'[d].row.edits
    BY DEF Seen
  <2>2. PICK i \in AgendaId, n \in Nat :
          i = call[d].auth.id /\ n = call[d].expected /\ call'[d] = call[d]
    BY <2>1, <1>1, WriteKind DEF WriteOf
  <2>3. agenda[i] # Absent => /\ agenda[i].version \in Nat /\ agenda[i].version >= n
                              /\ agenda[i].version = n =>
                                   agenda[i].edits \subseteq call[d].row.edits
    BY <2>1, <2>2, <1>1 DEF IndInv, SeenInv, Seen, TypeOK, StoreTypeOK, AgendaRow
  <2>4. \/ agenda'[i] = agenda[i]
        \/ agenda[i] # Absent /\ agenda'[i].version = agenda[i].version + 1
    BY <2>1, <2>2, <1>1 DEF MovesOn, IndInv, TypeOK, StoreTypeOK
  <2>5. QED
    BY <2>1, <2>2, <2>3, <2>4
<1>3. Seen(tasks, "task")' /\ StatusInv'
  <2>1. SUFFICES ASSUME NEW d \in Caller, Pending(d)', call'[d].step = "update",
                        call'[d].auth.kind = "task",
                        tasks'[call'[d].auth.id] # Absent
                 PROVE  /\ tasks'[call'[d].auth.id].version >= call'[d].expected
                        /\ tasks'[call'[d].auth.id].version = call'[d].expected =>
                             /\ tasks'[call'[d].auth.id].edits \subseteq call'[d].row.edits
                             /\ call'[d].row.status \in
                                  {tasks'[call'[d].auth.id].status} \cup
                                  AllowedTransitions[tasks'[call'[d].auth.id].status]
    BY DEF Seen, StatusInv
  <2>2. PICK i \in TaskId, n \in Nat :
          i = call[d].auth.id /\ n = call[d].expected /\ call'[d] = call[d]
    BY <2>1, <1>1, WriteKind DEF WriteOf
  <2>3. tasks[i] # Absent =>
          /\ tasks[i].version \in Nat /\ tasks[i].version >= n
          /\ tasks[i].version = n =>
               /\ tasks[i].edits \subseteq call[d].row.edits
               /\ call[d].row.status \in {tasks[i].status} \cup
                                           AllowedTransitions[tasks[i].status]
    BY <2>1, <2>2, <1>1
      DEF IndInv, SeenInv, Seen, StatusInv, TypeOK, StoreTypeOK, TaskRow
  <2>4. \/ tasks'[i] = tasks[i]
        \/ tasks[i] # Absent /\ tasks'[i].version = tasks[i].version + 1
    BY <2>1, <2>2, <1>1 DEF MovesOn, IndInv, TypeOK, StoreTypeOK
  <2>5. QED
    BY <2>1, <2>2, <2>3, <2>4
<1>4. Seen(notes, "note")'
  <2>1. SUFFICES ASSUME NEW d \in Caller, Pending(d)', call'[d].step = "update",
                        call'[d].auth.kind = "note",
                        notes'[call'[d].auth.id] # Absent
                 PROVE  /\ notes'[call'[d].auth.id].version >= call'[d].expected
                        /\ notes'[call'[d].auth.id].version = call'[d].expected =>
                             notes'[call'[d].auth.id].edits \subseteq call'[d].row.edits
    BY DEF Seen
  <2>2. PICK i \in NoteId, n \in Nat :
          i = call[d].auth.id /\ n = call[d].expected /\ call'[d] = call[d]
    BY <2>1, <1>1, WriteKind DEF WriteOf
  <2>3. notes[i] # Absent => /\ notes[i].version \in Nat /\ notes[i].version >= n
                             /\ notes[i].version = n =>
                                  notes[i].edits \subseteq call[d].row.edits
    BY <2>1, <2>2, <1>1 DEF IndInv, SeenInv, Seen, TypeOK, StoreTypeOK, NoteRow
  <2>4. \/ notes'[i] = notes[i]
        \/ notes[i] # Absent /\ notes'[i].version = notes[i].version + 1
    BY <2>1, <2>2, <1>1 DEF MovesOn, IndInv, TypeOK, StoreTypeOK
  <2>5. QED
    BY <2>1, <2>2, <2>3, <2>4
<1>5. QED
  BY <1>2, <1>3, <1>4 DEF SeenInv

LEMMA FailInv ==
  ASSUME IndInv, NEW c \in Caller, Fail(c)
  PROVE  IndInv'
PROOF
<1>1. Done(c) /\ UNCHANGED storeVars
  BY DEF Fail, Done, Pending
<1>2. /\ StoreTypeOK' /\ NothingDangling' /\ GoneInv' /\ IndexInv' /\ Present' = Present
      /\ UNCHANGED <<agenda, tasks, notes, audit>>
  BY <1>1, StoreStays DEF storeVars, agendaVars, noteVars
<1>3. IdInv'
  <2>1. \A d \in Caller : Pending(d)' => Pending(d) /\ d # c /\ call'[d] = call[d]
    BY <1>1, DoneCalls
  <2>2. issued' = issued
    BY <1>1 DEF Done
  <2>3. QED
    BY <1>2, <2>1, <2>2 DEF IndInv, IdInv
<1>4. SeenInv' /\ StatusInv'
  BY <1>1, <1>2, DoneSeen DEF MovesOn
<1>5. QED
  BY <1>1, <1>2, <1>3, <1>4, DoneType DEF IndInv

LEMMA AuditSays ==
  ASSUME IndInv, NEW w \in Write, Audit(w.auth)
  PROVE  /\ audit' \subseteq AuditRow
         /\ \A a \in audit' : a \in audit \/ (a.id = w.auth.id /\ a.action = w.auth.action)
PROOF
<1>1. PICK a : a = [edit |-> w.auth.edit, actor |-> w.auth.actor,
                    action |-> w.auth.action, kind |-> w.auth.kind, id |-> w.auth.id]
  OBVIOUS
<1>2. audit' = audit \cup {a}
  BY <1>1 DEF Audit
<1>3. a \in AuditRow /\ a.id = w.auth.id /\ a.action = w.auth.action
  BY <1>1, WriteKind DEF AuditRow
<1>4. QED
  BY <1>2, <1>3 DEF IndInv, TypeOK, StoreTypeOK

LEMMA DoneInv ==
  ASSUME IndInv, NEW c \in Caller, Done(c), NEW w, w = call[c],
         StoreTypeOK', NothingDangling', IndexInv',
         \A a \in audit' : a \in audit \/ (a.id = w.auth.id /\ a.action = w.auth.action),
         \A i \in Present' : i \in Present \/ (w.step = "create" /\ i = w.auth.id),
         w.step = "delete" => w.auth.id \notin Present',
         MovesOn(agenda, agenda', w), MovesOn(tasks, tasks', w), MovesOn(notes, notes', w)
  PROVE  IndInv'
PROOF
BY DoneType, DoneIds, DoneSeen DEF IndInv

LEMMA StoreAgendaInv ==
  ASSUME IndInv, NEW c \in Caller, Done(c), NEW w, w = call[c],
         w.auth.kind = "agenda", StoreAgenda(w)
  PROVE  IndInv'
PROOF
<1>1. w \in Write /\ w \in WriteOf("agenda", AgendaId, AgendaRow)
  BY DoneCalls, WriteKind
<1>2. PICK id, row : id = w.auth.id /\ row = w.row /\ id \in AgendaId /\ row \in AgendaRow
                     /\ id \in Id
  BY <1>1 DEF WriteOf, Id
<1>3. /\ agenda \in [AgendaId -> AgendaRow \cup {Absent}] /\ Absent \notin AgendaRow
      /\ rules \in [RuleId -> RuleRow \cup {Absent}] /\ Absent \notin RuleRow
  BY AbsentIsNoRow DEF IndInv, TypeOK, StoreTypeOK
<1>4. UNCHANGED <<tasks, notes, index, categories, days, acl>>
  BY DEF StoreAgenda, AgendaCreate, AgendaUpdate, AgendaDelete, AddException,
         SetOverride, noteVars
<1>5. IndexInv' /\ MovesOn(tasks, tasks', w) /\ MovesOn(notes, notes', w)
  BY <1>4 DEF IndInv, IndexInv, MovesOn
<1>6. /\ audit' \subseteq AuditRow
      /\ \A a \in audit' : a \in audit \/ (a.id = w.auth.id /\ a.action = w.auth.action)
  <2>1. CASE audit' = audit
    BY <2>1 DEF IndInv, TypeOK, StoreTypeOK
  <2>2. CASE Audit(w.auth)
    BY <2>2, <1>1, AuditSays
  <2>3. QED
    BY <2>1, <2>2 DEF StoreAgenda, AgendaCreate, AgendaUpdate, AgendaDelete,
                      AddException, SetOverride
\* Making a row and replacing one.
<1>7. ASSUME NEW new \in AgendaRow, agenda' = [agenda EXCEPT ![id] = new],
             new.recurring = row.recurring, WriteRecurrence(id, row),
             UNCHANGED <<exceptions, overrides, rules>>,
             \/ w.step = "create" /\ agenda[id] = Absent
             \/ /\ w.step = "update" /\ agenda[id] # Absent
                /\ agenda[id].owner = new.owner
                /\ new.version = agenda[id].version + 1
      PROVE  IndInv'
  <2>1. /\ agenda' \in [AgendaId -> AgendaRow \cup {Absent}]
        /\ agenda'[id] = new /\ \A i \in AgendaId \ {id} : agenda'[i] = agenda[i]
    BY <1>2, <1>3, <1>7
  <2>2. recurrence' = IF row.recurring THEN recurrence \cup {id} ELSE recurrence \ {id}
    BY <1>7 DEF WriteRecurrence
  <2>3. StoreTypeOK'
    BY <1>2, <1>4, <1>6, <1>7, <2>1, <2>2 DEF IndInv, TypeOK, StoreTypeOK
  <2>4. NothingDangling'
    <3>1. \A i \in AgendaId : agenda[i] # Absent => agenda'[i] # Absent
                                             /\ agenda'[i].owner = agenda[i].owner
      BY <1>3, <1>7, <2>1
    <3>2. \A r \in RuleId : rules'[r] # Absent =>
            agenda'[rules'[r].item] # Absent /\ agenda'[rules'[r].item].owner = rules'[r].owner
      BY <1>3, <1>7, <3>1 DEF IndInv, NothingDangling, RuleRow
    <3>3. \A e \in exceptions' \cup overrides' : agenda'[e[1]] # Absent
      BY <1>7, <3>1 DEF IndInv, NothingDangling, TypeOK, StoreTypeOK
    <3>4. recurrence' = {i \in AgendaId : agenda'[i] # Absent /\ agenda'[i].recurring}
      <4>1. recurrence = {i \in AgendaId : agenda[i] # Absent /\ agenda[i].recurring}
        BY DEF IndInv, NothingDangling
      <4>2. \A i \in AgendaId \ {id} : i \in recurrence' <=>
                                        agenda'[i] # Absent /\ agenda'[i].recurring
        BY <4>1, <2>1, <2>2
      <4>3. id \in recurrence' <=> agenda'[id] # Absent /\ agenda'[id].recurring
        BY <1>2, <1>3, <1>7, <2>1, <2>2
      <4>4. recurrence' \subseteq AgendaId
        BY <1>2, <2>2, <4>1
      <4>5. QED
        BY <4>2, <4>3, <4>4
    <3>5. \A n \in NoteId : notes'[n] # Absent =>
            \A i \in 1 .. Len(notes'[n].category) :
              <<notes'[n].owner, SubSeq(notes'[n].category, 1, i)>> \in categories'
      BY <1>4 DEF IndInv, NothingDangling
    <3>6. QED
      BY <3>2, <3>3, <3>4, <3>5 DEF NothingDangling
  <2>5. \A i \in Present' : i \in Present \/ (w.step = "create" /\ i = w.auth.id)
    BY <1>2, <1>4, <1>7, <2>1 DEF Present
  <2>6. MovesOn(agenda, agenda', w)
    BY <1>2, <1>3, <1>7, <2>1 DEF MovesOn
  <2>7. QED
    BY <1>5, <1>6, <1>7, <2>3, <2>4, <2>5, <2>6, DoneInv
<1>8. CASE w.step = "create" /\ AgendaCreate(id, row, w.auth)
  <2>1. PICK new : new = [row EXCEPT !.version = 1]
    OBVIOUS
  <2>2. new \in AgendaRow /\ new.recurring = row.recurring
    BY <1>2, <2>1 DEF AgendaRow
  <2>3. QED
    BY <1>7, <1>8, <2>1, <2>2 DEF AgendaCreate
<1>9. CASE w.step = "update" /\ AgendaUpdate(id, row, w.expected, w.auth)
  BY <1>2, <1>7, <1>9 DEF AgendaUpdate, Matches
<1>10. CASE w.step = "delete" /\ AgendaDelete(id, w.auth)
  <2>1. /\ agenda' = [agenda EXCEPT ![id] = Absent] /\ recurrence' = recurrence \ {id}
        /\ exceptions' = {e \in exceptions : e[1] # id}
        /\ overrides' = {o \in overrides : o[1] # id}
        /\ rules' = [r \in RuleId |-> IF rules[r] # Absent /\ rules[r].item = id
                                      THEN Absent ELSE rules[r]]
    BY <1>10 DEF AgendaDelete
  <2>2. /\ agenda' \in [AgendaId -> AgendaRow \cup {Absent}]
        /\ agenda'[id] = Absent /\ \A i \in AgendaId \ {id} : agenda'[i] = agenda[i]
    BY <1>2, <1>3, <2>1
  <2>3. /\ rules' \in [RuleId -> RuleRow \cup {Absent}]
        /\ \A r \in RuleId : rules'[r] # Absent => rules'[r] = rules[r] /\ rules[r].item # id
    BY <1>3, <2>1
  <2>4. StoreTypeOK'
    BY <1>4, <1>6, <2>1, <2>2, <2>3 DEF IndInv, TypeOK, StoreTypeOK
  <2>5. NothingDangling'
    <3>1. \A r \in RuleId : rules'[r] # Absent =>
            agenda'[rules'[r].item] # Absent /\ agenda'[rules'[r].item].owner = rules'[r].owner
      BY <1>3, <2>2, <2>3 DEF IndInv, NothingDangling, RuleRow
    <3>2. \A e \in exceptions' \cup overrides' : agenda'[e[1]] # Absent
      BY <2>1, <2>2 DEF IndInv, NothingDangling, TypeOK, StoreTypeOK
    <3>3. recurrence' = {i \in AgendaId : agenda'[i] # Absent /\ agenda'[i].recurring}
      BY <1>2, <2>1, <2>2 DEF IndInv, NothingDangling
    <3>4. \A n \in NoteId : notes'[n] # Absent =>
            \A i \in 1 .. Len(notes'[n].category) :
              <<notes'[n].owner, SubSeq(notes'[n].category, 1, i)>> \in categories'
      BY <1>4 DEF IndInv, NothingDangling
    <3>5. QED
      BY <3>1, <3>2, <3>3, <3>4 DEF NothingDangling
  <2>6. (\A i \in Present' : i \in Present) /\ w.auth.id \notin Present'
    BY <1>2, <1>4, <2>2, <2>3, StoreAssumption DEF Present
  <2>7. MovesOn(agenda, agenda', w)
    BY <1>2, <1>3, <2>2 DEF MovesOn
  <2>8. QED
    BY <1>5, <1>6, <2>4, <2>5, <2>6, <2>7, DoneInv
\* An exception and an override of the lead times are for an item there is.
<1>11. ASSUME UNCHANGED <<agenda, recurrence, rules>>, agenda[id] # Absent,
              w.step \in {"exception", "override"},
              \A e \in exceptions' : e \in exceptions \/ e = <<id, w.auth.edit>>,
              \A e \in overrides' : e \in overrides \/ e = <<id, w.auth.edit>>
       PROVE  IndInv'
  <2>1. w.auth.edit \in Nat /\ <<id, w.auth.edit>> \in AgendaId \X Nat
    BY <1>1, <1>2, WriteKind
  <2>2. exceptions' \subseteq AgendaId \X Nat /\ overrides' \subseteq AgendaId \X Nat
    BY <1>11, <2>1 DEF IndInv, TypeOK, StoreTypeOK
  <2>3. StoreTypeOK'
    BY <1>4, <1>6, <1>11, <2>2 DEF IndInv, TypeOK, StoreTypeOK
  <2>4. \A e \in exceptions' \cup overrides' : agenda'[e[1]] # Absent
    BY <1>11 DEF IndInv, NothingDangling
  <2>5. NothingDangling'
    BY <1>4, <1>11, <2>4 DEF IndInv, NothingDangling
  <2>6. Present' = Present
    BY <1>4, <1>11 DEF Present
  <2>7. MovesOn(agenda, agenda', w)
    BY <1>11 DEF MovesOn
  <2>8. QED
    BY <1>5, <1>6, <1>11, <2>3, <2>5, <2>6, <2>7, DoneInv
<1>12. CASE w.step = "exception" /\ AddException(id, w.auth)
  BY <1>11, <1>12 DEF AddException
<1>13. CASE w.step = "override" /\ SetOverride(id, w.auth.edit)
  BY <1>11, <1>13 DEF SetOverride
<1>14. QED
  BY <1>2, <1>8, <1>9, <1>10, <1>12, <1>13 DEF StoreAgenda

LEMMA StoreRuleInv ==
  ASSUME IndInv, NEW c \in Caller, Done(c), NEW w, w = call[c],
         w.auth.kind = "agenda_notification", StoreRule(w)
  PROVE  IndInv'
PROOF
<1>1. w \in Write /\ w \in WriteOf("agenda_notification", RuleId, RuleRow)
  BY DoneCalls, WriteKind
<1>2. PICK id, row : id = w.auth.id /\ row = w.row /\ id \in RuleId /\ row \in RuleRow
  BY <1>1 DEF WriteOf
<1>3. rules \in [RuleId -> RuleRow \cup {Absent}] /\ Absent \notin RuleRow
  BY AbsentIsNoRow DEF IndInv, TypeOK, StoreTypeOK
<1>4. /\ UNCHANGED <<agenda, recurrence, exceptions, overrides, tasks, notes, index,
                     categories, days, acl>>
      /\ Audit(w.auth)
  BY DEF StoreRule, RuleCreate, RuleUpdate, RuleDelete, noteVars
<1>5. IndexInv' /\ MovesOn(agenda, agenda', w) /\ MovesOn(tasks, tasks', w)
      /\ MovesOn(notes, notes', w)
  BY <1>4 DEF IndInv, IndexInv, MovesOn
<1>6. /\ audit' \subseteq AuditRow
      /\ \A a \in audit' : a \in audit \/ (a.id = w.auth.id /\ a.action = w.auth.action)
  BY <1>1, <1>4, AuditSays
\* Each of the three writes one rule.
<1>7. ASSUME NEW new \in RuleRow \cup {Absent}, rules' = [rules EXCEPT ![id] = new],
             new # Absent => /\ agenda[new.item] # Absent
                             /\ agenda[new.item].owner = new.owner,
             w.step = "create" \/ rules[id] # Absent,
             w.step = "delete" => new = Absent
      PROVE  IndInv'
  <2>1. /\ rules' \in [RuleId -> RuleRow \cup {Absent}]
        /\ rules'[id] = new /\ \A i \in RuleId \ {id} : rules'[i] = rules[i]
    BY <1>2, <1>3, <1>7
  <2>2. StoreTypeOK'
    BY <1>4, <1>6, <2>1 DEF IndInv, TypeOK, StoreTypeOK
  <2>3. NothingDangling'
    <3>1. \A r \in RuleId : rules'[r] # Absent =>
            agenda'[rules'[r].item] # Absent /\ agenda'[rules'[r].item].owner = rules'[r].owner
      BY <1>4, <1>7, <2>1 DEF IndInv, NothingDangling
    <3>2. QED
      BY <1>4, <3>1 DEF IndInv, NothingDangling
  <2>4. /\ \A i \in Present' : i \in Present \/ (w.step = "create" /\ i = w.auth.id)
        /\ w.step = "delete" => w.auth.id \notin Present'
    BY <1>2, <1>4, <1>7, <2>1, StoreAssumption DEF Present
  <2>5. QED
    BY <1>5, <1>6, <2>2, <2>3, <2>4, DoneInv
<1>8. CASE w.step = "create" /\ RuleCreate(id, row, w.auth)
  BY <1>2, <1>7, <1>8 DEF RuleCreate
<1>9. CASE w.step = "update" /\ RuleUpdate(id, row, w.auth)
  <2>1. PICK old \in RuleRow : old = rules[id] /\ rules[id] # Absent
    BY <1>2, <1>3, <1>9 DEF RuleUpdate
  <2>2. PICK new : new = [old EXCEPT !.class = row.class, !.edits = row.edits]
    OBVIOUS
  <2>3. new \in RuleRow /\ new.item = old.item /\ new.owner = old.owner
    BY <1>2, <2>2 DEF RuleRow
  <2>4. agenda[new.item] # Absent /\ agenda[new.item].owner = new.owner
    BY <1>2, <2>1, <2>3 DEF IndInv, NothingDangling
  <2>5. rules' = [rules EXCEPT ![id] = new]
    BY <1>2, <1>3, <1>9, <2>1, <2>2 DEF RuleUpdate
  <2>6. QED
    BY <1>7, <1>9, <2>1, <2>3, <2>4, <2>5
<1>10. CASE w.step = "delete" /\ RuleDelete(id, w.auth)
  BY <1>7, <1>10 DEF RuleDelete
<1>11. QED
  BY <1>2, <1>8, <1>9, <1>10 DEF StoreRule

LEMMA StoreTaskInv ==
  ASSUME IndInv, NEW c \in Caller, Done(c), NEW w, w = call[c],
         w.auth.kind = "task", StoreTask(w)
  PROVE  IndInv'
PROOF
<1>1. w \in Write /\ w \in WriteOf("task", TaskId, TaskRow)
  BY DoneCalls, WriteKind
<1>2. PICK id, row : id = w.auth.id /\ row = w.row /\ id \in TaskId /\ row \in TaskRow
  BY <1>1 DEF WriteOf
<1>3. tasks \in [TaskId -> TaskRow \cup {Absent}] /\ Absent \notin TaskRow
  BY AbsentIsNoRow DEF IndInv, TypeOK, StoreTypeOK
<1>4. /\ UNCHANGED <<agenda, recurrence, exceptions, overrides, rules, notes, index,
                     categories, days, acl>>
      /\ Audit(w.auth)
  BY DEF StoreTask, TaskCreate, TaskUpdate, TaskDelete, agendaVars, noteVars
<1>5. NothingDangling' /\ IndexInv' /\ MovesOn(agenda, agenda', w)
      /\ MovesOn(notes, notes', w)
  BY <1>4 DEF IndInv, NothingDangling, IndexInv, MovesOn
<1>6. /\ audit' \subseteq AuditRow
      /\ \A a \in audit' : a \in audit \/ (a.id = w.auth.id /\ a.action = w.auth.action)
  BY <1>1, <1>4, AuditSays
<1>7. ASSUME NEW new \in TaskRow \cup {Absent}, tasks' = [tasks EXCEPT ![id] = new],
             \/ w.step = "create"
             \/ w.step = "delete" /\ new = Absent
             \/ /\ w.step = "update" /\ tasks[id] # Absent
                /\ new.version = tasks[id].version + 1
      PROVE  IndInv'
  <2>1. /\ tasks' \in [TaskId -> TaskRow \cup {Absent}]
        /\ tasks'[id] = new /\ \A i \in TaskId \ {id} : tasks'[i] = tasks[i]
    BY <1>2, <1>3, <1>7
  <2>2. StoreTypeOK'
    BY <1>4, <1>6, <2>1 DEF IndInv, TypeOK, StoreTypeOK
  <2>3. /\ \A i \in Present' : i \in Present \/ (w.step = "create" /\ i = w.auth.id)
        /\ w.step = "delete" => w.auth.id \notin Present'
    BY <1>2, <1>4, <1>7, <2>1, StoreAssumption DEF Present
  <2>4. MovesOn(tasks, tasks', w)
    BY <1>2, <1>3, <1>7, <2>1 DEF MovesOn
  <2>5. QED
    BY <1>5, <1>6, <2>2, <2>3, <2>4, DoneInv
<1>8. CASE w.step = "create" /\ TaskCreate(id, row, w.auth)
  <2>1. [row EXCEPT !.version = 1] \in TaskRow
    BY <1>2 DEF TaskRow
  <2>2. QED
    BY <1>7, <1>8, <2>1 DEF TaskCreate
<1>9. CASE w.step = "update" /\ TaskUpdate(id, row, w.expected, w.auth)
  BY <1>2, <1>7, <1>9 DEF TaskUpdate, Matches
<1>10. CASE w.step = "delete" /\ TaskDelete(id, w.auth)
  BY <1>7, <1>10 DEF TaskDelete
<1>11. QED
  BY <1>2, <1>8, <1>9, <1>10 DEF StoreTask

LEMMA StoreDayInv ==
  ASSUME IndInv, NEW c \in Caller, Done(c), NEW w, w = call[c],
         w.auth.kind = "anniversary", StoreDay(w)
  PROVE  IndInv'
PROOF
<1>1. w \in Write /\ w \in WriteOf("anniversary", DayId, DayRow)
  BY DoneCalls, WriteKind
<1>2. PICK id, row : id = w.auth.id /\ row = w.row /\ id \in DayId /\ row \in DayRow
  BY <1>1 DEF WriteOf
<1>3. days \in [DayId -> DayRow \cup {Absent}] /\ Absent \notin DayRow
  BY AbsentIsNoRow DEF IndInv, TypeOK, StoreTypeOK
<1>4. /\ UNCHANGED <<agenda, recurrence, exceptions, overrides, rules, tasks, notes,
                     index, categories, acl>>
      /\ Audit(w.auth)
  BY DEF StoreDay, DayCreate, DayUpdate, DayDelete, agendaVars, noteVars
<1>5. NothingDangling' /\ IndexInv' /\ MovesOn(agenda, agenda', w)
      /\ MovesOn(tasks, tasks', w) /\ MovesOn(notes, notes', w)
  BY <1>4 DEF IndInv, NothingDangling, IndexInv, MovesOn
<1>6. /\ audit' \subseteq AuditRow
      /\ \A a \in audit' : a \in audit \/ (a.id = w.auth.id /\ a.action = w.auth.action)
  BY <1>1, <1>4, AuditSays
<1>7. ASSUME NEW new \in DayRow \cup {Absent}, days' = [days EXCEPT ![id] = new],
             w.step = "create" \/ days[id] # Absent,
             w.step = "delete" => new = Absent
      PROVE  IndInv'
  <2>1. /\ days' \in [DayId -> DayRow \cup {Absent}]
        /\ days'[id] = new /\ \A i \in DayId \ {id} : days'[i] = days[i]
    BY <1>2, <1>3, <1>7
  <2>2. StoreTypeOK'
    BY <1>4, <1>6, <2>1 DEF IndInv, TypeOK, StoreTypeOK
  <2>3. /\ \A i \in Present' : i \in Present \/ (w.step = "create" /\ i = w.auth.id)
        /\ w.step = "delete" => w.auth.id \notin Present'
    BY <1>2, <1>4, <1>7, <2>1, StoreAssumption DEF Present
  <2>4. QED
    BY <1>5, <1>6, <2>2, <2>3, DoneInv
<1>8. CASE w.step = "create" /\ DayCreate(id, row, w.auth)
  BY <1>2, <1>7, <1>8 DEF DayCreate
<1>9. CASE w.step = "update" /\ DayUpdate(id, row, w.auth)
  <2>1. PICK old \in DayRow : old = days[id] /\ days[id] # Absent
    BY <1>2, <1>3, <1>9 DEF DayUpdate
  <2>2. PICK new : new = [old EXCEPT !.class = row.class, !.day = row.day,
                                     !.edits = row.edits]
    OBVIOUS
  <2>3. new \in DayRow
    BY <1>2, <2>2 DEF DayRow
  <2>4. days' = [days EXCEPT ![id] = new]
    BY <1>2, <1>3, <1>9, <2>1, <2>2 DEF DayUpdate
  <2>5. QED
    BY <1>7, <1>9, <2>1, <2>3, <2>4
<1>10. CASE w.step = "delete" /\ DayDelete(id, w.auth)
  BY <1>7, <1>10 DEF DayDelete
<1>11. QED
  BY <1>2, <1>8, <1>9, <1>10 DEF StoreDay

LEMMA CategoryPath ==
  ASSUME NEW path \in Category, NEW n \in 1 .. Len(path)
  PROVE  SubSeq(path, 1, n) \in Seq(STRING)
PROOF
<1>1. path \in Seq(STRING) /\ Len(path) \in Nat
  BY StoreAssumption
<1>2. QED
  BY <1>1, SubSeqProperties

LEMMA StoreNoteInv ==
  ASSUME IndInv, NEW c \in Caller, Done(c), NEW w, w = call[c],
         w.auth.kind = "note", StoreNote(w)
  PROVE  IndInv'
PROOF
<1>1. w \in Write /\ w \in WriteOf("note", NoteId, NoteRow)
  BY DoneCalls, WriteKind
<1>2. PICK id, row : id = w.auth.id /\ row = w.row /\ id \in NoteId /\ row \in NoteRow
  BY <1>1 DEF WriteOf
<1>3. /\ notes \in [NoteId -> NoteRow \cup {Absent}] /\ Absent \notin NoteRow
      /\ index \in [NoteId -> IndexRow \cup {Absent}]
      /\ categories \subseteq User \X Seq(STRING)
  BY AbsentIsNoRow DEF IndInv, TypeOK, StoreTypeOK
<1>4. /\ UNCHANGED <<agenda, recurrence, exceptions, overrides, rules, tasks, days, acl>>
      /\ Audit(w.auth)
  BY DEF StoreNote, NoteCreate, NoteUpdate, NoteDelete, agendaVars
<1>5. MovesOn(agenda, agenda', w) /\ MovesOn(tasks, tasks', w)
  BY <1>4 DEF MovesOn
<1>6. /\ audit' \subseteq AuditRow
      /\ \A a \in audit' : a \in audit \/ (a.id = w.auth.id /\ a.action = w.auth.action)
  BY <1>1, <1>4, AuditSays
\* What the parts of the invariant about notes ask of the three of them.
<1>7. ASSUME NEW new \in NoteRow \cup {Absent}, notes' = [notes EXCEPT ![id] = new],
             categories' \subseteq User \X Seq(STRING), categories \subseteq categories',
             NEW entry \in IndexRow \cup {Absent}, index' = [index EXCEPT ![id] = entry],
             entry = IF new = Absent THEN Absent
                     ELSE [owner |-> new.owner, text |-> new.text,
                           category |-> new.category, blocks |-> new.blocks],
             new # Absent => \A i \in 1 .. Len(new.category) :
                               <<new.owner, SubSeq(new.category, 1, i)>> \in categories',
             \/ w.step = "create"
             \/ w.step = "delete" /\ new = Absent
             \/ /\ w.step = "update" /\ notes[id] # Absent
                /\ new.version = notes[id].version + 1
      PROVE  IndInv'
  <2>1. /\ notes' \in [NoteId -> NoteRow \cup {Absent}]
        /\ notes'[id] = new /\ \A i \in NoteId \ {id} : notes'[i] = notes[i]
    BY <1>2, <1>3, <1>7
  <2>2. /\ index' \in [NoteId -> IndexRow \cup {Absent}]
        /\ index'[id] = entry /\ \A i \in NoteId \ {id} : index'[i] = index[i]
    BY <1>2, <1>3, <1>7
  <2>3. StoreTypeOK'
    BY <1>4, <1>6, <1>7, <2>1, <2>2 DEF IndInv, TypeOK, StoreTypeOK
  <2>4. NothingDangling'
    <3>1. \A n \in NoteId : notes'[n] # Absent =>
            \A i \in 1 .. Len(notes'[n].category) :
              <<notes'[n].owner, SubSeq(notes'[n].category, 1, i)>> \in categories'
      <4>1. SUFFICES ASSUME NEW n \in NoteId, notes'[n] # Absent,
                            NEW i \in 1 .. Len(notes'[n].category)
                     PROVE  <<notes'[n].owner, SubSeq(notes'[n].category, 1, i)>>
                              \in categories'
        OBVIOUS
      <4>2. CASE n = id
        BY <4>1, <4>2, <1>7, <2>1
      <4>3. CASE n # id
        BY <4>1, <4>3, <1>7, <2>1 DEF IndInv, NothingDangling
      <4>4. QED
        BY <4>2, <4>3
    <3>2. QED
      BY <1>4, <3>1 DEF IndInv, NothingDangling
  <2>5. IndexInv'
    BY <1>7, <2>1, <2>2 DEF IndInv, IndexInv
  <2>6. /\ \A i \in Present' : i \in Present \/ (w.step = "create" /\ i = w.auth.id)
        /\ w.step = "delete" => w.auth.id \notin Present'
    <3>1. ASSUME NEW i \in Present'
          PROVE  i \in Present \/ (w.step = "create" /\ i = w.auth.id)
      BY <1>2, <1>4, <1>7, <2>1 DEF Present
    <3>2. w.step = "delete" => w.auth.id \notin Present'
      BY <1>2, <1>4, <1>7, <2>1, StoreAssumption DEF Present
    <3>3. QED
      BY <3>1, <3>2
  <2>7. MovesOn(notes, notes', w)
    BY <1>2, <1>3, <1>7, <2>1 DEF MovesOn
  <2>8. QED
    BY <1>5, <1>6, <2>3, <2>4, <2>5, <2>6, <2>7, DoneInv
\* Making a note and replacing one.
<1>8. ASSUME NEW new \in NoteRow, notes' = [notes EXCEPT ![id] = new],
             new.owner = row.owner, new.text = row.text, new.category = row.category,
             new.blocks = row.blocks, EnsureCategoryPath(row), WriteFts(id, row),
             \/ w.step = "create"
             \/ /\ w.step = "update" /\ notes[id] # Absent
                /\ new.version = notes[id].version + 1
      PROVE  IndInv'
  <2>1. PICK entry : entry = [owner |-> row.owner, text |-> row.text,
                              category |-> row.category, blocks |-> row.blocks]
    OBVIOUS
  <2>2. entry \in IndexRow
    BY <1>2, <2>1 DEF NoteRow, IndexRow
  <2>3. index' = [index EXCEPT ![id] = entry]
    BY <1>8, <2>1 DEF WriteFts
  <2>4. PICK more : more = {<<row.owner, SubSeq(row.category, 1, n)>> :
                              n \in 1 .. Len(row.category)}
    OBVIOUS
  <2>5. categories' = categories \cup more
    BY <1>8, <2>4 DEF EnsureCategoryPath
  <2>6. more \subseteq User \X Seq(STRING)
    <3>1. row.owner \in User /\ row.category \in Category
      BY <1>2 DEF NoteRow
    <3>2. SUFFICES ASSUME NEW n \in 1 .. Len(row.category)
                   PROVE  <<row.owner, SubSeq(row.category, 1, n)>> \in User \X Seq(STRING)
      BY <2>4
    <3>3. SubSeq(row.category, 1, n) \in Seq(STRING)
      BY <3>1, CategoryPath
    <3>4. QED
      BY <3>1, <3>3
  <2>7. \A i \in 1 .. Len(new.category) :
          <<new.owner, SubSeq(new.category, 1, i)>> \in categories'
    BY <1>8, <2>4, <2>5
  <2>8. new # Absent
    BY <1>3
  <2>9. QED
    BY <1>3, <1>7, <1>8, <2>1, <2>2, <2>3, <2>5, <2>6, <2>7, <2>8
<1>9. CASE w.step = "create" /\ NoteCreate(id, row, w.auth)
  <2>1. PICK new : new = [row EXCEPT !.version = 1]
    OBVIOUS
  <2>2. /\ new \in NoteRow /\ new.owner = row.owner /\ new.text = row.text
        /\ new.category = row.category /\ new.blocks = row.blocks
    BY <1>2, <2>1 DEF NoteRow
  <2>3. QED
    BY <1>8, <1>9, <2>1, <2>2 DEF NoteCreate
<1>10. CASE w.step = "update" /\ NoteUpdate(id, row, w.expected, w.auth)
  BY <1>2, <1>8, <1>10 DEF NoteUpdate, Matches
<1>11. CASE w.step = "delete" /\ NoteDelete(id, w.auth)
  BY <1>3, <1>7, <1>11 DEF NoteDelete
<1>12. QED
  BY <1>2, <1>9, <1>10, <1>11 DEF StoreNote

-----------------------------------------------------------------------------
(* The invariant.                                                          *)

LEMMA InitInv ==
  ASSUME Init
  PROVE  IndInv
PROOF
<1>1. SharedOwner \in User /\ issued \subseteq Id /\ MaxEdits \in Nat
  BY WorkspaceAssumption DEF Init
<1>2. SeedCategory \in Category /\ Len(SeedCategory) = 1
  BY WorkspaceAssumption DEF SeedCategory
<1>3. SeedCategory \in Seq(STRING)
  BY <1>2, StoreAssumption
<1>4. PICK day \in Day : day = CHOOSE d \in Day : TRUE
  BY WorkspaceAssumption
<1>5. PICK a : a = NewAgenda(SharedOwner, SharedOwner, "personal", 0, TRUE)
  OBVIOUS
<1>5a. a \in AgendaRow /\ a.recurring = TRUE
  BY <1>1, <1>5 DEF NewAgenda, AgendaRow, Class
<1>6. PICK t : t = NewTask(SharedOwner, SharedOwner, "personal", 0)
  OBVIOUS
<1>6a. t \in TaskRow
  BY <1>1, <1>6 DEF NewTask, TaskRow, Class, TaskStatus
<1>7. PICK n : n = SeedNote
  OBVIOUS
<1>7a. /\ n \in NoteRow /\ n.owner = SharedOwner /\ n.text = 0
       /\ n.category = SeedCategory
  <2>1. PICK name \in BlockName : name = CHOOSE m \in BlockName : TRUE
    BY WorkspaceAssumption
  <2>2. <<[name |-> name, body |-> 0]>> \in Seq(Block)
    BY DEF Block
  <2>3. QED
    BY <1>1, <1>2, <1>7, <2>1, <2>2 DEF SeedNote, NewNote, NoteRow, Class
<1>8. PICK d : d = NewDay(SharedOwner, SharedOwner, "personal", 0, day)
  OBVIOUS
<1>8a. d \in DayRow
  BY <1>1, <1>8 DEF NewDay, DayRow, Class
<1>9. PICK x \in IndexRow : x = [owner |-> n.owner, text |-> n.text,
                                 category |-> n.category, blocks |-> n.blocks]
  BY <1>7a DEF NoteRow, IndexRow
<1>10. /\ agenda = [i \in AgendaId |-> IF i \notin issued THEN Absent ELSE a]
       /\ tasks = [i \in TaskId |-> IF i \notin issued THEN Absent ELSE t]
       /\ notes = [i \in NoteId |-> IF i \in issued THEN n ELSE Absent]
       /\ index = [i \in NoteId |-> IF i \in issued THEN x ELSE Absent]
       /\ days = [i \in DayId |-> IF i \notin issued THEN Absent ELSE d]
       /\ rules = [i \in RuleId |-> Absent]
  BY <1>4, <1>5, <1>6, <1>7, <1>7a, <1>8, <1>9 DEF Init
<1>11. /\ recurrence = AgendaId \cap issued /\ exceptions = {} /\ overrides = {}
       /\ categories = {<<SharedOwner, SeedCategory>>} /\ acl = {} /\ audit = {}
       /\ call = [c \in Caller |-> Idle] /\ edits = 0
  BY DEF Init
<1>12. TypeOK
  <2>1. categories \subseteq User \X Seq(STRING)
    BY <1>1, <1>3, <1>11
  <2>2. StoreTypeOK
    BY <1>5a, <1>6a, <1>7a, <1>8a, <1>10, <1>11, <2>1 DEF StoreTypeOK
  <2>3. QED
    BY <1>1, <1>11, <2>2 DEF TypeOK
<1>13. NothingDangling
  <2>1. recurrence = {i \in AgendaId : agenda[i] # Absent /\ agenda[i].recurring}
    BY <1>5a, <1>10, <1>11, AbsentIsNoRow
  <2>2. ASSUME NEW k \in NoteId, notes[k] # Absent, NEW i \in 1 .. Len(notes[k].category)
        PROVE  <<notes[k].owner, SubSeq(notes[k].category, 1, i)>> \in categories
    <3>1. notes[k] = n /\ i = 1
      <4>1. notes[k] = n
        BY <1>10, <2>2
      <4>2. Len(notes[k].category) = 1
        BY <1>2, <1>7a, <4>1
      <4>3. QED
        BY <2>2, <4>1, <4>2
    <3>2. SubSeq(SeedCategory, 1, 1) = SeedCategory
      BY <1>2, <1>3, SubSeqFull
    <3>3. QED
      BY <1>7a, <1>11, <3>1, <3>2
  <2>3. QED
    BY <1>10, <1>11, <2>1, <2>2 DEF NothingDangling
<1>14. \A c \in Caller : ~ Pending(c)
  BY <1>11 DEF Pending
<1>15. IdInv /\ GoneInv
  BY <1>10, <1>11, <1>14 DEF IdInv, GoneInv, Present
<1>16. SeenInv /\ StatusInv
  BY <1>14 DEF SeenInv, Seen, StatusInv
<1>17. IndexInv
  BY <1>7a, <1>9, <1>10, AbsentIsNoRow DEF IndexInv
<1>18. QED
  BY <1>12, <1>13, <1>15, <1>16, <1>17 DEF IndInv

LEMMA CommitInv ==
  ASSUME IndInv, NEW c \in Caller, Commit(c)
  PROVE  IndInv'
PROOF
<1>1. Done(c)
  BY DEF Commit, Done, Pending
<1>2. QED
  BY <1>1, StoreAgendaInv, StoreRuleInv, StoreTaskInv, StoreNoteInv, StoreDayInv
    DEF Commit

LEMMA NextInv ==
  ASSUME IndInv, [Next]_vars
  PROVE  IndInv'
PROOF
<1>1. ASSUME NEW c \in Caller, Ready(c), NEW x \in Context, Command(c, x)
      PROVE  IndInv'
  BY <1>1, AgendaCommandInv, TaskCommandInv, NoteCommandInv, DayCommandInv DEF Command
<1>2. ASSUME NEW c \in Caller, Commit(c) \/ Fail(c)
      PROVE  IndInv'
  BY <1>2, CommitInv, FailInv
<1>3. CASE UNCHANGED vars
  <2>1. UNCHANGED storeVars /\ UNCHANGED <<call, issued, edits>>
    BY <1>3 DEF vars
  <2>2. /\ StoreTypeOK' /\ NothingDangling' /\ GoneInv' /\ IndexInv' /\ Present' = Present
        /\ UNCHANGED <<agenda, tasks, notes, audit>>
    BY <2>1, StoreStays DEF storeVars, agendaVars, noteVars
  <2>3. TypeOK'
    BY <2>1, <2>2 DEF IndInv, TypeOK
  <2>4. IdInv' /\ SeenInv' /\ StatusInv'
    BY <2>1, <2>2 DEF IndInv, IdInv, SeenInv, Seen, StatusInv, Pending
  <2>5. QED
    BY <2>2, <2>3, <2>4 DEF IndInv
<1>4. QED
  BY <1>1, <1>2, <1>3 DEF Next

\* The inductive invariant of the commands: however the commands of several
\* processes interleave between their reads and their transactions, ids are given
\* out once, a row with the version a command expects is the one it has read, what
\* the audit says was deleted is gone, and the tables fit together.
THEOREM Invariance == Spec => []IndInv
PROOF
<1>1. Init => IndInv
  BY InitInv
<1>2. IndInv /\ [Next]_vars => IndInv'
  BY NextInv
<1>3. QED
  BY <1>1, <1>2, PTL DEF Spec

\* The rows of all tables, the pending writes and the audit keep their types, for
\* any number of users, rows and commands.
THEOREM TypeCorrect == Spec => []TypeOK
PROOF
<1>1. IndInv => TypeOK
  BY DEF IndInv
<1>2. QED
  BY <1>1, Invariance, PTL

\* Nothing is left of an agenda item that delete_agenda removed while a rule, an
\* exception or a lead time was being made for it; a note's categories are there.
THEOREM NothingIsLeftDangling == Spec => []NothingDangling
PROOF
<1>1. IndInv => NothingDangling
  BY DEF IndInv
<1>2. QED
  BY <1>1, Invariance, PTL

\* Two rows with the same contents say the same.
LEMMA SameSays ==
  ASSUME NEW row, NEW copy, copy.text = row.text, copy.category = row.category,
         copy.blocks = row.blocks, NEW token
  PROVE  Says(copy, token) <=> Says(row, token)
PROOF
  BY DEF Says, Texts, Names

\* search finds the notes that say, in title, body, categories or blocks, words
\* that begin with all the tokens of the query, no other note, and all of them
\* unless the answer is full: every transaction on notes writes notes_fts anew.
THEOREM SearchTellsTheNotes == Spec => []SearchFindsNotes
PROOF
<1>1. IndInv => SearchFindsNotes
  <2>1. SUFFICES ASSUME IndInv, NEW o \in User, NEW query \in (SUBSET Token) \ {{}},
                        NEW told, told = Matching(notes, o, query),
                        NEW found \in Search(o, query)
                 PROVE  /\ found \subseteq told
                        /\ found = told \/ Cardinality(found) = Limit
    BY DEF SearchFindsNotes
  <2>2. ASSUME NEW n \in NoteId, notes[n] # Absent
        PROVE  /\ index[n] # Absent /\ index[n].owner = notes[n].owner
               /\ \A token : Says(index[n], token) <=> Says(notes[n], token)
    <3>1. index[n] = [owner |-> notes[n].owner, text |-> notes[n].text,
                      category |-> notes[n].category, blocks |-> notes[n].blocks]
      BY <2>1, <2>2 DEF IndInv, IndexInv
    <3>2. index[n] \in IndexRow
      BY <2>1, <2>2, <3>1 DEF IndInv, TypeOK, StoreTypeOK, NoteRow, IndexRow
    <3>3. index[n] # Absent
      BY <3>2, AbsentIsNoRow
    <3>4. /\ index[n].text = notes[n].text /\ index[n].category = notes[n].category
          /\ index[n].blocks = notes[n].blocks
      BY <3>1
    <3>5. \A token : Says(index[n], token) <=> Says(notes[n], token)
      BY <3>4, SameSays
    <3>6. QED
      BY <3>1, <3>3, <3>5
  <2>3. ASSUME NEW n \in NoteId, notes[n] = Absent
        PROVE  index[n] = Absent
    BY <2>1, <2>3 DEF IndInv, IndexInv
  <2>4. Matching(index, o, query) = told
    BY <2>1, <2>2, <2>3 DEF Matching
  <2>5. PICK part \in Limited(told) :
          found = {n \in part : notes[n] # Absent /\ notes[n].owner = o}
    <3>1. query # {}
      BY <2>1
    <3>2. Search(o, query) =
            {{n \in part : notes[n] # Absent /\ notes[n].owner = o} :
               part \in Limited(Matching(index, o, query))}
      BY <3>1 DEF Search
    <3>3. QED
      BY <2>1, <2>4, <3>2
  <2>6. part \subseteq told /\ (part = told \/ Cardinality(part) = Limit)
    BY <2>5 DEF Limited
  <2>7. found = part
    BY <2>1, <2>5, <2>6 DEF Matching
  <2>8. QED
    BY <2>6, <2>7
<1>2. QED
  BY <1>1, Invariance, PTL

-----------------------------------------------------------------------------
(* What a step may do to a row.                                            *)

\* Only a transaction changes a row.
LEMMA CommandsOnlyPrepare ==
  ASSUME NEW c \in Caller, NEW x \in Context, Command(c, x)
  PROVE  UNCHANGED <<agenda, tasks, notes>>
PROOF
<1>1. ASSUME NEW w, Begin(c, w)
      PROVE  UNCHANGED <<agenda, tasks, notes>>
  BY <1>1 DEF Begin, storeVars, agendaVars, noteVars
<1>2. ASSUME NEW kind, NEW id, NEW row, BeginCreate(c, x, kind, id, row)
      PROVE  UNCHANGED <<agenda, tasks, notes>>
  BY <1>1, <1>2 DEF BeginCreate
<1>3. ASSUME NEW kind, NEW id, NEW row, NEW expected,
             BeginUpdate(c, x, kind, id, row, expected)
      PROVE  UNCHANGED <<agenda, tasks, notes>>
  BY <1>1, <1>3 DEF BeginUpdate
<1>4. ASSUME NEW step, NEW action, NEW kind, NEW id, NEW row,
             BeginOther(c, x, step, action, kind, id, row)
      PROVE  UNCHANGED <<agenda, tasks, notes>>
  BY <1>1, <1>4 DEF BeginOther
<1>5. CASE AgendaCommand(c, x)
  <2>1. ASSUME NEW id, \/ CreateAgenda(c, x, id) \/ UpdateAgenda(c, x, id)
                       \/ DeleteAgenda(c, x, id) \/ SetAgendaException(c, x, id)
                       \/ SetNotificationLeads(c, x, id)
        PROVE  UNCHANGED <<agenda, tasks, notes>>
    BY <2>1, <1>2, <1>3, <1>4
      DEF CreateAgenda, UpdateAgenda, DeleteAgenda, SetAgendaException,
          SetNotificationLeads
  <2>2. ASSUME NEW id, NEW item, CreateAgendaNotification(c, x, item, id)
        PROVE  UNCHANGED <<agenda, tasks, notes>>
    BY <2>2, <1>2 DEF CreateAgendaNotification
  <2>3. ASSUME NEW id, \/ UpdateAgendaNotification(c, x, id)
                       \/ DeleteAgendaNotification(c, x, id)
        PROVE  UNCHANGED <<agenda, tasks, notes>>
    BY <2>3, <1>3, <1>4 DEF UpdateAgendaNotification, DeleteAgendaNotification
  <2>4. QED
    BY <1>5, <2>1, <2>2, <2>3 DEF AgendaCommand
<1>6. CASE TaskCommand(c, x)
  BY <1>2, <1>3, <1>4, <1>6
    DEF TaskCommand, CreateTask, UpdateTask, DeleteTask, TransitionTask, PostponeTask,
        ChangeAcl, GrantAccess, RevokeAccess, agendaVars, noteVars
<1>7. CASE NoteCommand(c, x)
  BY <1>2, <1>3, <1>4, <1>7
    DEF NoteCommand, CreateNote, UpdateNote, DeleteNote, AddNoteContentBlock,
        MoveNoteCategory
<1>8. CASE DayCommand(c, x)
  <2>1. ASSUME NEW id, CreateAnniversary(c, x, id)
        PROVE  UNCHANGED <<agenda, tasks, notes>>
    <3>1. PICK row : BeginCreate(c, x, "anniversary", id, row)
      BY <2>1 DEF CreateAnniversary
    <3>2. QED
      BY <1>2, <3>1
  <2>2. ASSUME NEW id, UpdateAnniversary(c, x, id) \/ DeleteAnniversary(c, x, id)
        PROVE  UNCHANGED <<agenda, tasks, notes>>
    BY <2>2, <1>3, <1>4 DEF UpdateAnniversary, DeleteAnniversary
  <2>3. QED
    BY <1>8, <2>1, <2>2 DEF DayCommand
<1>9. QED
  BY <1>5, <1>6, <1>7, <1>8 DEF Command

\* A row that is there before and after a transaction is the same, or is the one
\* the command made from the copy with this version.
LEMMA CommitReplaces ==
  ASSUME IndInv, NEW c \in Caller, Commit(c), NEW w, w = call[c]
  PROVE  /\ \A i \in AgendaId : agenda[i] # Absent /\ agenda'[i] # Absent =>
              \/ agenda'[i] = agenda[i]
              \/ /\ w.auth.kind = "agenda" /\ w.step = "update" /\ i = w.auth.id
                 /\ agenda[i].version = w.expected /\ agenda'[i] = w.row
         /\ \A i \in TaskId : tasks[i] # Absent /\ tasks'[i] # Absent =>
              \/ tasks'[i] = tasks[i]
              \/ /\ w.auth.kind = "task" /\ w.step = "update" /\ i = w.auth.id
                 /\ tasks[i].version = w.expected /\ tasks'[i] = w.row
         /\ \A i \in NoteId : notes[i] # Absent /\ notes'[i] # Absent =>
              \/ notes'[i] = notes[i]
              \/ /\ w.auth.kind = "note" /\ w.step = "update" /\ i = w.auth.id
                 /\ notes[i].version = w.expected /\ notes'[i] = w.row
PROOF
<1>1. /\ agenda \in [AgendaId -> AgendaRow \cup {Absent}]
      /\ tasks \in [TaskId -> TaskRow \cup {Absent}]
      /\ notes \in [NoteId -> NoteRow \cup {Absent}]
  BY DEF IndInv, TypeOK, StoreTypeOK
<1>2. CASE w.auth.kind = "agenda" /\ StoreAgenda(w)
  <2>1. UNCHANGED <<tasks, notes>>
    BY <1>2 DEF StoreAgenda, AgendaCreate, AgendaUpdate, AgendaDelete, AddException,
                SetOverride, noteVars
  <2>2. QED
    BY <1>1, <1>2, <2>1 DEF StoreAgenda, AgendaCreate, AgendaUpdate, AgendaDelete,
                            AddException, SetOverride, Matches
<1>3. CASE w.auth.kind = "agenda_notification" /\ StoreRule(w)
  BY <1>3 DEF StoreRule, RuleCreate, RuleUpdate, RuleDelete, noteVars
<1>4. CASE w.auth.kind = "task" /\ StoreTask(w)
  <2>1. UNCHANGED <<agenda, notes>>
    BY <1>4 DEF StoreTask, TaskCreate, TaskUpdate, TaskDelete, agendaVars, noteVars
  <2>2. QED
    BY <1>1, <1>4, <2>1 DEF StoreTask, TaskCreate, TaskUpdate, TaskDelete, Matches
<1>5. CASE w.auth.kind = "note" /\ StoreNote(w)
  <2>1. UNCHANGED <<agenda, tasks>>
    BY <1>5 DEF StoreNote, NoteCreate, NoteUpdate, NoteDelete, agendaVars
  <2>2. QED
    BY <1>1, <1>5, <2>1 DEF StoreNote, NoteCreate, NoteUpdate, NoteDelete, Matches
<1>6. CASE w.auth.kind = "anniversary" /\ StoreDay(w)
  BY <1>6 DEF StoreDay, DayCreate, DayUpdate, DayDelete, agendaVars, noteVars
<1>7. QED
  BY <1>2, <1>3, <1>4, <1>5, <1>6 DEF Commit

LEMMA CommitKeeps ==
  ASSUME IndInv, NEW c \in Caller, Commit(c)
  PROVE  /\ KeepsEdits(agenda, agenda') /\ KeepsEdits(tasks, tasks')
         /\ KeepsEdits(notes, notes')
         /\ \A t \in TaskId :
              tasks[t] # Absent /\ tasks'[t] # Absent /\ tasks'[t].status # tasks[t].status
                => tasks'[t].status \in AllowedTransitions[tasks[t].status]
PROOF
<1>1. PICK w : w = call[c]
  OBVIOUS
<1>2. Pending(c) /\ agenda \in [AgendaId -> AgendaRow \cup {Absent}]
      /\ tasks \in [TaskId -> TaskRow \cup {Absent}]
      /\ notes \in [NoteId -> NoteRow \cup {Absent}]
  BY DEF Commit, Pending, IndInv, TypeOK, StoreTypeOK
<1>3. KeepsEdits(agenda, agenda')
  BY <1>1, <1>2, CommitReplaces DEF KeepsEdits, IndInv, SeenInv, Seen
<1>4. KeepsEdits(tasks, tasks')
  BY <1>1, <1>2, CommitReplaces DEF KeepsEdits, IndInv, SeenInv, Seen
<1>5. KeepsEdits(notes, notes')
  BY <1>1, <1>2, CommitReplaces DEF KeepsEdits, IndInv, SeenInv, Seen
<1>6. ASSUME NEW t \in TaskId, tasks[t] # Absent, tasks'[t] # Absent,
             tasks'[t].status # tasks[t].status
      PROVE  tasks'[t].status \in AllowedTransitions[tasks[t].status]
  BY <1>1, <1>2, <1>6, CommitReplaces DEF IndInv, StatusInv
<1>7. QED
  BY <1>3, <1>4, <1>5, <1>6

LEMMA NextKeeps ==
  ASSUME IndInv, Next
  PROVE  /\ KeepsEdits(agenda, agenda') /\ KeepsEdits(tasks, tasks')
         /\ KeepsEdits(notes, notes')
         /\ \A t \in TaskId :
              tasks[t] # Absent /\ tasks'[t] # Absent /\ tasks'[t].status # tasks[t].status
                => tasks'[t].status \in AllowedTransitions[tasks[t].status]
PROOF
<1>1. CASE UNCHANGED <<agenda, tasks, notes>>
  BY <1>1 DEF KeepsEdits
<1>2. ASSUME NEW c \in Caller, Fail(c)
      PROVE  UNCHANGED <<agenda, tasks, notes>>
  BY <1>2 DEF Fail, storeVars, agendaVars, noteVars
<1>3. QED
  BY <1>1, <1>2, CommandsOnlyPrepare, CommitKeeps DEF Next

\* No write of an agenda item, a task or a note drops an edit its author had not
\* seen, and what was deleted is not brought back, however many commands read the
\* same row before any of them writes it.
THEOREM AcknowledgedWritesStand == Spec => AcknowledgedStands
PROOF
<1>1. IndInv /\ [Next]_vars =>
        [/\ KeepsEdits(agenda, agenda') /\ KeepsEdits(tasks, tasks')
         /\ KeepsEdits(notes, notes') /\ GoneInv]_vars
  BY NextKeeps DEF IndInv
<1>2. QED
  BY <1>1, Invariance, PTL DEF Spec, AcknowledgedStands

\* The status of a task only moves along ALLOWED_TRANSITIONS, although the
\* transition was checked on a copy of the task that was read before.
THEOREM TasksMoveLegally == Spec => TransitionsLegal
PROOF
<1>1. IndInv /\ [Next]_vars =>
        [\A t \in TaskId :
           tasks[t] # Absent /\ tasks'[t] # Absent /\ tasks'[t].status # tasks[t].status
             => tasks'[t].status \in AllowedTransitions[tasks[t].status]]_vars
  BY NextKeeps
<1>2. QED
  BY <1>1, Invariance, PTL DEF Spec, TransitionsLegal
=============================================================================
