------------------------------ MODULE Workspace ------------------------------
(***************************************************************************)
(* The commands on a workspace: ZhixuServices (application/services.py)    *)
(* under PolicyEngine (domain/policy.py) over the repositories.  A command *)
(* reads the row it is about, checks it, obtains a capability from the     *)
(* policy and then writes in a transaction of its own.  Commands of chat   *)
(* users and of the administration pages run at the same time in several   *)
(* processes, so anything may happen between the read and the write.       *)
(*                                                                         *)
(* A command that is refused before its write (no such row, another        *)
(* version than the user gave, the policy) changes nothing and is no step. *)
(* Reminders and the reminders that delete_agenda cancels are in module    *)
(* Reminders; briefings are in module Briefings.                           *)
(***************************************************************************)
EXTENDS WorkspaceStore

CONSTANTS
  Context,    \* the CommandContexts commands come with
  SharedOwner, NoUser,  \* the principal of the internal group
  Seeded,     \* the ids whose rows exist at first, unless there are none
  Caller,     \* bound: commands that run at the same time
  MaxEdits    \* bound: commands in all

ASSUME WorkspaceAssumption ==
  /\ SharedOwner \in User /\ NoUser \notin User
  /\ \A x \in Context :
       /\ x.actor \in User
       /\ x.readable \subseteq User
       /\ x.shared \in User \cup {NoUser}
       /\ x.channel \in {"private_chat", "group_chat", "admin_web", "service"}
       /\ {x.stepUp, x.confirmed, x.member, x.manager} \subseteq BOOLEAN
  /\ Seeded \subseteq Id
  /\ Day # {} /\ BlockName # {} /\ \E path \in Category : Len(path) = 1
  /\ MaxEdits \in Nat

VARIABLES
  call,   \* the write each caller is about to make, or Idle
  issued, \* ids that were given out
  edits   \* the number of commands so far

vars == <<storeVars, call, issued, edits>>

Idle == [step |-> "idle"]
Step == {"create", "update", "delete", "exception", "override"}
WriteOf(kind, ids, rows) ==
  [step : Step, row : rows, expected : Nat,
   auth : [edit : Nat, actor : User, action : Action, kind : {kind}, id : ids,
           owner : User, class : Class]]
Write == WriteOf("agenda", AgendaId, AgendaRow)
           \cup WriteOf("agenda_notification", RuleId, RuleRow)
           \cup WriteOf("task", TaskId, TaskRow)
           \cup WriteOf("note", NoteId, NoteRow)
           \cup WriteOf("anniversary", DayId, DayRow)

-----------------------------------------------------------------------------
(* PolicyEngine.require                                                    *)

IsOwner(x, owner)  == x.actor = owner
IsMember(x, owner) == x.member /\ owner \in x.readable

Require(x, action, kind, id, owner, class) ==
  /\ \/ IsOwner(x, owner) \/ IsMember(x, owner)
     \/ HasGrant(x.actor, action, kind, id)
  /\ class = "confidential" => x.channel # "group_chat" /\ x.stepUp
  /\ action = "grant" => x.stepUp /\ x.channel = "admin_web"
  /\ action = "delete" => x.confirmed

\* The capability for the next edit.
Capability(x, action, kind, id, owner, class) ==
  [edit |-> edits + 1, actor |-> x.actor, action |-> action, kind |-> kind,
   id |-> id, owner |-> owner, class |-> class]

CreateOwner(x, private) ==
  IF ~private /\ x.shared # NoUser THEN x.shared ELSE x.actor

RequireCreatorOrManager(x, row) ==
  x.actor \in {row.owner, row.creator} \/ x.manager

-----------------------------------------------------------------------------
(* The first half of a command.                                            *)

Ready(c) == call[c] = Idle /\ edits < MaxEdits

Begin(c, write) ==
  /\ call' = [call EXCEPT ![c] = write]
  /\ edits' = edits + 1
  /\ UNCHANGED storeVars

\* A command that makes a row takes an id no other row ever had.
BeginCreate(c, x, kind, id, row) ==
  /\ id \notin issued
  /\ Require(x, "create", kind, id, row.owner, row.class)
  /\ issued' = issued \cup {id}
  /\ Begin(c, [step |-> "create", row |-> row, expected |-> 0,
               auth |-> Capability(x, "create", kind, id, row.owner, row.class)])

\* The row is written as its author saw it, with the author's edit.
BeginUpdate(c, x, kind, id, row, expected) ==
  /\ Require(x, "update", kind, id, row.owner, row.class)
  /\ Begin(c, [step |-> "update", expected |-> expected,
               row |-> [row EXCEPT !.edits = @ \cup {edits + 1}],
               auth |-> Capability(x, "update", kind, id, row.owner, row.class)])
  /\ UNCHANGED issued

BeginOther(c, x, step, action, kind, id, row) ==
  /\ Require(x, action, kind, id, row.owner, row.class)
  /\ Begin(c, [step |-> step, row |-> row, expected |-> 0,
               auth |-> Capability(x, action, kind, id, row.owner, row.class)])
  /\ UNCHANGED issued

\* New rows.
NewAgenda(owner, creator, class, edit, recurring) ==
  [owner |-> owner, creator |-> creator, class |-> class, edits |-> {edit},
   version |-> 1, recurring |-> recurring]
NewTask(owner, creator, class, edit) ==
  [owner |-> owner, creator |-> creator, class |-> class, edits |-> {edit},
   version |-> 1, status |-> "pending"]

\* One block stands for those the command gives; without any, the default block
\* takes the body, a second time.
NewNote(owner, creator, class, edit, category, name) ==
  [owner |-> owner, creator |-> creator, class |-> class, edits |-> {edit},
   version |-> 1, text |-> edit, category |-> category,
   blocks |-> <<[name |-> name, body |-> edit]>>]
NewDay(owner, creator, class, edit, day) ==
  [owner |-> owner, creator |-> creator, class |-> class, edits |-> {edit},
   day |-> day]

-----------------------------------------------------------------------------
(* Agenda items and what belongs to them.                                  *)

CreateAgenda(c, x, id) ==
  \E private, recurring \in BOOLEAN, class \in Class :
    BeginCreate(c, x, "agenda", id,
      NewAgenda(CreateOwner(x, private), x.actor, class, edits + 1, recurring))

UpdateAgenda(c, x, id) ==
  /\ agenda[id] # Absent
  /\ \E recurring \in BOOLEAN, class \in Class :
       BeginUpdate(c, x, "agenda", id,
         [agenda[id] EXCEPT !.version = @ + 1, !.recurring = recurring,
                            !.class = class],
         agenda[id].version)

DeleteAgenda(c, x, id) ==
  /\ agenda[id] # Absent
  /\ RequireCreatorOrManager(x, agenda[id])
  /\ BeginOther(c, x, "delete", "delete", "agenda", id, agenda[id])

SetAgendaException(c, x, id) ==
  /\ agenda[id] # Absent
  /\ BeginOther(c, x, "exception", "update", "agenda", id, agenda[id])

SetNotificationLeads(c, x, id) ==
  /\ agenda[id] # Absent
  /\ BeginOther(c, x, "override", "update", "agenda", id, agenda[id])

\* A rule is at least as confidential as its item.
CreateAgendaNotification(c, x, item, id) ==
  /\ agenda[item] # Absent
  /\ \E class \in Class :
       BeginCreate(c, x, "agenda_notification", id,
         [owner |-> agenda[item].owner, creator |-> x.actor, item |-> item,
          class |-> IF "confidential" \in {agenda[item].class, class}
                    THEN "confidential" ELSE "personal",
          edits |-> {edits + 1}])

UpdateAgendaNotification(c, x, id) ==
  /\ rules[id] # Absent
  /\ \E class \in Class :
       BeginUpdate(c, x, "agenda_notification", id,
                   [rules[id] EXCEPT !.class = class], 0)

DeleteAgendaNotification(c, x, id) ==
  /\ rules[id] # Absent
  /\ BeginOther(c, x, "delete", "delete", "agenda_notification", id, rules[id])

-----------------------------------------------------------------------------
(* Tasks.                                                                  *)

\* Mutant of AllowedTransitions: a status the tasks table does not know.
MutReopened ==
  [s \in TaskStatus |-> IF s = "archived" THEN {} ELSE {"completed", "reopened"}]

AllowedTransitions ==
  [s \in TaskStatus |->
     CASE s = "pending"     -> {"in_progress", "completed", "cancelled"}
       [] s = "in_progress" -> {"pending", "completed", "cancelled"}
       [] s = "completed"   -> {"archived"}
       [] s = "cancelled"   -> {"archived"}
       [] s = "archived"    -> {}]

CreateTask(c, x, id) ==
  \E private \in BOOLEAN, class \in Class :
    BeginCreate(c, x, "task", id,
      NewTask(CreateOwner(x, private), x.actor, class, edits + 1))

UpdateTask(c, x, id) ==
  /\ tasks[id] # Absent
  /\ \E class \in Class :
       BeginUpdate(c, x, "task", id,
         [tasks[id] EXCEPT !.version = @ + 1, !.class = class],
         tasks[id].version)

DeleteTask(c, x, id) ==
  /\ tasks[id] # Absent
  /\ BeginOther(c, x, "delete", "delete", "task", id, tasks[id])

TransitionTask(c, x, id) ==
  /\ tasks[id] # Absent
  /\ \E status \in AllowedTransitions[tasks[id].status] :
       BeginUpdate(c, x, "task", id,
         [tasks[id] EXCEPT !.version = @ + 1, !.status = status],
         tasks[id].version)

PostponeTask(c, x, id) ==
  /\ tasks[id] # Absent /\ tasks[id].status \in {"pending", "in_progress"}
  /\ BeginUpdate(c, x, "task", id, [tasks[id] EXCEPT !.version = @ + 1],
                 tasks[id].version)

-----------------------------------------------------------------------------
(* Notes.                                                                  *)

CreateNote(c, x, id) ==
  \E private \in BOOLEAN, class \in Class, category \in Category,
     name \in BlockName :
    BeginCreate(c, x, "note", id,
      NewNote(CreateOwner(x, private), x.actor, class, edits + 1, category, name))

\* The name is new in the note as it was read; the version that was read is
\* the one the update expects.
AddNoteContentBlock(c, x, id) ==
  /\ notes[id] # Absent
  /\ \E name \in BlockName :
       /\ \A i \in 1 .. Len(notes[id].blocks) : notes[id].blocks[i].name # name
       /\ BeginUpdate(c, x, "note", id,
            [notes[id] EXCEPT !.version = @ + 1,
                              !.blocks = Append(@, [name |-> name,
                                                    body |-> edits + 1])],
            notes[id].version)

MoveNoteCategory(c, x, id) ==
  /\ notes[id] # Absent
  /\ \E category \in Category :
       BeginUpdate(c, x, "note", id,
         [notes[id] EXCEPT !.version = @ + 1, !.category = category],
         notes[id].version)

\* The title and the body are new; the blocks stay, and with them what they say
\* of the old body.
UpdateNote(c, x, id) ==
  /\ notes[id] # Absent
  /\ \E class \in Class :
       BeginUpdate(c, x, "note", id,
         [notes[id] EXCEPT !.version = @ + 1, !.text = edits + 1,
                           !.class = class],
         notes[id].version)

DeleteNote(c, x, id) ==
  /\ notes[id] # Absent
  /\ BeginOther(c, x, "delete", "delete", "note", id, notes[id])

-----------------------------------------------------------------------------
(* Important days.                                                         *)

\* An important day of the same kind, title and date in the destination.
FindMatchingAnniversary(owner, day) ==
  {d \in DayId : days[d] # Absent /\ days[d].owner = owner /\ days[d].day = day}

\* The first of them that list_for_owner has must be readable.  The command may
\* carry allow_duplicate, which counts when it is confirmed.
CreateAnniversary(c, x, id) ==
  \E private, allow \in BOOLEAN, class \in Class, day \in Day :
    LET same == FindMatchingAnniversary(CreateOwner(x, private), day) IN
    /\ \/ same = {}
       \/ /\ x.confirmed /\ allow
          /\ \E d \in same : Require(x, "read", "anniversary", d,
                                     days[d].owner, days[d].class)
    /\ BeginCreate(c, x, "anniversary", id,
         NewDay(CreateOwner(x, private), x.actor, class, edits + 1, day))

UpdateAnniversary(c, x, id) ==
  /\ days[id] # Absent
  /\ \E class \in Class, day \in Day :
       BeginUpdate(c, x, "anniversary", id,
         [days[id] EXCEPT !.class = class, !.day = day], 0)

DeleteAnniversary(c, x, id) ==
  /\ days[id] # Absent
  /\ BeginOther(c, x, "delete", "delete", "anniversary", id, days[id])

-----------------------------------------------------------------------------
(* Grants, given and taken by an owner on the administration pages.  They  *)
(* read nothing between the policy and the write, which makes one step.    *)

ChangeAcl(c, x, kind, id, row) ==
  /\ Require(x, "grant", kind, id, row.owner, row.class)
  /\ \E user \in User, action \in {"update", "delete"} :
       LET auth == Capability(x, "grant", kind, id, row.owner, row.class) IN
       GrantAccess(user, action, auth) \/ RevokeAccess(user, action, auth)
  /\ edits' = edits + 1
  /\ UNCHANGED <<call, issued>>

-----------------------------------------------------------------------------
(* The second half of a command: its transaction.                          *)

StoreAgenda(w) ==
  \/ w.step = "create" /\ AgendaCreate(w.auth.id, w.row, w.auth)
  \/ w.step = "update" /\ AgendaUpdate(w.auth.id, w.row, w.expected, w.auth)
  \/ w.step = "delete" /\ AgendaDelete(w.auth.id, w.auth)
  \/ w.step = "exception" /\ AddException(w.auth.id, w.auth)
  \/ w.step = "override" /\ SetOverride(w.auth.id, w.auth.edit)

StoreRule(w) ==
  \/ w.step = "create" /\ RuleCreate(w.auth.id, w.row, w.auth)
  \/ w.step = "update" /\ RuleUpdate(w.auth.id, w.row, w.auth)
  \/ w.step = "delete" /\ RuleDelete(w.auth.id, w.auth)

StoreTask(w) ==
  \/ w.step = "create" /\ TaskCreate(w.auth.id, w.row, w.auth)
  \/ w.step = "update" /\ TaskUpdate(w.auth.id, w.row, w.expected, w.auth)
  \/ w.step = "delete" /\ TaskDelete(w.auth.id, w.auth)

StoreNote(w) ==
  \/ w.step = "create" /\ NoteCreate(w.auth.id, w.row, w.auth)
  \/ w.step = "update" /\ NoteUpdate(w.auth.id, w.row, w.expected, w.auth)
  \/ w.step = "delete" /\ NoteDelete(w.auth.id, w.auth)

StoreDay(w) ==
  \/ w.step = "create" /\ DayCreate(w.auth.id, w.row, w.auth)
  \/ w.step = "update" /\ DayUpdate(w.auth.id, w.row, w.auth)
  \/ w.step = "delete" /\ DayDelete(w.auth.id, w.auth)

Commit(c) ==
  /\ call[c] # Idle
  /\ \/ call[c].auth.kind = "agenda" /\ StoreAgenda(call[c])
     \/ call[c].auth.kind = "agenda_notification" /\ StoreRule(call[c])
     \/ call[c].auth.kind = "task" /\ StoreTask(call[c])
     \/ call[c].auth.kind = "note" /\ StoreNote(call[c])
     \/ call[c].auth.kind = "anniversary" /\ StoreDay(call[c])
  /\ call' = [call EXCEPT ![c] = Idle]
  /\ UNCHANGED <<issued, edits>>

\* The transaction raises, because the row is gone or has another version,
\* because the database is busy, or because the process ends.
Fail(c) ==
  /\ call[c] # Idle
  /\ call' = [call EXCEPT ![c] = Idle]
  /\ UNCHANGED <<storeVars, issued, edits>>

-----------------------------------------------------------------------------
(* The specification.                                                      *)

SeedCategory == CHOOSE p \in Category : Len(p) = 1
SeedNote == NewNote(SharedOwner, SharedOwner, "personal", 0, SeedCategory,
                    CHOOSE name \in BlockName : TRUE)

Init ==
  /\ issued \in {{}, Seeded}
  /\ agenda = [i \in AgendaId |-> IF i \notin issued THEN Absent
                 ELSE NewAgenda(SharedOwner, SharedOwner, "personal", 0, TRUE)]
  /\ recurrence = AgendaId \cap issued
  /\ exceptions = {} /\ overrides = {}
  /\ rules = [i \in RuleId |-> Absent]
  /\ tasks = [i \in TaskId |-> IF i \notin issued THEN Absent
                ELSE NewTask(SharedOwner, SharedOwner, "personal", 0)]
  /\ notes = [i \in NoteId |-> IF i \in issued THEN SeedNote ELSE Absent]
  /\ index = [i \in NoteId |-> IF i \in issued
                THEN [owner |-> SharedOwner, text |-> 0,
                      category |-> SeedNote.category,
                      blocks |-> SeedNote.blocks]
                ELSE Absent]
  /\ categories = {<<SharedOwner, SeedCategory>>}
  /\ days = [i \in DayId |-> IF i \notin issued THEN Absent
               ELSE NewDay(SharedOwner, SharedOwner, "personal", 0,
                           CHOOSE d \in Day : TRUE)]
  /\ acl = {} /\ audit = {}
  /\ call = [c \in Caller |-> Idle]
  /\ edits = 0

AgendaCommand(c, x) ==
  \/ \E id \in AgendaId :
       \/ CreateAgenda(c, x, id) \/ UpdateAgenda(c, x, id)
       \/ DeleteAgenda(c, x, id) \/ SetAgendaException(c, x, id)
       \/ SetNotificationLeads(c, x, id)
  \/ \E id \in RuleId :
       \/ \E item \in AgendaId : CreateAgendaNotification(c, x, item, id)
       \/ UpdateAgendaNotification(c, x, id)
       \/ DeleteAgendaNotification(c, x, id)

TaskCommand(c, x) ==
  \E id \in TaskId :
    \/ CreateTask(c, x, id) \/ UpdateTask(c, x, id) \/ DeleteTask(c, x, id)
    \/ TransitionTask(c, x, id) \/ PostponeTask(c, x, id)
    \/ tasks[id] # Absent /\ ChangeAcl(c, x, "task", id, tasks[id])

NoteCommand(c, x) ==
  \E id \in NoteId :
    \/ CreateNote(c, x, id) \/ UpdateNote(c, x, id) \/ DeleteNote(c, x, id)
    \/ AddNoteContentBlock(c, x, id) \/ MoveNoteCategory(c, x, id)

DayCommand(c, x) ==
  \E id \in DayId :
    \/ CreateAnniversary(c, x, id) \/ UpdateAnniversary(c, x, id)
    \/ DeleteAnniversary(c, x, id)

Command(c, x) ==
  \/ AgendaCommand(c, x) \/ TaskCommand(c, x)
  \/ NoteCommand(c, x) \/ DayCommand(c, x)

Next ==
  \E c \in Caller :
    \/ Ready(c) /\ \E x \in Context : Command(c, x)
    \/ Commit(c) \/ Fail(c)

Spec == Init /\ [][Next]_vars

-----------------------------------------------------------------------------
(* Properties.                                                             *)

TypeOK ==
  /\ StoreTypeOK
  /\ call \in [Caller -> Write \cup {Idle}]
  /\ issued \subseteq Id
  /\ edits \in 0 .. MaxEdits

\* A later write of a row has seen all the edits that are in it.
KeepsEdits(table, next) ==
  \A i \in DOMAIN table : table[i] # Absent /\ next[i] # Absent
                           => table[i].edits \subseteq next[i].edits

\* The ids of the rows there are.
Present ==
  {i \in AgendaId : agenda[i] # Absent} \cup {i \in RuleId : rules[i] # Absent}
    \cup {i \in TaskId : tasks[i] # Absent} \cup {i \in NoteId : notes[i] # Absent}
    \cup {i \in DayId : days[i] # Absent}

\* What was deleted is not there any more.
GoneInv == \A a \in audit : a.action = "delete" => a.id \notin Present

\* What was acknowledged stands, whatever ran at the same time: no later write
\* drops an edit of an agenda item, a task or a note that its author had not
\* seen, and what was deleted is not brought back by a write that had read it
\* before.
AcknowledgedStands ==
  [][/\ KeepsEdits(agenda, agenda') /\ KeepsEdits(tasks, tasks')
     /\ KeepsEdits(notes, notes')
     /\ GoneInv]_vars

\* The status of a task only changes along ALLOWED_TRANSITIONS, although every
\* transition is checked on a copy of the task that was read before.
TransitionsLegal ==
  [][\A t \in TaskId :
       tasks[t] # Absent /\ tasks'[t] # Absent /\ tasks'[t].status # tasks[t].status
         => tasks'[t].status \in AllowedTransitions[tasks[t].status]]_vars

\* A search finds the notes that say now, in their title or body, in a block or
\* in the name of a category or block, something that begins with each of its
\* tokens: no other note, and all of them unless the answer is full.  The index
\* follows every edit, move, new block and deletion, also of those that race.
\* (update_note leaves the blocks alone, so what a note's first body said is
\* still in its default block, and found.)
SearchFindsNotes ==
  \A o \in User, query \in (SUBSET Token) \ {{}} :
    LET told == Matching(notes, o, query) IN
    \A found \in Search(o, query) :
      /\ found \subseteq told
      /\ found = told \/ Cardinality(found) = Limit

\* Nothing is left of an agenda item that was deleted while a rule, an
\* exception or a lead time was being made for it, its rules are of its owner,
\* its recurrence rule says what the item says, and the category of a note is
\* there with all its parents.
NothingDangling ==
  /\ \A r \in RuleId : rules[r] # Absent =>
       /\ agenda[rules[r].item] # Absent
       /\ agenda[rules[r].item].owner = rules[r].owner
  /\ \A e \in exceptions \cup overrides : agenda[e[1]] # Absent
  /\ recurrence = {i \in AgendaId : agenda[i] # Absent /\ agenda[i].recurring}
  /\ \A n \in NoteId : notes[n] # Absent =>
       \A i \in 1 .. Len(notes[n].category) :
         <<notes[n].owner, SubSeq(notes[n].category, 1, i)>> \in categories

-----------------------------------------------------------------------------
(* What makes them inductive.                                              *)

Pending(c) == call[c] # Idle

\* Ids are given out once: what exists, is being written or was audited has one.
\* Nobody else is about to write under the id of a row that is still to be made,
\* and no row with that id was ever deleted.
IdInv ==
  /\ Present \subseteq issued
  /\ \A a \in audit : a.id \in issued
  /\ \A c \in Caller : Pending(c) =>
       /\ call[c].auth.id \in issued
       /\ call[c].auth.action = "delete" <=> call[c].step = "delete"
       /\ call[c].step = "create" =>
            /\ call[c].auth.id \notin Present
            /\ \A d \in Caller : Pending(d) /\ call[d].auth.id = call[c].auth.id => d = c
            /\ \A a \in audit : a.id = call[c].auth.id => a.action # "delete"

\* A row with the version that a command expects is the one it has read, so the
\* command has seen all the edits in it.
Seen(table, kind) ==
  \A c \in Caller :
    /\ Pending(c) /\ call[c].step = "update" /\ call[c].auth.kind = kind
    /\ table[call[c].auth.id] # Absent
    => LET row == table[call[c].auth.id] IN
       /\ row.version >= call[c].expected
       /\ row.version = call[c].expected => row.edits \subseteq call[c].row.edits

\* And a transition of a task was checked on it.
StatusInv ==
  \A c \in Caller :
    /\ Pending(c) /\ call[c].step = "update" /\ call[c].auth.kind = "task"
    /\ tasks[call[c].auth.id] # Absent
    => LET row == tasks[call[c].auth.id] IN
       row.version = call[c].expected =>
         call[c].row.status \in {row.status} \cup AllowedTransitions[row.status]

SeenInv == Seen(agenda, "agenda") /\ Seen(tasks, "task") /\ Seen(notes, "note")

\* The index says what the notes say.
IndexInv ==
  \A n \in NoteId :
    index[n] = IF notes[n] = Absent THEN Absent
               ELSE [owner |-> notes[n].owner, text |-> notes[n].text,
                     category |-> notes[n].category, blocks |-> notes[n].blocks]

IndInv ==
  /\ TypeOK /\ NothingDangling
  /\ IdInv /\ SeenInv /\ StatusInv /\ GoneInv /\ IndexInv
=============================================================================
