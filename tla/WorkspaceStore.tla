--------------------------- MODULE WorkspaceStore ---------------------------
(***************************************************************************)
(* The tables of a workspace and the transactions on them: the agenda,     *)
(* notification rule, task, note, anniversary, lead and grant repositories *)
(* of adapters/storage/sqlite/repositories.py over the schema of the       *)
(* migrations.  Each operator is one BEGIN IMMEDIATE transaction.  A       *)
(* transaction that raises is rolled back and leaves the tables alone; its *)
(* caller sees the operator's guard false.                                 *)
(*                                                                         *)
(* The texts of a row are abstracted to the edits they are made from:      *)
(* every write is one numbered edit, and a row's "edits" are the edits     *)
(* whose outcome its author had before him, with the author's own.  A      *)
(* write that is based on a stale copy of the row drops the edits it has   *)
(* not seen.  The words of a note that a search can tell apart are the     *)
(* edits that wrote its title and body and the bodies of its blocks (with  *)
(* their fields), and the names of its categories and blocks.              *)
(***************************************************************************)
EXTENDS Naturals, Sequences, FiniteSets

CONSTANTS
  User,       \* owners, creators and subjects of grants
  AgendaId, TaskId, NoteId, DayId, RuleId, \* the ids random_id gives out
  Day,        \* what two important days have in common when they are the same:
              \* kind, calendar, title key and date key
  Category,   \* category paths: sequences of names
  BlockName,  \* names of content blocks, the default block's among them
  Token,      \* what a word of a query may be the beginning of
  Limit,      \* the most rows a search returns
  Absent      \* no such row

ASSUME StoreAssumption ==
  /\ \A path \in Category : path \in Seq(STRING) /\ path # <<>>
  /\ \A token \in Token : token.texts \subseteq Nat
  /\ Limit \in Nat \ {0}
  /\ AgendaId \cap (TaskId \cup NoteId \cup DayId \cup RuleId) = {}
  /\ TaskId \cap (NoteId \cup DayId \cup RuleId) = {}
  /\ NoteId \cap (DayId \cup RuleId) = {}
  /\ DayId \cap RuleId = {}

VARIABLES
  agenda, recurrence, exceptions, overrides, rules,
  tasks,
  notes, index, categories,  \* index: notes_fts
  days,
  acl,
  audit                      \* audit_events that say "completed"

agendaVars == <<agenda, recurrence, exceptions, overrides, rules>>
noteVars   == <<notes, index, categories>>
storeVars  == <<agendaVars, tasks, noteVars, days, acl, audit>>

Class      == {"personal", "confidential"}
TaskStatus == {"pending", "in_progress", "completed", "cancelled", "archived"}
Kind       == {"agenda", "agenda_notification", "task", "note", "anniversary"}
Action     == {"create", "update", "delete", "grant"}
Id         == AgendaId \cup TaskId \cup NoteId \cup DayId \cup RuleId

AgendaRow == [owner : User, creator : User, class : Class, edits : SUBSET Nat,
              version : Nat, recurring : BOOLEAN]
TaskRow   == [owner : User, creator : User, class : Class, edits : SUBSET Nat,
              version : Nat, status : TaskStatus]
Block     == [name : BlockName, body : Nat]
NoteRow   == [owner : User, creator : User, class : Class, edits : SUBSET Nat,
              version : Nat, text : Nat, category : Category,
              blocks : Seq(Block)]
DayRow    == [owner : User, creator : User, class : Class, edits : SUBSET Nat,
              day : Day]
RuleRow   == [owner : User, creator : User, class : Class, edits : SUBSET Nat,
              item : AgendaId]
IndexRow  == [owner : User, text : Nat, category : Category,
              blocks : Seq(Block)]

ASSUME AbsentIsNoRow ==
  Absent \notin AgendaRow \cup TaskRow \cup NoteRow \cup DayRow \cup RuleRow \cup IndexRow

AuditRow  == [edit : Nat, actor : User, action : Action, kind : Kind, id : Id]
Grant     == [user : User, action : Action, kind : Kind, id : Id]

StoreTypeOK ==
  /\ agenda \in [AgendaId -> AgendaRow \cup {Absent}]
  /\ recurrence \subseteq AgendaId
  /\ exceptions \subseteq AgendaId \X Nat
  /\ overrides \subseteq AgendaId \X Nat
  /\ rules \in [RuleId -> RuleRow \cup {Absent}]
  /\ tasks \in [TaskId -> TaskRow \cup {Absent}]
  /\ notes \in [NoteId -> NoteRow \cup {Absent}]
  /\ index \in [NoteId -> IndexRow \cup {Absent}]
  /\ categories \subseteq User \X Seq(STRING)
  /\ days \in [DayId -> DayRow \cup {Absent}]
  /\ acl \subseteq Grant
  /\ audit \subseteq AuditRow

-----------------------------------------------------------------------------
(* What the transactions have in common.                                   *)

\* The capability that the policy minted fits the write.
RequireAuthorization(auth, action, kind, id, row) ==
  /\ auth.action = action /\ auth.kind = kind /\ auth.id = id
  /\ auth.owner = row.owner /\ auth.class = row.class

Audit(auth) ==
  audit' = audit \cup {[edit |-> auth.edit, actor |-> auth.actor,
                        action |-> auth.action, kind |-> auth.kind,
                        id |-> auth.id]}

HasGrant(user, action, kind, id) ==
  [user |-> user, action |-> action, kind |-> kind, id |-> id] \in acl

\* UPDATE ... WHERE id=? AND owner_user_id=? AND version=?
Matches(table, id, row, expected) ==
  /\ table[id] # Absent
  /\ table[id].owner = row.owner
  /\ table[id].version = expected

-----------------------------------------------------------------------------
(* Agenda items, with their recurrence rules and exceptions.               *)

WriteRecurrence(id, row) ==
  recurrence' = IF row.recurring THEN recurrence \cup {id}
                                 ELSE recurrence \ {id}

AgendaCreate(id, row, auth) ==
  /\ RequireAuthorization(auth, "create", "agenda", id, row)
  /\ agenda[id] = Absent
  /\ agenda' = [agenda EXCEPT ![id] = [row EXCEPT !.version = 1]]
  /\ WriteRecurrence(id, row)
  /\ Audit(auth)
  /\ UNCHANGED <<exceptions, overrides, rules, tasks, noteVars, days, acl>>

\* Mutant of AgendaUpdate: no version in the WHERE clause.
MutUnversionedAgenda(id, row, expected, auth) ==
  /\ RequireAuthorization(auth, "update", "agenda", id, row)
  /\ agenda[id] # Absent
  /\ agenda' = [agenda EXCEPT ![id] = row]
  /\ WriteRecurrence(id, row)
  /\ Audit(auth)
  /\ UNCHANGED <<exceptions, overrides, rules, tasks, noteVars, days, acl>>

AgendaUpdate(id, row, expected, auth) ==
  /\ RequireAuthorization(auth, "update", "agenda", id, row)
  /\ row.version = expected + 1
  /\ Matches(agenda, id, row, expected)
  /\ agenda' = [agenda EXCEPT ![id] = row]
  /\ WriteRecurrence(id, row)
  /\ Audit(auth)
  /\ UNCHANGED <<exceptions, overrides, rules, tasks, noteVars, days, acl>>

\* Mutant of AgendaDelete: the foreign keys do not cascade.
MutNoCascade(id, auth) ==
  /\ agenda[id] # Absent /\ agenda[id].owner = auth.owner
  /\ agenda' = [agenda EXCEPT ![id] = Absent]
  /\ Audit(auth)
  /\ UNCHANGED <<recurrence, exceptions, overrides, rules,
                 tasks, noteVars, days, acl>>

\* The foreign keys of recurrence_rules, recurrence_exceptions,
\* agenda_notification_leads and agenda_notification_rules cascade.
AgendaDelete(id, auth) ==
  /\ agenda[id] # Absent /\ agenda[id].owner = auth.owner
  /\ agenda' = [agenda EXCEPT ![id] = Absent]
  /\ recurrence' = recurrence \ {id}
  /\ exceptions' = {e \in exceptions : e[1] # id}
  /\ overrides' = {o \in overrides : o[1] # id}
  /\ rules' = [r \in RuleId |-> IF rules[r] # Absent /\ rules[r].item = id
                                THEN Absent ELSE rules[r]]
  /\ Audit(auth)
  /\ UNCHANGED <<tasks, noteVars, days, acl>>

\* The exceptions of one occurrence: the latest write wins.
AddException(id, auth) ==
  /\ agenda[id] # Absent
  /\ exceptions' = {e \in exceptions : e[1] # id} \cup {<<id, auth.edit>>}
  /\ Audit(auth)
  /\ UNCHANGED <<agenda, recurrence, overrides, rules,
                 tasks, noteVars, days, acl>>

\* An upsert without a policy capability and without an audit row; the foreign
\* key refuses an item that is gone.
SetOverride(id, edit) ==
  /\ agenda[id] # Absent
  /\ overrides' = {o \in overrides : o[1] # id} \cup {<<id, edit>>}
  /\ UNCHANGED <<agenda, recurrence, exceptions, rules,
                 tasks, noteVars, days, acl, audit>>

-----------------------------------------------------------------------------
(* Notification rules of agenda items.                                     *)

RuleCreate(id, row, auth) ==
  /\ RequireAuthorization(auth, "create", "agenda_notification", id, row)
  /\ agenda[row.item] # Absent /\ agenda[row.item].owner = row.owner
  /\ rules[id] = Absent
  /\ rules' = [rules EXCEPT ![id] = row]
  /\ Audit(auth)
  /\ UNCHANGED <<agenda, recurrence, exceptions, overrides,
                 tasks, noteVars, days, acl>>

RuleUpdate(id, row, auth) ==
  /\ RequireAuthorization(auth, "update", "agenda_notification", id, row)
  /\ rules[id] # Absent
  /\ rules' = [rules EXCEPT ![id] = [@ EXCEPT !.class = row.class,
                                              !.edits = row.edits]]
  /\ Audit(auth)
  /\ UNCHANGED <<agenda, recurrence, exceptions, overrides,
                 tasks, noteVars, days, acl>>

RuleDelete(id, auth) ==
  /\ rules[id] # Absent
  /\ rules' = [rules EXCEPT ![id] = Absent]
  /\ Audit(auth)
  /\ UNCHANGED <<agenda, recurrence, exceptions, overrides,
                 tasks, noteVars, days, acl>>

-----------------------------------------------------------------------------
(* Tasks.                                                                  *)

TaskCreate(id, row, auth) ==
  /\ RequireAuthorization(auth, "create", "task", id, row)
  /\ tasks[id] = Absent
  /\ tasks' = [tasks EXCEPT ![id] = [row EXCEPT !.version = 1]]
  /\ Audit(auth)
  /\ UNCHANGED <<agendaVars, noteVars, days, acl>>

\* Mutant of TaskUpdate: no version in the WHERE clause.
MutUnversionedTask(id, row, expected, auth) ==
  /\ RequireAuthorization(auth, "update", "task", id, row)
  /\ tasks[id] # Absent
  /\ tasks' = [tasks EXCEPT ![id] = row]
  /\ Audit(auth)
  /\ UNCHANGED <<agendaVars, noteVars, days, acl>>

TaskUpdate(id, row, expected, auth) ==
  /\ RequireAuthorization(auth, "update", "task", id, row)
  /\ row.version = expected + 1
  /\ Matches(tasks, id, row, expected)
  /\ tasks' = [tasks EXCEPT ![id] = row]
  /\ Audit(auth)
  /\ UNCHANGED <<agendaVars, noteVars, days, acl>>

TaskDelete(id, auth) ==
  /\ tasks[id] # Absent /\ tasks[id].owner = auth.owner
  /\ tasks' = [tasks EXCEPT ![id] = Absent]
  /\ Audit(auth)
  /\ UNCHANGED <<agendaVars, noteVars, days, acl>>

-----------------------------------------------------------------------------
(* Notes, their categories and content blocks, and the search index.       *)

\* Every level of the path, from the root.
EnsureCategoryPath(row) ==
  categories' = categories \cup
    {<<row.owner, SubSeq(row.category, 1, n)>> : n \in 1 .. Len(row.category)}

\* The name of a block is unique in its note.
BlocksFit(row) ==
  \A i, j \in 1 .. Len(row.blocks) :
    row.blocks[i].name = row.blocks[j].name => i = j

WriteFts(id, row) ==
  index' = [index EXCEPT ![id] =
              [owner |-> row.owner, text |-> row.text,
               category |-> row.category, blocks |-> row.blocks]]

NoteCreate(id, row, auth) ==
  /\ RequireAuthorization(auth, "create", "note", id, row)
  /\ notes[id] = Absent /\ BlocksFit(row)
  /\ EnsureCategoryPath(row)
  /\ notes' = [notes EXCEPT ![id] = [row EXCEPT !.version = 1]]
  /\ WriteFts(id, row)
  /\ Audit(auth)
  /\ UNCHANGED <<agendaVars, tasks, days, acl>>

\* Mutant of NoteUpdate: the index is written again only for a new text.
MutStaleIndex(id, row, expected, auth) ==
  /\ RequireAuthorization(auth, "update", "note", id, row)
  /\ row.version = expected + 1
  /\ Matches(notes, id, row, expected) /\ BlocksFit(row)
  /\ EnsureCategoryPath(row)
  /\ notes' = [notes EXCEPT ![id] = row]
  /\ IF row.text # notes[id].text THEN WriteFts(id, row) ELSE UNCHANGED index
  /\ Audit(auth)
  /\ UNCHANGED <<agendaVars, tasks, days, acl>>

\* Blocks, tags, attachments and the index are written anew from the note.
NoteUpdate(id, row, expected, auth) ==
  /\ RequireAuthorization(auth, "update", "note", id, row)
  /\ row.version = expected + 1
  /\ Matches(notes, id, row, expected) /\ BlocksFit(row)
  /\ EnsureCategoryPath(row)
  /\ notes' = [notes EXCEPT ![id] = row]
  /\ WriteFts(id, row)
  /\ Audit(auth)
  /\ UNCHANGED <<agendaVars, tasks, days, acl>>

NoteDelete(id, auth) ==
  /\ notes[id] # Absent /\ notes[id].owner = auth.owner
  /\ notes' = [notes EXCEPT ![id] = Absent]
  /\ index' = [index EXCEPT ![id] = Absent]
  /\ Audit(auth)
  /\ UNCHANGED <<agendaVars, tasks, categories, days, acl>>

\* The texts and the names in a note, or in its row of the index.
Texts(row) == {row.text} \cup {row.blocks[i].body : i \in 1 .. Len(row.blocks)}
Names(row) == {row.category[i] : i \in 1 .. Len(row.category)}
                \cup {row.blocks[i].name : i \in 1 .. Len(row.blocks)}

\* A word of the row begins with the token.
Says(row, token) == \/ Texts(row) \cap token.texts # {}
                    \/ Names(row) \cap token.words # {}

\* The rows of an owner that say all the tokens of a query.
Matching(table, owner, query) ==
  {n \in NoteId : /\ table[n] # Absent /\ table[n].owner = owner
                  /\ \A token \in query : Says(table[n], token)}

\* Any Limit of them, when there are more: bm25 gives the order.
Limited(found) ==
  {part \in SUBSET found : IF Cardinality(found) <= Limit
                           THEN part = found ELSE Cardinality(part) = Limit}

\* The answers a search may give: nothing without tokens, and the rows of the
\* index whose note is there.
Search(owner, query) ==
  IF query = {} THEN {{}}
  ELSE {{n \in found : notes[n] # Absent /\ notes[n].owner = owner} :
          found \in Limited(Matching(index, owner, query))}

-----------------------------------------------------------------------------
(* Important days.                                                         *)

DayCreate(id, row, auth) ==
  /\ RequireAuthorization(auth, "create", "anniversary", id, row)
  /\ days[id] = Absent
  /\ days' = [days EXCEPT ![id] = row]
  /\ Audit(auth)
  /\ UNCHANGED <<agendaVars, tasks, noteVars, acl>>

DayUpdate(id, row, auth) ==
  /\ RequireAuthorization(auth, "update", "anniversary", id, row)
  /\ days[id] # Absent
  /\ days' = [days EXCEPT ![id] = [@ EXCEPT !.class = row.class,
                                            !.day = row.day,
                                            !.edits = row.edits]]
  /\ Audit(auth)
  /\ UNCHANGED <<agendaVars, tasks, noteVars, acl>>

DayDelete(id, auth) ==
  /\ days[id] # Absent
  /\ days' = [days EXCEPT ![id] = Absent]
  /\ Audit(auth)
  /\ UNCHANGED <<agendaVars, tasks, noteVars, acl>>

-----------------------------------------------------------------------------
(* Grants on single resources.                                             *)

GrantAccess(user, action, auth) ==
  /\ acl' = acl \cup {[user |-> user, action |-> action,
                       kind |-> auth.kind, id |-> auth.id]}
  /\ Audit(auth)
  /\ UNCHANGED <<agendaVars, tasks, noteVars, days>>

\* Revoking what was not granted is audited as "not_found".
RevokeAccess(user, action, auth) ==
  /\ HasGrant(user, action, auth.kind, auth.id)
  /\ acl' = acl \ {[user |-> user, action |-> action,
                    kind |-> auth.kind, id |-> auth.id]}
  /\ Audit(auth)
  /\ UNCHANGED <<agendaVars, tasks, noteVars, days>>

=============================================================================
