# Zhixu in TLA+

知序 (Zhixu) is a self-hosted personal assistant. Its first end-to-end path is the one
its README names: a QQ message is parsed, a reminder is stored, a scheduler fires it, a
durable queue holds the delivery, and a channel process sends it. Around that path stand
a workspace of events, tasks and notes, an admission of chat users, an administration and
a vault. This directory holds TLA+ modules of them, configurations for TLC, and proofs
checked by TLAPS.

Paths below are relative to `src/zhixu/` of the repository unless they say otherwise.

## 1. The system

### Processes

| process | code | talks to |
|---|---|---|
| broker | `runtime/api.py`, `adapters/web/internal_channel.py` | SQLite; called over HTTP by the channel processes; one thread for each request |
| QQ channel | `runtime/channel_qq.py`, `adapters/channels/qq/` | QQ by WebSocket and HTTP; the broker by HTTP; a small database of its own |
| other channels | `runtime/outbound.py`, `adapters/channels/{webhook,wecom,email}` | the broker, and the provider |
| scheduler | `runtime/worker.py`, `application/scheduler.py` | SQLite |
| vault | `src/zhixu_vault/` | its own SQLite; called over a Unix socket |

Broker and scheduler share one SQLite database and no memory. `Database.transaction`
is `BEGIN IMMEDIATE`, so transactions are serial; everything hard about this system
happens *between* transactions.

### Components

| component | state | operations | what makes it correct | module |
|---|---|---|---|---|
| outbox | rows with status, attempts, next attempt, lease; dead letters | enqueue, claim, defer_for_quota, complete, complete_lease, retry_dead | one lease at a time, no duplicate without a reason, "sent" is true, settled is final, everything is settled in the end | `Outbox` |
| quotas | usage for each window and scope | reserve | no window over its limit, also with concurrent callers | `Quota` |
| delivery workers | the claim in hand | the claim / reserve / send / complete cycle | the two above, across crashes and lost answers | `DeliveryPipeline` |
| QQ gateway client | session id and sequence, in memory and saved | handshake, handle a dispatch, reconnect | no acknowledged dispatch is lost | `Gateway` |
| inbound broker | receipts, one-time codes, replies | admit, reserve, handle, enqueue the reply, complete | a command runs at most once | `Broker` |
| reminders | rows with status, fire_at, version | create, cancel, acknowledge, snooze, enqueue_due | each firing is delivered once, cancelled is final, versions detect every change | `Reminders` |
| lead reminders | lead times, reminders made ahead of an event | materialise; set lead times; move or delete the event | announced once and never early, and one that was cancelled stays cancelled | `Reminders` |
| briefings, notification rules | rules, briefings with the last day sent | tick; commands on briefings | what is due is announced once, on its day | `Briefings` |
| agenda, tasks, notes, important days | versioned rows, search index, categories, grants | create, update, transition, delete, under the policy; search | no acknowledged edit of a versioned row is lost, nothing is left behind, a search tells the truth | `WorkspaceStore`, `Workspace` |
| routes, identities, admission | routes, members, modes, users, one-time codes | observe, admit, issue and consume codes, bind, enable; bootstrap | nobody is answered as somebody else, a group has its own workspace | `Admission` |
| assistant, pending plans | plan, state, expiry | propose, revise, adjust, confirm, cancel | a plan meets one fate, and only a confirmed one is carried out | `Assistant` |
| administration | credentials, failed logins, sessions, passkeys and challenges | login, logout, lock-out, step-up, calls of the vault | a lock-out is earned, a step-up is earned | `Administration` |
| vault | keyring, records, access lists, grants, audit rows | unlock, requests, rotate-keys, change-passphrase | every record can be opened, a grant works once | `Vault` |
| rendering, calendars, parsing, LLM access, provisioning, CLI, backup, cryptography | none of interest, or external | | | not modelled |

### What is hard to test

- **Interleaving.** Two workers and one row; two request threads and one event (the
  caller gave up after ten seconds and replayed); a command and the scheduler at one
  reminder; a deletion and the scheduler at one event; two commands that read the same
  version of a row; buttons and texts about one plan; a rotation of keys, a change of the
  passphrase and a request to the vault.
- **Crashes and lost answers.** Between send and complete, between forward and save,
  between receipt and reply, in any scheduler (an exception ends that process), between
  a consumed grant and its effect, between a rotation's two transactions.
- **Stale readings.** The clock read for a claim and used for the reservation; rows read
  by a command and updated in a later transaction; an event read by the scheduler; a
  route, a plan or a count of failed logins read before the write that depends on it.
- **Boundaries.** The last attempt, the last place of a quota window, the grace of a
  missed reminder.

`PROJECT.json` lists these hazards line by line, with the properties that answer them
and a note for each one that is open.

## 2. Modules

### Outbound path

`Outbox` has one action for each operation of `OutboxStore`. A transaction is an
action; its guard is the `WHERE` clause. Rows hold absolute instants which the code only
compares with the present, so the model keeps the *time left* (`dueIn`, `leaseLeft`)
and needs no bound on the clock. A delivery's number is its place in
`ORDER BY priority,created_at,id`. `Quota` keeps, for each rule, the current window's
usage and the time left in it.

`DeliveryPipeline` EXTENDS both and adds the workers, each at one of the points between
two transactions: idle, claimed, denied, reserved, answered. A worker in `InProcess` is a
`DeliveryWorker`, whose completion uses the clock reading its tick began with
(`Lateness`); the others go through the broker. `ended` remembers which quota windows
ended between the clock reading of a claim and its reservation, since `reserve` charges the window of
that reading. How full such a past window was is not kept, so its denial is a
nondeterministic choice. The provider is external: it takes a message or not, and an answer
other than "ok" leaves open which. `accepted` and `excuse` are history variables: how often the
provider took the message, and why it may have been asked again.

`DeliveryContract` is the promise without the machinery: one phase and one lease at a
time, a lease passes on only after it lapsed, settled only under a lease, "sent" only if
taken, settled is final unless reopened. `KeepsContract` is the refinement.

### Inbound path

`Gateway` is the client of the QQ gateway: the protocol state in memory and in
`gateway_sessions`, the handshake, `handle`, and the runner's reconnects. The provider
(external) numbers dispatches and replays them after RESUME; `base` says where a session's
own numbers begin, so that sequences of different sessions can be told apart.
`Broker` is `InternalChannelAPI._event`, step by step, in several request threads.
Admission (`_admit`) is a nondeterministic verdict, apart from the one-time codes it
issues. `InboundPipeline` EXTENDS both and adds the HTTP call between them, which may get
lost on the way there or back while the thread in the broker goes on.

`InboundContract` says that an event is decided once, executed at most once and only when
taken, and answered at most once and only after it was executed.

### Reminders

`Reminders` has the reminders table, the outbox keys (`queued`, pairs of reminder and
`fire_at`), one event with its lead times, the scheduler process (lead scheduler, then due
reminders) and commands in two or more transactions. The scheduler's reads (lead times,
occurrences, the clock) and writes are separate steps. What the model leaves out: recurring and all-day
events, more than one event, the route a delivery is addressed to, authorization, and the agenda notification rules,
which are in `Briefings`.

`ReminderContract` is what a reminder promises to the user who set it: it is announced once
for each time it is set to and never before that time, it is missed only if its policy allows it and
it is later than the grace, it is set again only after it was announced and to a later time, and it is over for
good once it is cancelled, acknowledged or missed. `KeepsContract` maps the clock, the
table and the outbox keys to it and hides versions, commands, the event and the scheduler.

### Workspace

`WorkspaceStore` has the tables of the workspace and one operator for each write of a
repository, which is one transaction: the row with its version, what cascades, the
categories and blocks of a note, its row of the full-text index, the audit row and the
grants. `Workspace` EXTENDS it with the commands of `ZhixuServices`. A command reads, checks
the version and asks the policy in one step (`Begin...`), and writes in a later one, with
the capability it was given; `call` holds it in between. What a row says is the set of
edits that went into it, so that a lost edit can be told. `Require` is
`PolicyEngine.require`; a refused command is no step.

A note's title and body are one text, its blocks have a name and a text each, and
`create_note` stores the body a second time in the first block. A text is the number of
its edit. `Search` is `NoteRepository.search`: a token is abstracted to the texts and names
in which a word begins with it, the rows that say all tokens are looked up in the index, and
an answer has at most `Limit` of them, in an order (`bm25`) that is left open. Left out: the
lookup of index and notes are two reads in the code and one here; a block's fields are part
of its text; tags and attachments, which the index does not hold; the check for reading each note
found.

### Briefings

`Briefings` has the rows of daily briefings, the outbox keys (briefing and date), the
notification rules, the scheduler with its own reading of the clock, and a command that
writes what it computed from an earlier reading. It shares `Clock` with `Reminders`. Zones are offsets; a day is `DayLength`
units. A message's text is left out, but that its constructor refuses a day count below
one (`Anchor`) is part of `Compose`.

### Admission

`Admission` is `InternalChannelAPI._admit` and all it calls, each transaction a step of
the handler of one event: looking up route and identity, activating a group with a one-time
code, binding a private conversation, provisioning a member. The administrator changes
routes, members and identities between these steps. `ever` is a history variable: every user
a reference was bound to. `dec` is the verdict which `Broker.Admit` leaves open.

### Vault

`Vault` has the daemon, which handles one request at a time in several transactions
(consume the grant, check the policy, do it, record it), and the commands
`rotate-keys` and `change-passphrase`, which run in processes of their own on the same
tables. A sealed master key is the pair it was sealed under; a record names the
data key of its ciphertext and the one beside it, so that a wrong pairing can be told.
A use may end with a denial before or after the executor had the secret. Which grants come
from a step-up is a constant; `export` reads what `reveal` reads, `rotate` has no handler,
and the checks of the classification `l4_human_override` are left out, which only make
`VaultPolicy` refuse more.
`performed` counts effects of grants; `pass` is what the operator last changed to.

### Administration

`Administration` has the threads of the API: a login (read the credential, read the
failures, write), a request with a session, the two halves of registering and using a
passkey in the vault, and the vault call that needs one. `failed` is a history variable:
when each failed login was written. Signatures are abstracted to the challenge they answer,
and a hash to the password it was made of; a login that succeeds may write the hash again
that it read, as it does when the parameters of the hasher have changed.

### Assistant

`Assistant` has the table of pending plans and threads that handle messages: a proposal of
the model, a revision of the open plan, a text that drops it, the buttons of a plan, and
the writes that follow a confirmation, each in a transaction of its own. The model
(external) proposes anything of the kind it was asked for, or fails. A payload is abstracted
to the number of notifications; important days to the number of matches, since this
decides whether a second confirmation is asked for. `fates` and `written` are history variables.

### Common abstractions

Message texts, ids and hashes are model values: an id that the code derives from a hash
of its parts is the tuple of these parts. A refused operation (ConflictError, NotFoundError)
changes nothing and is a stuttering step, or the release of the caller where that matters.

## 3. Runs

| run | instance | states | shows |
|---|---|---|---|
| `delivery` | 1 delivery, 2 workers (one in-process), 2 rules, 2 attempts, lease 2, 3 faults, 2 reopenings | 464k | safety, `KeepsContract`, `EventuallySettled` |
| `inbound` | 3 dispatches, 2 threads, 4 sessions, 3 faults | 247k | safety, `KeepsContract`, `EventuallyReceived` |
| `reminders` | 1 own reminder and 1 lead reminder, 1 caller, 3 instants, 1 restart | 225k | safety, `KeepsContract`, `EventuallyHandled` |
| `workspace` | 1 event, rule and task, 2 notes, 2 important days, 2 callers, 3 commands, three contexts, 3 tokens, answers of 1 note | 1.2M | `SearchFindsNotes`, `NothingDangling`, `AcknowledgedStands`, `TransitionsLegal` |
| `briefings` | 2 briefings, 2 zones, 1 rule, days of 2 units, 2 commands, 1 restart | 300k | `MarkedIsQueued`, `EventuallyAnnounced` |
| `admission` | 2 groups, 1 group sender, 2 private senders, 1 code of each kind, 2 handlers, 3 events, 1 command | 2.0M | `AnsweredAsBound`, `WorkspaceStays` |
| `vault` | 2 secrets, 8 grants, 2 passphrases, 2 operators, 3 requests, 2 commands, 1 crash | 3.5M | `PassphraseOpens`, `Decryptable`, `GrantOnce` |
| `administration` | 1 user, 2 threads, lock-out after 2, window 2, 1 password and wrong guesses, 4 rows | 4.5M | `LockedWasEarned`, `StepUpEarned` |
| `assistant` | 1 conversation, 2 threads, reminders and important days, 2 plans | 2.3M | `OneFate` |
| `inbound_unanswered`, `briefings_future`, `admission_bootstrap` | small | | violations, see section 5 |

Every passing run also checks the type invariant of its module.

**Bounds.** Two attempts make the retry, the last attempt and the backoff index at its
end all happen. A lease of two units can lapse under its holder while a quota window of one unit ends; limits
1 and 2 are both reached by retries of one delivery. Three faults are a takeover of a
takeover, or a lost answer followed by a restart of both processes. Four tokens suffice for two rows and two workers, because a
token that nobody remembers is as good as new. Two request threads are the one whose
caller gave up and the one of the replay. The delivery run has a single delivery, because
its rows are independent but for order and quotas, and the theorems cover any number; likewise
one caller and one lead reminder.

In the newer runs two threads are enough for a read and the write it depends on to be
separated by another thread's whole operation, and three commands or events for a third to
come in between. `workspace` starts with the rows there or with an empty workspace; two
notes that say the same token fill an answer of one.
`MaxDays` and `MaxPlans` of 2 let a plan supersede one that is being confirmed, and a
duplicate appear between a check and its repetition. Two key versions and two salts are a
rotation during a change of the passphrase, in either order; a second completed rotation is
left to the theorems, like step-ups of a second user and a hash written again over that of
another password in `administration`. Four rows (failed logins,
sessions and challenges together) are two failures that lock out, or a session, a challenge
and the step-up that answers it with one to spare. In `briefings` the clock passes the end of
a day, and one zone is a day ahead when it does. `SYMMETRY` is over handlers, callers,
operators and passphrases, which the specifications treat alike; those runs check invariants
and properties of single steps only.

**Deadlock** is checked in `delivery`, `reminders` and `briefings`, where time or the
scheduler goes on for ever. On the inbound path the provider stops after `Last` dispatches and the
gateway may use up `MaxSessions`; in the other runs the bounds on commands, events or the
clock are used up.

**Fairness.** Workers, the gateway thread, request threads and the scheduler are loops
that catch exceptions and go on, or processes that systemd restarts, so each is weakly
fair; so is time. Commands, reopenings and failures are not fair. Failures are bounded
(`MaxFaults`, `MaxRestarts`, `MaxCrashes`): for ever-repeating failures the code promises
nothing. The modules without a liveness property answer requests; nothing in them has to
happen by itself, and a request that ends half way is the point of their runs.

**Mutants.** Next to a definition, `Mut...` operators give a plausible wrong version of it
(a dropped version check, an off-by-one at a limit, a sequence that is not put back, a quota
denial that gives up the lease and leaves the row in "sending").
Each property is violated by at least one of them.

## 4. Proofs

`DeliveryPipelineProofs`, `InboundPipelineProofs`, `SchedulerProofs` (about `Reminders` and
`Briefings`, which one process runs in turn), `WorkspaceProofs`, `AdmissionProofs`,
`VaultProofs`, `AdministrationProofs` and `AssistantProofs` prove every safety property of
the passing runs, and the three refinements, for all values of the constants that satisfy
the named assumptions. Each component has the theorem
`Invariance` (`Spec => []IndInv`; for `Briefings`, `DailyInvariance` with `BriefingSpec => []BriefingIndInv`), with a lemma for the initial state and lemmas for the
parts of the invariant or for the actions, and derives the properties from it. TLC has
checked each of these invariants on the instance of its run.

- **Outbound.** `AtMostOnce` is not inductive: it needs `DuplicateInv` (as long as nothing
  excuses a duplicate, whoever works on a delivery owns its lease, and once the message was
  taken the row is sent or leased with nobody about to send it), which needs `LeaseInv` (a
  row is leased exactly while it is sending; no two workers share a token). `AcceptInv`
  ties "ok" answers to the provider, `RetryInv` says that a waiting row has an attempt left,
  and `DeadInv` that an absent row has no dead letter.
  `Finality` (an action property) and `Refinement` follow step by step from `IndInv`.
- **Inbound.** `ExecutedOnce` needs `HandlerInv`: behind the receipt there is one thread,
  it finds the receipt as it left it, and an event without a receipt was not executed.
  `AckedWasReceived` needs `CallInv` (an "ok" that the gateway waits for means that *this*
  dispatch has a receipt) and `CursorInv` (while connected the gateway has seen all that
  was pushed, so the sequence advances by one).
- **Reminders.** `OneDeliveryPerFiring` needs `QueueInv` (queued instants are not after the
  reminder's present `fire_at`; what has fired was due) and `PlanInv` (a row that was read is no
  newer than the table, an equal version means an equal row, and a snooze lies after the
  firing it answers). `CancelledIsFinal` (an action property)
  follows from the types and from what each kind of table step may do.
  `Refinement` shows step by step that they do no more than `ReminderContract` allows: that a firing
  has a new key is `OneDeliveryPerFiring`, that it is not early is `QueueInv` (the scheduler's
  reading of the clock is not ahead of it), that a snooze goes on to a later time is `PlanInv`.
  `NeverAhead` is derived from the contract alone: no reminder is in the outbox before its time.
- **Briefings.** `MarkedIsQueued` needs `MarkInv`: between the two transactions of a briefing
  its message is in the outbox. The update of a command, computed from an earlier reading,
  keeps the mark that the row has then. That `First` names a due briefing needs a least
  element of a set of numbers (`LeastExists`, from the library's well-founded order).
  `SchedulerProofs` EXTENDS `Reminders` and `Briefings`, which have the clock of `Clock` in
  common and nothing else; names that would clash carry `Briefing` in one of them.
- **Workspace.** `AcknowledgedStands` and `TransitionsLegal` (action properties) need
  `SeenInv` and `StatusInv`: if the row still has the version that a command read, it is
  the row the command read, so the command has seen its edits and has checked its status. That
  needs `IdInv`: an id is given out once, so a row that is deleted and one that is made are
  never taken for each other. `GoneInv` says that an id whose deletion was audited is not there
  any more. `SearchFindsNotes` follows from `IndexInv` (the row of the index has the note's
  owner, text, category and blocks): index and note say the same tokens (`SameSays`), so
  every answer is cut from the notes that say them. It says nothing of the history of a
  text, which is found for as long as the note or a block of it has it. `NothingDangling`
  is inductive with the types.
- **Admission.** `AnsweredAsBound` and `WorkspaceStays` need `Holds`: what a handler read in
  earlier transactions is still so. The user it acts for was bound to the sender at some time
  (identities change, the record `ever` does not), and the workspace it read is the group's
  present one or was not made yet, since a workspace is never replaced. `BoundInv` and
  `RouteInv` say this of the tables; the workspaces are numbered as they are made, so a new
  one is nobody's.
- **Vault.** `PassphraseOpens` and `Decryptable` need `CommandInv`: a rotation or a change of the
  passphrase knows keys of the vault and the passphrases it was given. `StepInv` says that
  what the daemon has read between its own steps still stands when it writes, whatever
  a command did meanwhile; `GrantOnce` needs `FreshInv` (a
  grant not consumed, or consumed and on its way, has had no effect).
- **Administration.** `LockedWasEarned` needs `LoginInv`, which says the same of a row of failures
  that a login has read and not yet written: every failure it counts was written within the
  window. `StepUpEarned` needs `ProofInv`: a proof between its two calls stands for an
  answered challenge that no session and no other request uses.
- **Assistant.** `OneFate` needs `WorkInv` (who carries out a plan holds one that was confirmed,
  and what is written and what is left to do add up to no more than the plan) and `PartsInv`.

**Assumptions.** Most say that bounds are numbers and that "no row" is not a row. Those with
content: the ids of agenda items, tasks, notes, important days and rules are disjoint
(`random_id` prefixes each with its kind); group and private references are disjoint, and
`None` is neither a user nor a group; limits and lifetimes that the code sets to positive
constants are not zero; a category path is not empty; a search may return one note at least.

**What stays with TLC.** Liveness, since its proofs need ENABLED and fairness, which the
prover does not support, and the three violations. No module declares a RECURSIVE operator.

## 5. Where the code and the repository's words differ

Three runs show it:

1. `inbound_unanswered`: a handler that fails after the receipt was reserved leaves a command
   that its replay reports as a duplicate; the user gets no answer.
2. `briefings_future`: an important day whose date is still to come makes the constructor of
   the briefing's preview raise. The exception ends the scheduler process, at every start
   again, so this briefing and those behind it are not sent until the date has come.
   `briefings` checks the same property with important days that have come by the last day.
3. `admission_bootstrap`: `bootstrap-qq-owner` wants a receipt that says
   `identity_unbound`, and no private message of an unbound sender makes one.

Behaviours of the models that no run is about, and that a maintainer may want to know:

- `mapper.map` runs after the sequence advanced and outside the block that puts it back, so a
  dispatch whose mapping raises is skipped by the next RESUME. `AckedWasReceived` names this
  exception (`unmapped`) and is proved with it.
- A replayed code request issues a new code and deletes the one in the reply on its way.
- Setting no lead times, or moving an event, leaves the existing lead reminders alone; and the
  scheduler may add one to an event that is being deleted, which survives it.
- `create_note` stores the body in the note and in its default block, and `update_note`
  replaces the first and keeps the second: what the body said at first is still found by a
  search, and still shown where the chat shows blocks in the place of the body.
- An important day has no version: of two edits that were made from one reading the later
  replaces the earlier, although both were acknowledged. `AcknowledgedStands` is about events, tasks
  and notes.
- A member may be added to a group that left the internal mode after its route was read.
- A confirmation carries out the payload it read before it closed the plan; an adjustment of
  its notifications that is committed in between is acknowledged and has no effect.
- Failed logins that overlap write counts computed from the same row, so fewer are counted
  than happened, and a late one may replace a lock that was set meanwhile.
- A login that hashes the password again writes the one it verified, also when
  `set_password` has stored another since the hash was read.

## 6. Plan

1. Compositions: `Admission` in the place of `Broker.Admit`; `ReminderContract` and
   `DeliveryContract`, so that a fired reminder is taken by the provider in the end.
2. The audit chain of the vault with its checkpoints; `LlmUsage`: counters and limits.

## 7. Not modelled

Text parsing, rendering and calendars (no state), cryptography and file formats, HTTP and
WebSocket framing, provisioning and preflight, migrations (run at start-up by one process),
the LLM and its proxy (external: its answers are choices in `Assistant`), backup (a copy of a
file), `ScheduledJobRepository` (no process uses it), queries (lists, views, calendars).

## 8. Running

    tlc -config MCDeliveryPipeline.cfg MCDeliveryPipeline
    tlapm DeliveryPipelineProofs.tla

and likewise for the other configurations and proof modules.
