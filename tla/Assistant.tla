----------------------------- MODULE Assistant -----------------------------
(***************************************************************************)
(* The assistant's pending plans: what a model proposes is written only    *)
(* after the user has confirmed it.                                        *)
(*   - AssistantService (application/assistant.py): handle, _execute,      *)
(*     _stage_plan, _adjust_plan_lead, _adjust_plan_notification,          *)
(*   - PendingPlanStore (pending_plans.py), and the checks for a duplicate *)
(*     of create_anniversary (services.py).                                *)
(* Every message is handled in a thread of its own; a store operation, a   *)
(* read of the important days and a command are steps of their own, and    *)
(* the call of the model lies between a read and a write.                  *)
(*                                                                         *)
(* A plan's payload is abstracted to the number of notifications (leads)   *)
(* that go with the item; the important days to the number of those that   *)
(* match the one proposed.  Replies are left out.                          *)
(***************************************************************************)
EXTENDS Naturals, Sequences

CONSTANTS
  Chat,      \* a user in a conversation
  Handler,
  Kind,      \* what plans may create
  Life,      \* of a plan
  MaxParts,  \* the notifications an item has by default
  MaxTime, MaxPlans, MaxDays \* bounds: the clock, plans, important days

Button == {"confirm", "reject", "cancel", "adjust"}

ASSUME AssistantAssumption ==
  /\ Kind \subseteq {"agenda", "reminder", "anniversary", "other"}
  /\ "anniversary" \in Kind
  /\ {Life, MaxParts} \subseteq Nat \ {0}
  /\ {MaxTime, MaxPlans, MaxDays} \subseteq Nat

VARIABLES
  now,
  plan,    \* the table assistant_pending_plans, in the order of creation
  days,    \* the important days of a conversation that match the proposed one
  handler, \* what each thread does
  fates,   \* what became of each plan: confirmed, cancelled, superseded
  written  \* how many commands were carried out for each plan

storeVars == <<plan, days>>
ghostVars == <<fates, written>>
vars == <<now, storeVars, handler, ghostVars>>

PlanRow == [chat : Chat, kind : Kind, parts : 0 .. MaxParts, allow : BOOLEAN,
            state : {"pending", "revising", "accepted"}, expires : Nat]
Fate == {"confirmed", "cancelled", "superseded"}

Idle == [pc |-> "idle"]
At(h, pc) == handler[h].pc = pc
Reply(h) == handler' = [handler EXCEPT ![h] = Idle]

\* What is used of a plan that was read.
Read(p) == [plan |-> p, chat |-> plan[p].chat, kind |-> plan[p].kind,
            parts |-> plan[p].parts, allow |-> plan[p].allow]

Open(p) == plan[p].state \in {"pending", "revising"}
Live(p, at) == Open(p) /\ plan[p].expires > at
OpenIn(c) == {p \in DOMAIN plan : plan[p].chat = c /\ Open(p)}

Init ==
  /\ now = 0
  /\ plan = << >> /\ days = [c \in Chat |-> 0]
  /\ handler = [h \in Handler |-> Idle]
  /\ fates = << >> /\ written = << >>

-----------------------------------------------------------------------------
(* A message that the model has turned into a proposal, or free text while *)
(* a plan is open.                                                         *)

Staging(h, c, kind, parts, allow) ==
  handler' = [handler EXCEPT ![h] =
    [pc |-> "stage", chat |-> c, kind |-> kind, parts |-> parts, allow |-> allow]]

\* The parts that a proposal of the model may have.
Proposed(kind) == IF kind \in {"agenda", "reminder"} THEN {0, MaxParts} ELSE {0}

Propose(h, c, kind) ==
  /\ At(h, "idle")
  /\ \E n \in Proposed(kind) : Staging(h, c, kind, n, FALSE)
  /\ UNCHANGED <<now, storeVars, ghostVars>>

\* The newest open plan is read ...
ReadCurrent(h, c, p) ==
  /\ At(h, "idle")
  /\ p \in OpenIn(c) /\ Live(p, now)
  /\ \A q \in OpenIn(c) : Live(q, now) => q <= p
  /\ handler' \in {[handler EXCEPT ![h] = [pc |-> "revise", row |-> Read(p)]],
                  [handler EXCEPT ![h] = [pc |-> "withdraw", plan |-> p]]}
  /\ UNCHANGED <<now, storeVars, ghostVars>>

\* ... and the model is asked.  It changes the plan, or wants another kind of
\* plan, and the one that was read is proposed again; or it fails.
Revise(h) ==
  /\ At(h, "revise")
  /\ LET row == handler[h].row IN
     \/ \E n \in Proposed(row.kind) \cup {row.parts} :
          Staging(h, row.chat, row.kind, n, row.allow)
     \/ Reply(h)
  /\ UNCHANGED <<now, storeVars, ghostVars>>

\* Mutant of Consumable: a plan that was handled can be handled again.
MutConsumable(p) == TRUE

Consumable(p) == Open(p)

Consume(p, fate) ==
  /\ plan' = [plan EXCEPT ![p].state = "accepted"]
  /\ fates' = [fates EXCEPT ![p] = Append(@, fate)]

\* The text asked to drop the plan; whether it still was open is not looked at.
Withdraw(h) ==
  LET p == handler[h].plan IN
  /\ At(h, "withdraw")
  /\ IF Consumable(p) THEN Consume(p, "cancelled") ELSE UNCHANGED <<plan, fates>>
  /\ Reply(h)
  /\ UNCHANGED <<now, days, written>>

\* An important day that exists already needs a confirmation that says so.
LookForDuplicate(h) ==
  /\ At(h, "stage")
  /\ handler' = [handler EXCEPT ![h] =
       [pc |-> "put", chat |-> @.chat, kind |-> @.kind, parts |-> @.parts,
        allow |-> @.allow \/ (@.kind = "anniversary" /\ days[@.chat] > 0)]]
  /\ UNCHANGED <<now, storeVars, ghostVars>>

\* Mutant of Superseded: plans that wait for a revision stay open.
MutSuperseded(c) == {p \in OpenIn(c) : plan[p].state = "pending"}

Superseded(c) == OpenIn(c)

\* A new plan closes the open ones of the conversation.
Put(h) ==
  LET r == handler[h]
      old == Superseded(r.chat)
  IN
  /\ At(h, "put") /\ Len(plan) < MaxPlans
  /\ plan' = Append([p \in DOMAIN plan |->
                       IF p \in old THEN [plan[p] EXCEPT !.state = "accepted"]
                                    ELSE plan[p]],
                    [chat |-> r.chat, kind |-> r.kind, parts |-> r.parts,
                     allow |-> r.allow, state |-> "pending", expires |-> now + Life])
  /\ fates' = Append([p \in DOMAIN plan |->
                        IF p \in old THEN Append(fates[p], "superseded") ELSE fates[p]],
                     << >>)
  /\ written' = Append(written, 0)
  /\ Reply(h)
  /\ UNCHANGED <<now, days>>

-----------------------------------------------------------------------------
(* A button of a plan: the plan is read, and then changed.                 *)

Press(h, p, button) ==
  /\ At(h, "idle") /\ Live(p, now)
  /\ handler' = [handler EXCEPT ![h] =
                   IF button = "confirm" THEN [pc |-> button, row |-> Read(p)]
                                         ELSE [pc |-> button, plan |-> p, at |-> now]]
  /\ UNCHANGED <<now, storeVars, ghostVars>>

\* What a lead, and the notification of an event, may be changed to.
AdjustLead == {0, 1, MaxParts}
AdjustNotification == {0, 1}

\* update_payload: the notifications are replaced, whatever they were when the
\* plan was read.  The kind of a plan never changes.
AdjustPlan(h) ==
  LET r == handler[h] IN
  /\ At(h, "adjust")
  /\ \/ /\ plan[r.plan].kind \in {"agenda", "reminder"} /\ Live(r.plan, r.at)
        /\ \E n \in IF plan[r.plan].kind = "reminder" THEN AdjustLead ELSE AdjustNotification :
             plan' = [plan EXCEPT ![r.plan].parts = n]
     \/ UNCHANGED plan
  /\ Reply(h)
  /\ UNCHANGED <<now, days, ghostVars>>

RejectPlan(h) ==
  LET p == handler[h].plan IN
  /\ At(h, "reject")
  /\ plan' = IF plan[p].state = "pending" /\ plan[p].expires > handler[h].at
             THEN [plan EXCEPT ![p].state = "revising"] ELSE plan
  /\ Reply(h)
  /\ UNCHANGED <<now, days, ghostVars>>

CancelPlan(h) ==
  LET p == handler[h].plan IN
  /\ At(h, "cancel")
  /\ IF Consumable(p) THEN Consume(p, "cancelled") ELSE UNCHANGED <<plan, fates>>
  /\ Reply(h)
  /\ UNCHANGED <<now, days, written>>

Executing(h, pc, c, kind, parts, allow, p) ==
  handler' = [handler EXCEPT ![h] =
    [pc |-> pc, chat |-> c, kind |-> kind, parts |-> parts, allow |-> allow, plan |-> p]]

\* What is carried out is what was read before the plan was closed.
ConfirmPlan(h) ==
  LET row == handler[h].row
      p == row.plan
  IN
  /\ At(h, "confirm")
  /\ IF Consumable(p)
     THEN /\ Consume(p, "confirmed")
          /\ Executing(h, IF row.kind = "anniversary" THEN "check" ELSE "write",
                       row.chat, row.kind, row.parts, row.allow, p)
     ELSE Reply(h) /\ UNCHANGED <<plan, fates>>
  /\ UNCHANGED <<now, days, written>>

-----------------------------------------------------------------------------
(* Carrying out.  Plan 0 stands for a command that needs no confirmation.  *)

Command(h, c) ==
  /\ At(h, "idle")
  /\ Executing(h, "check", c, "anniversary", 0, FALSE, 0)
  /\ UNCHANGED <<now, storeVars, ghostVars>>

\* A duplicate that no confirmed plan allows becomes a plan.
CheckDuplicate(h) ==
  LET r == handler[h] IN
  /\ At(h, "check")
  /\ IF days[r.chat] > 0 /\ ~ (r.plan # 0 /\ r.allow)
     THEN Staging(h, r.chat, r.kind, r.parts, TRUE)
     ELSE Executing(h, "recheck", r.chat, r.kind, r.parts, r.allow, r.plan)
  /\ UNCHANGED <<now, storeVars, ghostVars>>

\* The service looks again, and raises ConfirmationRequired.
CheckAgain(h) ==
  LET r == handler[h] IN
  /\ At(h, "recheck")
  /\ IF days[r.chat] > 0 /\ ~ (r.plan # 0 /\ r.allow)
     THEN Reply(h)
     ELSE Executing(h, "write", r.chat, r.kind, r.parts, r.allow, r.plan)
  /\ UNCHANGED <<now, storeVars, ghostVars>>

Count(p) == written' = IF p = 0 THEN written ELSE [written EXCEPT ![p] = @ + 1]

CreateAnniversary(h) ==
  LET r == handler[h] IN
  /\ At(h, "write") /\ r.kind = "anniversary" /\ days[r.chat] < MaxDays
  /\ days' = [days EXCEPT ![r.chat] = @ + 1]
  /\ Count(r.plan) /\ Reply(h)
  /\ UNCHANGED <<now, plan, fates>>

\* A task, a note, a daily briefing; or an event or a reminder, and then its
\* notifications one by one, each in a transaction of its own.
CreateItem(h) ==
  LET r == handler[h] IN
  /\ At(h, "write") /\ r.kind # "anniversary"
  /\ Count(r.plan)
  /\ IF r.parts = 0 THEN Reply(h)
     ELSE Executing(h, "parts", r.chat, r.kind, r.parts, r.allow, r.plan)
  /\ UNCHANGED <<now, storeVars, fates>>

CreatePart(h) ==
  LET r == handler[h] IN
  /\ At(h, "parts")
  /\ Count(r.plan)
  /\ IF r.parts = 1 THEN Reply(h)
     ELSE Executing(h, "parts", r.chat, r.kind, r.parts - 1, r.allow, r.plan)
  /\ UNCHANGED <<now, storeVars, fates>>

\* Invalid arguments, a refusal of the policy, an exception of the store: the
\* plan stays closed, and what was written stays.
ExecutionFails(h) ==
  /\ handler[h].pc \in {"write", "parts"}
  /\ Reply(h)
  /\ UNCHANGED <<now, storeVars, ghostVars>>

-----------------------------------------------------------------------------
Crash ==
  /\ \E h \in Handler : ~ At(h, "idle")
  /\ handler' = [h \in Handler |-> Idle]
  /\ UNCHANGED <<now, storeVars, ghostVars>>

Tick ==
  /\ now < MaxTime
  /\ now' = now + 1
  /\ UNCHANGED <<storeVars, handler, ghostVars>>

Message(h) ==
  \/ \E c \in Chat, kind \in Kind : Propose(h, c, kind)
  \/ \E c \in Chat : Command(h, c)
  \/ \E c \in Chat, p \in DOMAIN plan : ReadCurrent(h, c, p)
  \/ \E p \in DOMAIN plan, button \in Button : Press(h, p, button)

HandlerStep(h) ==
  \/ Revise(h) \/ Withdraw(h) \/ LookForDuplicate(h) \/ Put(h)
  \/ AdjustPlan(h) \/ RejectPlan(h) \/ CancelPlan(h) \/ ConfirmPlan(h)
  \/ CheckDuplicate(h) \/ CheckAgain(h) \/ CreateAnniversary(h)
  \/ CreateItem(h) \/ CreatePart(h) \/ ExecutionFails(h)

Next ==
  \/ \E h \in Handler : Message(h) \/ HandlerStep(h)
  \/ Crash
  \/ Tick

Spec == Init /\ [][Next]_vars

-----------------------------------------------------------------------------
HandlerType ==
  {Idle}
    \cup [pc : {"stage", "put"}, chat : Chat, kind : Kind, parts : 0 .. MaxParts,
          allow : BOOLEAN]
    \cup [pc : {"revise", "confirm"},
          row : [plan : DOMAIN plan, chat : Chat, kind : Kind, parts : 0 .. MaxParts,
                 allow : BOOLEAN]]
    \cup [pc : {"withdraw"}, plan : DOMAIN plan]
    \cup [pc : Button \ {"confirm"}, plan : DOMAIN plan, at : 0 .. MaxTime]
    \cup [pc : {"check", "recheck", "write", "parts"}, chat : Chat, kind : Kind,
          parts : 0 .. MaxParts, allow : BOOLEAN, plan : {0} \cup DOMAIN plan]

\* The table keeps its types, and a conversation has at most one open plan
\* (PendingPlanStore.put).
TypeOK ==
  /\ now \in 0 .. MaxTime
  /\ plan \in Seq(PlanRow) /\ days \in [Chat -> 0 .. MaxDays]
  /\ handler \in [Handler -> HandlerType]
  /\ fates \in Seq(Seq(Fate)) /\ written \in Seq(Nat)
  /\ Len(fates) = Len(plan) /\ Len(written) = Len(plan)
  /\ \A c \in Chat : \A p, q \in OpenIn(c) : p = q

CarriesOut(h, p) ==
  handler[h].pc \in {"check", "recheck", "write", "parts"} /\ handler[h].plan = p

\* A plan meets one fate: however buttons, texts and new proposals overlap, it is
\* open until it is confirmed, cancelled or superseded, once; only a confirmed
\* plan leads to writes, by one thread, and to no more than the item and its
\* notifications (PendingPlanStore.consume, AssistantService._execute).
OneFate ==
  \A p \in DOMAIN plan :
    /\ Len(fates[p]) = IF Open(p) THEN 0 ELSE 1
    /\ written[p] > 0 => fates[p] = <<"confirmed">>
    /\ written[p] <= 1 + MaxParts
    /\ \A g, h \in Handler : CarriesOut(g, p) /\ CarriesOut(h, p) => g = h

-----------------------------------------------------------------------------
(* What makes OneFate inductive.                                           *)

\* A thread carries out a plan that was confirmed.  Until the item is there
\* nothing was written for the plan, and then no more than what is left to do
\* leaves room for.
WorkInv ==
  \A h \in Handler, p \in DOMAIN plan : CarriesOut(h, p) =>
    /\ fates[p] = <<"confirmed">>
    /\ IF At(h, "parts") THEN written[p] + handler[h].parts <= 1 + MaxParts
                         ELSE written[p] = 0

\* A thread that writes notifications has one left to write.
PartsInv == \A h \in Handler : At(h, "parts") => handler[h].parts > 0

IndInv == TypeOK /\ OneFate /\ WorkInv /\ PartsInv
=============================================================================
