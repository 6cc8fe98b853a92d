-------------------------- MODULE AssistantProofs --------------------------
(* Proofs about Assistant: the inductive invariant IndInv and what follows. *)
EXTENDS Assistant, SequenceTheorems, TLAPS

USE DEF storeVars, ghostVars, At, Reply, Idle

-----------------------------------------------------------------------------
(* What a thread holds.                                                    *)

Row == [plan : DOMAIN plan, chat : Chat, kind : Kind, parts : 0 .. MaxParts,
        allow : BOOLEAN]

LEMMA Held ==
  ASSUME TypeOK, NEW h \in Handler
  PROVE  LET r == handler[h] IN
         /\ r.pc \in {"stage", "put"} =>
              r.chat \in Chat /\ r.kind \in Kind /\ r.parts \in 0 .. MaxParts
                /\ r.allow \in BOOLEAN
         /\ r.pc \in {"revise", "confirm"} => r.row \in Row
         /\ r.pc \in {"withdraw"} => r.plan \in DOMAIN plan
         /\ r.pc \in Button \ {"confirm"} => r.plan \in DOMAIN plan /\ r.at \in 0 .. MaxTime
         /\ r.pc \in {"check", "recheck", "write", "parts"} =>
              r.chat \in Chat /\ r.kind \in Kind /\ r.parts \in 0 .. MaxParts
                /\ r.allow \in BOOLEAN /\ r.plan \in {0} \cup DOMAIN plan
  <1>1. handler[h] \in HandlerType
    BY DEF TypeOK
  <1> QED BY <1>1 DEF HandlerType, Row, Button

\* The rows that exist stay, and what threads hold stays typed.
LEMMA HandlerTypeGrows ==
  ASSUME DOMAIN plan \subseteq DOMAIN plan', NEW x \in HandlerType
  PROVE  x \in HandlerType'
  BY DEF HandlerType, Idle, Button

LEMMA InitInv == Init => IndInv
  <1> SUFFICES ASSUME Init PROVE IndInv
    OBVIOUS
  <1>1. TypeOK
    BY AssistantAssumption DEF Init, TypeOK, HandlerType, OpenIn
  <1>2. OneFate /\ WorkInv /\ PartsInv
    BY DEF Init, OneFate, WorkInv, PartsInv
  <1> QED BY <1>1, <1>2 DEF IndInv

-----------------------------------------------------------------------------
(* Types.                                                                  *)

LEMMA HandlerSteps ==
  ASSUME TypeOK, NEW h \in Handler, NEW x \in HandlerType',
         DOMAIN plan \subseteq DOMAIN plan',
         handler' = [handler EXCEPT ![h] = x]
  PROVE  handler' \in [Handler -> HandlerType]'
  BY HandlerTypeGrows DEF TypeOK

LEMMA IdleType == Idle \in HandlerType'
  BY DEF HandlerType

LEMMA ReadType ==
  ASSUME TypeOK, NEW p \in DOMAIN plan PROVE Read(p) \in Row
  <1>1. plan[p] \in PlanRow
    BY DEF TypeOK
  <1> QED BY <1>1 DEF Read, Row, PlanRow

LEMMA ProposedType == ASSUME NEW k PROVE Proposed(k) \subseteq 0 .. MaxParts
  BY AssistantAssumption DEF Proposed

-----------------------------------------------------------------------------
(* Steps that only change what thread h holds, to x.  It may begin to carry  *)
(* out a command that stands for no plan, or go on with a plan of which      *)
(* nothing was written.                                                      *)

Working == {"check", "recheck", "write", "parts"}

Quiet(h, x) ==
  /\ UNCHANGED <<now, storeVars, ghostVars>>
  /\ handler' = [handler EXCEPT ![h] = x]
  /\ x \in HandlerType
  /\ x.pc # "parts"
  /\ x.pc \in Working /\ x.plan # 0 => CarriesOut(h, x.plan) /\ ~ At(h, "parts")

LEMMA QuietMessage ==
  ASSUME TypeOK, NEW h \in Handler, Message(h) PROVE \E x : Quiet(h, x)
  <1>1. ASSUME NEW c \in Chat, NEW k \in Kind, Propose(h, c, k)
        PROVE  \E x : Quiet(h, x)
    <2>1. PICK n \in Proposed(k) : Staging(h, c, k, n, FALSE)
      BY <1>1 DEF Propose
    <2>2. n \in 0 .. MaxParts
      BY ProposedType
    <2> DEFINE x == [pc |-> "stage", chat |-> c, kind |-> k, parts |-> n, allow |-> FALSE]
    <2>3. x \in HandlerType
      BY <2>2 DEF HandlerType
    <2>4. Quiet(h, x)
      BY <1>1, <2>1, <2>3 DEF Propose, Staging, Quiet, Working
    <2> QED BY <2>4
  <1>2. ASSUME NEW c \in Chat, Command(h, c) PROVE \E x : Quiet(h, x)
    <2> DEFINE x == [pc |-> "check", chat |-> c, kind |-> "anniversary", parts |-> 0,
                     allow |-> FALSE, plan |-> 0]
    <2>1. x \in HandlerType
      BY AssistantAssumption DEF HandlerType
    <2>2. Quiet(h, x)
      BY <1>2, <2>1 DEF Command, Executing, Quiet, Working
    <2> QED BY <2>2
  <1>3. ASSUME NEW c \in Chat, NEW p \in DOMAIN plan, ReadCurrent(h, c, p)
        PROVE  \E x : Quiet(h, x)
    <2>1. Read(p) \in Row
      BY ReadType
    <2> DEFINE x == [pc |-> "revise", row |-> Read(p)]
               y == [pc |-> "withdraw", plan |-> p]
    <2>2. x \in HandlerType /\ y \in HandlerType
      BY <2>1 DEF HandlerType, Row
    <2>3. Quiet(h, x) \/ Quiet(h, y)
      BY <1>3, <2>2 DEF ReadCurrent, Quiet, Working
    <2> QED BY <2>3
  <1>4. ASSUME NEW p \in DOMAIN plan, NEW button \in Button, Press(h, p, button)
        PROVE  \E x : Quiet(h, x)
    <2>1. Read(p) \in Row /\ now \in 0 .. MaxTime
      BY ReadType DEF TypeOK
    <2> DEFINE x == [pc |-> "confirm", row |-> Read(p)]
               y == [pc |-> button, plan |-> p, at |-> now]
    <2>2. x \in HandlerType /\ (button # "confirm" => y \in HandlerType)
      BY <2>1 DEF HandlerType, Row
    <2>3. Quiet(h, x) \/ Quiet(h, y)
      BY <1>4, <2>2 DEF Press, Quiet, Working, Button
    <2> QED BY <2>3
  <1> QED BY <1>1, <1>2, <1>3, <1>4 DEF Message

LEMMA QuietWork ==
  ASSUME TypeOK, NEW h \in Handler,
         Revise(h) \/ LookForDuplicate(h) \/ CheckDuplicate(h) \/ CheckAgain(h)
           \/ ExecutionFails(h)
  PROVE  \E x : Quiet(h, x)
  <1> DEFINE r == handler[h]
  <1>0. Idle \in HandlerType
    BY DEF HandlerType
  <1>1. ASSUME UNCHANGED <<now, storeVars, ghostVars>>, Reply(h)
        PROVE  \E x : Quiet(h, x)
    <2>1. Quiet(h, Idle)
      BY <1>0, <1>1 DEF Quiet, Working
    <2> QED BY <2>1
  <1>2. CASE Revise(h)
    <2>1. r.row \in Row
      BY <1>2, Held DEF Revise
    <2>2. CASE Reply(h)
      BY <1>1, <1>2, <2>2 DEF Revise
    <2>3. ASSUME NEW n \in Proposed(r.row.kind) \cup {r.row.parts},
                 Staging(h, r.row.chat, r.row.kind, n, r.row.allow)
          PROVE  \E x : Quiet(h, x)
      <3> DEFINE x == [pc |-> "stage", chat |-> r.row.chat, kind |-> r.row.kind,
                       parts |-> n, allow |-> r.row.allow]
      <3>1. n \in 0 .. MaxParts
        BY <2>1, ProposedType DEF Row
      <3>2. x \in HandlerType
        BY <2>1, <3>1 DEF HandlerType, Row
      <3>3. Quiet(h, x)
        BY <1>2, <2>3, <3>2 DEF Revise, Staging, Quiet, Working
      <3> QED BY <3>3
    <2> QED BY <1>2, <2>2, <2>3 DEF Revise
  <1>3. CASE LookForDuplicate(h)
    <2> DEFINE x == [pc |-> "put", chat |-> r.chat, kind |-> r.kind, parts |-> r.parts,
                     allow |-> r.allow \/ (r.kind = "anniversary" /\ days[r.chat] > 0)]
    <2>1. x \in HandlerType
      BY <1>3, Held DEF LookForDuplicate, HandlerType
    <2>2. Quiet(h, x)
      BY <1>3, <2>1 DEF LookForDuplicate, Quiet, Working, TypeOK
    <2> QED BY <2>2
  <1>4. CASE CheckDuplicate(h)
    <2> DEFINE x == [pc |-> "stage", chat |-> r.chat, kind |-> r.kind, parts |-> r.parts,
                     allow |-> TRUE]
               y == [pc |-> "recheck", chat |-> r.chat, kind |-> r.kind, parts |-> r.parts,
                     allow |-> r.allow, plan |-> r.plan]
    <2>1. x \in HandlerType /\ y \in HandlerType
      BY <1>4, Held DEF CheckDuplicate, HandlerType
    <2>2. Quiet(h, x) \/ Quiet(h, y)
      BY <1>4, <2>1
      DEF CheckDuplicate, Staging, Executing, Quiet, Working, CarriesOut
    <2> QED BY <2>2
  <1>5. CASE CheckAgain(h)
    <2> DEFINE y == [pc |-> "write", chat |-> r.chat, kind |-> r.kind, parts |-> r.parts,
                     allow |-> r.allow, plan |-> r.plan]
    <2>1. y \in HandlerType
      BY <1>5, Held DEF CheckAgain, HandlerType
    <2>2. CASE Reply(h)
      BY <1>1, <1>5, <2>2 DEF CheckAgain
    <2>3. CASE ~ Reply(h)
      <3>1. Quiet(h, y)
        BY <1>5, <2>1, <2>3 DEF CheckAgain, Executing, Quiet, Working, CarriesOut
      <3> QED BY <3>1
    <2> QED BY <2>2, <2>3
  <1>6. CASE ExecutionFails(h)
    BY <1>1, <1>6 DEF ExecutionFails
  <1> QED BY <1>2, <1>3, <1>4, <1>5, <1>6

\* They keep the invariant.
LEMMA QuietInv ==
  ASSUME IndInv, NEW h \in Handler, NEW x, Quiet(h, x) PROVE IndInv'
  <1> USE DEF IndInv, Quiet
  <1>1. TypeOK'
    <2>1. HandlerType' = HandlerType
      BY DEF HandlerType
    <2>2. handler' \in [Handler -> HandlerType']
      BY <2>1 DEF TypeOK
    <2> QED BY <2>2 DEF TypeOK, OpenIn, Open
  <1>2. ASSUME NEW g \in Handler, NEW p \in DOMAIN plan, CarriesOut(g, p)'
        PROVE  CarriesOut(g, p) /\ (At(g, "parts") <=> At(g, "parts")')
                 /\ (At(g, "parts") => handler'[g] = handler[g])
    <2>1. p # 0
      BY DEF TypeOK
    <2> QED BY <1>2, <2>1 DEF CarriesOut, Working, TypeOK
  <1>3. OneFate'
    BY <1>2 DEF OneFate, Open
  <1>4. WorkInv'
    BY <1>2 DEF WorkInv
  <1>5. PartsInv'
    BY DEF PartsInv, TypeOK
  <1> QED BY <1>1, <1>3, <1>4, <1>5

-----------------------------------------------------------------------------
(* Steps that change the row of plan p.                                    *)

\* The row becomes row; what else is in the table stays.
LEMMA RowChange ==
  ASSUME TypeOK, NEW p \in DOMAIN plan, NEW row \in PlanRow,
         plan' = [plan EXCEPT ![p] = row]
  PROVE  /\ plan' \in Seq(PlanRow) /\ DOMAIN plan' = DOMAIN plan /\ Len(plan') = Len(plan)
         /\ plan'[p] = row
         /\ \A q \in DOMAIN plan : q # p => plan'[q] = plan[q]
         /\ HandlerType' = HandlerType
  <1>1. plan \in Seq(PlanRow)
    BY DEF TypeOK
  <1>2. plan' \in Seq(PlanRow) /\ DOMAIN plan' = DOMAIN plan /\ Len(plan') = Len(plan)
    BY <1>1, ExceptSeq
  <1>3. HandlerType' = HandlerType
    BY <1>2 DEF HandlerType
  <1> QED BY <1>1, <1>2, <1>3

\* The sequences have one place for each plan.
LEMMA Places ==
  ASSUME TypeOK
  PROVE  /\ Len(plan) \in Nat /\ DOMAIN plan = 1 .. Len(plan)
         /\ fates \in [DOMAIN plan -> Seq(Fate)] /\ fates \in Seq(Seq(Fate))
         /\ Len(fates) = Len(plan)
         /\ written \in [DOMAIN plan -> Nat] /\ written \in Seq(Nat)
         /\ Len(written) = Len(plan)
  BY LenProperties DEF TypeOK

\* The plan that a thread closes was open, so nobody carries it out.
LEMMA OpenIsUntouched ==
  ASSUME IndInv, NEW p \in DOMAIN plan, Open(p)
  PROVE  fates[p] = << >> /\ written[p] = 0 /\ \A h \in Handler : ~ CarriesOut(h, p)
  <1>1. fates[p] \in Seq(Fate) /\ written[p] \in Nat
    BY Places DEF IndInv
  <1>2. Len(fates[p]) = 0
    BY DEF IndInv, OneFate
  <1>3. fates[p] = << >>
    BY <1>1, <1>2, EmptySeq
  <1>4. fates[p] # <<"confirmed">>
    BY <1>3
  <1>5. ~ (written[p] > 0)
    BY <1>4 DEF IndInv, OneFate
  <1>6. \A h \in Handler : ~ CarriesOut(h, p)
    BY <1>4 DEF IndInv, WorkInv
  <1> QED BY <1>1, <1>3, <1>5, <1>6

LEMMA ConsumeFacts ==
  ASSUME IndInv, NEW p \in DOMAIN plan, NEW fate \in Fate, Open(p), Consume(p, fate)
  PROVE  /\ plan' \in Seq(PlanRow) /\ DOMAIN plan' = DOMAIN plan /\ Len(plan') = Len(plan)
         /\ HandlerType' = HandlerType
         /\ \A q \in DOMAIN plan : Open(q)' <=> q # p /\ Open(q)
         /\ \A q \in DOMAIN plan : plan'[q].chat = plan[q].chat
         /\ fates' \in Seq(Seq(Fate)) /\ Len(fates') = Len(fates)
         /\ fates'[p] = <<fate>>
         /\ \A q \in DOMAIN plan : q # p => fates'[q] = fates[q]
  <1> DEFINE row == [plan[p] EXCEPT !.state = "accepted"]
  <1>1. plan[p] \in PlanRow
    BY DEF IndInv, TypeOK
  <1>2. row \in PlanRow /\ row.chat = plan[p].chat /\ row.state = "accepted"
    BY <1>1 DEF PlanRow
  <1>3. plan' = [plan EXCEPT ![p] = row]
    BY DEF Consume
  <1>4. /\ plan' \in Seq(PlanRow) /\ DOMAIN plan' = DOMAIN plan /\ Len(plan') = Len(plan)
        /\ plan'[p] = row /\ \A q \in DOMAIN plan : q # p => plan'[q] = plan[q]
        /\ HandlerType' = HandlerType
    BY <1>2, <1>3, RowChange DEF IndInv
  <1>5. \A q \in DOMAIN plan : (Open(q)' <=> q # p /\ Open(q)) /\ plan'[q].chat = plan[q].chat
    BY <1>2, <1>4 DEF Open
  <1>6. fates[p] = << >> /\ fates \in Seq(Seq(Fate)) /\ p \in 1 .. Len(fates)
    BY OpenIsUntouched, Places DEF IndInv
  <1>7. fates' = [fates EXCEPT ![p] = <<fate>>] /\ <<fate>> \in Seq(Fate)
    BY <1>6 DEF Consume
  <1>8. fates' \in Seq(Seq(Fate)) /\ Len(fates') = Len(fates)
    BY <1>6, <1>7, ExceptSeq
  <1>9. fates'[p] = <<fate>> /\ \A q \in DOMAIN plan : q # p => fates'[q] = fates[q]
    BY <1>6, <1>7, Places DEF IndInv
  <1> QED BY <1>4, <1>5, <1>8, <1>9

\* A thread closes a plan, and carries it out only if it confirms it.
LEMMA CloseInv ==
  ASSUME IndInv, NEW h \in Handler, NEW p \in DOMAIN plan, Open(p),
         NEW fate \in Fate, Consume(p, fate),
         NEW x \in HandlerType, handler' = [handler EXCEPT ![h] = x],
         x.pc # "parts",
         x.pc \in Working => x.plan = p /\ fate = "confirmed",
         UNCHANGED <<now, days, written>>
  PROVE  IndInv'
  <1>1. /\ plan' \in Seq(PlanRow) /\ DOMAIN plan' = DOMAIN plan /\ Len(plan') = Len(plan)
        /\ HandlerType' = HandlerType
        /\ \A q \in DOMAIN plan : Open(q)' <=> q # p /\ Open(q)
        /\ \A q \in DOMAIN plan : plan'[q].chat = plan[q].chat
        /\ fates' \in Seq(Seq(Fate)) /\ Len(fates') = Len(fates)
        /\ fates'[p] = <<fate>>
        /\ \A q \in DOMAIN plan : q # p => fates'[q] = fates[q]
    BY ConsumeFacts
  <1>2. fates[p] = << >> /\ written[p] = 0 /\ \A g \in Handler : ~ CarriesOut(g, p)
    BY OpenIsUntouched
  <1>3. TypeOK'
    <2>1. handler \in [Handler -> HandlerType] /\ HandlerType' = HandlerType
      BY <1>1 DEF IndInv, TypeOK
    <2>2. handler' \in [Handler -> HandlerType']
      BY <2>1
    <2>3. \A c \in Chat : OpenIn(c)' \subseteq OpenIn(c)
      BY <1>1 DEF OpenIn
    <2> QED BY <1>1, <2>2, <2>3 DEF IndInv, TypeOK
  <1>4. \A g \in Handler, q \in DOMAIN plan : CarriesOut(g, q)' =>
          IF q = p THEN g = h /\ fate = "confirmed" /\ ~ At(g, "parts")'
                   ELSE CarriesOut(g, q) /\ handler'[g] = handler[g]
    BY <1>2 DEF IndInv, TypeOK, CarriesOut, Working
  <1>5. OneFate'
    <2> SUFFICES ASSUME NEW q \in DOMAIN plan
                 PROVE  /\ Len(fates'[q]) = IF Open(q)' THEN 0 ELSE 1
                        /\ written'[q] > 0 => fates'[q] = <<"confirmed">>
                        /\ written'[q] <= 1 + MaxParts
                        /\ \A f, g \in Handler : CarriesOut(f, q)' /\ CarriesOut(g, q)' => f = g
      BY <1>1 DEF OneFate
    <2>1. CASE q = p
      <3>1. Len(<<fate>>) = 1 /\ 0 <= 1 + MaxParts
        BY AssistantAssumption
      <3>2. fates'[q] = <<fate>> /\ ~ Open(q)' /\ written'[q] = 0
        BY <1>1, <1>2, <2>1
      <3> QED BY <1>4, <2>1, <3>1, <3>2
    <2>2. CASE q # p
      BY <1>1, <1>4, <2>2 DEF IndInv, OneFate
    <2> QED BY <2>1, <2>2
  <1>6. WorkInv'
    BY <1>1, <1>2, <1>4 DEF IndInv, WorkInv
  <1>7. PartsInv'
    BY DEF IndInv, PartsInv, TypeOK
  <1> QED BY <1>3, <1>5, <1>6, <1>7 DEF IndInv

LEMMA ButtonInv ==
  ASSUME IndInv, NEW h \in Handler,
         Withdraw(h) \/ CancelPlan(h) \/ ConfirmPlan(h)
  PROVE  IndInv'
  <1>0. Idle \in HandlerType /\ TypeOK
    BY DEF HandlerType, IndInv
  <1>1. ASSUME UNCHANGED <<now, storeVars, ghostVars>>, Reply(h) PROVE IndInv'
    <2>1. Quiet(h, Idle)
      BY <1>0, <1>1 DEF Quiet, Working
    <2> QED BY <2>1, QuietInv
  <1>2. ASSUME NEW p \in DOMAIN plan, Reply(h), UNCHANGED <<now, days, written>>,
               IF Consumable(p) THEN Consume(p, "cancelled") ELSE UNCHANGED <<plan, fates>>
        PROVE  IndInv'
    <2>1. CASE Consumable(p)
      <3>1. "cancelled" \in Fate /\ Idle.pc # "parts" /\ Idle.pc \notin Working
        BY DEF Fate, Working
      <3>2. Open(p) /\ Consume(p, "cancelled")
        BY <1>2, <2>1 DEF Consumable
      <3>3. handler' = [handler EXCEPT ![h] = Idle] /\ UNCHANGED <<now, days, written>>
        BY <1>2
      <3> QED BY <1>0, <3>1, <3>2, <3>3, CloseInv
    <2>2. CASE ~ Consumable(p)
      BY <1>1, <1>2, <2>2
    <2> QED BY <2>1, <2>2
  <1>3. CASE Withdraw(h)
    <2>1. handler[h].plan \in DOMAIN plan
      BY <1>0, <1>3, Held DEF Withdraw
    <2> QED BY <1>2, <1>3, <2>1 DEF Withdraw
  <1>4. CASE CancelPlan(h)
    <2>1. handler[h].plan \in DOMAIN plan
      BY <1>0, <1>4, Held DEF CancelPlan, Button
    <2> QED BY <1>2, <1>4, <2>1 DEF CancelPlan
  <1>5. CASE ConfirmPlan(h)
    <2> DEFINE row == handler[h].row
               pc == IF row.kind = "anniversary" THEN "check" ELSE "write"
               x == [pc |-> pc, chat |-> row.chat, kind |-> row.kind, parts |-> row.parts,
                     allow |-> row.allow, plan |-> row.plan]
    <2>1. row \in Row
      BY <1>0, <1>5, Held DEF ConfirmPlan
    <2>2. x \in HandlerType /\ x.pc # "parts" /\ x.plan = row.plan
      BY <2>1 DEF Row, HandlerType
    <2>3. CASE Consumable(row.plan)
      <3>1. "confirmed" \in Fate /\ row.plan \in DOMAIN plan
        BY <2>1 DEF Fate, Row
      <3>2. Open(row.plan) /\ Consume(row.plan, "confirmed")
        BY <1>5, <2>3 DEF ConfirmPlan, Consumable
      <3>3. handler' = [handler EXCEPT ![h] = x] /\ UNCHANGED <<now, days, written>>
        BY <1>5, <2>3 DEF ConfirmPlan, Executing
      <3> HIDE DEF x
      <3> QED BY <2>2, <3>1, <3>2, <3>3, CloseInv
    <2>4. CASE ~ Consumable(row.plan)
      BY <1>1, <1>5, <2>4 DEF ConfirmPlan
    <2> QED BY <2>3, <2>4
  <1> QED BY <1>3, <1>4, <1>5

-----------------------------------------------------------------------------
(* Adjusting and rejecting: the plan stays open or closed as it was.       *)

LEMMA AdjustInv ==
  ASSUME IndInv, NEW h \in Handler, AdjustPlan(h) \/ RejectPlan(h) PROVE IndInv'
  <1> DEFINE p == handler[h].plan
  <1>0. TypeOK /\ Idle \in HandlerType
    BY DEF IndInv, HandlerType
  <1>1. p \in DOMAIN plan
    BY <1>0, Held DEF AdjustPlan, RejectPlan, Button
  <1>2. plan[p] \in PlanRow
    BY <1>0, <1>1 DEF TypeOK
  <1>3. Reply(h) /\ UNCHANGED <<now, days, ghostVars>>
    BY DEF AdjustPlan, RejectPlan
  <1>4. CASE UNCHANGED plan
    <2>1. Quiet(h, Idle)
      BY <1>0, <1>3, <1>4 DEF Quiet, Working
    <2> QED BY <2>1, QuietInv
  <1>5. ASSUME NEW row \in PlanRow, plan' = [plan EXCEPT ![p] = row],
               row.chat = plan[p].chat,
               row.state \in {"pending", "revising"} <=> plan[p].state \in {"pending", "revising"}
        PROVE  IndInv'
    <2>1. /\ plan' \in Seq(PlanRow) /\ DOMAIN plan' = DOMAIN plan /\ Len(plan') = Len(plan)
          /\ plan'[p] = row
          /\ \A q \in DOMAIN plan : q # p => plan'[q] = plan[q]
          /\ HandlerType' = HandlerType
      BY <1>0, <1>1, <1>5, RowChange
    <2>2. \A q \in DOMAIN plan : (Open(q)' <=> Open(q)) /\ plan'[q].chat = plan[q].chat
      BY <1>5, <2>1 DEF Open
    <2>3. TypeOK'
      <3>1. handler \in [Handler -> HandlerType]
        BY <1>0 DEF TypeOK
      <3>2. handler' \in [Handler -> HandlerType']
        BY <1>0, <1>3, <2>1, <3>1
      <3>3. \A c \in Chat : OpenIn(c)' = OpenIn(c)
        BY <2>1, <2>2 DEF OpenIn
      <3> QED BY <1>0, <1>3, <2>1, <3>2, <3>3 DEF TypeOK
    <2>4. \A g \in Handler, q \in DOMAIN plan :
            CarriesOut(g, q)' => CarriesOut(g, q) /\ handler'[g] = handler[g]
      BY <1>0, <1>3 DEF TypeOK, CarriesOut
    <2>5. OneFate'
      BY <1>3, <2>1, <2>2, <2>4 DEF IndInv, OneFate
    <2>6. WorkInv'
      BY <1>3, <2>1, <2>4 DEF IndInv, WorkInv
    <2>7. PartsInv'
      BY <1>0, <1>3 DEF IndInv, PartsInv, TypeOK
    <2> QED BY <2>3, <2>5, <2>6, <2>7 DEF IndInv
  <1>6. CASE AdjustPlan(h)
    <2>1. ASSUME NEW n \in 0 .. MaxParts, plan' = [plan EXCEPT ![p].parts = n]
          PROVE  IndInv'
      <3> DEFINE row == [plan[p] EXCEPT !.parts = n]
      <3>1. row \in PlanRow /\ row.chat = plan[p].chat /\ row.state = plan[p].state
        BY <1>2 DEF PlanRow
      <3>2. plan' = [plan EXCEPT ![p] = row]
        BY <2>1
      <3> HIDE DEF row
      <3> QED BY <1>5, <3>1, <3>2
    <2>2. AdjustLead \subseteq 0 .. MaxParts /\ AdjustNotification \subseteq 0 .. MaxParts
      BY AssistantAssumption DEF AdjustLead, AdjustNotification
    <2> QED BY <1>4, <1>6, <2>1, <2>2 DEF AdjustPlan
  <1>7. CASE RejectPlan(h)
    <2>1. CASE plan[p].state = "pending" /\ plan[p].expires > handler[h].at
      <3> DEFINE row == [plan[p] EXCEPT !.state = "revising"]
      <3>1. row \in PlanRow /\ row.chat = plan[p].chat /\ row.state = "revising"
        BY <1>2 DEF PlanRow
      <3>2. plan' = [plan EXCEPT ![p] = row]
        BY <1>7, <2>1 DEF RejectPlan
      <3> HIDE DEF row
      <3> QED BY <1>5, <2>1, <3>1, <3>2
    <2>2. CASE ~ (plan[p].state = "pending" /\ plan[p].expires > handler[h].at)
      BY <1>4, <1>7, <2>2 DEF RejectPlan
    <2> QED BY <2>1, <2>2
  <1> QED BY <1>6, <1>7

-----------------------------------------------------------------------------
(* A new plan takes the place of the open ones of its conversation.        *)

LEMMA PutInv == ASSUME IndInv, NEW h \in Handler, Put(h) PROVE IndInv'
  <1> DEFINE r == handler[h]
             old == OpenIn(r.chat)
             row == [chat |-> r.chat, kind |-> r.kind, parts |-> r.parts,
                     allow |-> r.allow, state |-> "pending", expires |-> now + Life]
             rest == [p \in DOMAIN plan |->
                        IF p \in old THEN [plan[p] EXCEPT !.state = "accepted"] ELSE plan[p]]
             gone == [p \in DOMAIN plan |->
                        IF p \in old THEN Append(fates[p], "superseded") ELSE fates[p]]
  <1>0. TypeOK /\ Idle \in HandlerType
    BY DEF IndInv, HandlerType
  <1>1. /\ plan' = Append(rest, row) /\ fates' = Append(gone, << >>)
        /\ written' = Append(written, 0) /\ Reply(h) /\ UNCHANGED <<now, days>>
    BY DEF Put, Superseded
  <1>19. PICK n \in Nat : n = Len(plan)
    BY <1>0, Places
  <1>2. /\ n = Len(plan) /\ n \in Nat /\ DOMAIN plan = 1 .. n /\ plan \in [1 .. n -> PlanRow]
        /\ fates \in [1 .. n -> Seq(Fate)] /\ written \in [1 .. n -> Nat]
        /\ written \in Seq(Nat) /\ Len(written) = n
    BY <1>0, <1>19, Places, LenProperties DEF TypeOK
  <1>3. row \in PlanRow
    BY <1>0, Held, AssistantAssumption DEF Put, PlanRow, TypeOK
  <1>4. rest \in [1 .. n -> PlanRow]
    BY <1>2 DEF PlanRow
  <1>5. gone \in [1 .. n -> Seq(Fate)]
    BY <1>2 DEF Fate
  <1>6. /\ rest \in Seq(PlanRow) /\ Len(rest) = n
        /\ gone \in Seq(Seq(Fate)) /\ Len(gone) = n
    BY <1>2, <1>4, <1>5, SeqDef
  <1>7. /\ plan' \in Seq(PlanRow) /\ Len(plan') = n + 1 /\ DOMAIN plan' = 1 .. n + 1
        /\ plan'[n + 1] = row /\ \A p \in 1 .. n : plan'[p] = rest[p]
    BY <1>1, <1>2, <1>3, <1>6, AppendProperties, LenProperties
  <1>8. /\ fates' \in Seq(Seq(Fate)) /\ Len(fates') = n + 1
        /\ fates'[n + 1] = << >> /\ \A p \in 1 .. n : fates'[p] = gone[p]
    BY <1>1, <1>2, <1>6, AppendProperties, LenProperties, EmptySeq
  <1>9. /\ written' \in Seq(Nat) /\ Len(written') = n + 1
        /\ written'[n + 1] = 0 /\ \A p \in 1 .. n : written'[p] = written[p]
    BY <1>1, <1>2, AppendProperties, LenProperties
  <1>10. \A p \in 1 .. n : (Open(p)' <=> Open(p) /\ p \notin old) /\ plan'[p].chat = plan[p].chat
    <2> SUFFICES ASSUME NEW p \in 1 .. n
                 PROVE  (Open(p)' <=> Open(p) /\ p \notin old) /\ plan'[p].chat = plan[p].chat
      OBVIOUS
    <2>1. plan[p] \in PlanRow /\ plan'[p] = rest[p]
      BY <1>2, <1>7
    <2>2. CASE p \in old
      <3>1. rest[p] = [plan[p] EXCEPT !.state = "accepted"]
        BY <1>2, <2>2
      <3> QED BY <2>1, <2>2, <3>1 DEF Open, PlanRow
    <2>3. CASE p \notin old
      <3>1. rest[p] = plan[p]
        BY <1>2, <2>3
      <3> QED BY <2>1, <2>3, <3>1 DEF Open
    <2> QED BY <2>2, <2>3
  <1>11. Open(n + 1)' /\ plan'[n + 1].chat = r.chat
    BY <1>7 DEF Open
  <1>12. ASSUME NEW p \in old
         PROVE  /\ p \in 1 .. n /\ Open(p) /\ fates'[p] = <<"superseded">>
                /\ written[p] = 0 /\ \A g \in Handler : ~ CarriesOut(g, p)
    <2>1. p \in DOMAIN plan /\ Open(p)
      BY DEF OpenIn
    <2>2. fates[p] = << >> /\ written[p] = 0 /\ \A g \in Handler : ~ CarriesOut(g, p)
      BY <2>1, OpenIsUntouched
    <2>3. gone[p] = Append(<< >>, "superseded")
      BY <2>1, <2>2
    <2>4. Append(<< >>, "superseded") = <<"superseded">>
      OBVIOUS
    <2> HIDE DEF gone
    <2> QED BY <1>2, <1>8, <2>1, <2>2, <2>3, <2>4
  <1>13. \A p \in 1 .. n : p \notin old => fates'[p] = fates[p]
    BY <1>2, <1>8
  <1> HIDE DEF rest, gone, row, old
  <1>14. \A g \in Handler, p \in 1 .. n + 1 : CarriesOut(g, p)' =>
           p \in 1 .. n /\ p \notin old /\ CarriesOut(g, p) /\ handler'[g] = handler[g]
    <2> SUFFICES ASSUME NEW g \in Handler, NEW p \in 1 .. n + 1, CarriesOut(g, p)'
                 PROVE  p \in 1 .. n /\ p \notin old /\ CarriesOut(g, p)
                          /\ handler'[g] = handler[g]
      OBVIOUS
    <2>1. handler'[g] = handler[g] /\ CarriesOut(g, p)
      BY <1>0, <1>1 DEF TypeOK, CarriesOut
    <2>2. p \in {0} \cup 1 .. n
      BY <1>0, <1>2, <2>1, Held DEF CarriesOut
    <2> QED BY <1>2, <1>12, <2>1, <2>2
  <1>15. TypeOK'
    <2>1. DOMAIN plan \subseteq DOMAIN plan'
      BY <1>2, <1>7
    <2>2. Idle \in HandlerType'
      BY IdleType
    <2>3. handler' \in [Handler -> HandlerType]'
      BY <1>0, <1>1, <2>1, <2>2, HandlerSteps
    <2>4. ASSUME NEW c \in Chat, NEW p \in OpenIn(c)', NEW q \in OpenIn(c)'
          PROVE  p = q
      <3>1. /\ p \in 1 .. n + 1 /\ plan'[p].chat = c /\ Open(p)'
            /\ q \in 1 .. n + 1 /\ plan'[q].chat = c /\ Open(q)'
        BY <1>7 DEF OpenIn
      <3>2. ASSUME NEW s \in 1 .. n, plan'[s].chat = c, Open(s)'
            PROVE  s \in OpenIn(c) /\ c # r.chat
        BY <1>2, <1>10, <3>2 DEF OpenIn, old
      <3>3. \A s \in 1 .. n + 1 : s \in 1 .. n \/ s = n + 1
        BY <1>2
      <3> QED BY <1>0, <1>11, <3>1, <3>2, <3>3 DEF TypeOK
    <2> QED BY <1>0, <1>1, <1>7, <1>8, <1>9, <2>3, <2>4 DEF TypeOK
  <1>16. OneFate'
    <2> SUFFICES ASSUME NEW p \in 1 .. n + 1
                 PROVE  /\ Len(fates'[p]) = IF Open(p)' THEN 0 ELSE 1
                        /\ written'[p] > 0 => fates'[p] = <<"confirmed">>
                        /\ written'[p] <= 1 + MaxParts
                        /\ \A f, g \in Handler : CarriesOut(f, p)' /\ CarriesOut(g, p)' => f = g
      BY <1>7 DEF OneFate
    <2>0. 0 <= 1 + MaxParts
      BY AssistantAssumption
    <2>1. CASE p = n + 1
      <3>1. Len(fates'[p]) = 0 /\ written'[p] = 0 /\ Open(p)'
        BY <1>8, <1>9, <1>11, <2>1
      <3>2. \A g \in Handler : ~ CarriesOut(g, p)'
        BY <1>2, <1>14, <2>1
      <3> QED BY <2>0, <3>1, <3>2
    <2>2. CASE p \in old
      <3>1. Len(<<"superseded">>) = 1
        OBVIOUS
      <3>2. p \in 1 .. n /\ fates'[p] = <<"superseded">> /\ written[p] = 0
        BY <1>12, <2>2
      <3>4. written'[p] = 0 /\ ~ Open(p)'
        BY <1>9, <1>10, <2>2, <3>2
      <3>3. \A g \in Handler : ~ CarriesOut(g, p)'
        BY <1>14, <2>2
      <3> QED BY <2>0, <3>1, <3>2, <3>3, <3>4
    <2>3. CASE p \in 1 .. n /\ p \notin old
      <3>1. fates'[p] = fates[p] /\ written'[p] = written[p] /\ (Open(p)' <=> Open(p))
        BY <1>9, <1>10, <1>13, <2>3
      <3> QED BY <1>2, <1>14, <2>3, <3>1 DEF IndInv, OneFate
    <2> QED BY <1>2, <2>1, <2>2, <2>3
  <1>17. WorkInv'
    <2> SUFFICES ASSUME NEW g \in Handler, NEW p \in 1 .. n + 1, CarriesOut(g, p)'
                 PROVE  /\ fates'[p] = <<"confirmed">>
                        /\ IF At(g, "parts")' THEN written'[p] + handler'[g].parts <= 1 + MaxParts
                                              ELSE written'[p] = 0
      BY <1>7 DEF WorkInv
    <2>1. p \in 1 .. n /\ p \notin old /\ CarriesOut(g, p) /\ handler'[g] = handler[g]
      BY <1>14
    <2>2. fates'[p] = fates[p] /\ written'[p] = written[p]
      BY <1>9, <1>13, <2>1
    <2> QED BY <1>2, <2>1, <2>2 DEF IndInv, WorkInv
  <1>18. PartsInv'
    BY <1>0, <1>1 DEF IndInv, PartsInv, TypeOK
  <1> QED BY <1>15, <1>16, <1>17, <1>18 DEF IndInv

-----------------------------------------------------------------------------
(* Carrying out: one more command for the plan in hand.                    *)

LEMMA MaxPartsType == MaxParts \in Nat /\ MaxParts > 0
  BY AssistantAssumption

\* What is left to do after the write: nothing, or parts that fit.
LEMMA WriteInv ==
  ASSUME IndInv, NEW h \in Handler, handler[h].pc \in {"write", "parts"},
         Count(handler[h].plan), UNCHANGED <<now, plan, fates>>,
         days' \in [Chat -> 0 .. MaxDays],
         NEW x \in HandlerType, handler' = [handler EXCEPT ![h] = x],
         \/ x = Idle
         \/ /\ x.pc = "parts" /\ x.plan = handler[h].plan
            /\ x.parts = IF At(h, "parts") THEN handler[h].parts - 1 ELSE handler[h].parts
            /\ x.parts > 0
  PROVE  IndInv'
  <1> DEFINE r == handler[h]
             p == handler[h].plan
  <1>0. TypeOK
    BY DEF IndInv
  <1>1. p \in {0} \cup DOMAIN plan /\ r.parts \in 0 .. MaxParts
    BY <1>0, Held
  <1>2. /\ Len(plan) \in Nat /\ DOMAIN plan = 1 .. Len(plan)
        /\ written \in [DOMAIN plan -> Nat] /\ written \in Seq(Nat) /\ Len(written) = Len(plan)
    BY <1>0, Places
  <1>3. /\ written' \in Seq(Nat) /\ Len(written') = Len(written)
        /\ \A q \in DOMAIN plan : written'[q] = IF q = p THEN written[q] + 1 ELSE written[q]
    <2>1. CASE p = 0
      BY <1>2, <2>1 DEF Count
    <2>2. CASE p # 0
      <3>1. p \in 1 .. Len(written) /\ written[p] + 1 \in Nat
        BY <1>1, <1>2, <2>2
      <3>2. written' = [written EXCEPT ![p] = written[p] + 1]
        BY <2>2 DEF Count
      <3> QED BY <1>2, <3>1, <3>2, ExceptSeq
    <2> QED BY <2>1, <2>2
  <1>4. HandlerType' = HandlerType
    BY DEF HandlerType
  <1>5. TypeOK'
    <2>1. handler' \in [Handler -> HandlerType']
      BY <1>0, <1>4 DEF TypeOK
    <2>2. \A c \in Chat : OpenIn(c)' = OpenIn(c)
      BY DEF OpenIn, Open
    <2> QED BY <1>0, <1>3, <2>1, <2>2 DEF TypeOK
  <1>6. \A g \in Handler, q \in DOMAIN plan : CarriesOut(g, q)' =>
          /\ CarriesOut(g, q)
          /\ g # h => handler'[g] = handler[g] /\ q # p
          /\ g = h => q = p /\ handler'[g] = x /\ x # Idle
    <2> SUFFICES ASSUME NEW g \in Handler, NEW q \in DOMAIN plan, CarriesOut(g, q)'
                 PROVE  /\ CarriesOut(g, q)
                        /\ g # h => handler'[g] = handler[g] /\ q # p
                        /\ g = h => q = p /\ handler'[g] = x /\ x # Idle
      OBVIOUS
    <2>1. CASE g = h
      BY <1>0, <2>1 DEF TypeOK, CarriesOut
    <2>2. CASE g # h
      <3>1. handler'[g] = handler[g] /\ CarriesOut(g, q)
        BY <1>0, <2>2 DEF TypeOK, CarriesOut
      <3>2. CarriesOut(h, q) => g = h
        BY <3>1 DEF IndInv, OneFate
      <3>3. q # p
        BY <2>2, <3>2 DEF CarriesOut
      <3> QED BY <2>2, <3>1, <3>3
    <2> QED BY <2>1, <2>2
  <1>7. p # 0 => /\ fates[p] = <<"confirmed">>
                 /\ written[p] + (IF At(h, "parts") THEN r.parts ELSE 0) <= 1 + MaxParts
                 /\ At(h, "parts") => r.parts > 0
                 /\ ~ At(h, "parts") => written[p] = 0
    <2>1. CarriesOut(h, p)
      BY DEF CarriesOut
    <2>2. At(h, "parts") => r.parts > 0
      BY DEF IndInv, PartsInv
    <2>3. p \in DOMAIN plan =>
            /\ fates[p] = <<"confirmed">>
            /\ IF At(h, "parts") THEN written[p] + r.parts <= 1 + MaxParts ELSE written[p] = 0
      BY <2>1 DEF IndInv, WorkInv
    <2> QED BY <1>1, <2>2, <2>3, MaxPartsType
  <1>8. OneFate'
    <2> SUFFICES ASSUME NEW q \in DOMAIN plan
                 PROVE  /\ Len(fates[q]) = IF Open(q)' THEN 0 ELSE 1
                        /\ written'[q] > 0 => fates[q] = <<"confirmed">>
                        /\ written'[q] <= 1 + MaxParts
                        /\ \A f, g \in Handler : CarriesOut(f, q)' /\ CarriesOut(g, q)' => f = g
      BY DEF OneFate
    <2>1. /\ Len(fates[q]) = IF Open(q) THEN 0 ELSE 1
          /\ written[q] > 0 => fates[q] = <<"confirmed">>
          /\ written[q] <= 1 + MaxParts
          /\ \A f, g \in Handler : CarriesOut(f, q) /\ CarriesOut(g, q) => f = g
      BY DEF IndInv, OneFate
    <2>2. Open(q)' <=> Open(q)
      BY DEF Open
    <2>3. \A f, g \in Handler : CarriesOut(f, q)' /\ CarriesOut(g, q)' => f = g
      BY <1>6, <2>1
    <2>4. written'[q] <= 1 + MaxParts /\ (written'[q] > 0 => fates[q] = <<"confirmed">>)
      <3>1. CASE q = p
        <4>1. p # 0 /\ written[p] \in Nat
          BY <1>2, <3>1
        <4>2. written'[p] = written[p] + 1
          BY <1>3, <3>1
        <4>3. CASE At(h, "parts")
          BY <1>1, <1>7, <3>1, <4>1, <4>2, <4>3, MaxPartsType
        <4>4. CASE ~ At(h, "parts")
          BY <1>7, <3>1, <4>1, <4>2, <4>4, MaxPartsType
        <4> QED BY <4>3, <4>4
      <3>2. CASE q # p
        BY <1>3, <2>1, <3>2
      <3> QED BY <3>1, <3>2
    <2> QED BY <2>1, <2>2, <2>3, <2>4
  <1>9. WorkInv'
    <2> SUFFICES ASSUME NEW g \in Handler, NEW q \in DOMAIN plan, CarriesOut(g, q)'
                 PROVE  /\ fates[q] = <<"confirmed">>
                        /\ IF At(g, "parts")' THEN written'[q] + handler'[g].parts <= 1 + MaxParts
                                              ELSE written'[q] = 0
      BY DEF WorkInv
    <2>1. CASE g = h
      <3>1. q = p /\ handler'[g] = x /\ x # Idle /\ p # 0 /\ written[p] \in Nat
        BY <1>2, <1>6, <2>1
      <3>2. x.pc = "parts" /\ x.parts = IF At(h, "parts") THEN r.parts - 1 ELSE r.parts
        BY <3>1
      <3>3. written'[q] + x.parts <= 1 + MaxParts
        <4>1. written'[q] = written[p] + 1
          BY <1>3, <3>1
        <4>2. CASE At(h, "parts")
          BY <1>1, <1>7, <3>1, <3>2, <4>1, <4>2, MaxPartsType
        <4>3. CASE ~ At(h, "parts")
          BY <1>1, <1>7, <3>1, <3>2, <4>1, <4>3, MaxPartsType
        <4> QED BY <4>2, <4>3
      <3> QED BY <1>7, <3>1, <3>2, <3>3
    <2>2. CASE g # h
      BY <1>3, <1>6, <2>2 DEF IndInv, WorkInv
    <2> QED BY <2>1, <2>2
  <1>10. PartsInv'
    BY <1>0 DEF IndInv, PartsInv, TypeOK
  <1> QED BY <1>5, <1>8, <1>9, <1>10 DEF IndInv

LEMMA CreateInv ==
  ASSUME IndInv, NEW h \in Handler,
         CreateAnniversary(h) \/ CreateItem(h) \/ CreatePart(h)
  PROVE  IndInv'
  <1> DEFINE r == handler[h]
             x(n) == [pc |-> "parts", chat |-> r.chat, kind |-> r.kind, parts |-> n,
                      allow |-> r.allow, plan |-> r.plan]
  <1>0. TypeOK /\ Idle \in HandlerType
    BY DEF IndInv, HandlerType
  <1>1. r.pc \in {"write", "parts"}
    BY DEF CreateAnniversary, CreateItem, CreatePart
  <1>2. /\ r.chat \in Chat /\ r.kind \in Kind /\ r.parts \in 0 .. MaxParts
        /\ r.allow \in BOOLEAN /\ r.plan \in {0} \cup DOMAIN plan
    BY <1>0, <1>1, Held
  <1>3. Count(r.plan) /\ UNCHANGED <<now, plan, fates>>
    BY DEF CreateAnniversary, CreateItem, CreatePart
  <1>4. days' \in [Chat -> 0 .. MaxDays]
    <2>1. CASE UNCHANGED days
      BY <1>0, <2>1 DEF TypeOK
    <2>2. CASE CreateAnniversary(h)
      <3>1. MaxDays \in Nat /\ days[r.chat] \in 0 .. MaxDays
        BY <1>0, <1>2, AssistantAssumption DEF TypeOK
      <3>2. days[r.chat] < MaxDays /\ days' = [days EXCEPT ![r.chat] = days[r.chat] + 1]
        BY <2>2 DEF CreateAnniversary
      <3>3. days[r.chat] + 1 \in 0 .. MaxDays
        BY <3>1, <3>2
      <3> QED BY <1>0, <3>2, <3>3 DEF TypeOK
    <2> QED BY <2>1, <2>2 DEF CreateItem, CreatePart
  <1>5. CASE Reply(h)
    BY <1>0, <1>1, <1>3, <1>4, <1>5, WriteInv
  <1>6. ASSUME NEW n \in 0 .. MaxParts, n > 0, handler' = [handler EXCEPT ![h] = x(n)],
               n = IF At(h, "parts") THEN r.parts - 1 ELSE r.parts
        PROVE  IndInv'
    <2>1. x(n) \in HandlerType /\ x(n).pc = "parts" /\ x(n).plan = r.plan /\ x(n).parts = n
      BY <1>2 DEF HandlerType
    <2> HIDE DEF x
    <2> QED BY <1>1, <1>3, <1>4, <1>6, <2>1, WriteInv
  <1>7. CASE CreateItem(h)
    <2>1. ~ At(h, "parts")
      BY <1>7 DEF CreateItem
    <2>2. CASE r.parts # 0
      <3>1. handler' = [handler EXCEPT ![h] = x(r.parts)]
        BY <1>7, <2>2 DEF CreateItem, Executing
      <3>2. r.parts > 0
        BY <1>2, <2>2, MaxPartsType
      <3> HIDE DEF x
      <3> QED BY <1>2, <1>6, <2>1, <3>1, <3>2
    <2> QED BY <1>5, <1>7, <2>2 DEF CreateItem
  <1>8. CASE CreatePart(h)
    <2>1. At(h, "parts") /\ r.parts > 0
      BY <1>8 DEF CreatePart, IndInv, PartsInv
    <2>2. CASE r.parts # 1
      <3>1. handler' = [handler EXCEPT ![h] = x(r.parts - 1)]
        BY <1>8, <2>2 DEF CreatePart, Executing
      <3>2. r.parts - 1 \in 0 .. MaxParts /\ r.parts - 1 > 0
        BY <1>2, <2>1, <2>2, AssistantAssumption
      <3> HIDE DEF x
      <3> QED BY <1>2, <1>6, <2>1, <3>1, <3>2
    <2> QED BY <1>5, <1>8, <2>2 DEF CreatePart
  <1>9. CASE CreateAnniversary(h)
    BY <1>5, <1>9 DEF CreateAnniversary
  <1> QED BY <1>7, <1>8, <1>9

-----------------------------------------------------------------------------
(* The specification.                                                      *)

LEMMA CrashInv ==
  ASSUME IndInv, Crash
  PROVE  IndInv'
  <1>1. \A g \in Handler : handler'[g] = Idle
    BY DEF Crash
  <1>2. TypeOK'
    <2>1. handler' \in [Handler -> HandlerType]'
      BY DEF Crash, HandlerType
    <2>2. \A c \in Chat : OpenIn(c)' = OpenIn(c)
      BY DEF Crash, OpenIn, Open
    <2> QED BY <2>1, <2>2 DEF Crash, IndInv, TypeOK
  <1>3. \A g \in Handler, p \in DOMAIN plan' : ~ CarriesOut(g, p)'
    BY <1>1 DEF CarriesOut
  <1>4. OneFate'
    BY <1>3 DEF Crash, IndInv, OneFate, Open
  <1>5. WorkInv' /\ PartsInv'
    BY <1>1, <1>3 DEF WorkInv, PartsInv
  <1> QED BY <1>2, <1>4, <1>5 DEF IndInv

\* A step that changes the clock at most.
LEMMA ClockInv ==
  ASSUME IndInv, now' \in 0 .. MaxTime, UNCHANGED <<storeVars, handler, ghostVars>>
  PROVE  IndInv'
  <1>1. HandlerType' = HandlerType /\ \A c \in Chat : OpenIn(c)' = OpenIn(c)
    BY DEF HandlerType, OpenIn, Open
  <1>2. TypeOK'
    BY <1>1 DEF IndInv, TypeOK
  <1>3. OneFate' /\ WorkInv' /\ PartsInv'
    BY DEF IndInv, OneFate, WorkInv, PartsInv, CarriesOut, Open
  <1> QED BY <1>2, <1>3 DEF IndInv

LEMMA NextInv == IndInv /\ [Next]_vars => IndInv'
  <1> SUFFICES ASSUME IndInv, [Next]_vars PROVE IndInv'
    OBVIOUS
  <1>0. TypeOK
    BY DEF IndInv
  <1>1. ASSUME NEW h \in Handler, Message(h) PROVE IndInv'
    BY <1>0, <1>1, QuietMessage, QuietInv
  <1>2. ASSUME NEW h \in Handler, HandlerStep(h) PROVE IndInv'
    <2>1. CASE Revise(h) \/ LookForDuplicate(h) \/ CheckDuplicate(h) \/ CheckAgain(h)
                 \/ ExecutionFails(h)
      BY <1>0, <2>1, QuietWork, QuietInv
    <2>2. CASE Withdraw(h) \/ CancelPlan(h) \/ ConfirmPlan(h)
      BY <2>2, ButtonInv
    <2>3. CASE AdjustPlan(h) \/ RejectPlan(h)
      BY <2>3, AdjustInv
    <2>4. CASE Put(h)
      BY <2>4, PutInv
    <2>5. CASE CreateAnniversary(h) \/ CreateItem(h) \/ CreatePart(h)
      BY <2>5, CreateInv
    <2> QED BY <1>2, <2>1, <2>2, <2>3, <2>4, <2>5 DEF HandlerStep
  <1>3. CASE Crash
    BY <1>3, CrashInv
  <1>4. CASE Tick
    <2>1. now' \in 0 .. MaxTime
      BY <1>0, <1>4, AssistantAssumption DEF Tick, TypeOK
    <2> QED BY <1>4, <2>1, ClockInv DEF Tick
  <1>5. CASE UNCHANGED vars
    BY <1>0, <1>5, ClockInv DEF vars, TypeOK
  <1> QED BY <1>1, <1>2, <1>3, <1>4, <1>5 DEF Next

\* The inductive invariant holds in every state that the threads of the
\* assistant can reach.
THEOREM Invariance == Spec => []IndInv
  BY InitInv, NextInv, PTL DEF Spec

\* The table of pending plans and the threads keep their types, and a
\* conversation never has two open plans (PendingPlanStore.put).
THEOREM TypeCorrect == Spec => []TypeOK
  <1>1. IndInv => TypeOK
    BY DEF IndInv
  <1> QED BY <1>1, Invariance, PTL

\* However buttons, texts and new proposals overlap and whenever the process
\* stops, a plan is confirmed, cancelled or superseded once, and only a confirmed
\* plan is carried out, by one thread, with no command more than the item and its
\* notifications (PendingPlanStore.consume, AssistantService._execute).
THEOREM PlanMeetsOneFate == Spec => []OneFate
  <1>1. IndInv => OneFate
    BY DEF IndInv
  <1> QED BY <1>1, Invariance, PTL
=============================================================================
