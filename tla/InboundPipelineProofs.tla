------------------------ MODULE InboundPipelineProofs ------------------------
(***************************************************************************)
(* Proofs about InboundPipeline, for any number of dispatches, sessions,   *)
(* events, request threads and failures.  IndInv is inductive; the safety  *)
(* properties and the refinement of InboundContract follow from it.        *)
(***************************************************************************)
EXTENDS InboundPipeline, TLAPS

-----------------------------------------------------------------------------
(* Types.                                                                  *)

\* The initial state satisfies the inductive invariant.
LEMMA InitIndInv == Init => IndInv
<1> SUFFICES ASSUME Init PROVE IndInv
  OBVIOUS
<1>1. TypeOK
  BY GatewayAssumption, BrokerAssumption, InboundAssumption
  DEF Init, GatewayInit, BrokerInit, TypeOK, GatewayTypeOK, BrokerTypeOK, Link, Receipt
<1>2. HandlerInv
  BY BrokerAssumption DEF Init, BrokerInit, HandlerInv, Reserved, ExecutedOnce
<1>3. CallInv /\ CursorInv
  BY DEF Init, GatewayInit, BrokerInit, CallInv, CursorInv
<1>4. AckedWasReceived
  BY GatewayAssumption
  DEF Init, GatewayInit, AckedWasReceived, Covered, settledSequence
<1> QED
  BY <1>1, <1>2, <1>3, <1>4 DEF IndInv

\* Steps of the gateway and of the provider keep the gateway's types.
LEMMA GatewayTypes ==
  ASSUME GatewayTypeOK,
         \/ Emit \/ Expire \/ Connect \/ Handshake \/ Ready \/ Resumed
         \/ InvalidSession(TRUE) \/ InvalidSession(FALSE) \/ Receive \/ MapFails
         \/ Forwarded \/ ForwardFails \/ Save \/ Disconnect \/ Restart
  PROVE  GatewayTypeOK'
<1> USE GatewayAssumption DEF GatewayTypeOK, providerVars, stateVars, savedVars, Link
<1>1. CASE Emit
  BY <1>1 DEF Emit
<1>1x. CASE Expire
  BY <1>1x DEF Expire
<1>2. CASE Connect \/ Handshake \/ Resumed
  BY <1>2 DEF Connect, Handshake, Resumed
<1>3. CASE Ready
  BY <1>3 DEF Ready
<1>4. CASE InvalidSession(TRUE)
  BY <1>4 DEF InvalidSession
<1>4x. CASE InvalidSession(FALSE)
  BY <1>4x DEF InvalidSession
<1>5. CASE Receive \/ MapFails
  <2>1. Pushed \in 1 .. Last
    BY <1>5 DEF Receive, MapFails, CanReceive, Pushed
  <2>2. link' \in Link /\ cursor' = Pushed /\ sequence' = Pushed /\ previous' = sequence
    BY <1>5 DEF Receive, MapFails
  <2>3. UNCHANGED <<emitted, live, newest, base, session, savedVars>>
    BY <1>5 DEF Receive, MapFails
  <2> QED
    BY <2>1, <2>2, <2>3
<1>6. CASE Forwarded \/ ForwardFails \/ Save \/ Disconnect \/ Restart
  BY <1>6 DEF Forwarded, ForwardFails, Save, Disconnect, Restart
<1> QED
  BY <1>1, <1>1x, <1>2, <1>3, <1>4, <1>4x, <1>5, <1>6

\* Steps of a request thread keep the broker's types.
LEMMA HandlerTypes ==
  ASSUME BrokerTypeOK, HandlerInv, NEW h \in Handler,
         \/ Admit(h) \/ Reserve(h) \/ Duplicate(h) \/ Handle(h) \/ EnqueueReply(h)
         \/ Complete(h) \/ RefuseWithError(h) \/ HandleRaises(h)
         \/ EnqueueRaises(h) \/ CompleteRaises(h)
  PROVE  BrokerTypeOK'
<1> USE BrokerAssumption
    DEF BrokerTypeOK, Receipt, storeVars, handlerVars, callVars
<1>0. step[h] # "free" => task[h] \in Event
  BY DEF HandlerInv
<1>1. CASE Admit(h)
  BY <1>1 DEF Admit
<1>2. CASE Reserve(h)
  BY <1>0, <1>2 DEF Reserve
<1>3. CASE Duplicate(h) \/ RefuseWithError(h) \/ CompleteRaises(h)
  <2>1. UNCHANGED storeVars
    BY <1>3 DEF Duplicate, RefuseWithError, CompleteRaises
  <2>2. PICK x \in {"ok", "error"} : Return(h, x)
    BY <1>3 DEF Duplicate, RefuseWithError, CompleteRaises
  <2> QED
    BY <2>1, <2>2 DEF Return
<1>4. CASE Handle(h)
  BY <1>0, <1>4 DEF Handle
<1>4x. CASE HandleRaises(h)
  <2>1. PICK n \in {0, 1} : executed' = [executed EXCEPT ![task[h]] = @ + n]
    BY <1>4x DEF HandleRaises
  <2>2. executed' \in [Event -> Nat]
    BY <1>0, <1>4x, <2>1 DEF HandleRaises
  <2> QED
    BY <1>4x, <2>2 DEF HandleRaises
<1>5. CASE EnqueueReply(h) \/ EnqueueRaises(h)
  BY <1>0, <1>5 DEF EnqueueReply, EnqueueRaises
<1>6. CASE Complete(h)
  <2>1. verdict[h] \in {"accepted", "refused"}
    BY <1>6 DEF Complete, HandlerInv, Reserved
  <2> QED
    BY <1>0, <1>6, <2>1 DEF Complete, Return
<1> QED
  BY <1>1, <1>2, <1>3, <1>4, <1>4x, <1>5, <1>6

\* The type invariant is kept by every step.
LEMMA TypeStep == IndInv /\ [Next]_vars => TypeOK'
<1> SUFFICES ASSUME IndInv, [Next]_vars PROVE TypeOK'
  OBVIOUS
<1> USE GatewayAssumption, BrokerAssumption, InboundAssumption
<1>0. TypeOK /\ GatewayTypeOK /\ BrokerTypeOK /\ HandlerInv /\ CursorInv
  BY DEF IndInv, TypeOK
<1>1. CASE Provider \/ Attach \/ GatewayReceive \/ GatewaySave \/ GatewayTrouble
  <2>1. GatewayTypeOK'
    BY <1>0, <1>1, GatewayTypes
    DEF Provider, Attach, GatewayReceive, GatewaySave, GatewayTrouble
  <2>2. UNCHANGED <<brokerVars, unmapped>>
    BY <1>1 DEF Provider, Attach, GatewayReceive, GatewaySave, GatewayTrouble
  <2>2x. faults' \in Nat
    <3>1. Fault \/ NoFault
      BY <1>1 DEF Provider, Attach, GatewayReceive, GatewaySave, GatewayTrouble
    <3> QED
      BY <1>0, <3>1 DEF Fault, NoFault, TypeOK
  <2>3. BrokerTypeOK'
    BY <1>0, <2>2 DEF BrokerTypeOK, brokerVars, storeVars, handlerVars, callVars
  <2> QED
    BY <1>0, <2>1, <2>2, <2>2x, <2>3 DEF TypeOK
<1>2. CASE GatewayMapFails
  <2>1. GatewayTypeOK'
    BY <1>0, <1>2, GatewayTypes DEF GatewayMapFails
  <2>2. unmapped' \subseteq 1 .. Last /\ faults' \in Nat
    BY <1>0, <1>2
    DEF GatewayMapFails, MapFails, CanReceive, Pushed, GatewayTypeOK, TypeOK, Fault
  <2>3. BrokerTypeOK'
    BY <1>0, <1>2
    DEF GatewayMapFails, BrokerTypeOK, brokerVars, storeVars, handlerVars, callVars
  <2> QED
    BY <2>1, <2>2, <2>3 DEF TypeOK
<1>3. CASE Acknowledged \/ Rejected \/ Unanswered \/ GatewayRestart
  <2>1. GatewayTypeOK'
    BY <1>0, <1>3, GatewayTypes
    DEF Acknowledged, Rejected, Unanswered, GatewayRestart
  <2>2. BrokerTypeOK'
    BY <1>0, <1>3
    DEF Acknowledged, Rejected, Unanswered, GatewayRestart, HangUp, BrokerTypeOK,
        storeVars, handlerVars
  <2>3. UNCHANGED unmapped /\ faults' \in Nat
    BY <1>0, <1>3
    DEF Acknowledged, Rejected, Unanswered, GatewayRestart, TypeOK, Fault, NoFault
  <2> QED
    BY <1>0, <2>1, <2>2, <2>3 DEF TypeOK
<1>4. ASSUME NEW h \in Handler, Request(h) PROVE TypeOK'
  <2>1. EventOf[sequence] \in Event
    BY <1>0, <1>4 DEF Request, CursorInv, GatewayTypeOK
  <2>2. BrokerTypeOK'
    BY <1>0, <1>4, <2>1 DEF Request, Accept, BrokerTypeOK, storeVars
  <2>3. GatewayTypeOK'
    BY <1>0, <1>4
    DEF Request, GatewayTypeOK, gatewayVars, providerVars, stateVars, savedVars
  <2> QED
    BY <1>0, <1>4, <2>2, <2>3 DEF Request, NoFault, TypeOK
<1>5. ASSUME NEW h \in Handler, HandlerStep(h) \/ HandlerTrouble(h) PROVE TypeOK'
  <2>1. BrokerTypeOK'
    BY <1>0, <1>5, HandlerTypes DEF HandlerStep, HandlerTrouble
  <2>2. UNCHANGED <<gatewayVars, unmapped>> /\ faults' \in Nat
    BY <1>0, <1>5 DEF HandlerStep, HandlerTrouble, Fault, NoFault, TypeOK
  <2>3. GatewayTypeOK'
    BY <1>0, <2>2 DEF GatewayTypeOK, gatewayVars, providerVars, stateVars, savedVars
  <2> QED
    BY <1>0, <2>1, <2>2, <2>3 DEF TypeOK
<1>6. CASE BrokerTrouble
  <2>1. BrokerTypeOK'
    BY <1>0, <1>6 DEF BrokerTrouble, BrokerRestart, BrokerTypeOK, storeVars
  <2>2. GatewayTypeOK'
    BY <1>0, <1>6
    DEF BrokerTrouble, GatewayTypeOK, gatewayVars, providerVars, stateVars, savedVars
  <2> QED
    BY <1>0, <1>6, <2>1, <2>2 DEF BrokerTrouble, Fault, TypeOK
<1>7. CASE UNCHANGED vars
  BY <1>0, <1>7
  DEF vars, TypeOK, GatewayTypeOK, BrokerTypeOK, gatewayVars, providerVars,
      stateVars, savedVars, brokerVars, storeVars, handlerVars, callVars
<1> QED
  BY <1>1, <1>2, <1>3, <1>4, <1>5, <1>6, <1>7 DEF Next, GatewayStep

-----------------------------------------------------------------------------
(* The request threads.                                                    *)

\* A step that leaves the store and the threads alone keeps HandlerInv.
LEMMA HandlerInvFrame ==
  ASSUME HandlerInv, UNCHANGED <<storeVars, handlerVars>>
  PROVE  HandlerInv'
BY DEF HandlerInv, Reserved, ExecutedOnce, storeVars, handlerVars

\* A thread that ends takes nothing from the others.
LEMMA HandlerInvReturn ==
  ASSUME BrokerTypeOK, HandlerInv, NEW h \in Handler, NEW x, Return(h, x),
         UNCHANGED storeVars
  PROVE  HandlerInv'
<1> USE BrokerAssumption DEF BrokerTypeOK
<1>1. \A g \in Handler : g # h =>
        /\ step'[g] = step[g] /\ task'[g] = task[g] /\ verdict'[g] = verdict[g]
  BY DEF Return
<1>2. step'[h] = "free" /\ task'[h] = NoEvent
  BY DEF Return
<1>3. UNCHANGED <<receipt, executed>>
  BY DEF storeVars
<1> QED
  BY <1>1, <1>2, <1>3 DEF HandlerInv, Reserved, ExecutedOnce

\* Every step of a request thread keeps HandlerInv.
LEMMA HandlerInvStep ==
  ASSUME BrokerTypeOK, HandlerInv, NEW h \in Handler,
         \/ Admit(h) \/ Reserve(h) \/ Duplicate(h) \/ Handle(h) \/ EnqueueReply(h)
         \/ Complete(h) \/ RefuseWithError(h) \/ HandleRaises(h)
         \/ EnqueueRaises(h) \/ CompleteRaises(h)
  PROVE  HandlerInv'
<1> USE BrokerAssumption DEF BrokerTypeOK
<1>0. step[h] # "free" => task[h] \in Event
  BY DEF HandlerInv
<1>1. CASE Admit(h)
  <2>1. UNCHANGED <<receipt, executed, task>>
    BY <1>1 DEF Admit
  <2>2. step'[h] = "reserve" /\ verdict'[h] # "none" /\ task[h] # NoEvent
    BY <1>0, <1>1 DEF Admit
  <2>3. \A g \in Handler : g # h => step'[g] = step[g] /\ verdict'[g] = verdict[g]
    BY <1>1 DEF Admit
  <2> QED
    BY <2>1, <2>2, <2>3 DEF HandlerInv, Reserved, ExecutedOnce
<1>2. CASE Reserve(h)
  <2>1. /\ UNCHANGED <<executed, task, verdict>>
        /\ task[h] \in Event /\ receipt[task[h]] = "none"
        /\ executed[task[h]] = 0
    BY <1>0, <1>2 DEF Reserve, HandlerInv
  <2>2. \A g \in Handler : g # h => step'[g] = step[g]
    BY <1>2 DEF Reserve
  <2>3. \A g \in Handler : Reserved(g) => task[g] # task[h]
    BY <2>1 DEF HandlerInv
  <2>4. \A e \in Event : e # task[h] => receipt'[e] = receipt[e]
    BY <1>2 DEF Reserve
  <2>5. \/ /\ verdict[h] = "accepted" /\ receipt'[task[h]] = "processing"
           /\ \/ step'[h] = "handle"
              \/ step'[h] = "enqueue" /\ task[h] \in CodeRequest
        \/ /\ verdict[h] = "refused" /\ receipt'[task[h]] = "refused"
           /\ step'[h] = "complete"
    <3>1. verdict[h] \in {"accepted", "refused"}
      BY <1>2 DEF Reserve, HandlerInv
    <3>2. CASE verdict[h] = "accepted"
      <4>1. receipt'[task[h]] = "processing"
        BY <1>2, <2>1, <3>2 DEF Reserve
      <4>x. step' = [step EXCEPT ![h] =
                       IF task[h] \in CodeRequest THEN "enqueue" ELSE "handle"]
        BY <1>2, <3>2 DEF Reserve
      <4>2. CASE task[h] \in CodeRequest
        BY <3>2, <4>1, <4>x, <4>2
      <4>3. CASE task[h] \notin CodeRequest
        BY <3>2, <4>1, <4>x, <4>3
      <4> QED
        BY <4>2, <4>3
    <3>3. CASE verdict[h] = "refused"
      BY <1>2, <2>1, <3>3 DEF Reserve
    <3> QED
      BY <3>1, <3>2, <3>3
  <2>6. \A g \in Handler : g # h /\ Reserved(g) => task[g] \in Event
    BY DEF HandlerInv, Reserved
  <2> QED
    BY <2>1, <2>2, <2>3, <2>4, <2>5, <2>6 DEF HandlerInv, Reserved, ExecutedOnce
<1>3. CASE Duplicate(h) \/ RefuseWithError(h) \/ CompleteRaises(h)
  <2>1. UNCHANGED storeVars
    BY <1>3 DEF Duplicate, RefuseWithError, CompleteRaises
  <2>2. PICK x \in {"ok", "error"} : Return(h, x)
    BY <1>3 DEF Duplicate, RefuseWithError, CompleteRaises
  <2> QED
    BY <2>1, <2>2, HandlerInvReturn
<1>4. CASE Handle(h) \/ HandleRaises(h)
  <2>1. /\ UNCHANGED <<receipt, task, verdict>>
        /\ task[h] \in Event /\ step[h] = "handle" /\ executed[task[h]] = 0
        /\ receipt[task[h]] = "processing" /\ verdict[h] = "accepted"
    BY <1>0, <1>4 DEF Handle, HandleRaises, HandlerInv, Reserved
  <2>2. PICK n \in {0, 1} : executed' = [executed EXCEPT ![task[h]] = @ + n]
    BY <1>4 DEF Handle, HandleRaises
  <2>3. \/ step'[h] = "enqueue" /\ executed'[task[h]] = 1
        \/ step'[h] = "complete"
    BY <1>4, <2>1 DEF Handle, HandleRaises
  <2>4. \A g \in Handler : g # h => step'[g] = step[g]
    BY <1>4 DEF Handle, HandleRaises
  <2>5. \A e \in Event : e # task[h] => executed'[e] = executed[e]
    BY <2>1, <2>2
  <2>6. executed'[task[h]] <= 1
    BY <2>1, <2>2
  <2>7. \A g \in Handler : g # h /\ Reserved(g) => task[g] # task[h] /\ task[g] \in Event
    BY <2>1 DEF HandlerInv, Reserved
  <2> QED
    BY <2>1, <2>3, <2>4, <2>5, <2>6, <2>7 DEF HandlerInv, Reserved, ExecutedOnce
<1>5. CASE EnqueueReply(h) \/ EnqueueRaises(h)
  <2>1. UNCHANGED <<receipt, executed, task, verdict>> /\ step[h] = "enqueue"
    BY <1>5 DEF EnqueueReply, EnqueueRaises, storeVars
  <2>2. step'[h] = "complete" /\ \A g \in Handler : g # h => step'[g] = step[g]
    BY <1>5 DEF EnqueueReply, EnqueueRaises
  <2> QED
    BY <2>1, <2>2 DEF HandlerInv, Reserved, ExecutedOnce
<1>6. CASE Complete(h)
  <2>1. /\ \A g \in Handler : g # h =>
             step'[g] = step[g] /\ task'[g] = task[g] /\ verdict'[g] = verdict[g]
        /\ step'[h] = "free" /\ task'[h] = NoEvent
    BY <1>6 DEF Complete, Return
  <2>2. /\ task[h] \in Event /\ UNCHANGED executed
        /\ verdict[h] # "none" /\ receipt'[task[h]] = verdict[h]
        /\ \A e \in Event : e # task[h] => receipt'[e] = receipt[e]
    BY <1>0, <1>6 DEF Complete, HandlerInv, Reserved
  <2>3. \A g \in Handler : g # h /\ Reserved(g) => task[g] # task[h] /\ task[g] \in Event
    BY <1>6 DEF HandlerInv, Reserved, Complete
  <2> QED
    BY <2>1, <2>2, <2>3 DEF HandlerInv, Reserved, ExecutedOnce
<1> QED
  BY <1>1, <1>2, <1>3, <1>4, <1>5, <1>6

\* HandlerInv is kept by every step.
LEMMA HandlersStep == IndInv /\ [Next]_vars => HandlerInv'
<1> SUFFICES ASSUME IndInv, [Next]_vars PROVE HandlerInv'
  OBVIOUS
<1> USE BrokerAssumption, InboundAssumption, GatewayAssumption
<1>0. TypeOK /\ GatewayTypeOK /\ BrokerTypeOK /\ HandlerInv /\ CursorInv
  BY DEF IndInv, TypeOK
<1>1. CASE \/ Provider \/ Attach \/ GatewayReceive \/ GatewaySave
           \/ GatewayTrouble \/ GatewayMapFails \/ UNCHANGED vars
  <2>1. UNCHANGED brokerVars
    BY <1>1
    DEF Provider, Attach, GatewayReceive, GatewaySave, GatewayTrouble,
        GatewayMapFails, vars
  <2> QED
    BY <1>0, <2>1, HandlerInvFrame DEF brokerVars
<1>2. CASE Acknowledged \/ Rejected \/ Unanswered \/ GatewayRestart
  BY <1>0, <1>2, HandlerInvFrame
  DEF Acknowledged, Rejected, Unanswered, GatewayRestart, HangUp
<1>3. ASSUME NEW h \in Handler, Request(h) PROVE HandlerInv'
  <2>1. EventOf[sequence] \in Event /\ EventOf[sequence] # NoEvent
    BY <1>0, <1>3 DEF Request, CursorInv, GatewayTypeOK
  <2>2. /\ UNCHANGED <<receipt, executed, verdict>>
        /\ step'[h] = "admit" /\ task'[h] = EventOf[sequence]
        /\ \A g \in Handler : g # h => step'[g] = step[g] /\ task'[g] = task[g]
    BY <1>0, <1>3 DEF Request, Accept, storeVars, BrokerTypeOK
  <2> QED
    BY <1>0, <2>1, <2>2 DEF HandlerInv, Reserved, ExecutedOnce
<1>4. ASSUME NEW h \in Handler, HandlerStep(h) \/ HandlerTrouble(h) PROVE HandlerInv'
  BY <1>0, <1>4, HandlerInvStep DEF HandlerStep, HandlerTrouble
<1>5. CASE BrokerTrouble
  BY <1>0, <1>5
  DEF BrokerTrouble, BrokerRestart, storeVars, HandlerInv, Reserved, ExecutedOnce
<1> QED
  BY <1>1, <1>2, <1>3, <1>4, <1>5 DEF Next, GatewayStep

-----------------------------------------------------------------------------
(* The call between the gateway and the broker.                            *)

\* Receipts are never taken back.
LEMMA ReceiptsStay ==
  ASSUME IndInv, [Next]_vars, NEW e \in Event, receipt[e] # "none"
  PROVE  receipt'[e] # "none"
<1>0. BrokerTypeOK /\ HandlerInv
  BY DEF IndInv, TypeOK
<1>1. CASE UNCHANGED storeVars
  BY <1>1 DEF storeVars
<1>2. ASSUME NEW h \in Handler, HandlerStep(h) \/ HandlerTrouble(h),
             ~ UNCHANGED storeVars
      PROVE  receipt'[e] # "none"
  <2>1. CASE UNCHANGED receipt
    BY <2>1
  <2>2. CASE Reserve(h)
    BY <1>0, <2>2 DEF Reserve, BrokerTypeOK
  <2>3. CASE Complete(h)
    <3>1. verdict[h] # "none"
      BY <1>0, <2>3 DEF HandlerInv, Reserved, Complete
    <3> QED
      BY <1>0, <2>3, <3>1 DEF Complete, BrokerTypeOK
  <2> QED
    BY <1>2, <2>1, <2>2, <2>3
    DEF HandlerStep, HandlerTrouble, Admit, Duplicate, Handle, EnqueueReply,
        RefuseWithError, HandleRaises, EnqueueRaises, CompleteRaises
<1>3. \/ UNCHANGED storeVars
      \/ \E h \in Handler : HandlerStep(h) \/ HandlerTrouble(h)
  BY DEF Next, GatewayStep, Provider, Attach, GatewayReceive, GatewaySave,
         GatewayTrouble, GatewayMapFails, Acknowledged, Rejected, Unanswered,
         GatewayRestart, BrokerTrouble, BrokerRestart, HangUp, Request, Accept,
         brokerVars, vars
<1> QED
  BY <1>1, <1>2, <1>3

\* CallInv is kept by every step.
LEMMA CallStep == IndInv /\ [Next]_vars => CallInv'
<1> SUFFICES ASSUME IndInv, [Next]_vars PROVE CallInv'
  OBVIOUS
<1> USE GatewayAssumption, BrokerAssumption, InboundAssumption
<1>0. TypeOK /\ GatewayTypeOK /\ BrokerTypeOK /\ HandlerInv /\ CallInv /\ CursorInv
  BY DEF IndInv, TypeOK
<1>1. CASE \/ Provider \/ Attach \/ GatewayReceive \/ GatewaySave
           \/ GatewayTrouble \/ GatewayMapFails
  <2>1. UNCHANGED brokerVars
    BY <1>1
    DEF Provider, Attach, GatewayReceive, GatewaySave, GatewayTrouble, GatewayMapFails
  <2>2. \/ link # "forwarding"
        \/ link' = "forwarding" /\ UNCHANGED sequence
    BY <1>1
    DEF Provider, Attach, GatewayReceive, GatewaySave, GatewayTrouble,
        GatewayMapFails, Emit, Expire, Connect, Handshake, Ready, Resumed,
        InvalidSession, Receive, Save, Disconnect, MapFails, CanReceive, stateVars
  <2> QED
    BY <1>0, <2>1, <2>2 DEF CallInv, brokerVars, storeVars, handlerVars, callVars
<1>2. CASE Acknowledged \/ Rejected \/ Unanswered \/ GatewayRestart
  BY <1>2 DEF Acknowledged, Rejected, Unanswered, GatewayRestart, HangUp, CallInv
<1>3. ASSUME NEW h \in Handler, Request(h) PROVE CallInv'
  <2>1. serving' = h /\ answer' = "none" /\ link' = "forwarding" /\ UNCHANGED sequence
    BY <1>3 DEF Request, Accept, gatewayVars, stateVars
  <2>2. step'[h] # "free" /\ task'[h] = EventOf[sequence]
    BY <1>0, <1>3 DEF Request, Accept, BrokerTypeOK
  <2> QED
    BY <2>1, <2>2 DEF CallInv
<1>4. ASSUME NEW h \in Handler, HandlerStep(h) \/ HandlerTrouble(h) PROVE CallInv'
  <2>1. UNCHANGED <<link, sequence>>
    BY <1>4 DEF HandlerStep, HandlerTrouble, gatewayVars, stateVars
  <2>2. answer = "ok" => receipt'[EventOf[sequence]] # "none"
    <3>1. answer = "ok" => EventOf[sequence] \in Event
      BY <1>0 DEF CallInv, CursorInv, GatewayTypeOK
    <3> QED
      BY <1>0, <3>1, ReceiptsStay DEF CallInv
  <2>3. CASE \E x \in {"ok", "error"} :
               /\ Return(h, x)
               /\ x = "ok" => receipt'[task[h]] # "none"
    BY <1>0, <2>1, <2>2, <2>3 DEF CallInv, Return, BrokerTypeOK
  <2>4. CASE /\ UNCHANGED <<callVars, task>> /\ step'[h] # "free"
             /\ \A g \in Handler : g # h => step'[g] = step[g]
    BY <1>0, <2>1, <2>2, <2>4 DEF CallInv, callVars, BrokerTypeOK
  <2>5. CASE Duplicate(h) \/ RefuseWithError(h) \/ CompleteRaises(h)
    BY <2>3, <2>5 DEF Duplicate, RefuseWithError, CompleteRaises, storeVars
  <2>6. CASE Complete(h)
    <3>x. task[h] \in Event /\ verdict[h] # "none"
      BY <1>0, <2>6 DEF Complete, HandlerInv, Reserved, BrokerTypeOK
    <3>1. receipt'[task[h]] # "none"
      BY <1>0, <2>6, <3>x DEF Complete, BrokerTypeOK
    <3> QED
      BY <2>3, <2>6, <3>1 DEF Complete
  <2>7. CASE \/ Admit(h) \/ Reserve(h) \/ Handle(h) \/ EnqueueReply(h)
             \/ HandleRaises(h) \/ EnqueueRaises(h)
    <3>1. UNCHANGED <<callVars, task>>
      BY <2>7 DEF Admit, Reserve, Handle, EnqueueReply, HandleRaises, EnqueueRaises
    <3>2. \E x \in {"reserve", "handle", "enqueue", "complete"} :
            step' = [step EXCEPT ![h] = x]
      BY <2>7 DEF Admit, Reserve, Handle, EnqueueReply, HandleRaises, EnqueueRaises
    <3> QED
      BY <1>0, <2>4, <3>1, <3>2 DEF BrokerTypeOK
  <2> QED
    BY <1>4, <2>5, <2>6, <2>7 DEF HandlerStep, HandlerTrouble
<1>5. CASE BrokerTrouble
  BY <1>0, <1>5
  DEF BrokerTrouble, BrokerRestart, CallInv, gatewayVars, stateVars, storeVars
<1>6. CASE UNCHANGED vars
  BY <1>0, <1>6
  DEF vars, CallInv, gatewayVars, stateVars, brokerVars, storeVars, handlerVars, callVars
<1> QED
  BY <1>1, <1>2, <1>3, <1>4, <1>5, <1>6 DEF Next, GatewayStep

-----------------------------------------------------------------------------
(* The sequence.                                                           *)

\* CursorInv is kept by every step.
LEMMA CursorStep == IndInv /\ [Next]_vars => CursorInv'
<1> SUFFICES ASSUME IndInv, [Next]_vars PROVE CursorInv'
  OBVIOUS
<1>0. GatewayTypeOK /\ CursorInv
  BY DEF IndInv, TypeOK
<1>1. CASE UNCHANGED <<cursor, link, stateVars>>
  BY <1>0, <1>1 DEF CursorInv, stateVars
<1>2. CASE GatewayReceive
  BY <1>0, <1>2
  DEF GatewayReceive, Receive, CanReceive, Pushed, CursorInv, GatewayTypeOK
<1>3. CASE Attach
  BY <1>3
  DEF Attach, Connect, Handshake, Ready, Resumed, InvalidSession, CursorInv, stateVars
<1>4. CASE GatewaySave \/ Acknowledged
  BY <1>0, <1>4
  DEF GatewaySave, Save, Acknowledged, Forwarded, CursorInv, providerVars, stateVars
<1>5. CASE \/ GatewayTrouble \/ GatewayMapFails \/ Rejected \/ Unanswered
           \/ GatewayRestart
  <2>1. link' = "down"
    BY <1>5
    DEF GatewayTrouble, GatewayMapFails, Rejected, Unanswered, GatewayRestart,
        Disconnect, InvalidSession, MapFails, ForwardFails, Restart
  <2> QED
    BY <2>1 DEF CursorInv
<1>6. \/ UNCHANGED <<cursor, link, stateVars>>
      \/ GatewayStep \/ GatewayTrouble \/ GatewayMapFails \/ Unanswered
      \/ GatewayRestart
  BY DEF Next, Provider, Emit, Expire, Request, HandlerStep, HandlerTrouble,
         BrokerTrouble, vars, gatewayVars, providerVars
<1> QED
  BY <1>1, <1>2, <1>3, <1>4, <1>5, <1>6 DEF GatewayStep

\* A coverage that holds keeps holding: receipts stay, and so does a session's
\* base.
LEMMA CoveredStays ==
  ASSUME IndInv, [Next]_vars, NEW s \in 0 .. newest, NEW q \in 0 .. Last,
         Covered(s, q, unmapped)
  PROVE  base'[s] = base[s] /\ unmapped \subseteq unmapped'
         /\ \A i \in 1 .. Last :
              /\ base[s] < i /\ i <= q /\ EventOf[i] # Ignored /\ i \notin unmapped
              => receipt'[EventOf[i]] # "none"
<1> USE GatewayAssumption, InboundAssumption
<1>0. TypeOK /\ GatewayTypeOK
  BY DEF IndInv, TypeOK
<1>1. unmapped \subseteq unmapped'
  BY DEF Next, GatewayStep, Provider, Attach, GatewayReceive, GatewaySave,
         GatewayTrouble, GatewayMapFails, Acknowledged, Rejected, Unanswered,
         GatewayRestart, BrokerTrouble, Request, HandlerStep, HandlerTrouble, vars
<1>2. base' = base \/ (newest < MaxSessions /\ base' = [base EXCEPT ![newest + 1] = emitted])
  BY DEF Next, GatewayStep, Provider, Attach, GatewayReceive, GatewaySave,
         GatewayTrouble, GatewayMapFails, Acknowledged, Rejected, Unanswered,
         GatewayRestart, BrokerTrouble, Request, HandlerStep, HandlerTrouble, vars,
         Emit, Expire, Connect, Handshake, Ready, Resumed, InvalidSession, Receive,
         MapFails, Forwarded, ForwardFails, Save, Disconnect, Restart,
         gatewayVars, providerVars
<1>3. base'[s] = base[s]
  BY <1>0, <1>2 DEF GatewayTypeOK
<1>4. ASSUME NEW i \in 1 .. Last, base[s] < i, i <= q, EventOf[i] # Ignored,
             i \notin unmapped
      PROVE  receipt'[EventOf[i]] # "none"
  <2>1. EventOf[i] \in Event /\ receipt[EventOf[i]] # "none"
    BY <1>4 DEF Covered
  <2> QED
    BY <2>1, ReceiptsStay
<1> QED
  BY <1>1, <1>3, <1>4

\* How a step moves the sequence and the saved row: not beyond what the broker
\* has answered for, a dispatch that is no command, or one that was not mapped.
LEMMA SequenceStep ==
  ASSUME IndInv, [Next]_vars
  PROVE  /\ \/ UNCHANGED <<session, settledSequence>>
            \/ session' = savedSession /\ settledSequence' = savedSequence
            \/ session' = 0 /\ settledSequence' = 0
            \/ session' = newest + 1 /\ settledSequence' = emitted
               /\ base'[newest + 1] = emitted
            \/ /\ UNCHANGED session
               /\ settledSequence' = settledSequence + 1
               /\ \/ EventOf[settledSequence'] = Ignored
                  \/ settledSequence' \in unmapped'
                  \/ receipt'[EventOf[settledSequence']] # "none"
         /\ \/ UNCHANGED <<savedSession, savedSequence>>
            \/ savedSession' = session /\ savedSequence' = settledSequence
            \/ savedSession' = 0 /\ savedSequence' = 0
<1> USE GatewayAssumption, InboundAssumption DEF settledSequence
<1>0. TypeOK /\ GatewayTypeOK /\ CursorInv /\ CallInv
  BY DEF IndInv, TypeOK
<1>1. CASE UNCHANGED <<link, stateVars, savedVars>>
  BY <1>1 DEF stateVars, savedVars
<1>2. CASE GatewayReceive
  BY <1>0, <1>2
  DEF GatewayReceive, Receive, CanReceive, Pushed, CursorInv, GatewayTypeOK, savedVars
<1>3. CASE GatewayMapFails
  BY <1>0, <1>3
  DEF GatewayMapFails, MapFails, CanReceive, Pushed, CursorInv, GatewayTypeOK, savedVars
<1>4. CASE Attach
  BY <1>0, <1>4
  DEF Attach, Connect, Handshake, Ready, Resumed, InvalidSession, stateVars,
      savedVars, GatewayTypeOK
<1>5. CASE GatewaySave
  BY <1>5 DEF GatewaySave, Save, stateVars
<1>6. CASE Acknowledged
  BY <1>0, <1>6
  DEF Acknowledged, Forwarded, HangUp, CursorInv, CallInv, GatewayTypeOK, stateVars,
      savedVars, storeVars
<1>7. CASE Rejected \/ Unanswered
  BY <1>7 DEF Rejected, Unanswered, ForwardFails, savedVars
<1>8. CASE GatewayTrouble
  BY <1>8 DEF GatewayTrouble, Disconnect, InvalidSession, stateVars, savedVars
<1>9. CASE GatewayRestart
  BY <1>9 DEF GatewayRestart, Restart, savedVars
<1>10. \/ UNCHANGED <<link, stateVars, savedVars>>
       \/ GatewayStep \/ GatewayTrouble \/ GatewayMapFails \/ Unanswered
       \/ GatewayRestart
  BY DEF Next, Provider, Emit, Expire, Request, HandlerStep, HandlerTrouble,
         BrokerTrouble, vars, gatewayVars
<1> QED
  BY <1>1, <1>2, <1>3, <1>4, <1>5, <1>6, <1>7, <1>8, <1>9, <1>10 DEF GatewayStep

\* AckedWasReceived is kept by every step.
LEMMA AckedStep == IndInv /\ [Next]_vars => AckedWasReceived'
<1> SUFFICES ASSUME IndInv, [Next]_vars PROVE AckedWasReceived'
  OBVIOUS
<1> USE GatewayAssumption, InboundAssumption
<1>0. /\ GatewayTypeOK /\ CursorInv
      /\ Covered(session, settledSequence, unmapped)
      /\ Covered(savedSession, savedSequence, unmapped)
  BY DEF IndInv, TypeOK, AckedWasReceived
<1>1. /\ session \in 0 .. newest /\ savedSession \in 0 .. newest
      /\ settledSequence \in 0 .. Last /\ savedSequence \in 0 .. Last
      /\ emitted \in 0 .. Last /\ newest \in Nat
      /\ base \in [0 .. MaxSessions -> 0 .. Last] /\ newest <= MaxSessions
  BY <1>0 DEF GatewayTypeOK, settledSequence
<1>2. /\ base'[session] = base[session] /\ unmapped \subseteq unmapped'
      /\ \A i \in 1 .. Last :
           /\ base[session] < i /\ i <= settledSequence
           /\ EventOf[i] # Ignored /\ i \notin unmapped
           => receipt'[EventOf[i]] # "none"
  BY <1>0, <1>1, CoveredStays
<1>3. /\ base'[savedSession] = base[savedSession]
      /\ \A i \in 1 .. Last :
           /\ base[savedSession] < i /\ i <= savedSequence
           /\ EventOf[i] # Ignored /\ i \notin unmapped
           => receipt'[EventOf[i]] # "none"
  BY <1>0, <1>1, CoveredStays
<1>4. Covered(session, settledSequence, unmapped)'
  <2> SUFFICES ASSUME NEW i \in 1 .. Last, base'[session'] < i, i <= settledSequence',
                      EventOf[i] # Ignored, i \notin unmapped'
               PROVE  receipt'[EventOf[i]] # "none"
    BY DEF Covered
  <2>1. CASE UNCHANGED <<session, settledSequence>>
    BY <1>2, <2>1
  <2>2. CASE session' = savedSession /\ settledSequence' = savedSequence
    BY <1>2, <1>3, <2>2
  <2>3. CASE session' = 0 /\ settledSequence' = 0
    BY <1>1, <1>2, <2>3
  <2>4. CASE settledSequence' = emitted /\ base'[session'] = emitted
    BY <1>1, <2>4
  <2>5. CASE /\ UNCHANGED session
             /\ settledSequence' = settledSequence + 1
             /\ \/ EventOf[settledSequence'] = Ignored
                \/ settledSequence' \in unmapped'
                \/ receipt'[EventOf[settledSequence']] # "none"
    <3>1. CASE i = settledSequence'
      BY <2>5, <3>1
    <3>2. CASE i # settledSequence'
      BY <1>1, <1>2, <2>5, <3>2
    <3> QED
      BY <3>1, <3>2
  <2> QED
    BY <2>1, <2>2, <2>3, <2>4, <2>5, SequenceStep
<1>5. Covered(savedSession, savedSequence, unmapped)'
  <2> SUFFICES ASSUME NEW i \in 1 .. Last, base'[savedSession'] < i,
                      i <= savedSequence', EventOf[i] # Ignored, i \notin unmapped'
               PROVE  receipt'[EventOf[i]] # "none"
    BY DEF Covered
  <2>1. CASE UNCHANGED <<savedSession, savedSequence>>
    BY <1>2, <1>3, <2>1
  <2>2. CASE savedSession' = session /\ savedSequence' = settledSequence
    BY <1>2, <2>2
  <2>3. CASE savedSession' = 0 /\ savedSequence' = 0
    BY <2>3
  <2> QED
    BY <2>1, <2>2, <2>3, SequenceStep
<1> QED
  BY <1>4, <1>5 DEF AckedWasReceived

-----------------------------------------------------------------------------
(* The theorems.                                                           *)

\* IndInv holds in every reachable state: what the request threads, the call
\* and the sequence know of each other survives every failure.
THEOREM Invariance == Spec => []IndInv
<1>1. IndInv /\ [Next]_vars => IndInv'
  BY TypeStep, HandlersStep, CallStep, CursorStep, AckedStep DEF IndInv
<1> QED
  BY InitIndInv, <1>1, PTL DEF Spec

\* The variables of the gateway and the broker keep their types.
THEOREM TypeCorrect == Spec => []TypeOK
<1>1. IndInv => TypeOK
  BY DEF IndInv
<1> QED
  BY Invariance, <1>1, PTL

\* assistant.handle runs at most once for an event id, with any number of
\* replays and concurrent request threads.
THEOREM NoSecondExecution == Spec => []ExecutedOnce
<1>1. IndInv => ExecutedOnce
  BY DEF IndInv, HandlerInv
<1> QED
  BY Invariance, <1>1, PTL

\* The sequence that handle keeps and saves never passes a mapped command
\* without a receipt.
THEOREM NothingAckedUnseen == Spec => []AckedWasReceived
<1>1. IndInv => AckedWasReceived
  BY DEF IndInv
<1> QED
  BY Invariance, <1>1, PTL

-----------------------------------------------------------------------------
(* The contract.                                                           *)

\* Every step of the inbound path is a step of the contract, or none.
LEMMA ContractStep == IndInv /\ [Next]_vars => [Contract!Next]_(Contract!contractVars)
<1> SUFFICES ASSUME IndInv, [Next]_vars
             PROVE  [Contract!Next]_(Contract!contractVars)
  OBVIOUS
<1> USE BrokerAssumption, InboundAssumption
<1>0. BrokerTypeOK /\ HandlerInv
  BY DEF IndInv, TypeOK
<1>1. CASE UNCHANGED <<receipt, executed, replied>>
  BY <1>1 DEF Contract!contractVars, decidedNow
<1>2. ASSUME NEW h \in Handler, task[h] \in Event, Reserve(h)
      PROVE  Contract!Decide(task[h])
  <2>1. /\ decidedNow[task[h]] = "new" /\ UNCHANGED <<executed, replied>>
        /\ decidedNow \in [Event -> {"new", "refused", "taken"}]
    BY <1>0, <1>2 DEF Reserve, decidedNow, DecisionOf, BrokerTypeOK, Receipt
  <2>2. PICK x \in {"processing", "refused"} : receipt' = [receipt EXCEPT ![task[h]] = x]
    BY <1>2 DEF Reserve
  <2>3. decidedNow' = [decidedNow EXCEPT ![task[h]] = DecisionOf(x)]
    BY <1>0, <1>2, <2>2 DEF decidedNow, BrokerTypeOK
  <2>4. DecisionOf(x) \in {"taken", "refused"}
    BY <2>2 DEF DecisionOf
  <2> QED
    BY <2>1, <2>3, <2>4 DEF Contract!Decide
<1>3. ASSUME NEW h \in Handler, task[h] \in Event, Handle(h) \/ HandleRaises(h)
      PROVE  Contract!Run(task[h]) \/ UNCHANGED Contract!contractVars
  <2>1. /\ receipt[task[h]] = "processing" /\ executed[task[h]] = 0
        /\ UNCHANGED <<receipt, replied>>
    BY <1>0, <1>3 DEF Handle, HandleRaises, HandlerInv, Reserved
  <2>2. decidedNow[task[h]] = "taken" /\ UNCHANGED decidedNow
    BY <1>3, <2>1 DEF decidedNow, DecisionOf
  <2>3. PICK n \in {0, 1} : executed' = [executed EXCEPT ![task[h]] = @ + n]
    BY <1>3 DEF Handle, HandleRaises
  <2>4. CASE n = 0
    <3>1. executed' = executed
      BY <1>0, <1>3, <2>1, <2>3, <2>4 DEF BrokerTypeOK
    <3> QED
      BY <2>1, <2>2, <3>1 DEF Contract!contractVars
  <2>5. CASE n = 1
    <3>1. executed' = [executed EXCEPT ![task[h]] = 1]
      BY <1>0, <1>3, <2>1, <2>3, <2>5 DEF BrokerTypeOK
    <3> QED
      BY <2>1, <2>2, <3>1 DEF Contract!Run
  <2> QED
    BY <2>4, <2>5
<1>4. ASSUME NEW h \in Handler, task[h] \in Event, EnqueueReply(h)
      PROVE  Contract!Answer(task[h]) \/ UNCHANGED Contract!contractVars
  <2>1. /\ receipt[task[h]] = "processing" /\ UNCHANGED <<receipt, executed>>
        /\ task[h] \in CodeRequest \/ executed[task[h]] = 1
        /\ replied' = replied \cup {task[h]}
    BY <1>0, <1>4 DEF EnqueueReply, HandlerInv, Reserved
  <2>2. decidedNow[task[h]] = "taken" /\ UNCHANGED decidedNow
    BY <1>4, <2>1 DEF decidedNow, DecisionOf
  <2>3. CASE task[h] \in replied
    BY <2>1, <2>2, <2>3 DEF Contract!contractVars
  <2>4. CASE task[h] \notin replied
    BY <2>1, <2>2, <2>4 DEF Contract!Answer
  <2> QED
    BY <2>3, <2>4
<1>5. ASSUME NEW h \in Handler, task[h] \in Event, Complete(h)
      PROVE  UNCHANGED Contract!contractVars
  <2>1. /\ receipt' = [receipt EXCEPT ![task[h]] = verdict[h]]
        /\ DecisionOf(verdict[h]) = DecisionOf(receipt[task[h]])
        /\ UNCHANGED <<executed, replied>>
    BY <1>0, <1>5 DEF Complete, HandlerInv, Reserved, DecisionOf
  <2>2. \A e \in Event : DecisionOf(receipt'[e]) = DecisionOf(receipt[e])
    BY <1>0, <1>5, <2>1 DEF BrokerTypeOK
  <2>3. UNCHANGED decidedNow
    BY <2>2 DEF decidedNow
  <2> QED
    BY <2>1, <2>3 DEF Contract!contractVars
<1>6. ASSUME NEW h \in Handler, HandlerStep(h) \/ HandlerTrouble(h)
      PROVE  [Contract!Next]_(Contract!contractVars)
  <2>1. task[h] \in Event
    <3>1. step[h] # "free"
      BY <1>6
      DEF HandlerStep, HandlerTrouble, Admit, Reserve, Duplicate, Handle, EnqueueReply,
          Complete, RefuseWithError, HandleRaises, EnqueueRaises, CompleteRaises
    <3> QED
      BY <1>0, <3>1 DEF HandlerInv, BrokerTypeOK
  <2>2. \/ UNCHANGED <<receipt, executed, replied>>
        \/ Reserve(h) \/ Handle(h) \/ HandleRaises(h) \/ EnqueueReply(h) \/ Complete(h)
    BY <1>6
    DEF HandlerStep, HandlerTrouble, Admit, Duplicate, RefuseWithError, EnqueueRaises,
        CompleteRaises, storeVars
  <2> QED
    BY <1>1, <1>2, <1>3, <1>4, <1>5, <2>1, <2>2 DEF Contract!Next
<1>7. \/ UNCHANGED <<receipt, executed, replied>>
      \/ \E h \in Handler : HandlerStep(h) \/ HandlerTrouble(h)
  BY DEF Next, GatewayStep, Provider, Attach, GatewayReceive, GatewaySave,
         GatewayTrouble, GatewayMapFails, Acknowledged, Rejected, Unanswered,
         GatewayRestart, BrokerTrouble, BrokerRestart, HangUp, Request, Accept,
         storeVars, brokerVars, vars
<1> QED
  BY <1>1, <1>6, <1>7

\* The gateway and the broker implement InboundContract: an event is decided
\* once, executed at most once and answered only when it was taken.
THEOREM Refinement == Spec => KeepsContract
<1>1. Init => Contract!Init
  BY DEF Init, BrokerInit, Contract!Init, decidedNow, DecisionOf
<1> QED
  BY Invariance, <1>1, ContractStep, PTL DEF Spec, KeepsContract, Contract!Spec

=============================================================================
