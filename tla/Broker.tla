------------------------------- MODULE Broker -------------------------------
(***************************************************************************)
(* The broker's side of an inbound event: InternalChannelAPI._event of     *)
(* adapters/web/internal_channel.py with the receipts of                   *)
(* adapters/channels/receipts.py.  The HTTP server gives every request a   *)
(* thread of its own, so two handlers may work on the same event: one whose*)
(* caller gave up, and the one of the retry.  Every step below is one      *)
(* database transaction, or one call that makes several of them.           *)
(*                                                                         *)
(* Most events are commands, which the assistant executes.  A code request *)
(* (to register a group, to bind a private chat) is answered by _admit     *)
(* itself, which issues a fresh one-time code and deletes the outstanding  *)
(* one.  All code requests of the model come from one person, so the code  *)
(* that works is the one issued last.                                      *)
(***************************************************************************)
EXTENDS Naturals

CONSTANTS
  Event,        \* event ids
  CodeRequest,  \* the events that ask for a one-time code
  Handler,      \* bound: the request threads
  NoEvent, NoHandler

ASSUME BrokerAssumption ==
  /\ CodeRequest \subseteq Event
  /\ NoEvent \notin Event /\ NoHandler \notin Handler

VARIABLES
  receipt,   \* inbound_event_receipts.outcome
  executed,  \* how often assistant.handle carried the command out
  replied,   \* the events whose reply is in the outbox
  codes,     \* the number of codes issued; the last one is outstanding
  replyCode, \* the code in a reply, 0 when there is none
  step,      \* where a handler stands
  task,      \* the event a handler works on
  verdict,   \* its admission decision
  code,      \* the code its admission issued
  raised,    \* whether an exception is on its way through the finally block
  serving,   \* the handler whose answer the gateway waits for
  answer     \* that answer

storeVars   == <<receipt, executed, replied, codes, replyCode>>
handlerVars == <<step, task, verdict, code, raised>>
callVars    == <<serving, answer>>
brokerVars  == <<storeVars, handlerVars, callVars>>

Receipt == {"none", "processing", "accepted", "refused"}

BrokerTypeOK ==
  /\ receipt \in [Event -> Receipt]
  /\ executed \in [Event -> Nat]
  /\ replied \subseteq Event
  /\ codes \in Nat
  /\ replyCode \in [Event -> Nat]
  /\ step \in [Handler -> {"free", "admit", "reserve", "handle", "enqueue",
                           "complete"}]
  /\ task \in [Handler -> Event \cup {NoEvent}]
  /\ verdict \in [Handler -> {"none", "accepted", "refused"}]
  /\ code \in [Handler -> Nat]
  /\ raised \in [Handler -> BOOLEAN]
  /\ serving \in Handler \cup {NoHandler}
  /\ answer \in {"none", "ok", "error"}

BrokerInit ==
  /\ receipt = [e \in Event |-> "none"]
  /\ executed = [e \in Event |-> 0]
  /\ replied = {}
  /\ codes = 0
  /\ replyCode = [e \in Event |-> 0]
  /\ step = [h \in Handler |-> "free"]
  /\ task = [h \in Handler |-> NoEvent]
  /\ verdict = [h \in Handler |-> "none"]
  /\ code = [h \in Handler |-> 0]
  /\ raised = [h \in Handler |-> FALSE]
  /\ serving = NoHandler
  /\ answer = "none"

-----------------------------------------------------------------------------
\* A request for event e arrives and gets a thread.
Accept(h, e) ==
  /\ step[h] = "free"
  /\ step' = [step EXCEPT ![h] = "admit"]
  /\ task' = [task EXCEPT ![h] = e]
  /\ serving' = h
  /\ answer' = "none"
  /\ UNCHANGED <<storeVars, verdict, code, raised>>

\* The handler returns; its answer is lost when nobody waits for it.
Return(h, a) ==
  /\ step' = [step EXCEPT ![h] = "free"]
  /\ task' = [task EXCEPT ![h] = NoEvent]
  /\ verdict' = [verdict EXCEPT ![h] = "none"]
  /\ code' = [code EXCEPT ![h] = 0]
  /\ raised' = [raised EXCEPT ![h] = FALSE]
  /\ answer' = IF serving = h THEN a ELSE answer
  /\ serving' = IF serving = h THEN NoHandler ELSE serving

\* routes.observe and _admit.  Who is admitted depends on state outside this
\* model.  A code is issued before the receipt is looked at.
Admit(h) ==
  /\ step[h] = "admit"
  /\ \E v \in {"accepted", "refused"} :
       /\ verdict' = [verdict EXCEPT ![h] = v]
       /\ \/ /\ v = "accepted" /\ task[h] \in CodeRequest
             /\ codes' = codes + 1
             /\ code' = [code EXCEPT ![h] = codes + 1]
          \/ /\ v = "refused" \/ task[h] \notin CodeRequest
             /\ UNCHANGED <<codes, code>>
  /\ step' = [step EXCEPT ![h] = "reserve"]
  /\ UNCHANGED <<receipt, executed, replied, replyCode, task, raised, callVars>>

\* Mutant of Reserve: INSERT OR REPLACE, which always has a row to show for.
MutReserve(h) ==
  /\ step[h] = "reserve"
  /\ receipt' = [receipt EXCEPT ![task[h]] =
                   IF verdict[h] = "accepted" THEN "processing" ELSE "refused"]
  /\ step' = [step EXCEPT ![h] =
                IF verdict[h] = "refused" THEN "complete"
                ELSE IF task[h] \in CodeRequest THEN "enqueue" ELSE "handle"]
  /\ UNCHANGED <<executed, replied, codes, replyCode, task, verdict, code, raised,
                 callVars>>

\* receipts.reserve: INSERT OR IGNORE.  A refused event goes on to the finally
\* block, an accepted one to the assistant unless _admit has its reply ready.
Reserve(h) ==
  /\ step[h] = "reserve" /\ receipt[task[h]] = "none"
  /\ receipt' = [receipt EXCEPT ![task[h]] =
                   IF verdict[h] = "accepted" THEN "processing" ELSE "refused"]
  /\ step' = [step EXCEPT ![h] =
                IF verdict[h] = "refused" THEN "complete"
                ELSE IF task[h] \in CodeRequest THEN "enqueue" ELSE "handle"]
  /\ UNCHANGED <<executed, replied, codes, replyCode, task, verdict, code, raised,
                 callVars>>

\* reserve inserted nothing: 200 duplicate_event.
Duplicate(h) ==
  /\ step[h] = "reserve" /\ receipt[task[h]] # "none"
  /\ Return(h, "ok")
  /\ UNCHANGED storeVars

\* An exception in observe, _admit or reserve: dispatch answers with an error.
RefuseWithError(h) ==
  /\ step[h] \in {"admit", "reserve"}
  /\ Return(h, "error")
  /\ UNCHANGED storeVars

\* assistant.handle.
Handle(h) ==
  /\ step[h] = "handle"
  /\ executed' = [executed EXCEPT ![task[h]] = @ + 1]
  /\ step' = [step EXCEPT ![h] = "enqueue"]
  /\ UNCHANGED <<receipt, replied, codes, replyCode, task, verdict, code, raised,
                 callVars>>

\* assistant.handle raises, with its command carried out or not.
HandleRaises(h) ==
  /\ step[h] = "handle"
  /\ \E done \in {0, 1} :
       executed' = [executed EXCEPT ![task[h]] = @ + done]
  /\ raised' = [raised EXCEPT ![h] = TRUE]
  /\ step' = [step EXCEPT ![h] = "complete"]
  /\ UNCHANGED <<receipt, replied, codes, replyCode, task, verdict, code, callVars>>

\* outbox.enqueue of the reply, under a key made of the event id.
EnqueueReply(h) ==
  /\ step[h] = "enqueue"
  /\ replied' = replied \cup {task[h]}
  /\ replyCode' = IF task[h] \in replied THEN replyCode
                  ELSE [replyCode EXCEPT ![task[h]] = code[h]]
  /\ step' = [step EXCEPT ![h] = "complete"]
  /\ UNCHANGED <<receipt, executed, codes, task, verdict, code, raised, callVars>>

EnqueueRaises(h) ==
  /\ step[h] = "enqueue"
  /\ raised' = [raised EXCEPT ![h] = TRUE]
  /\ step' = [step EXCEPT ![h] = "complete"]
  /\ UNCHANGED <<storeVars, task, verdict, code, callVars>>

\* Mutant of Complete: the receipt of a handler that failed is given up, so that
\* the event is handled again when it is repeated.
MutComplete(h) ==
  /\ step[h] = "complete"
  /\ receipt' = [receipt EXCEPT ![task[h]] =
                   IF raised[h] THEN "none" ELSE verdict[h]]
  /\ Return(h, IF raised[h] THEN "error" ELSE "ok")
  /\ UNCHANGED <<executed, replied, codes, replyCode>>

\* The finally block: receipts.complete writes the decision's reason code,
\* also when the handler failed, and the request is answered.
Complete(h) ==
  /\ step[h] = "complete"
  /\ receipt' = [receipt EXCEPT ![task[h]] = verdict[h]]
  /\ Return(h, IF raised[h] THEN "error" ELSE "ok")
  /\ UNCHANGED <<executed, replied, codes, replyCode>>

CompleteRaises(h) ==
  /\ step[h] = "complete"
  /\ Return(h, "error")
  /\ UNCHANGED storeVars

\* The broker process is restarted: all threads are gone, the rows stay.
BrokerRestart ==
  /\ \E h \in Handler : step[h] # "free"
  /\ step' = [h \in Handler |-> "free"]
  /\ task' = [h \in Handler |-> NoEvent]
  /\ verdict' = [h \in Handler |-> "none"]
  /\ code' = [h \in Handler |-> 0]
  /\ raised' = [h \in Handler |-> FALSE]
  /\ answer' = IF serving # NoHandler THEN "error" ELSE answer
  /\ serving' = NoHandler
  /\ UNCHANGED storeVars

\* The caller no longer waits.
HangUp ==
  /\ serving' = NoHandler
  /\ answer' = "none"
  /\ UNCHANGED <<storeVars, handlerVars>>

=============================================================================
