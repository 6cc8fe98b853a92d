--------------------------- MODULE InboundPipeline ---------------------------
(***************************************************************************)
(* The inbound path: the gateway client forwards the provider's dispatches *)
(* to the broker over HTTP and advances its sequence by the answers.  The  *)
(* gateway waits at most ten seconds; a request it gives up on keeps       *)
(* running in the broker, and the dispatch is forwarded again after the    *)
(* next RESUME.                                                            *)
(***************************************************************************)
EXTENDS Gateway, Broker

CONSTANT MaxFaults  \* bound: failures of the network, of SQLite, of processes

ASSUME InboundAssumption ==
  /\ Content = Event \cup {Ignored} /\ Ignored \notin Event
  /\ MaxFaults \in Nat

VARIABLES
  unmapped,  \* the dispatches whose mapping raised
  faults     \* how much of MaxFaults is used up

vars == <<gatewayVars, brokerVars, unmapped, faults>>

TypeOK ==
  /\ GatewayTypeOK
  /\ BrokerTypeOK
  /\ unmapped \subseteq 1 .. Last
  /\ faults \in Nat

Init ==
  /\ GatewayInit
  /\ BrokerInit
  /\ unmapped = {}
  /\ faults = 0

Fault ==
  /\ faults < MaxFaults
  /\ faults' = faults + 1

NoFault == UNCHANGED faults

-----------------------------------------------------------------------------
(* Steps of the gateway alone.                                             *)

Provider ==
  /\ \/ Emit /\ NoFault
     \/ Expire /\ Fault
  /\ UNCHANGED <<brokerVars, unmapped>>

Attach ==
  /\ Connect \/ Handshake \/ Ready \/ Resumed \/ InvalidSession(TRUE)
  /\ NoFault
  /\ UNCHANGED <<brokerVars, unmapped>>

GatewayReceive ==
  /\ Receive
  /\ NoFault
  /\ UNCHANGED <<brokerVars, unmapped>>

GatewaySave ==
  /\ Save
  /\ NoFault
  /\ UNCHANGED <<brokerVars, unmapped>>

GatewayTrouble ==
  /\ Disconnect \/ InvalidSession(FALSE)
  /\ Fault
  /\ UNCHANGED <<brokerVars, unmapped>>

GatewayMapFails ==
  /\ MapFails
  /\ unmapped' = unmapped \cup {Pushed}
  /\ Fault
  /\ UNCHANGED brokerVars

-----------------------------------------------------------------------------
(* InternalChannelClient.event: the call from the gateway to the broker.   *)

\* The request reaches the broker.
Request(h) ==
  /\ link = "forwarding" /\ serving = NoHandler /\ answer = "none"
  /\ Accept(h, EventOf[sequence])
  /\ NoFault
  /\ UNCHANGED <<gatewayVars, unmapped>>

\* The broker answered with 200 or 202.
Acknowledged ==
  /\ answer = "ok"
  /\ Forwarded
  /\ HangUp
  /\ NoFault
  /\ UNCHANGED unmapped

\* The broker answered with an error.
Rejected ==
  /\ answer = "error"
  /\ ForwardFails
  /\ HangUp
  /\ NoFault
  /\ UNCHANGED unmapped

\* No connection, no answer in time, or an answer that got lost.
Unanswered ==
  /\ ForwardFails
  /\ HangUp
  /\ Fault
  /\ UNCHANGED unmapped

GatewayRestart ==
  /\ Restart
  /\ HangUp
  /\ Fault
  /\ UNCHANGED unmapped

-----------------------------------------------------------------------------
(* Steps of the broker alone.                                              *)

HandlerStep(h) ==
  /\ \/ Admit(h) \/ Reserve(h) \/ Duplicate(h) \/ Handle(h) \/ EnqueueReply(h)
     \/ Complete(h)
  /\ NoFault
  /\ UNCHANGED <<gatewayVars, unmapped>>

HandlerTrouble(h) ==
  /\ \/ RefuseWithError(h) \/ HandleRaises(h) \/ EnqueueRaises(h)
     \/ CompleteRaises(h)
  /\ Fault
  /\ UNCHANGED <<gatewayVars, unmapped>>

BrokerTrouble ==
  /\ BrokerRestart
  /\ Fault
  /\ UNCHANGED <<gatewayVars, unmapped>>

GatewayStep == Attach \/ GatewayReceive \/ GatewaySave \/ Acknowledged \/ Rejected

Next ==
  \/ Provider \/ GatewayStep \/ GatewayTrouble \/ GatewayMapFails
  \/ Unanswered \/ GatewayRestart \/ BrokerTrouble
  \/ \E h \in Handler : Request(h) \/ HandlerStep(h) \/ HandlerTrouble(h)

Spec == Init /\ [][Next]_vars

\* The gateway thread, the provider that answers it, and every request thread
\* keep running; failures happen only MaxFaults times.
Fairness ==
  /\ WF_vars(GatewayStep)
  /\ WF_vars(\E h \in Handler : Request(h))
  /\ \A h \in Handler : WF_vars(HandlerStep(h))

FairSpec == Spec /\ Fairness

-----------------------------------------------------------------------------
(* The contract.                                                           *)

DecisionOf(r) ==
  CASE r = "none"    -> "new"
    [] r = "refused" -> "refused"
    [] OTHER         -> "taken"

decidedNow == [e \in Event |-> DecisionOf(receipt[e])]

Contract == INSTANCE InboundContract WITH
  phase <- decidedNow, runs <- executed, replies <- replied

\* The broker keeps its contract: whatever the gateway repeats and however the
\* request threads of one event interleave, an event is decided once, executed
\* at most once, and answered only when it was taken.
KeepsContract == Contract!Spec

-----------------------------------------------------------------------------
(* Properties.                                                             *)

\* Between a session's begin and its sequence q every command has a receipt,
\* except for the dispatches in `lost`.
Covered(s, q, lost) ==
  \A i \in 1 .. Last :
    /\ base[s] < i /\ i <= q
    /\ EventOf[i] # Ignored
    /\ i \notin lost
    => receipt[EventOf[i]] # "none"

\* The sequence in memory, without the dispatch that is being forwarded.
settledSequence == IF link = "forwarding" THEN previous ELSE sequence

\* A command is executed at most once, although its dispatch is forwarded again
\* after every failure and two threads may work on it at the same time.
ExecutedOnce == \A e \in Event : executed[e] <= 1

\* The sequence that a RESUME would name, in memory or after a restart, never
\* passes a command that the broker has no receipt for, unless mapping it
\* raised: the roll-back in handle, the order of forwarding and saving, and the
\* reset of an invalid session work together for this.
AckedWasReceived ==
  /\ Covered(session, settledSequence, unmapped)
  /\ Covered(savedSession, savedSequence, unmapped)

\* Every dispatch of a session that stays resumable reaches the broker in the
\* end, whatever fails on the way.
EventuallyReceived ==
  \A i \in 1 .. Last : EventOf[i] # Ignored =>
    (emitted >= i ~> \/ receipt[EventOf[i]] # "none"
                     \/ i \in unmapped
                     \/ i <= base[newest] /\ newest > 0)

-----------------------------------------------------------------------------
(* The inductive invariant behind the properties above.                    *)

\* The handler has inserted the receipt of its event.
Reserved(h) == step[h] \in {"handle", "enqueue", "complete"}

\* The thread that inserted a receipt is the only one behind it, finds it as it
\* left it, and has not executed the command before.
HandlerInv ==
  /\ \A h \in Handler :
       /\ step[h] = "free" <=> task[h] = NoEvent
       /\ step[h] = "reserve" => verdict[h] # "none"
       /\ Reserved(h) =>
            \/ verdict[h] = "accepted" /\ receipt[task[h]] = "processing"
            \/ /\ verdict[h] = "refused" /\ receipt[task[h]] = "refused"
               /\ step[h] = "complete"
       /\ step[h] = "handle" => executed[task[h]] = 0
       /\ step[h] = "enqueue" => task[h] \in CodeRequest \/ executed[task[h]] = 1
  /\ \A g, h \in Handler : Reserved(g) /\ Reserved(h) /\ task[g] = task[h] => g = h
  /\ \A e \in Event : receipt[e] = "none" => executed[e] = 0
  /\ ExecutedOnce

\* The gateway waits for the handler of the dispatch it forwards, and a good
\* answer means that this dispatch has a receipt.
CallInv ==
  /\ serving # NoHandler =>
       /\ link = "forwarding" /\ answer = "none"
       /\ step[serving] # "free" /\ task[serving] = EventOf[sequence]
  /\ answer # "none" => link = "forwarding"
  /\ answer = "ok" => receipt[EventOf[sequence]] # "none"

\* While connected the gateway has seen all that was pushed.
CursorInv ==
  /\ link \in {"up", "forwarding", "saving"} => cursor = sequence
  /\ link = "forwarding" =>
       sequence = previous + 1 /\ EventOf[sequence] # Ignored

IndInv == TypeOK /\ HandlerInv /\ CallInv /\ CursorInv /\ AckedWasReceived

-----------------------------------------------------------------------------
(* What the repository says and the code does not do.                      *)

\* gateway.py: "Resume from the last durably forwarded dispatch.  Advancing the
\* sequence here would acknowledge and lose the inbound command."  Read for a
\* broker that fails after the receipt: a command that was acknowledged, and
\* that no thread works on, has been answered.
AckedWasAnswered ==
  \A i \in 1 .. Last :
    /\ base[savedSession] < i /\ i <= savedSequence
    /\ EventOf[i] # Ignored
    /\ receipt[EventOf[i]] = "accepted"
    => EventOf[i] \in replied

=============================================================================
